-------------------------- MODULE MCTopologyStatus --------------------------
(* Nodes 1 to 3, leaf domains 11 and 12, spine domains 21 and 22, Switches *)
(* 31 and 32.                                                              *)
EXTENDS TopologyStatus, TLC

\* Node 2 may move below another spine, which gives domain 12 two parents as
\* long as node 1 is below 21; node 3 may have a hole in its path or no label.
Labels ==
  (1 :> {<<11, 21>>, <<12, 21>>}) @@ (2 :> {<<12, 21>>, <<12, 22>>, <<13>>})
    @@ (3 :> {<<11, 21>>, <<14>>, 2 :> 21, <<>>})
Fixed == [role |-> None, domain |-> 11]
Switches ==
  (31 :> {Fixed, [role |-> "ScaleOut", domain |-> 12]})
    @@ (32 :> {[role |-> "ScaleOut", domain |-> 21], [role |-> "Storage", domain |-> 21],
               [role |-> None, domain |-> NoDomain]})

Start ==
  [nodes |-> (1 :> <<11, 21>>) @@ (2 :> <<12, 21>>),
   switches |-> (31 :> Fixed) @@ (32 :> [role |-> None, domain |-> NoDomain])]
Empty == [Start EXCEPT !.nodes = 3 :> <<>>]
StartStates == {Start, Empty}

Quiet == [node |-> 0, switch |-> 0, delete |-> 0, create |-> 0, fault |-> 0, restart |-> 0]
Events ==
  {[Quiet EXCEPT !.node = 2, !.fault = 1], [Quiet EXCEPT !.node = 1, !.switch = 1, !.restart = 1],
   [Quiet EXCEPT !.node = 2, !.delete = 1], [Quiet EXCEPT !.node = 1, !.create = 1, !.fault = 1]}
=============================================================================
