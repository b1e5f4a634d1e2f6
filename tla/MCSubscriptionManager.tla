----------------------- MODULE MCSubscriptionManager -----------------------
(* Instances of the subscription manager for TLC.                          *)
EXTENDS SubscriptionManager, TLC

CONSTANTS sw1, sw2, t1, t2

Link(p, n) == [port |-> p, name |-> n]

(* Two links to one Node and an ignored port; a switch.                    *)
NodeTable == {Link("p1", "node1"), Link("p2", "node1"), Link("mgmt", "")}
SwitchTable == {Link("p1", "spine1")}
(* An entry without remote name on a port that is not ignored.             *)
BadTable == {Link("p1", "")}

Tables(first, second) == (t1 :> first) @@ (t2 :> second)
Good == Tables({NodeTable, SwitchTable}, {})
Bad == Tables({NodeTable, BadTable}, {})
(* Agents that see different neighbors.                                    *)
Own == Tables({NodeTable}, {SwitchTable})

(* A snapshot an earlier controller accepted, its Switch edited since.     *)
LeftStatus == [EmptyStatus EXCEPT !.healthy = TRUE, !.connected = "StreamReady", !.ready = 1,
                                  !.observed = 1, !.neighbors = {[name |-> "old", type |-> "Switch", links |-> 1]}]
Stale(t) == [NewSwitch(t, 1) EXCEPT !.status = LeftStatus]

Objects(first, second) == (sw1 :> first) @@ (sw2 :> second)
One == {Objects(NewSwitch(t, 1), Absent(1)) : t \in {t1, Nil}}
OneOn(t) == {Objects(NewSwitch(t, 1), Absent(1))}

Limits(generations, tables) ==
  [generations |-> generations, tables |-> tables,
   faults |-> 0, edits |-> 0, creates |-> 0, deletes |-> 0, crashes |-> 0, agentCrashes |-> 0]
Scenario(objects, limits) == [objects |-> objects, left |-> limits]

MCScenarios ==
  {Scenario(OneOn(t1), [Limits(2, Good) EXCEPT !.crashes = 1]),
   Scenario(OneOn(t1), [Limits(1, Good) EXCEPT !.faults = 1, !.crashes = 1]),
   Scenario(OneOn(t1), [Limits(2, Good) EXCEPT !.agentCrashes = 1]),
   Scenario(OneOn(t1), [Limits(1, Good) EXCEPT !.crashes = 1, !.agentCrashes = 1]),
   Scenario(One, [Limits(2, Good) EXCEPT !.deletes = 1]),
   Scenario({Objects(Absent(1), Absent(1))}, [Limits(1, Own) EXCEPT !.creates = 1, !.faults = 1]),
   Scenario(OneOn(t1), [Limits(1, Own) EXCEPT !.edits = 1, !.faults = 1]),
   Scenario(OneOn(t1), [Limits(2, Bad) EXCEPT !.faults = 1]),
   Scenario(One, [Limits(2, Bad) EXCEPT !.edits = 1]),
   Scenario({Objects(Stale(Nil), NewSwitch(t1, 1))}, [Limits(1, Own) EXCEPT !.faults = 1])}
Reconnect == {Scenario(OneOn(t1), [Limits(1, Good) EXCEPT !.faults = 1])}
=============================================================================
