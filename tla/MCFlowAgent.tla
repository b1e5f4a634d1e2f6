---------------------------- MODULE MCFlowAgent ----------------------------
(* Instance of FlowAgent: process p of Pod u with a child c that sends on   *)
(* p's queue pair, and process r of Pod w, which takes u's name after it.   *)
EXTENDS FlowAgent, TLC

CONSTANTS u, w, p, c, r

MCPodOf == p :> u @@ c :> u @@ r :> w
MCQPOf == p :> 1 @@ c :> 1 @@ r :> 2
MCNameOf == u :> "n" @@ w :> "n"

Budget0 == [pod |-> 0, exit |-> 0, peer |-> 0, post |-> 0, evict |-> 0, list |-> 0,
            adopt |-> 0, meta |-> 0, status |-> 0, delete |-> 0, crash |-> 0]
Start(endpoints, procs, b) == [endpoints |-> endpoints, pods |-> {u}, proc |-> procs, budget |-> b]
Sending == p :> "Live" @@ c :> "None" @@ r :> "None"
Alone == p :> "Live" @@ c :> "Dead" @@ r :> "None"
MCScenarios ==
  {Start(FALSE, Sending, [Budget0 EXCEPT !.post = 2, !.exit = 1, !.crash = 1]),
   Start(FALSE, Alone, [Budget0 EXCEPT !.post = 2, !.evict = 1, !.peer = 2, !.list = 1]),
   Start(TRUE, Alone, [Budget0 EXCEPT !.exit = 1, !.pod = 1]),
   Start(TRUE, Alone, [Budget0 EXCEPT !.exit = 1, !.crash = 1, !.adopt = 1]),
   Start(TRUE, Alone, [Budget0 EXCEPT !.exit = 1, !.meta = 1, !.delete = 1]),
   Start(TRUE, Alone, [Budget0 EXCEPT !.status = 2, !.crash = 1])}
=============================================================================
