-------------------------- MODULE MCProbeAttacher --------------------------
(* Instance of ProbeAttacher: two processes in two containers that share a *)
(* verbs library and have provider libraries of the same content.          *)
EXTENDS ProbeAttacher, TLC

CONSTANTS proc1, proc2, verbs1, file1, file2, content1

MCVerbs == proc1 :> verbs1 @@ proc2 :> verbs1
MCRoot == proc1 :> 1 @@ proc2 :> 2
MCProvider == proc1 :> file1 @@ proc2 :> file2
MCContent == file1 :> content1 @@ file2 :> content1
MCCallbacks == {[kind |-> "post_send", offset |-> 1], [kind |-> "wr_set_sge", offset |-> 1],
                [kind |-> "wr_set_sge", offset |-> 2]}
MCKinds == {"post_send", "wr_set_sge"}

None0 == [unload |-> 0, exit |-> 0, verbs |-> 0, unsupported |-> 0, fail |-> 0,
          persist |-> 0, load |-> 0, stop |-> 0, crash |-> 0]
OneLoaded == proc1 :> "Loaded" @@ proc2 :> "None"
BothLoaded == proc1 :> "Loaded" @@ proc2 :> "Loaded"
Scenario(procs, b) == [proc |-> procs, budget |-> b]
MCScenarios ==
  {Scenario(OneLoaded, [None0 EXCEPT !.verbs = 2, !.crash = 1]),
   Scenario(BothLoaded, [None0 EXCEPT !.verbs = 2, !.stop = 1, !.persist = 1]),
   Scenario(OneLoaded, [None0 EXCEPT !.verbs = 1, !.fail = 1, !.exit = 1]),
   Scenario(BothLoaded, [None0 EXCEPT !.verbs = 1, !.unload = 1, !.fail = 2]),
   Scenario(OneLoaded, [None0 EXCEPT !.verbs = 1, !.load = 1, !.unsupported = 1, !.crash = 1])}
=============================================================================
