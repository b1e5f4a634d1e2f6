---------------------------- MODULE SnapshotFeed ----------------------------
(***************************************************************************)
(* What a switch agent promises the controllers that watch it, without the *)
(* channels and locks it uses to keep the promise.                         *)
(*                                                                         *)
(* The agent publishes LLDP neighbor tables; a table's generation is its   *)
(* place in the log.  A stream sees generations in order and may skip some,*)
(* but the first one it sees is no older than the log was when it joined,  *)
(* and a stream that stays joined sees the newest one in the end.  A crash *)
(* loses the log: generations start again at 1.                            *)
(***************************************************************************)
EXTENDS Naturals, Sequences

CONSTANTS Stream,    \* gRPC streams of WatchLLDPNeighbors
          Table      \* LLDP neighbor tables

VARIABLES log,       \* tables published by this agent process
          joined,    \* streams that are open
          view       \* view[s]: newest generation stream s has been sent

feedVars == <<log, joined, view>>

FeedInit ==
  /\ log = << >>
  /\ joined = {}
  /\ view = [s \in Stream |-> 0]

Publish(t) ==
  /\ log = << >> \/ log[Len(log)] # t
  /\ log' = Append(log, t)
  /\ UNCHANGED <<joined, view>>

(* The generation current at the join is still to be sent.                 *)
Join(s) ==
  /\ s \notin joined
  /\ log # << >>
  /\ joined' = joined \cup {s}
  /\ view' = [view EXCEPT ![s] = Len(log) - 1]
  /\ UNCHANGED log

Deliver(s) ==
  /\ s \in joined
  /\ \E g \in (view[s] + 1) .. Len(log) : view' = [view EXCEPT ![s] = g]
  /\ UNCHANGED <<log, joined>>

Leave(s) ==
  /\ s \in joined
  /\ joined' = joined \ {s}
  /\ view' = [view EXCEPT ![s] = 0]
  /\ UNCHANGED log

Crash ==
  /\ log' = << >>
  /\ joined' = {}
  /\ view' = [s \in Stream |-> 0]

FeedNext ==
  \/ \E t \in Table : Publish(t)
  \/ \E s \in Stream : Join(s) \/ Deliver(s) \/ Leave(s)
  \/ Crash

FeedSafety == FeedInit /\ [][FeedNext]_feedVars

FeedSpec == FeedSafety /\ \A s \in Stream : WF_feedVars(Deliver(s))
=============================================================================
