----------------------------- MODULE SwitchAgent -----------------------------
(***************************************************************************)
(* The switch agent (pkg/switchagent): one goroutine collects LLDP         *)
(* snapshots and hands each new one to every subscriber through a channel  *)
(* of capacity 1, replacing what a slow subscriber has not taken yet.  One *)
(* handler goroutine per gRPC stream takes snapshots from its channel and  *)
(* sends them.  The refresher holds snapshotMu for the whole broadcast;    *)
(* handlers take it to subscribe and unsubscribe and receive from their    *)
(* channel without it.                                                     *)
(***************************************************************************)
EXTENDS Naturals, Sequences

CONSTANTS Stream,         \* streams open at one time; a closed one is reused
          LldpOutput,     \* what lldpcli may print: sets of interface entries
          Nil,            \* Go's nil: no snapshot, no channel
          MaxGeneration   \* bound on the generations one process publishes

VARIABLES
  currentSnapshot,   \* newest snapshot, or Nil
  published,         \* history: tables this process made current, in order
  refresher,         \* control point of refreshSnapshot
  nextGeneration,    \* generation the running refresh will use
  pending,           \* subscribers the running broadcast has not served yet
  target,            \* subscriber whose channel was found full, or Nil
  serving,           \* the gRPC server accepts streams
  subscribers,       \* registered channels
  updates,           \* updates[s]: content of the channel of s
  handler,           \* handler[s]: control point of WatchLLDPNeighbors
  hand,              \* hand[s]: snapshot the handler is about to send
  lastGeneration,    \* lastGeneration[s]: the handler's local variable
  delivered          \* history: newest generation sent on stream s

refreshVars == <<currentSnapshot, published, refresher, nextGeneration,
                 pending, target, serving>>
streamVars == <<subscribers, updates, handler, hand, lastGeneration, delivered>>
vars == <<refreshVars, streamVars>>

-----------------------------------------------------------------------------
(* Entries without a chassis, port, name or port ID are skipped; the sort  *)
(* makes the result independent of lldpcli's order: a set.                 *)
ParseSnapshot(output) ==
  {[port |-> e.port, name |-> e.name] : e \in {x \in output : x.complete}}

Table == {ParseSnapshot(o) : o \in LldpOutput}
Snapshot == [gen : Nat \ {0}, table : Table]

ASSUME AgentAssumptions ==
  /\ MaxGeneration \in Nat
  /\ Nil \notin Stream /\ Nil \notin Snapshot

(* Snapshots are compared with their generations cleared.                  *)
SnapshotsEqual(previous, next) ==
  previous # Nil /\ previous.table = next.table

snapshotMuFree == refresher \in {"idle", "collecting"}

Init ==
  /\ currentSnapshot = Nil
  /\ published = << >>
  /\ refresher = "collecting"      \* Start collects once before it listens
  /\ nextGeneration = 1
  /\ pending = {}
  /\ target = Nil
  /\ serving = FALSE
  /\ subscribers = {}
  /\ updates = [s \in Stream |-> << >>]
  /\ handler = [s \in Stream |-> "none"]
  /\ hand = [s \in Stream |-> Nil]
  /\ lastGeneration = [s \in Stream |-> 0]
  /\ delivered = [s \in Stream |-> 0]

-----------------------------------------------------------------------------
(* refreshSnapshot, run by Start and then by the ticker of runSnapshotLoop *)

(* Mutant: the generation is not advanced.                                  *)
MutBeginRefreshReuses ==
  /\ refresher = "idle" /\ serving
  /\ Len(published) < MaxGeneration
  /\ refresher' = "collecting"
  /\ nextGeneration' = IF currentSnapshot = Nil THEN 1 ELSE currentSnapshot.gen
  /\ UNCHANGED <<currentSnapshot, published, pending, target, serving, streamVars>>

(* The ticker fires and the next generation is read under the read lock.   *)
BeginRefresh ==
  /\ refresher = "idle" /\ serving
  /\ Len(published) < MaxGeneration
  /\ refresher' = "collecting"
  /\ nextGeneration' = IF currentSnapshot = Nil THEN 1 ELSE currentSnapshot.gen + 1
  /\ UNCHANGED <<currentSnapshot, published, pending, target, serving, streamVars>>

(* lldpcli fails, or its output cannot be parsed: logged, nothing changes. *)
CollectFails ==
  /\ refresher = "collecting"
  /\ refresher' = "idle"
  /\ serving' = TRUE
  /\ UNCHANGED <<currentSnapshot, published, nextGeneration, pending, target, streamVars>>

(* Only the refresher writes currentSnapshot, so collecting and taking the *)
(* lock are one step.  A new table starts the broadcast, lock held.        *)
Collect(output) ==
  LET snapshot == [gen |-> nextGeneration, table |-> ParseSnapshot(output)]
  IN /\ refresher = "collecting"
     /\ IF SnapshotsEqual(currentSnapshot, snapshot)
          THEN /\ refresher' = "idle"
               /\ serving' = TRUE
               /\ UNCHANGED <<currentSnapshot, published, pending>>
          ELSE /\ refresher' = "offering"
               /\ currentSnapshot' = snapshot
               /\ published' = Append(published, snapshot.table)
               /\ pending' = subscribers
               /\ UNCHANGED serving
     /\ UNCHANGED <<nextGeneration, target, streamVars>>

(* Mutant: a full channel keeps its old snapshot.                           *)
MutOfferKeepsOld(s) ==
  /\ refresher = "offering" /\ s \in pending
  /\ updates' = IF updates[s] = << >> THEN [updates EXCEPT ![s] = <<currentSnapshot>>]
                ELSE updates
  /\ pending' = pending \ {s}
  /\ UNCHANGED <<currentSnapshot, published, refresher, nextGeneration, target,
                 serving, subscribers, handler, hand, lastGeneration, delivered>>

(* select { case subscriber <- snapshot: default: ... }                    *)
Offer(s) ==
  /\ refresher = "offering" /\ s \in pending
  /\ IF updates[s] = << >>
       THEN /\ updates' = [updates EXCEPT ![s] = <<currentSnapshot>>]
            /\ pending' = pending \ {s}
            /\ UNCHANGED <<refresher, target>>
       ELSE /\ refresher' = "draining"
            /\ target' = s
            /\ UNCHANGED <<updates, pending>>
  /\ UNCHANGED <<currentSnapshot, published, nextGeneration, serving,
                 subscribers, handler, hand, lastGeneration, delivered>>

(* Mutant: the old snapshot is not taken out of the channel.                *)
MutDrainNothing ==
  /\ refresher = "draining"
  /\ refresher' = "sending"
  /\ UNCHANGED <<currentSnapshot, published, nextGeneration, pending, target,
                 serving, streamVars>>

(* select { case <-subscriber: default: }: the handler may have been first. *)
Drain ==
  /\ refresher = "draining"
  /\ updates' = [updates EXCEPT ![target] = << >>]
  /\ refresher' = "sending"
  /\ UNCHANGED <<currentSnapshot, published, nextGeneration, pending, target, serving,
                 subscribers, handler, hand, lastGeneration, delivered>>

(* subscriber <- snapshot: a blocking send, made with snapshotMu held.     *)
SendReplacement ==
  /\ refresher = "sending"
  /\ updates[target] = << >>
  /\ updates' = [updates EXCEPT ![target] = <<currentSnapshot>>]
  /\ pending' = pending \ {target}
  /\ target' = Nil
  /\ refresher' = "offering"
  /\ UNCHANGED <<currentSnapshot, published, nextGeneration, serving,
                 subscribers, handler, hand, lastGeneration, delivered>>

EndRefresh ==
  /\ refresher = "offering" /\ pending = {}
  /\ refresher' = "idle"
  /\ serving' = TRUE
  /\ UNCHANGED <<currentSnapshot, published, nextGeneration, pending, target, streamVars>>

-----------------------------------------------------------------------------
(* WatchLLDPNeighbors, one handler per stream                              *)

(* subscribe: registering the channel and reading the snapshot are one     *)
(* critical section.  Without a snapshot the handler returns Unavailable.  *)
Subscribe(s) ==
  /\ serving /\ snapshotMuFree /\ handler[s] = "none"
  /\ subscribers' = subscribers \cup {s}
  /\ updates' = [updates EXCEPT ![s] = << >>]
  /\ hand' = [hand EXCEPT ![s] = currentSnapshot]
  /\ IF currentSnapshot = Nil
       THEN /\ handler' = [handler EXCEPT ![s] = "returning"]
            /\ UNCHANGED lastGeneration
       ELSE /\ handler' = [handler EXCEPT ![s] = "initial"]
            /\ lastGeneration' = [lastGeneration EXCEPT ![s] = currentSnapshot.gen]
  /\ UNCHANGED <<refreshVars, delivered>>

SendInitial(s) ==
  /\ handler[s] = "initial"
  /\ delivered' = [delivered EXCEPT ![s] = hand[s].gen]
  /\ handler' = [handler EXCEPT ![s] = "watching"]
  /\ hand' = [hand EXCEPT ![s] = Nil]
  /\ UNCHANGED <<refreshVars, subscribers, updates, lastGeneration>>

(* Generations already sent are skipped.                                   *)
ReceiveUpdate(s) ==
  /\ handler[s] = "watching" /\ updates[s] # << >>
  /\ updates' = [updates EXCEPT ![s] = << >>]
  /\ IF updates[s][1].gen > lastGeneration[s]
       THEN /\ handler' = [handler EXCEPT ![s] = "sending"]
            /\ hand' = [hand EXCEPT ![s] = updates[s][1]]
       ELSE UNCHANGED <<handler, hand>>
  /\ UNCHANGED <<refreshVars, subscribers, lastGeneration, delivered>>

SendUpdate(s) ==
  /\ handler[s] = "sending"
  /\ delivered' = [delivered EXCEPT ![s] = hand[s].gen]
  /\ lastGeneration' = [lastGeneration EXCEPT ![s] = hand[s].gen]
  /\ handler' = [handler EXCEPT ![s] = "watching"]
  /\ hand' = [hand EXCEPT ![s] = Nil]
  /\ UNCHANGED <<refreshVars, subscribers, updates>>

(* The stream's context ends, or a Send fails: the handler returns.        *)
StreamEnds(s) ==
  /\ handler[s] \in {"initial", "watching", "sending"}
  /\ handler' = [handler EXCEPT ![s] = "returning"]
  /\ hand' = [hand EXCEPT ![s] = Nil]
  /\ UNCHANGED <<refreshVars, subscribers, updates, lastGeneration, delivered>>

(* The deferred unsubscribe: delete from the map, then close the channel.  *)
Unsubscribe(s) ==
  /\ handler[s] = "returning" /\ snapshotMuFree
  /\ subscribers' = subscribers \ {s}
  /\ updates' = [updates EXCEPT ![s] = << >>]
  /\ handler' = [handler EXCEPT ![s] = "none"]
  /\ hand' = [hand EXCEPT ![s] = Nil]
  /\ lastGeneration' = [lastGeneration EXCEPT ![s] = 0]
  /\ delivered' = [delivered EXCEPT ![s] = 0]
  /\ UNCHANGED refreshVars

(* The process dies and is started again: New, then Start.                 *)
Restart ==
  /\ currentSnapshot' = Nil /\ published' = << >>
  /\ refresher' = "collecting" /\ nextGeneration' = 1
  /\ pending' = {} /\ target' = Nil
  /\ serving' = FALSE
  /\ subscribers' = {}
  /\ updates' = [s \in Stream |-> << >>]
  /\ handler' = [s \in Stream |-> "none"]
  /\ hand' = [s \in Stream |-> Nil]
  /\ lastGeneration' = [s \in Stream |-> 0]
  /\ delivered' = [s \in Stream |-> 0]

Broadcast == (\E s \in Stream : Offer(s)) \/ Drain \/ SendReplacement \/ EndRefresh

Handle(s) == SendInitial(s) \/ ReceiveUpdate(s) \/ SendUpdate(s)

Next ==
  \/ BeginRefresh
  \/ CollectFails
  \/ \E o \in LldpOutput : Collect(o)
  \/ Broadcast
  \/ \E s \in Stream : Subscribe(s) \/ Handle(s) \/ StreamEnds(s) \/ Unsubscribe(s)
  \/ Restart

Spec == Init /\ [][Next]_vars

(* A broadcast that has begun is finished and a handler with something to  *)
(* send sends it; lldpcli, clients and restarts owe nothing.               *)
FairSpec == Spec /\ WF_vars(Broadcast) /\ \A s \in Stream : WF_vars(Handle(s))

-----------------------------------------------------------------------------
Open(s) == handler[s] \in {"initial", "watching", "sending"}

TypeOK ==
  /\ currentSnapshot \in Snapshot \cup {Nil}
  /\ published \in Seq(Table)
  /\ refresher \in {"idle", "collecting", "offering", "draining", "sending"}
  /\ nextGeneration \in Nat \ {0}
  /\ pending \subseteq Stream
  /\ target \in Stream \cup {Nil}
  /\ serving \in BOOLEAN
  /\ subscribers \subseteq Stream
  /\ updates \in [Stream -> Seq(Snapshot)]
  /\ \A s \in Stream : Len(updates[s]) <= 1
  /\ handler \in [Stream -> {"none", "initial", "watching", "sending", "returning"}]
  /\ hand \in [Stream -> Snapshot \cup {Nil}]
  /\ lastGeneration \in [Stream -> Nat]
  /\ delivered \in [Stream -> Nat]

(* The send in refreshSnapshot that has no default case never blocks, so   *)
(* snapshotMu is never held while waiting for a handler that may itself be *)
(* waiting for snapshotMu in unsubscribe.                                  *)
BroadcastNeverBlocks ==
  refresher = "sending" => target # Nil /\ updates[target] = << >>

(* Replacing a waiting snapshot never loses the newest one: a stream the   *)
(* broadcast is done with has sent the current snapshot, is about to send  *)
(* it, or finds it in its channel.                                         *)
NoMissedUpdate ==
  \A s \in Stream :
    Open(s) /\ s \notin pending =>
      \/ updates[s] = <<currentSnapshot>>
      \/ hand[s] = currentSnapshot
      \/ delivered[s] = currentSnapshot.gen

(* What WatchLLDPNeighbors sends on one stream are snapshots of strictly   *)
(* increasing generation.                                                  *)
StreamIncreasing ==
  [][\A s \in Stream :
       Open(s) /\ Open(s)' /\ delivered'[s] # delivered[s] => delivered'[s] > delivered[s]]_vars

(* The newest generation a feed's stream has been sent: a stream that has  *)
(* subscribed but not sent its first snapshot is just before that one.     *)
FeedView(s) ==
  CASE handler[s] = "initial" -> hand[s].gen - 1
    [] handler[s] \in {"watching", "sending"} -> delivered[s]
    [] OTHER -> 0

Feed == INSTANCE SnapshotFeed WITH
  log <- published,
  joined <- {s \in Stream : Open(s)},
  view <- [s \in Stream |-> FeedView(s)]

(* The locks and channels of the agent implement the feed the controllers  *)
(* rely on, fairness included.                                             *)
ImplementsFeed == Feed!FeedSpec
=============================================================================
