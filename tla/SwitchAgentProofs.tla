-------------------------- MODULE SwitchAgentProofs --------------------------
(***************************************************************************)
(* Proofs about the switch agent, for any number of streams, any LLDP      *)
(* output and any bound on generations.                                    *)
(*                                                                         *)
(* BroadcastNeverBlocks and NoMissedUpdate are not inductive: whether a    *)
(* channel's content is the newest snapshot depends on how far the         *)
(* broadcast has come (RefreshInv) and on the order of the generations a   *)
(* stream holds in its channel, in its handler's hand and on the wire      *)
(* (StreamInv).                                                            *)
(***************************************************************************)
EXTENDS SwitchAgent, Integers, TLAPS

(* The broadcast: its subscribers, its current channel, the generation.    *)
RefreshInv ==
  /\ subscribers = {s \in Stream : handler[s] # "none"}
  /\ pending \subseteq subscribers
  /\ snapshotMuFree => pending = {}
  /\ ~snapshotMuFree => currentSnapshot # Nil
  /\ refresher \in {"draining", "sending"} => target \in pending
  /\ refresher = "sending" => updates[target] = << >>
  /\ currentSnapshot = Nil => published = << >>
  /\ currentSnapshot # Nil => /\ currentSnapshot.gen = Len(published)
                              /\ published[Len(published)] = currentSnapshot.table
  /\ refresher = "collecting" => nextGeneration = Len(published) + 1

(* One stream: what it holds is not newer than the current snapshot.       *)
StreamInv(s) ==
  /\ Open(s) => currentSnapshot # Nil /\ lastGeneration[s] <= currentSnapshot.gen
  /\ handler[s] = "initial" => /\ hand[s] # Nil /\ hand[s].gen = lastGeneration[s]
                               /\ delivered[s] = 0
  /\ handler[s] \in {"watching", "sending"} => delivered[s] = lastGeneration[s]
  /\ handler[s] = "watching" => hand[s] = Nil
  /\ handler[s] = "sending" => /\ hand[s] # Nil /\ hand[s].gen > lastGeneration[s]
                               /\ hand[s].gen <= currentSnapshot.gen
  /\ Open(s) /\ updates[s] # << >> => updates[s][1].gen <= currentSnapshot.gen
  /\ Open(s) /\ s \notin pending => \/ updates[s] = <<currentSnapshot>>
                                    \/ hand[s] = currentSnapshot
                                    \/ delivered[s] = currentSnapshot.gen
  /\ handler[s] = "none" => delivered[s] = 0

IInv == TypeOK /\ RefreshInv /\ \A s \in Stream : StreamInv(s)

USE AgentAssumptions

LEMMA InitInv == Init => IInv
<1> SUFFICES ASSUME Init PROVE IInv
  OBVIOUS
<1>1. TypeOK
  <2>1. << >> \in Seq(Table) /\ << >> \in Seq(Snapshot) /\ Len(<< >>) = 0
    OBVIOUS
  <2>2. updates \in [Stream -> Seq(Snapshot)] /\ \A s \in Stream : Len(updates[s]) <= 1
    BY <2>1 DEF Init
  <2>3. published \in Seq(Table)
    BY <2>1 DEF Init
  <2>5. serving \in BOOLEAN
    BY Zenon DEF Init
  <2>6. nextGeneration \in Nat \ {0}
    BY DEF Init
  <2>4. /\ handler \in [Stream -> {"none", "initial", "watching", "sending", "returning"}]
        /\ hand \in [Stream -> Snapshot \cup {Nil}]
        /\ lastGeneration \in [Stream -> Nat] /\ delivered \in [Stream -> Nat]
    BY DEF Init
  <2> QED
    BY <2>2, <2>3, <2>4, <2>5, <2>6 DEF Init, TypeOK
<1>2. RefreshInv
  BY DEF Init, RefreshInv, snapshotMuFree
<1>3. ASSUME NEW s \in Stream PROVE StreamInv(s)
  BY DEF Init, StreamInv, Open
<1> QED
  BY <1>1, <1>2, <1>3 DEF IInv

LEMMA ParseInTable == \A o \in LldpOutput : ParseSnapshot(o) \in Table
  BY DEF Table

LEMMA WaitingIsSnapshot ==
  ASSUME TypeOK, NEW s \in Stream, updates[s] # << >>
  PROVE  updates[s][1] \in Snapshot /\ updates[s][1].gen \in Nat
<1>1. updates[s] \in Seq(Snapshot)
  BY DEF TypeOK
<1>2. updates[s][1] \in Snapshot
  BY <1>1
<1> QED
  BY <1>2 DEF Snapshot

LEMMA EmptyChannel ==
  ASSUME NEW f \in [Stream -> Seq(Snapshot)], NEW s \in Stream, \A r \in Stream : Len(f[r]) <= 1
  PROVE  /\ [f EXCEPT ![s] = << >>] \in [Stream -> Seq(Snapshot)]
         /\ \A r \in Stream : Len([f EXCEPT ![s] = << >>][r]) <= 1
<1> DEFINE none == << >>
<1>1. none \in Seq(Snapshot) /\ Len(none) <= 1
  OBVIOUS
<1> HIDE DEF none
<1>2. /\ [f EXCEPT ![s] = none] \in [Stream -> Seq(Snapshot)]
      /\ \A r \in Stream : Len([f EXCEPT ![s] = none][r]) <= 1
  BY <1>1
<1> QED
  BY <1>2 DEF none

LEMMA BeginRefreshInv == ASSUME IInv, BeginRefresh PROVE IInv'
<1> USE DEF IInv, BeginRefresh, streamVars
<1>1. TypeOK'
  <2>1. currentSnapshot # Nil => currentSnapshot.gen \in Nat \ {0}
    BY DEF TypeOK, Snapshot
  <2>2. nextGeneration' \in Nat \ {0}
    BY <2>1
  <2> QED
    BY <2>2 DEF TypeOK
<1>2. RefreshInv'
  BY DEF TypeOK, RefreshInv, snapshotMuFree
<1>3. ASSUME NEW s \in Stream PROVE StreamInv(s)'
  BY DEF StreamInv, Open
<1> QED
  BY <1>1, <1>2, <1>3

LEMMA CollectFailsInv == ASSUME IInv, CollectFails PROVE IInv'
<1> USE DEF IInv, CollectFails, streamVars
<1>1. TypeOK'
  BY DEF TypeOK
<1>2. RefreshInv'
  BY DEF RefreshInv, snapshotMuFree
<1>3. ASSUME NEW s \in Stream PROVE StreamInv(s)'
  BY DEF StreamInv, Open
<1> QED
  BY <1>1, <1>2, <1>3

LEMMA CollectInv == ASSUME NEW o \in LldpOutput, IInv, Collect(o) PROVE IInv'
<1> DEFINE snapshot == [gen |-> nextGeneration, table |-> ParseSnapshot(o)]
<1> USE DEF IInv, streamVars
<1>1. CASE SnapshotsEqual(currentSnapshot, snapshot)
  <2>1. /\ refresher = "collecting" /\ refresher' = "idle" /\ serving' = TRUE
        /\ UNCHANGED <<currentSnapshot, published, pending, nextGeneration, target, streamVars>>
    BY <1>1 DEF Collect
  <2>2. TypeOK'
    BY <2>1 DEF TypeOK
  <2>3. RefreshInv'
    BY <2>1 DEF RefreshInv, snapshotMuFree
  <2>4. ASSUME NEW s \in Stream PROVE StreamInv(s)'
    BY <2>1 DEF StreamInv, Open
  <2> QED
    BY <2>2, <2>3, <2>4
<1>2. CASE ~SnapshotsEqual(currentSnapshot, snapshot)
  <2>1. /\ refresher = "collecting" /\ refresher' = "offering"
        /\ currentSnapshot' = snapshot /\ published' = Append(published, snapshot.table)
        /\ pending' = subscribers
        /\ UNCHANGED <<serving, nextGeneration, target, streamVars>>
    BY <1>2 DEF Collect
  <2>2. snapshot \in Snapshot /\ snapshot # Nil
    BY ParseInTable DEF TypeOK, Snapshot
  <2>3. nextGeneration = Len(published) + 1 /\ published \in Seq(Table)
    BY <2>1 DEF RefreshInv, TypeOK
  <2>4. /\ published' \in Seq(Table) /\ Len(published') = nextGeneration
        /\ published'[Len(published')] = snapshot.table
    BY <2>1, <2>3, ParseInTable
  <2>5. TypeOK'
    BY <2>1, <2>2, <2>4 DEF TypeOK
  <2>6. RefreshInv'
    BY <2>1, <2>2, <2>4 DEF RefreshInv, snapshotMuFree
  <2>7. ASSUME NEW s \in Stream PROVE StreamInv(s)'
    <3>1. currentSnapshot # Nil => currentSnapshot.gen < snapshot.gen
      BY <2>3 DEF RefreshInv, TypeOK
    <3>2. Open(s) => s \in pending'
      BY <2>1 DEF RefreshInv, Open
    <3>3. Open(s) => lastGeneration[s] <= snapshot.gen
      BY <3>1, <2>2 DEF StreamInv, Open, TypeOK, Snapshot
    <3>4. handler[s] = "sending" => hand[s].gen <= snapshot.gen
      BY <3>1, <2>2 DEF StreamInv, Open, TypeOK, Snapshot
    <3>5. Open(s) /\ updates[s] # << >> => updates[s][1].gen <= snapshot.gen
      <4> SUFFICES ASSUME Open(s), updates[s] # << >> PROVE updates[s][1].gen <= snapshot.gen
        OBVIOUS
      <4>1. updates[s][1] \in Snapshot
        BY WaitingIsSnapshot
      <4> QED
        BY <4>1, <3>1, <2>2 DEF StreamInv, Open, TypeOK, Snapshot
    <3> QED
      BY <2>1, <2>2, <3>2, <3>3, <3>4, <3>5 DEF StreamInv, Open
  <2> QED
    BY <2>5, <2>6, <2>7
<1> QED
  BY <1>1, <1>2

LEMMA OfferInv == ASSUME NEW s \in Stream, IInv, Offer(s) PROVE IInv'
<1> USE DEF IInv, Offer
<1>1. currentSnapshot \in Snapshot
  BY DEF RefreshInv, TypeOK, snapshotMuFree
<1>2. <<currentSnapshot>> \in Seq(Snapshot) /\ Len(<<currentSnapshot>>) = 1
  BY <1>1
<1>3. TypeOK'
  <2>1. updates' \in [Stream -> Seq(Snapshot)] /\ \A r \in Stream : Len(updates'[r]) <= 1
    <3>1. CASE updates[s] = << >>
      <4> DEFINE box == <<currentSnapshot>>
      <4>1. box \in Seq(Snapshot) /\ Len(box) <= 1
        BY <1>2
      <4>2. updates' = [updates EXCEPT ![s] = box]
        BY <3>1
      <4> HIDE DEF box
      <4> QED
        BY <4>1, <4>2 DEF TypeOK
    <3>2. CASE updates[s] # << >>
      BY <3>2 DEF TypeOK
    <3> QED
      BY <3>1, <3>2
  <2> QED
    BY <2>1 DEF TypeOK
<1>4. RefreshInv'
  BY DEF RefreshInv, snapshotMuFree, TypeOK
<1>5. ASSUME NEW r \in Stream PROVE StreamInv(r)'
  BY <1>1 DEF StreamInv, Open, TypeOK, Snapshot
<1> QED
  BY <1>3, <1>4, <1>5

LEMMA DrainInv == ASSUME IInv, Drain PROVE IInv'
<1> USE DEF IInv, Drain
<1>1. target \in pending /\ target \in Stream
  BY DEF RefreshInv, TypeOK
<1>2. TypeOK'
  BY <1>1 DEF TypeOK
<1>3. RefreshInv'
  BY <1>1 DEF RefreshInv, snapshotMuFree, TypeOK
<1>4. ASSUME NEW s \in Stream PROVE StreamInv(s)'
  BY <1>1 DEF StreamInv, Open, TypeOK
<1> QED
  BY <1>2, <1>3, <1>4

LEMMA SendReplacementInv == ASSUME IInv, SendReplacement PROVE IInv'
<1> USE DEF IInv, SendReplacement
<1>1. target \in pending /\ target \in Stream
  BY DEF RefreshInv, TypeOK
<1>2. currentSnapshot \in Snapshot
  BY DEF RefreshInv, TypeOK, snapshotMuFree
<1>3. <<currentSnapshot>> \in Seq(Snapshot) /\ Len(<<currentSnapshot>>) = 1
  BY <1>2
<1>4. TypeOK'
  BY <1>1, <1>3 DEF TypeOK
<1>5. RefreshInv'
  BY <1>1 DEF RefreshInv, snapshotMuFree, TypeOK
<1>6. ASSUME NEW s \in Stream PROVE StreamInv(s)'
  BY <1>1, <1>2 DEF StreamInv, Open, TypeOK, Snapshot
<1> QED
  BY <1>4, <1>5, <1>6

LEMMA EndRefreshInv == ASSUME IInv, EndRefresh PROVE IInv'
<1> USE DEF IInv, EndRefresh, streamVars
<1>1. TypeOK'
  BY DEF TypeOK
<1>2. RefreshInv'
  BY DEF RefreshInv, snapshotMuFree
<1>3. ASSUME NEW s \in Stream PROVE StreamInv(s)'
  BY DEF StreamInv, Open
<1> QED
  BY <1>1, <1>2, <1>3

-----------------------------------------------------------------------------
LEMMA SubscribeInv == ASSUME NEW s \in Stream, IInv, Subscribe(s) PROVE IInv'
<1> USE DEF IInv, Subscribe, refreshVars
<1>1. currentSnapshot # Nil => currentSnapshot \in Snapshot /\ currentSnapshot.gen \in Nat
  BY DEF TypeOK, Snapshot
<1>2. TypeOK'
  <2>1. updates' \in [Stream -> Seq(Snapshot)] /\ \A r \in Stream : Len(updates'[r]) <= 1
    BY EmptyChannel DEF TypeOK
  <2> QED
    BY <1>1, <2>1 DEF TypeOK
<1>3. RefreshInv'
  BY DEF RefreshInv, snapshotMuFree, TypeOK
<1>4. ASSUME NEW r \in Stream PROVE StreamInv(r)'
  BY <1>1 DEF StreamInv, Open, TypeOK
<1> QED
  BY <1>2, <1>3, <1>4

LEMMA SendInitialInv == ASSUME NEW s \in Stream, IInv, SendInitial(s) PROVE IInv'
<1> USE DEF IInv, SendInitial, refreshVars
<1>1. hand[s] \in Snapshot /\ hand[s].gen \in Nat \ {0} /\ hand[s].gen = lastGeneration[s]
  BY DEF StreamInv, TypeOK, Snapshot
<1>2. TypeOK'
  BY <1>1 DEF TypeOK
<1>3. RefreshInv'
  BY DEF RefreshInv, snapshotMuFree, TypeOK
<1>4. ASSUME NEW r \in Stream PROVE StreamInv(r)'
  BY <1>1 DEF StreamInv, Open, TypeOK, Snapshot
<1> QED
  BY <1>2, <1>3, <1>4

LEMMA ReceiveUpdateInv == ASSUME NEW s \in Stream, IInv, ReceiveUpdate(s) PROVE IInv'
<1> USE DEF IInv, refreshVars
<1> DEFINE first == updates[s][1]
<1>1. first \in Snapshot /\ first.gen \in Nat
  BY WaitingIsSnapshot DEF ReceiveUpdate
<1>2. /\ handler[s] = "watching"
      /\ updates' = [updates EXCEPT ![s] = << >>]
      /\ \/ /\ first.gen > lastGeneration[s]
            /\ handler' = [handler EXCEPT ![s] = "sending"]
            /\ hand' = [hand EXCEPT ![s] = first]
         \/ /\ ~(first.gen > lastGeneration[s])
            /\ UNCHANGED <<handler, hand>>
      /\ UNCHANGED <<refreshVars, subscribers, lastGeneration, delivered>>
  BY DEF ReceiveUpdate
<1>3. /\ first.gen <= currentSnapshot.gen
      /\ updates[s] = <<currentSnapshot>> => first = currentSnapshot
  BY <1>2 DEF ReceiveUpdate, StreamInv, Open
<1>4. updates' \in [Stream -> Seq(Snapshot)] /\ \A r \in Stream : Len(updates'[r]) <= 1
  BY <1>2, EmptyChannel DEF TypeOK
<1> HIDE DEF first
<1>5. TypeOK'
  <2>1. /\ handler' \in [Stream -> {"none", "initial", "watching", "sending", "returning"}]
        /\ hand' \in [Stream -> Snapshot \cup {Nil}]
    <3>1. CASE first.gen > lastGeneration[s]
      <4>1. handler' = [handler EXCEPT ![s] = "sending"] /\ hand' = [hand EXCEPT ![s] = first]
        BY <1>2, <3>1
      <4>2. hand' \in [Stream -> Snapshot \cup {Nil}]
        BY <1>1, <4>1 DEF TypeOK
      <4> QED
        BY <4>1, <4>2 DEF TypeOK
    <3>2. CASE ~(first.gen > lastGeneration[s])
      BY <1>2, <3>2 DEF TypeOK
    <3> QED
      BY <3>1, <3>2
  <2> QED
    BY <1>2, <1>4, <2>1 DEF TypeOK
<1>6. RefreshInv'
  BY <1>2 DEF RefreshInv, snapshotMuFree, TypeOK
<1>7. ASSUME NEW r \in Stream PROVE StreamInv(r)'
  <2>1. CASE r = s
    <3>1. /\ handler' \in [Stream -> {"none", "initial", "watching", "sending", "returning"}]
          /\ updates'[s] = << >> /\ delivered[s] = lastGeneration[s]
          /\ currentSnapshot \in Snapshot /\ lastGeneration[s] \in Nat
          /\ lastGeneration[s] <= currentSnapshot.gen /\ currentSnapshot.gen \in Nat
      BY <1>2, <1>5 DEF TypeOK, StreamInv, Open, Snapshot
    <3>2. s \notin pending => first = currentSnapshot \/ delivered[s] = currentSnapshot.gen
      BY <1>2, <1>3 DEF StreamInv, Open
    <3>3. CASE first.gen > lastGeneration[s]
      <4>1. handler'[s] = "sending" /\ hand'[s] = first
        BY <1>2, <3>3 DEF TypeOK
      <4>2. s \notin pending => first = currentSnapshot
        BY <1>1, <1>3, <3>1, <3>2, <3>3
      <4> QED
        BY <1>1, <1>2, <1>3, <2>1, <3>1, <3>3, <4>1, <4>2 DEF StreamInv, Open
    <3>4. CASE ~(first.gen > lastGeneration[s])
      BY <1>1, <1>2, <1>3, <2>1, <3>1, <3>2, <3>4 DEF StreamInv, Open
    <3> QED
      BY <3>3, <3>4
  <2>2. CASE r # s
    BY <1>2, <2>2 DEF StreamInv, Open, TypeOK
  <2> QED
    BY <2>1, <2>2
<1> QED
  BY <1>5, <1>6, <1>7

LEMMA SendUpdateInv == ASSUME NEW s \in Stream, IInv, SendUpdate(s) PROVE IInv'
<1> USE DEF IInv, SendUpdate, refreshVars
<1>1. hand[s] \in Snapshot /\ hand[s].gen \in Nat \ {0} /\ hand[s].gen > lastGeneration[s]
  BY DEF StreamInv, TypeOK, Snapshot
<1>2. TypeOK'
  BY <1>1 DEF TypeOK
<1>3. RefreshInv'
  BY DEF RefreshInv, snapshotMuFree, TypeOK
<1>4. ASSUME NEW r \in Stream PROVE StreamInv(r)'
  BY <1>1 DEF StreamInv, Open, TypeOK, Snapshot
<1> QED
  BY <1>2, <1>3, <1>4

LEMMA StreamEndsInv == ASSUME NEW s \in Stream, IInv, StreamEnds(s) PROVE IInv'
<1> USE DEF IInv, StreamEnds, refreshVars
<1>1. TypeOK'
  BY DEF TypeOK
<1>2. RefreshInv'
  BY DEF RefreshInv, snapshotMuFree, TypeOK
<1>3. ASSUME NEW r \in Stream PROVE StreamInv(r)'
  BY DEF StreamInv, Open, TypeOK
<1> QED
  BY <1>1, <1>2, <1>3

LEMMA UnsubscribeInv == ASSUME NEW s \in Stream, IInv, Unsubscribe(s) PROVE IInv'
<1> USE DEF IInv, Unsubscribe, refreshVars
<1>1. TypeOK'
  BY DEF TypeOK
<1>2. RefreshInv'
  BY DEF RefreshInv, snapshotMuFree, TypeOK
<1>3. ASSUME NEW r \in Stream PROVE StreamInv(r)'
  BY DEF StreamInv, Open, TypeOK
<1> QED
  BY <1>1, <1>2, <1>3

LEMMA RestartInv == ASSUME Restart PROVE IInv'
<1>1. Init'
  BY DEF Restart, Init
<1>2. Init' => IInv'
  BY InitInv, PTL
<1> QED
  BY <1>1, <1>2

LEMMA NextInv == IInv /\ [Next]_vars => IInv'
<1> SUFFICES ASSUME IInv, [Next]_vars PROVE IInv'
  OBVIOUS
<1>1. CASE BeginRefresh
  BY <1>1, BeginRefreshInv
<1>2. CASE CollectFails
  BY <1>2, CollectFailsInv
<1>3. ASSUME NEW o \in LldpOutput, Collect(o) PROVE IInv'
  BY <1>3, CollectInv
<1>4. CASE Broadcast
  BY <1>4, OfferInv, DrainInv, SendReplacementInv, EndRefreshInv DEF Broadcast
<1>5. ASSUME NEW s \in Stream,
             Subscribe(s) \/ Handle(s) \/ StreamEnds(s) \/ Unsubscribe(s)
      PROVE  IInv'
  BY <1>5, SubscribeInv, SendInitialInv, ReceiveUpdateInv, SendUpdateInv, StreamEndsInv,
     UnsubscribeInv DEF Handle
<1>6. CASE Restart
  BY <1>6, RestartInv
<1>7. CASE UNCHANGED vars
  <2> USE <1>7 DEF vars, refreshVars, streamVars
  <2>1. TypeOK'
    BY DEF IInv, TypeOK
  <2>2. RefreshInv'
    BY DEF IInv, RefreshInv, snapshotMuFree
  <2>3. ASSUME NEW s \in Stream PROVE StreamInv(s)'
    BY DEF IInv, StreamInv, Open
  <2> QED
    BY <2>1, <2>2, <2>3 DEF IInv
<1> QED
  BY <1>1, <1>2, <1>3, <1>4, <1>5, <1>6, <1>7 DEF Next

THEOREM Inductive == Spec => []IInv
  BY InitInv, NextInv, PTL DEF Spec

(* Every variable of the agent keeps its type; no channel ever holds more  *)
(* than its capacity of one snapshot.                                      *)
THEOREM TypeCorrect == Spec => []TypeOK
<1>1. IInv => TypeOK
  BY DEF IInv
<1> QED
  BY <1>1, Inductive, PTL

(* The blocking send of refreshSnapshot always finds its channel empty,    *)
(* whatever the handlers do.                                               *)
THEOREM NeverBlocks == Spec => []BroadcastNeverBlocks
<1>1. IInv => BroadcastNeverBlocks
  BY DEF IInv, RefreshInv, TypeOK, BroadcastNeverBlocks
<1> QED
  BY <1>1, Inductive, PTL

(* A stream the broadcast is done with has, holds or will find the newest  *)
(* snapshot.                                                               *)
THEOREM NothingMissed == Spec => []NoMissedUpdate
<1>1. IInv => NoMissedUpdate
  BY DEF IInv, StreamInv, NoMissedUpdate
<1> QED
  BY <1>1, Inductive, PTL

-----------------------------------------------------------------------------
(* A stream is never sent a generation twice, nor an older one after a     *)
(* newer one, over every interleaving of its handler with the broadcast.   *)
THEOREM Increasing == Spec => StreamIncreasing
<1> DEFINE A == \A s \in Stream :
       Open(s) /\ Open(s)' /\ delivered'[s] # delivered[s] => delivered'[s] > delivered[s]
<1>1. ASSUME IInv, [Next]_vars PROVE A \/ UNCHANGED vars
  <2> SUFFICES ASSUME Next PROVE A
    BY <1>1
  <2> USE <1>1 DEF IInv
  <2>1. CASE \/ BeginRefresh \/ CollectFails \/ Broadcast
             \/ \E o \in LldpOutput : Collect(o)
    <3>1. UNCHANGED delivered
      BY <2>1 DEF BeginRefresh, CollectFails, Collect, Broadcast, Offer, Drain,
                  SendReplacement, EndRefresh, streamVars
    <3> QED
      BY <3>1
  <2>2. ASSUME NEW s \in Stream, SendInitial(s) PROVE A
    <3>1. hand[s].gen \in Nat \ {0} /\ delivered[s] = 0
      BY <2>2 DEF SendInitial, StreamInv, TypeOK, Snapshot
    <3> QED
      BY <2>2, <3>1 DEF SendInitial, TypeOK
  <2>3. ASSUME NEW s \in Stream, SendUpdate(s) PROVE A
    <3>1. hand[s].gen > delivered[s]
      BY <2>3 DEF SendUpdate, StreamInv
    <3> QED
      BY <2>3, <3>1 DEF SendUpdate, TypeOK
  <2>4. ASSUME NEW s \in Stream, Subscribe(s) \/ ReceiveUpdate(s) \/ StreamEnds(s) PROVE A
    BY <2>4 DEF Subscribe, ReceiveUpdate, StreamEnds
  <2>5. ASSUME NEW s \in Stream, Unsubscribe(s) PROVE A
    BY <2>5 DEF Unsubscribe, TypeOK, Open
  <2>6. CASE Restart
    BY <2>6 DEF Restart, Open
  <2> QED
    BY <2>1, <2>2, <2>3, <2>4, <2>5, <2>6 DEF Next, Handle
<1>2. IInv /\ [Next]_vars => [A]_vars
  BY <1>1
<1> QED
  BY <1>2, Inductive, PTL DEF Spec, StreamIncreasing

-----------------------------------------------------------------------------
(* The refinement: Subscribe joins, the two sends deliver, StreamEnds      *)
(* leaves, a Collect that starts a broadcast publishes, Restart crashes    *)
(* and every other step is invisible to the feed.                          *)

LEMMA FeedUnchanged ==
  ASSUME UNCHANGED published,
         \A s \in Stream : (Open(s)' <=> Open(s)) /\ FeedView(s)' = FeedView(s)
  PROVE  UNCHANGED Feed!feedVars
  BY DEF Feed!feedVars

LEMMA HiddenStep ==
  ASSUME UNCHANGED <<published, handler, hand, delivered>>
  PROVE  UNCHANGED Feed!feedVars
<1>1. ASSUME NEW s \in Stream PROVE (Open(s)' <=> Open(s)) /\ FeedView(s)' = FeedView(s)
  BY DEF Open, FeedView
<1> QED
  BY <1>1, FeedUnchanged

LEMMA CollectFeed ==
  ASSUME NEW o \in LldpOutput, IInv, Collect(o)
  PROVE  [Feed!FeedNext]_(Feed!feedVars)
<1>1. CASE UNCHANGED published
  BY <1>1, HiddenStep DEF Collect, streamVars
<1>2. CASE published' # published
  <2>1. /\ published' = Append(published, ParseSnapshot(o))
        /\ ~SnapshotsEqual(currentSnapshot, [gen |-> nextGeneration, table |-> ParseSnapshot(o)])
        /\ UNCHANGED <<handler, hand, delivered>>
    BY <1>2 DEF Collect, streamVars
  <2>2. published = << >> \/ published[Len(published)] # ParseSnapshot(o)
    BY <2>1 DEF IInv, RefreshInv, SnapshotsEqual
  <2>3. ASSUME NEW s \in Stream PROVE (Open(s)' <=> Open(s)) /\ FeedView(s)' = FeedView(s)
    BY <2>1 DEF Open, FeedView
  <2>4. Feed!Publish(ParseSnapshot(o))
    BY <2>1, <2>2, <2>3 DEF Feed!Publish
  <2> QED
    BY <2>4, ParseInTable DEF Feed!FeedNext
<1> QED
  BY <1>1, <1>2

LEMMA SubscribeFeed ==
  ASSUME NEW s \in Stream, IInv, Subscribe(s)
  PROVE  [Feed!FeedNext]_(Feed!feedVars)
<1> USE DEF IInv, Subscribe, refreshVars
<1>1. ASSUME NEW r \in Stream, r # s
      PROVE  (Open(r)' <=> Open(r)) /\ FeedView(r)' = FeedView(r)
  BY <1>1 DEF Open, FeedView, TypeOK
<1>2. CASE currentSnapshot = Nil
  <2>1. ~Open(s) /\ ~Open(s)' /\ FeedView(s) = 0 /\ FeedView(s)' = 0
    BY <1>2 DEF Open, FeedView, TypeOK
  <2> QED
    BY <1>1, <2>1, FeedUnchanged
<1>3. CASE currentSnapshot # Nil
  <2>1. ~Open(s) /\ Open(s)' /\ FeedView(s)' = Len(published) - 1
    BY <1>3 DEF Open, FeedView, TypeOK, RefreshInv
  <2>2. published # << >>
    BY <1>3 DEF RefreshInv, TypeOK, Snapshot
  <2>3. Feed!Join(s)
    BY <1>1, <2>1, <2>2 DEF Feed!Join
  <2> QED
    BY <2>3 DEF Feed!FeedNext
<1> QED
  BY <1>2, <1>3

LEMMA SendFeed ==
  ASSUME NEW s \in Stream, IInv, SendInitial(s) \/ SendUpdate(s)
  PROVE  [Feed!FeedNext]_(Feed!feedVars)
<1> USE DEF IInv, SendInitial, SendUpdate, refreshVars
<1>1. ASSUME NEW r \in Stream, r # s
      PROVE  (Open(r)' <=> Open(r)) /\ FeedView(r)' = FeedView(r)
  BY <1>1 DEF Open, FeedView, TypeOK
<1>2. /\ hand[s] \in Snapshot /\ hand[s].gen \in Nat /\ FeedView(s) \in Int
      /\ hand[s].gen <= Len(published) /\ Len(published) \in Nat
      /\ FeedView(s) < hand[s].gen
  BY DEF StreamInv, RefreshInv, TypeOK, Open, FeedView, Snapshot
<1>3. Open(s) /\ Open(s)' /\ FeedView(s)' = hand[s].gen
  BY DEF Open, FeedView, TypeOK
<1>4. hand[s].gen \in (FeedView(s) + 1) .. Len(published)
  BY <1>2
<1> DEFINE view == [r \in Stream |-> FeedView(r)]
<1>5. Feed!Deliver(s)
  <2>1. UNCHANGED published /\ {r \in Stream : Open(r)}' = {r \in Stream : Open(r)}
    BY <1>1, <1>3
  <2>2. view' = [view EXCEPT ![s] = hand[s].gen]
    BY <1>1, <1>3
  <2>3. \E g \in (view[s] + 1) .. Len(published) : view' = [view EXCEPT ![s] = g]
    BY <1>4, <2>2
  <2> QED
    BY <1>3, <2>1, <2>3 DEF Feed!Deliver
<1> QED
  BY <1>5 DEF Feed!FeedNext

LEMMA StreamEndsFeed ==
  ASSUME NEW s \in Stream, IInv, StreamEnds(s)
  PROVE  [Feed!FeedNext]_(Feed!feedVars)
<1> USE DEF IInv, StreamEnds, refreshVars
<1>1. ASSUME NEW r \in Stream, r # s
      PROVE  (Open(r)' <=> Open(r)) /\ FeedView(r)' = FeedView(r)
  BY <1>1 DEF Open, FeedView, TypeOK
<1>2. Open(s) /\ ~Open(s)' /\ FeedView(s)' = 0
  BY DEF Open, FeedView, TypeOK
<1>3. Feed!Leave(s)
  BY <1>1, <1>2 DEF Feed!Leave
<1> QED
  BY <1>3 DEF Feed!FeedNext

LEMMA QuietFeed ==
  ASSUME NEW s \in Stream, IInv, ReceiveUpdate(s) \/ Unsubscribe(s)
  PROVE  UNCHANGED Feed!feedVars
<1> USE DEF IInv, ReceiveUpdate, Unsubscribe, refreshVars
<1>1. ASSUME NEW r \in Stream PROVE (Open(r)' <=> Open(r)) /\ FeedView(r)' = FeedView(r)
  BY DEF Open, FeedView, TypeOK
<1> QED
  BY <1>1, FeedUnchanged

(* The agent, with its lock, channels and handlers, implements the feed:   *)
(* its streams see generations in order, starting no older than the one    *)
(* current when they subscribed.                                           *)
THEOREM RefinesFeed == Spec => Feed!FeedSafety
<1>1. Init => Feed!FeedInit
  BY DEF Init, Feed!FeedInit, Open, FeedView
<1>2. IInv /\ [Next]_vars => [Feed!FeedNext]_(Feed!feedVars)
  <2> SUFFICES ASSUME IInv, [Next]_vars PROVE [Feed!FeedNext]_(Feed!feedVars)
    OBVIOUS
  <2>1. CASE BeginRefresh \/ CollectFails \/ Broadcast \/ UNCHANGED vars
    BY <2>1, HiddenStep DEF BeginRefresh, CollectFails, Broadcast, Offer, Drain,
       SendReplacement, EndRefresh, streamVars, refreshVars, vars
  <2>2. ASSUME NEW o \in LldpOutput, Collect(o) PROVE [Feed!FeedNext]_(Feed!feedVars)
    BY <2>2, CollectFeed
  <2>3. ASSUME NEW s \in Stream,
               Subscribe(s) \/ Handle(s) \/ StreamEnds(s) \/ Unsubscribe(s)
        PROVE  [Feed!FeedNext]_(Feed!feedVars)
    BY <2>3, SubscribeFeed, SendFeed, StreamEndsFeed, QuietFeed DEF Handle
  <2>4. CASE Restart
    <3>1. Feed!Crash
      BY <2>4 DEF Restart, Feed!Crash, Open, FeedView
    <3> QED
      BY <3>1 DEF Feed!FeedNext
  <2> QED
    BY <2>1, <2>2, <2>3, <2>4 DEF Next
<1> QED
  BY <1>1, <1>2, Inductive, PTL DEF Spec, Feed!FeedSafety
=============================================================================
