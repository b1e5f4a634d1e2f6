--------------------------- MODULE FlowAgentProofs ---------------------------
(***************************************************************************)
(* Proofs about the flow agent, for any processes, queue pairs and faults. *)
(*                                                                         *)
(* That no traffic is counted twice is not inductive.  What holds at every *)
(* step is that the counter and what the next observation would add to it  *)
(* (Growth) are covered by what was sent.  Dropping a baseline raises the  *)
(* growth to the whole entry; endReport does so only to entries it has not *)
(* met, and of these nothing was counted (Unmet).                          *)
(***************************************************************************)
EXTENDS FlowAgent, TLAPS

IsMain ==
  /\ main = [at |-> main.at, then |-> main.then, todo |-> main.todo, seen |-> main.seen,
             infos |-> main.infos, apply |-> main.apply, live |-> main.live]
  /\ main.then # "Observe"

Types ==
  /\ IsMain
  /\ qpStats \in [Keys -> Nat \cup {None}]
  /\ sent \in [Keys -> Nat] /\ last \in [Keys -> Nat] /\ credited \in [Keys -> Nat]

Growth(k) ==
  IF qpStats[k] = None THEN 0
  ELSE IF qpStats[k] >= last[k] THEN qpStats[k] - last[k] ELSE qpStats[k]

Unmet(k) == main.at = "Observe" /\ k \notin main.todo /\ k \notin main.seen

Covered(k) ==
  /\ credited[k] + Growth(k) <= sent[k]
  /\ qpStats[k] # None => qpStats[k] <= sent[k]
  /\ Unmet(k) /\ qpStats[k] # None => credited[k] + qpStats[k] <= sent[k]

IInv == Types /\ \A k \in Keys : Covered(k)

USE MapAssumptions

LEMMA InitInv == Init => IInv
<1> SUFFICES ASSUME Init PROVE IInv
  OBVIOUS
<1>1. Types
  BY DEF Init, Types, IsMain, Place, Zero
<1>2. ASSUME NEW k \in Keys PROVE Covered(k)
  BY DEF Init, Covered, Growth, Zero
<1> QED
  BY <1>1, <1>2 DEF IInv

LEMMA PlaceIsMain == ASSUME NEW at, main' = Place(at) PROVE IsMain' /\ main'.at = at
  BY DEF Place, IsMain

(* Steps that touch neither the counters nor the map.                      *)
LEMMA Elsewhere ==
  ASSUME IInv, UNCHANGED <<qpStats, sent, last, credited>>, IsMain', main'.at # "Observe" \/ main' = main
  PROVE  IInv'
<1>1. Types'
  BY DEF IInv, Types
<1>2. ASSUME NEW k \in Keys PROVE Covered(k)'
  BY DEF IInv, Covered, Growth, Unmet
<1> QED
  BY <1>1, <1>2 DEF IInv

LEMMA PostSendStep ==
  ASSUME IInv, NEW p \in Procs, PostSend(p), UNCHANGED <<main, last, credited>>
  PROVE  IInv'
<1> DEFINE k0 == <<p, QPOf[p]>>
<1>1. k0 \in Keys
  BY DEF Keys
<1>2. /\ qpStats' = [qpStats EXCEPT ![k0] = IF @ = None THEN 1 ELSE @ + 1]
      /\ sent' = [sent EXCEPT ![k0] = @ + 1]
  BY DEF PostSend
<1> HIDE DEF k0
<1>3. qpStats \in [Keys -> Nat \cup {None}] /\ sent \in [Keys -> Nat]
  BY DEF IInv, Types
<1>4. Types'
  BY <1>1, <1>2, <1>3 DEF IInv, Types, IsMain
<1>5. ASSUME NEW k \in Keys PROVE Covered(k)'
  <2>1. CASE k # k0
    BY <1>2, <1>3, <2>1 DEF IInv, Covered, Growth, Unmet
  <2>2. CASE k = k0
    <3>1. /\ qpStats'[k] = IF qpStats[k] = None THEN 1 ELSE qpStats[k] + 1
          /\ sent'[k] = sent[k] + 1 /\ qpStats[k] \in Nat \cup {None} /\ sent[k] \in Nat
          /\ last[k] \in Nat /\ credited[k] \in Nat /\ qpStats'[k] \in Nat /\ qpStats'[k] # None
      BY <1>1, <1>2, <1>3, <2>2 DEF IInv, Types
    <3>2. Covered(k)
      BY DEF IInv
    <3>3. Growth(k)' <= Growth(k) + 1
      BY <3>1 DEF Growth
    <3>4. Growth(k) \in Nat /\ Growth(k)' \in Nat
      BY <3>1 DEF Growth
    <3> QED
      BY <3>1, <3>2, <3>3, <3>4 DEF Covered, Unmet
  <2> QED
    BY <2>1, <2>2
<1> QED
  BY <1>4, <1>5 DEF IInv

(* Entries go away: by the kernel, or by cleanupDeadQPs.                   *)
LEMMA EntriesGo ==
  ASSUME IInv, UNCHANGED <<sent, last, credited>>, IsMain',
         qpStats' \in [Keys -> Nat \cup {None}], \A k \in Keys : qpStats'[k] \in {qpStats[k], None},
         main'.at # "Observe" \/ main' = main
  PROVE  IInv'
<1>1. Types'
  BY DEF IInv, Types
<1>2. ASSUME NEW k \in Keys PROVE Covered(k)'
  <2>1. /\ qpStats[k] \in Nat \cup {None} /\ sent[k] \in Nat /\ last[k] \in Nat /\ credited[k] \in Nat
        /\ Covered(k)
    BY DEF IInv, Types
  <2>2. Growth(k) \in Nat
    BY <2>1 DEF Growth
  <2>3. CASE qpStats'[k] = None
    BY <2>1, <2>2, <2>3 DEF Covered, Growth
  <2>4. CASE qpStats'[k] = qpStats[k]
    BY <2>1, <2>4 DEF Covered, Growth, Unmet
  <2> QED
    BY <2>3, <2>4
<1> QED
  BY <1>1, <1>2 DEF IInv

LEMMA ReportEntryStep ==
  ASSUME IInv, NEW k0 \in Keys, ReportEntry(k0)
  PROVE  IInv'
<1>1. /\ main' = [main EXCEPT !.todo = @ \ {k0}, !.seen = IF qpStats[k0] = None THEN @ ELSE @ \cup {k0}]
      /\ UNCHANGED <<qpStats, sent>> /\ main.at = "Observe"
  BY DEF ReportEntry, kernel, At
<1>2. /\ IsMain' /\ main'.at = "Observe" /\ main'.todo = main.todo \ {k0}
      /\ main'.seen = IF qpStats[k0] = None THEN main.seen ELSE main.seen \cup {k0}
  BY <1>1 DEF IInv, Types, IsMain
<1> DEFINE growth == IF qpStats[k0] >= last[k0] THEN qpStats[k0] - last[k0] ELSE qpStats[k0]
<1>3. \/ UNCHANGED <<last, credited>>
      \/ /\ qpStats[k0] # None
         /\ last' = [last EXCEPT ![k0] = qpStats[k0]]
         /\ credited' = [credited EXCEPT ![k0] = @ + growth]
  BY DEF ReportEntry, Observe, counters
<1>4. \A k \in Keys : /\ qpStats[k] \in Nat \cup {None} /\ sent[k] \in Nat /\ last[k] \in Nat
                       /\ credited[k] \in Nat /\ Covered(k)
  BY DEF IInv, Types
<1>5. growth \in Nat \/ qpStats[k0] = None
  BY <1>4
<1>6. qpStats[k0] # None => growth = Growth(k0)
  BY DEF Growth
<1> HIDE DEF growth
<1>7. Types'
  BY <1>1, <1>2, <1>3, <1>4, <1>5 DEF IInv, Types
<1>8. ASSUME NEW k \in Keys PROVE Covered(k)'
  <2>1. CASE k # k0
    <3>1. last'[k] = last[k] /\ credited'[k] = credited[k]
      BY <1>3, <2>1 DEF IInv, Types
    <3> QED
      BY <1>1, <1>2, <1>4, <2>1, <3>1 DEF Covered, Growth, Unmet
  <2>2. CASE k = k0 /\ UNCHANGED <<last, credited>>
    BY <1>1, <1>2, <1>4, <2>2 DEF Covered, Growth, Unmet
  <2>3. CASE /\ k = k0 /\ qpStats[k0] # None
             /\ last' = [last EXCEPT ![k0] = qpStats[k0]]
             /\ credited' = [credited EXCEPT ![k0] = @ + growth]
    <3>1. last'[k] = qpStats[k] /\ credited'[k] = credited[k] + Growth(k) /\ qpStats[k] \in Nat
      BY <1>4, <1>6, <2>3 DEF IInv, Types
    <3>2. Growth(k)' = 0
      BY <1>1, <2>3, <3>1 DEF Growth
    <3>3. ~Unmet(k)'
      BY <1>2, <2>3 DEF Unmet
    <3>4. Growth(k) \in Nat
      BY <1>4 DEF Growth
    <3> QED
      BY <1>1, <1>4, <2>3, <3>1, <3>2, <3>3, <3>4 DEF Covered
  <2> QED
    BY <1>3, <2>1, <2>2, <2>3
<1> QED
  BY <1>7, <1>8 DEF IInv

LEMMA EndReportStep == ASSUME IInv, EndReport PROVE IInv'
<1>1. /\ last' = [k \in Keys |-> IF k \in main.seen THEN last[k] ELSE 0] /\ main.todo = {}
      /\ main' = [main EXCEPT !.at = "Clean", !.seen = {}] /\ main.at = "Observe"
      /\ UNCHANGED <<qpStats, sent, credited>>
  BY DEF EndReport, kernel, At
<1>2. IsMain' /\ main'.at = "Clean"
  BY <1>1 DEF IInv, Types, IsMain
<1>3. \A k \in Keys : /\ qpStats[k] \in Nat \cup {None} /\ sent[k] \in Nat /\ last[k] \in Nat
                       /\ credited[k] \in Nat /\ Covered(k)
  BY DEF IInv, Types
<1>4. Types'
  BY <1>1, <1>2, <1>3 DEF IInv, Types
<1>5. ASSUME NEW k \in Keys PROVE Covered(k)'
  <2>1. CASE k \in main.seen
    BY <1>1, <1>2, <1>3, <2>1 DEF Covered, Growth, Unmet
  <2>2. CASE k \notin main.seen
    BY <1>1, <1>2, <1>3, <2>2 DEF Covered, Growth, Unmet
  <2> QED
    BY <2>1, <2>2
<1> QED
  BY <1>4, <1>5 DEF IInv

LEMMA ReportStepInv == ASSUME IInv, ReportStep PROVE IInv'
<1>1. CASE BeginReport
  <2>1. /\ main' = [main EXCEPT !.at = "Observe", !.infos = qpInfos, !.seen = {},
                                !.todo = {k \in Keys : qpStats[k] # None}]
        /\ UNCHANGED <<qpStats, sent, last, credited>>
    BY <1>1 DEF BeginReport, kernel, counters
  <2>2. IsMain' /\ main'.todo = {k \in Keys : qpStats[k] # None}
    BY <2>1 DEF IInv, Types, IsMain
  <2>3. Types'
    BY <2>1, <2>2 DEF IInv, Types
  <2>4. ASSUME NEW k \in Keys PROVE Covered(k)'
    BY <2>1, <2>2 DEF IInv, Covered, Growth, Unmet
  <2> QED
    BY <2>3, <2>4 DEF IInv
<1>2. ASSUME NEW k \in Keys, ReportEntry(k) PROVE IInv'
  BY <1>2, ReportEntryStep
<1>3. CASE EndReport
  BY <1>3, EndReportStep
<1>4. CASE FindDead
  <2>1. IsMain' /\ main'.at = "Remove" /\ UNCHANGED <<qpStats, sent, last, credited>>
    BY <1>4 DEF FindDead, kernel, counters, IInv, Types, IsMain
  <2> QED
    BY <2>1, Elsewhere
<1>5. CASE CleanupDeadQPs
  <2>1. /\ qpStats' = [k \in Keys |-> IF k \in main.todo THEN None ELSE qpStats[k]]
        /\ UNCHANGED <<sent, last, credited>>
    BY <1>5 DEF CleanupDeadQPs, RemoveDead, counters
  <2>2. IsMain' /\ main'.at = "Removed"
    BY <1>5 DEF CleanupDeadQPs, RemoveDead, IInv, Types, IsMain
  <2>3. qpStats' \in [Keys -> Nat \cup {None}] /\ \A k \in Keys : qpStats'[k] \in {qpStats[k], None}
    BY <2>1 DEF IInv, Types
  <2> QED
    BY <2>1, <2>2, <2>3, EntriesGo
<1> QED
  BY <1>1, <1>2, <1>3, <1>4, <1>5 DEF ReportStep

LEMMA EnvironmentStep == ASSUME IInv, Environment PROVE IInv'
<1>1. UNCHANGED <<main, last, credited>> /\ IsMain'
  BY DEF Environment, counters, IInv, Types, IsMain
<1>2. ASSUME NEW p \in Procs, PostSend(p) PROVE IInv'
  BY <1>1, <1>2, PostSendStep
<1>3. CASE Evict
  <2>1. sent' = sent
    BY <1>3 DEF Evict
  <2>2. qpStats' \in [Keys -> Nat \cup {None}] /\ \A k \in Keys : qpStats'[k] \in {qpStats[k], None}
    BY <1>3 DEF Evict, IInv, Types
  <2> QED
    BY <1>1, <2>1, <2>2, EntriesGo
<1>4. CASE UNCHANGED <<qpStats, sent>>
  BY <1>1, <1>4, Elsewhere
<1> QED
  BY <1>2, <1>3, <1>4 DEF Environment, kernel, ModifyQP

LEMMA PublishStep == ASSUME IInv, Publish \/ AfterReport \/ TakeNudge \/ EndpointDue \/ EndpointTick PROVE IInv'
<1>1. UNCHANGED <<qpStats, sent, last, credited>>
  BY DEF Publish, AfterReport, TakeNudge, EndpointDue, EndpointTick, CollectEndpoints, StartDeleting, EndRun,
         Skip, ApplyMetadata, ApplyStatus, Delete, kernel, counters
<1>2. IsMain' /\ main'.at # "Observe"
  <2> USE DEF IInv, Types, IsMain, At
  <2>1. CASE CollectEndpoints \/ StartDeleting
    <3>1. /\ main.at # "Observe"
          /\ \/ \E l, y : main' = [main EXCEPT !.at = "Apply", !.live = l, !.apply = y]
             \/ \E y : main' = [main EXCEPT !.at = "Delete", !.apply = y, !.live = {}]
      BY <2>1 DEF CollectEndpoints, StartDeleting
    <3> QED
      BY <3>1
  <2>2. CASE EndRun
    BY <2>2 DEF EndRun, Place
  <2>3. ASSUME NEW o \in main.apply, At("Apply"), Skip(o) \/ ApplyMetadata(o)
        PROVE  IsMain' /\ main'.at # "Observe"
    <3>1. /\ main.at # "Observe"
          /\ \/ main' = [main EXCEPT !.apply = @ \ {o}]
             \/ main' = [main EXCEPT !.at = "Status", !.todo = {o}, !.apply = @ \ {o}]
      BY <2>3 DEF Skip, ApplyMetadata
    <3> QED
      BY <3>1
  <2>4. ASSUME NEW o \in main.todo, ApplyStatus(o) PROVE IsMain' /\ main'.at # "Observe"
    BY <2>4 DEF ApplyStatus
  <2>5. ASSUME NEW u \in Pods, Delete(u) PROVE IsMain' /\ main'.at # "Observe"
    BY <2>5 DEF Delete
  <2>6. CASE AfterReport \/ TakeNudge \/ EndpointDue \/ EndpointTick
    BY <2>6 DEF AfterReport, TakeNudge, EndpointDue, EndpointTick, RequestEndpointUpdate, Run, Place
  <2> QED
    BY <2>1, <2>2, <2>3, <2>4, <2>5, <2>6 DEF Publish
<1> QED
  BY <1>1, <1>2, Elsewhere

LEMMA CrashStep == ASSUME IInv, Crash PROVE IInv'
<1>1. IsMain' /\ main'.at = "Down"
  BY PlaceIsMain DEF Crash
<1>2. last' = Zero /\ credited' = Zero /\ UNCHANGED <<qpStats, sent>>
  BY DEF Crash, kernel
<1>3. Types'
  BY <1>1, <1>2 DEF IInv, Types, Zero
<1>4. ASSUME NEW k \in Keys PROVE Covered(k)'
  <2>1. /\ qpStats[k] \in Nat \cup {None} /\ sent[k] \in Nat
        /\ qpStats[k] # None => qpStats[k] <= sent[k]
    BY DEF IInv, Types, Covered
  <2>2. last'[k] = 0 /\ credited'[k] = 0
    BY <1>2 DEF Zero
  <2> QED
    BY <1>1, <1>2, <2>1, <2>2 DEF Covered, Growth, Unmet
<1> QED
  BY <1>3, <1>4 DEF IInv

LEMMA IInvStep == IInv /\ [Next]_vars => IInv'
<1> SUFFICES ASSUME IInv, [Next]_vars PROVE IInv'
  OBVIOUS
<1>1. CASE Report
  BY <1>1, ReportStepInv DEF Report
<1>2. CASE Publish \/ AfterReport \/ TakeNudge \/ EndpointDue \/ EndpointTick
  BY <1>2, PublishStep
<1>3. CASE Startup \/ ReportTick \/ Restart
  <2>1. UNCHANGED <<qpStats, sent, last, credited>>
    BY <1>3 DEF Startup, ReportTick, Restart, RefreshFor, kernel, counters
  <2>2. IsMain' /\ main'.at # "Observe"
    BY <1>3, PlaceIsMain DEF Startup, ReportTick, Restart, RefreshFor, Place, IsMain
  <2> QED
    BY <2>1, <2>2, Elsewhere
<1>4. CASE \/ ConsumeRTR \/ IntervalOver \/ (\E u \in Pods : ResendDue(u)) \/ CollectGarbage
           \/ UNCHANGED vars
  <2>1. UNCHANGED <<qpStats, sent, last, credited, main>>
    BY <1>4 DEF ConsumeRTR, IntervalOver, ResendDue, CollectGarbage, vars, kernel, counters
  <2>2. IsMain'
    BY <2>1 DEF IInv, Types, IsMain
  <2> QED
    BY <2>1, <2>2, Elsewhere
<1>5. CASE Environment
  BY <1>5, EnvironmentStep
<1>6. CASE Crash
  BY <1>6, CrashStep
<1> QED
  BY <1>1, <1>2, <1>3, <1>4, <1>5, <1>6 DEF Next, Work

(* FlowComponent.observe and endReport: within one life of the agent the      *)
(* counter of a flow never exceeds what its queue pair has sent, whatever     *)
(* entries the kernel evicts, whatever the agent removes, and however often   *)
(* the agent is restarted between, or within, its reports.                    *)
THEOREM CountedOnce == Spec => []CreditedOnce
<1>1. IInv => CreditedOnce
  <2> SUFFICES ASSUME IInv, NEW k \in Keys PROVE credited[k] <= sent[k]
    BY DEF CreditedOnce
  <2>1. /\ qpStats[k] \in Nat \cup {None} /\ sent[k] \in Nat /\ last[k] \in Nat /\ credited[k] \in Nat
        /\ credited[k] + Growth(k) <= sent[k]
    BY DEF IInv, Types, Covered
  <2> QED
    BY <2>1 DEF Growth
<1> QED
  BY InitInv, IInvStep, <1>1, PTL DEF Spec
=============================================================================
