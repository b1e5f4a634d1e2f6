------------------------- MODULE ProbeAttacherProofs -------------------------
(***************************************************************************)
(* Proofs about the probe attacher, for any processes, libraries, offsets  *)
(* and faults.                                                             *)
(*                                                                         *)
(* EachProbeOnce rests on scanMu: between the check that a library is not  *)
(* known and the attachment of its probes no other goroutine may scan.     *)
(* DiskKeeps rests on entries having whatever the file has, from the load  *)
(* of the cache on.                                                        *)
(***************************************************************************)
EXTENDS ProbeAttacher, TLAPS

Item == [exec : {TRUE}, event : Procs] \cup [exec : {FALSE}, event : Events]
Ats == {"Idle", "Read", "Lock", "Scan", "Bootstrap", "Replay", "Retry", "Attach", "Fail", "Forget",
        "Remember", "Persist", "Stopping", "Down"}
Actor == [at : Ats, todo : SUBSET Procs, proc : Procs \cup {None}, event : Events \cup {None},
          retry : SUBSET Events]

Types ==
  /\ ring \in Seq(Item)
  /\ actor \in [Actors -> Actor]
  /\ bootProbes \in [VerbsFiles -> Nat]

Handling(a) == actor[a].at \in {"Attach", "Fail", "Forget", "Remember", "Persist"}
Scanning(a) == \/ actor[a].at \in {"Scan", "Bootstrap", "Replay"}
               \/ a = "main" /\ (actor[a].at = "Retry" \/ Handling(a))

Holds ==
  \A a \in Actors :
    /\ Handling(a) => actor[a].event \in Events
    /\ actor[a].at = "Lock" => actor[a].proc \in Procs

MutualExclusion == \A a \in Actors : Scanning(a) => scanMu = a

Once ==
  /\ EachProbeOnce
  /\ \A a \in Actors : actor[a].at = "Bootstrap" =>
       actor[a].proc \in Procs /\ Verbs[actor[a].proc] \notin bootstrapLinks

USE LibraryAssumptions, ZenonT(40) DEF Actors

LEMMA InAts ==
  /\ "Idle" \in Ats /\ "Read" \in Ats /\ "Lock" \in Ats /\ "Scan" \in Ats /\ "Bootstrap" \in Ats
  /\ "Replay" \in Ats /\ "Retry" \in Ats /\ "Attach" \in Ats /\ "Fail" \in Ats /\ "Forget" \in Ats
  /\ "Remember" \in Ats /\ "Persist" \in Ats /\ "Stopping" \in Ats /\ "Down" \in Ats
  BY DEF Ats

LEMMA ActorType ==
  ASSUME NEW r \in Actor, NEW at \in Ats
  PROVE  /\ [r EXCEPT !.at = at] \in Actor
         /\ \A p \in Procs \cup {None} : [r EXCEPT !.at = at, !.proc = p] \in Actor
         /\ \A p \in Procs : [r EXCEPT !.todo = @ \ {p}, !.proc = p, !.at = at] \in Actor
         /\ \A e \in Events \cup {None} : [r EXCEPT !.at = at, !.event = e] \in Actor
         /\ \A e \in Events : [r EXCEPT !.at = at, !.event = e, !.retry = @ \ {e}] \in Actor
  BY DEF Actor

LEMMA RestingType == ASSUME NEW at \in Ats PROVE Resting(at) \in Actor
  BY DEF Resting, Actor

-----------------------------------------------------------------------------
(* Types, and what a goroutine holds                                       *)

TInv == Types /\ Holds

LEMMA TInit == Init => TInv
<1> SUFFICES ASSUME Init PROVE TInv
  OBVIOUS
<1>1. Resting("Idle") \in Actor /\ Resting("Read") \in Actor
  BY RestingType DEF Ats
<1>2. actor \in [Actors -> Actor]
  BY <1>1 DEF Init
<1>3. ring \in Seq(Item) /\ bootProbes \in [VerbsFiles -> Nat]
  BY SMT DEF Init, NoProbes
<1>4. Holds
  BY DEF Init, Holds, Handling, Resting
<1> QED
  BY <1>2, <1>3, <1>4 DEF TInv, Types

LEMMA EmitType ==
  ASSUME ring \in Seq(Item), NEW x \in Item, Emit(x)
  PROVE  ring' \in Seq(Item)
  BY SMT DEF Emit

(* One goroutine changes to record x.                                      *)
Fits(x) == /\ x.at \in {"Attach", "Fail", "Forget", "Remember", "Persist"} => x.event \in Events
           /\ x.at = "Lock" => x.proc \in Procs

LEMMA ActorStep ==
  ASSUME TInv, NEW a \in Actors, NEW x \in Actor, Fits(x), actor' = [actor EXCEPT ![a] = x],
         ring' \in Seq(Item), bootProbes' \in [VerbsFiles -> Nat]
  PROVE  TInv'
<1>1. actor' \in [Actors -> Actor]
  BY DEF TInv, Types
<1>2. Holds'
  <2> SUFFICES ASSUME NEW b \in Actors
               PROVE  /\ Handling(b)' => actor'[b].event \in Events
                      /\ actor'[b].at = "Lock" => actor'[b].proc \in Procs
    BY DEF Holds
  <2>1. actor'[b] = IF b = a THEN x ELSE actor[b]
    BY DEF TInv, Types
  <2> QED
    BY <2>1 DEF TInv, Holds, Handling, Fits
<1> QED
  BY <1>1, <1>2 DEF TInv, Types

LEMMA TStep == TInv /\ [Next]_vars => TInv'
<1> SUFFICES ASSUME TInv, [Next]_vars PROVE TInv'
  OBVIOUS
<1>a. actor \in [Actors -> Actor] /\ ring \in Seq(Item) /\ bootProbes \in [VerbsFiles -> Nat]
  BY DEF TInv, Types
<1>b. \A a \in Actors : actor[a] \in Actor
  BY <1>a
<1>1. ASSUME actor' = actor, bootProbes' = bootProbes, ring' \in Seq(Item) PROVE TInv'
  BY <1>1 DEF TInv, Types, Holds, Handling
<1>2. ASSUME NEW p \in Procs, Exec(p) PROVE TInv'
  <2>1. [exec |-> TRUE, event |-> p] \in Item
    BY DEF Item
  <2> QED
    BY <1>1, <1>2, <1>a, <2>1, EmitType DEF Exec, probes
<1>3. ASSUME NEW p \in Procs, Load(p) \/ Exit(p) PROVE TInv'
  BY <1>1, <1>3, <1>a DEF Load, Exit, probes
<1>4. ASSUME NEW p \in Procs, NEW cb \in Callbacks, UseVerbs(p, cb) PROVE TInv'
  <2>1. [exec |-> FALSE, event |-> [proc |-> p, kind |-> cb.kind, offset |-> cb.offset]] \in Item
    BY DEF Item, Events
  <2> QED
    BY <1>1, <1>4, <1>a, <2>1, EmitType DEF UseVerbs, probes
<1>5. CASE StartScan
  <2> DEFINE x == [Resting("Scan") EXCEPT !.todo = {p \in Procs : Alive(p)}]
  <2>1. x \in Actor /\ Fits(x)
    BY InAts DEF Resting, Actor, Fits
  <2> QED
    BY <1>5, <1>a, <2>1, ActorStep DEF StartScan, probes
<1>6. CASE ScanTgid
  <2> DEFINE x == [Resting("Scan") EXCEPT !.todo = {actor["consumer"].proc}]
  <2>1. actor["consumer"].proc \in Procs
    BY <1>6 DEF ScanTgid, At, TInv, Holds
  <2>2. x \in Actor /\ Fits(x)
    BY <2>1, InAts DEF Resting, Actor, Fits
  <2> QED
    BY <1>6, <1>a, <2>2, ActorStep DEF ScanTgid, probes
<1>7. ASSUME NEW a \in Actors, NEW p \in Procs, ScanProcess(a, p) PROVE TInv'
  <2>1. PICK at \in {"Bootstrap", "Replay"} :
          actor' = [actor EXCEPT ![a].todo = @ \ {p}, ![a].proc = p, ![a].at = at]
    BY <1>7 DEF ScanProcess
  <2> DEFINE x == [actor[a] EXCEPT !.todo = @ \ {p}, !.proc = p, !.at = at]
  <2>2. x \in Actor
    BY <1>b, InAts, ActorType
  <2>3. Fits(x)
    BY <1>b DEF Actor, Fits
  <2>4. actor' = [actor EXCEPT ![a] = x]
    BY <2>1, <1>a
  <2> HIDE DEF x
  <2> QED
    BY <1>7, <1>a, <2>2, <2>3, <2>4, ActorStep DEF ScanProcess
<1>8. ASSUME NEW a \in Actors, AttachBootstrap(a) PROVE TInv'
  <2> DEFINE x == [actor[a] EXCEPT !.at = "Replay"]
  <2>1. actor' = [actor EXCEPT ![a] = x] /\ ring' = ring
    BY <1>8 DEF AttachBootstrap, Go
  <2>2. bootProbes' \in [VerbsFiles -> Nat]
    BY <1>8, <1>a, SMT DEF AttachBootstrap
  <2>3. x \in Actor
    BY <1>b, InAts, ActorType
  <2>4. Fits(x)
    BY <1>b DEF Fits, Actor
  <2> QED
    BY <1>a, <2>1, <2>2, <2>3, <2>4, ActorStep
<1>9. ASSUME NEW a \in Actors, ReplayCachedCallbacks(a) PROVE TInv'
  <2> DEFINE x == [actor[a] EXCEPT !.at = "Scan", !.proc = None]
  <2>1. actor' = [actor EXCEPT ![a] = x] /\ UNCHANGED <<ring, bootProbes>>
    BY <1>9, <1>a DEF ReplayCachedCallbacks
  <2>2. x \in Actor
    BY <1>b, InAts, ActorType
  <2>3. Fits(x)
    BY <1>b DEF Fits, Actor
  <2> QED
    BY <1>a, <2>1, <2>2, <2>3, ActorStep
<1>10. CASE RetryPending
  <2>1. PICK E \in SUBSET Events : actor' = [actor EXCEPT !["main"] = [Resting("Retry") EXCEPT !.retry = E]]
    BY <1>10 DEF RetryPending
  <2> DEFINE x == [Resting("Retry") EXCEPT !.retry = E]
  <2>2. x \in Actor /\ Fits(x)
    BY InAts DEF Resting, Actor, Fits
  <2> QED
    BY <1>10, <1>a, <2>1, <2>2, ActorStep DEF RetryPending, probes
<1>11. CASE Retry
  <2>1. PICK e \in actor["main"].retry :
          actor' = [actor EXCEPT !["main"].at = "Attach", !["main"].event = e, !["main"].retry = @ \ {e}]
    BY <1>11 DEF Retry
  <2> DEFINE x == [actor["main"] EXCEPT !.at = "Attach", !.event = e, !.retry = @ \ {e}]
  <2>2. e \in Events
    BY <1>b, <2>1 DEF Actor
  <2>3. x \in Actor
    BY <1>b, <2>2, InAts, ActorType
  <2>4. Fits(x)
    BY <1>b, <2>2 DEF Fits, Actor
  <2>5. actor' = [actor EXCEPT !["main"] = x]
    BY <2>1, <1>a
  <2> HIDE DEF x
  <2> QED
    BY <1>11, <1>a, <2>3, <2>4, <2>5, ActorStep DEF Retry, probes
<1>12. ASSUME NEW a \in Actors, EndScan(a) PROVE TInv'
  <2> DEFINE x == Resting(IF a = "main" THEN "Idle" ELSE "Read")
  <2>1. x \in Actor /\ Fits(x)
    BY InAts DEF Resting, Actor, Fits
  <2>2. actor' = [actor EXCEPT ![a] = x]
    BY <1>12 DEF EndScan
  <2> HIDE DEF x
  <2> QED
    BY <1>12, <1>a, <2>1, <2>2, ActorStep DEF EndScan, probes
<1>13. CASE Read
  <2>1. ring # << >> /\ ring' = Tail(ring) /\ Head(ring) \in Item /\ ring' \in Seq(Item)
    BY <1>13, <1>a, SMT DEF Read
  <2>2. CASE Head(ring).exec
    <3> DEFINE x == [actor["consumer"] EXCEPT !.at = "Lock", !.proc = Head(ring).event]
    <3>1. Head(ring).event \in Procs
      BY <2>1, <2>2 DEF Item
    <3>2. actor' = [actor EXCEPT !["consumer"] = x]
      BY <1>13, <1>a, <2>2 DEF Read
    <3>3. x \in Actor
      BY <1>b, <3>1, InAts, ActorType
    <3>4. Fits(x)
      BY <1>b, <3>1 DEF Fits, Actor
    <3> HIDE DEF x
    <3> QED
      BY <1>13, <1>a, <2>1, <3>2, <3>3, <3>4, ActorStep DEF Read, probes
  <2>3. CASE ~Head(ring).exec
    <3> DEFINE x == [actor["consumer"] EXCEPT !.at = "Attach", !.event = Head(ring).event]
    <3>1. Head(ring).event \in Events
      BY <2>1, <2>3 DEF Item
    <3>2. actor' = [actor EXCEPT !["consumer"] = x]
      BY <1>13, <1>a, <2>3 DEF Read
    <3>3. x \in Actor
      BY <1>b, <3>1, InAts, ActorType
    <3>4. Fits(x)
      BY <1>b, <3>1 DEF Fits, Actor
    <3> HIDE DEF x
    <3> QED
      BY <1>13, <1>a, <2>1, <3>2, <3>3, <3>4, ActorStep DEF Read, probes
  <2> QED
    BY <2>2, <2>3
<1>14. ASSUME NEW a \in Actors, Handle(a) PROVE TInv'
  <2>1. /\ UNCHANGED <<ring, bootProbes>> /\ Handling(a)
        /\ \/ \E at \in {"Forget", "Fail", "Remember", "Persist"} : Go(a, at)
           \/ Done(a)
    BY <1>14 DEF Handle, AttachCallback, Fail, Forget, RememberOffset, Persist, At, Handling, probes
  <2>2. ASSUME NEW at \in {"Forget", "Fail", "Remember", "Persist"}, Go(a, at) PROVE TInv'
    <3> DEFINE x == [actor[a] EXCEPT !.at = at]
    <3>1. x \in Actor /\ actor' = [actor EXCEPT ![a] = x]
      BY <1>b, <2>2, InAts, ActorType DEF Go
    <3>2. Fits(x)
      BY <1>b, <2>1 DEF Fits, Actor, TInv, Holds, Handling
    <3> HIDE DEF x
    <3> QED
      BY <1>a, <2>1, <3>1, <3>2, ActorStep
  <2>3. CASE Done(a)
    <3> DEFINE y == IF a = "main" THEN "Retry" ELSE "Read"
               x == [actor[a] EXCEPT !.at = y, !.event = None]
    <3>1. y \in Ats /\ y \in {"Retry", "Read"} /\ actor' = [actor EXCEPT ![a] = x]
      BY <1>a, <2>3, InAts DEF Done
    <3> HIDE DEF y
    <3>2. x \in Actor
      BY <1>b, <3>1, ActorType
    <3>3. Fits(x)
      BY <1>b, <3>1 DEF Fits, Actor
    <3> HIDE DEF x
    <3> QED
      BY <1>a, <2>1, <3>1, <3>2, <3>3, ActorStep
  <2> QED
    BY <2>1, <2>2, <2>3
<1>15. CASE Stop
  <2> DEFINE x == [actor["main"] EXCEPT !.at = "Stopping"]
  <2>1. actor' = [actor EXCEPT !["main"] = x] /\ UNCHANGED <<ring, bootProbes>>
    BY <1>15 DEF Stop, Go, probes
  <2>2. x \in Actor
    BY <1>b, InAts, ActorType
  <2>3. Fits(x)
    BY <1>b DEF Fits, Actor
  <2> HIDE DEF x
  <2> QED
    BY <1>a, <2>1, <2>2, <2>3, ActorStep
<1>16. CASE ShutDown \/ Crash
  <2>1. Resting("Down") \in Actor /\ Resting("Read") \in Actor /\ NoProbes \in [VerbsFiles -> Nat]
    BY RestingType, InAts DEF NoProbes
  <2>2. ring' \in Seq(Item) /\ bootProbes' \in [VerbsFiles -> Nat]
    <3>1. ring' = << >> /\ bootProbes' = NoProbes
      BY <1>16 DEF ShutDown, Crash, LoseState
    <3>2. << >> \in Seq(Item)
      BY SMT
    <3> QED
      BY <2>1, <3>1, <3>2
  <2>3. CASE ShutDown
    <3>1. Fits(Resting("Down")) /\ actor' = [actor EXCEPT !["main"] = Resting("Down")]
      BY <2>3 DEF ShutDown, Fits, Resting
    <3> QED
      BY <1>a, <2>1, <2>2, <3>1, ActorStep
  <2>4. CASE Crash
    <3>1. actor' \in [Actors -> Actor]
      BY <2>1, <2>4 DEF Crash
    <3>2. \A a \in Actors : actor'[a].at \in {"Down", "Read"}
      BY <2>4 DEF Crash, Resting
    <3> QED
      BY <2>1, <2>2, <3>1, <3>2 DEF TInv, Types, Holds, Handling
  <2> QED
    BY <1>16, <2>3, <2>4
<1>17. CASE Restart
  <2>1. Resting("Idle") \in Actor /\ Fits(Resting("Idle"))
    BY RestingType, InAts DEF Fits, Resting
  <2> QED
    BY <1>17, <1>a, <2>1, ActorStep DEF Restart, probes
<1>18. CASE UNCHANGED vars
  BY <1>1, <1>18, <1>a DEF vars, probes
<1> QED
  BY <1>2, <1>3, <1>4, <1>5, <1>6, <1>7, <1>8, <1>9, <1>10, <1>11, <1>12, <1>13, <1>14, <1>15, <1>16,
     <1>17, <1>18
  DEF Next, MainStep, ConsumerStep, Workload, Scan

-----------------------------------------------------------------------------
(* scanMu, and the probes of a verbs library                               *)

OInv == MutualExclusion /\ Once

LEMMA OInit == Init => OInv
  BY SMT DEF Init, OInv, MutualExclusion, Once, EachProbeOnce, NoProbes, Scanning, Handling, Resting

LEMMA OStep == TInv /\ OInv /\ [Next]_vars => OInv'
<1> SUFFICES ASSUME TInv, OInv, [Next]_vars PROVE OInv'
  OBVIOUS
<1>a. actor \in [Actors -> Actor] /\ \A a \in Actors : actor[a] \in Actor
  BY DEF TInv, Types
<1> USE DEF OInv
<1>1. ASSUME UNCHANGED <<actor, scanMu, bootProbes, bootstrapLinks>> PROVE OInv'
  BY <1>1 DEF MutualExclusion, Once, EachProbeOnce, Scanning, Handling
<1>2. CASE Workload
  BY <1>1, <1>2 DEF Workload, Exec, Load, Exit, UseVerbs, probes
<1>3. CASE StartScan
  BY <1>3, <1>a DEF StartScan, probes, MutualExclusion, Once, EachProbeOnce, Scanning, Handling, Resting, At
<1>4. CASE ScanTgid
  BY <1>4, <1>a DEF ScanTgid, probes, MutualExclusion, Once, EachProbeOnce, Scanning, Handling, Resting, At
<1>5. ASSUME NEW a \in Actors, NEW p \in Procs, ScanProcess(a, p) PROVE OInv'
  <2>1. PICK at \in {"Bootstrap", "Replay"} :
          actor' = [actor EXCEPT ![a].todo = @ \ {p}, ![a].proc = p, ![a].at = at]
    BY <1>5 DEF ScanProcess
  <2>2. /\ actor[a].at = "Scan" /\ actor'[a].at \in {"Bootstrap", "Replay"} /\ actor'[a].proc = p
        /\ \A b \in Actors \ {a} : actor'[b] = actor[b]
    BY <1>5, <1>a, <2>1, SMT DEF ScanProcess, At, Actor
  <2>3. actor'[a].at = "Bootstrap" => Verbs[p] \notin bootstrapLinks
    BY <1>5, <1>a DEF ScanProcess, Actor
  <2>4. UNCHANGED <<scanMu, bootProbes, bootstrapLinks>>
    BY <1>5 DEF ScanProcess
  <2>5. MutualExclusion'
    BY <2>2, <2>4 DEF MutualExclusion, Scanning, Handling
  <2>6. Once'
    BY <2>2, <2>3, <2>4 DEF Once, EachProbeOnce
  <2> QED
    BY <2>5, <2>6
<1>6. ASSUME NEW a \in Actors, AttachBootstrap(a) PROVE OInv'
  <2> DEFINE v == Verbs[actor[a].proc]
  <2>1. actor[a].at = "Bootstrap" /\ scanMu = a /\ v \in VerbsFiles /\ v \notin bootstrapLinks
    BY <1>6 DEF AttachBootstrap, At, MutualExclusion, Once, Scanning
  <2>2. /\ actor'[a].at = "Replay" /\ scanMu' = scanMu
        /\ \A b \in Actors \ {a} : actor'[b] = actor[b]
    BY <1>6, <1>a DEF AttachBootstrap, Go, Actor
  <2>3. MutualExclusion'
    BY <2>1, <2>2 DEF MutualExclusion, Scanning, Handling
  <2>4. \A b \in Actors : actor'[b].at # "Bootstrap"
    BY <2>1, <2>2 DEF MutualExclusion, Scanning
  <2>5. EachProbeOnce'
    <3>1. CASE UNCHANGED <<bootProbes, bootstrapLinks>>
      BY <3>1 DEF Once, EachProbeOnce
    <3>2. CASE bootProbes' = [bootProbes EXCEPT ![v] = @ + 1] /\ bootstrapLinks' = bootstrapLinks \cup {v}
      <4> HIDE DEF v
      <4> QED
        BY <2>1, <3>2, SMT DEF Once, EachProbeOnce, TInv, Types
    <3> QED
      BY <1>6, <3>1, <3>2 DEF AttachBootstrap
  <2> QED
    BY <2>3, <2>4, <2>5 DEF Once
<1>7. ASSUME NEW a \in Actors, ReplayCachedCallbacks(a) PROVE OInv'
  <2>1. /\ actor[a].at = "Replay" /\ actor'[a].at = "Scan"
        /\ \A b \in Actors \ {a} : actor'[b] = actor[b]
    BY <1>7, <1>a DEF ReplayCachedCallbacks, At, Actor
  <2>2. UNCHANGED <<scanMu, bootProbes, bootstrapLinks>>
    BY <1>7 DEF ReplayCachedCallbacks
  <2> QED
    BY <2>1, <2>2 DEF MutualExclusion, Scanning, Handling, Once, EachProbeOnce
<1>8. CASE RetryPending
  <2>1. actor["main"].at = "Scan" /\ actor'["main"].at = "Retry" /\ actor'["consumer"] = actor["consumer"]
    BY <1>8, <1>a DEF RetryPending, At, Resting
  <2>2. UNCHANGED <<scanMu, bootProbes, bootstrapLinks>>
    BY <1>8 DEF RetryPending, probes
  <2> QED
    BY <2>1, <2>2 DEF MutualExclusion, Scanning, Handling, Once, EachProbeOnce
<1>9. CASE Retry
  <2>1. actor["main"].at = "Retry" /\ actor'["main"].at = "Attach" /\ actor'["consumer"] = actor["consumer"]
    BY <1>9, <1>a, SMT DEF Retry, At, Actor
  <2>2. UNCHANGED <<scanMu, bootProbes, bootstrapLinks>>
    BY <1>9 DEF Retry, probes
  <2> QED
    BY <2>1, <2>2 DEF MutualExclusion, Scanning, Handling, Once, EachProbeOnce
<1>10. ASSUME NEW a \in Actors, EndScan(a) PROVE OInv'
  <2>1. Scanning(a) /\ scanMu = a
    BY <1>10 DEF EndScan, At, Scanning, MutualExclusion
  <2>2. \A b \in Actors \ {a} : actor'[b] = actor[b] /\ ~Scanning(b)
    BY <1>10, <1>a, <2>1 DEF EndScan, MutualExclusion
  <2>3. actor'[a].at \in {"Idle", "Read"}
    BY <1>10, <1>a DEF EndScan, Resting
  <2>4. UNCHANGED <<bootProbes, bootstrapLinks>>
    BY <1>10 DEF EndScan, probes
  <2> QED
    BY <2>2, <2>3, <2>4 DEF MutualExclusion, Scanning, Handling, Once, EachProbeOnce
<1>11. CASE Read
  <2>1. /\ actor["consumer"].at = "Read" /\ actor'["consumer"].at \in {"Lock", "Attach"}
        /\ actor'["main"] = actor["main"]
    BY <1>11, <1>a, SMT DEF Read, At, Actor
  <2>2. UNCHANGED <<scanMu, bootProbes, bootstrapLinks>>
    BY <1>11 DEF Read, probes
  <2> QED
    BY <2>1, <2>2 DEF MutualExclusion, Scanning, Handling, Once, EachProbeOnce
<1>12. ASSUME NEW a \in Actors, Handle(a) PROVE OInv'
  <2>1. /\ UNCHANGED <<scanMu, bootProbes, bootstrapLinks>> /\ Handling(a)
        /\ \/ \E at \in {"Forget", "Fail", "Remember", "Persist"} : Go(a, at)
           \/ Done(a)
    BY <1>12 DEF Handle, AttachCallback, Fail, Forget, RememberOffset, Persist, At, Handling, probes
  <2>2. /\ \A b \in Actors \ {a} : actor'[b] = actor[b]
        /\ \/ actor'[a].at \in {"Forget", "Fail", "Remember", "Persist"}
           \/ actor'[a].at = IF a = "main" THEN "Retry" ELSE "Read"
    BY <1>a, <2>1 DEF Go, Done, Actor
  <2> QED
    BY <2>1, <2>2 DEF MutualExclusion, Scanning, Handling, Once, EachProbeOnce
<1>13. CASE Stop
  <2>1. actor'["main"].at = "Stopping" /\ actor'["consumer"] = actor["consumer"]
    BY <1>13, <1>a DEF Stop, Go, Actor
  <2>2. UNCHANGED <<scanMu, bootProbes, bootstrapLinks>>
    BY <1>13 DEF Stop, probes
  <2> QED
    BY <2>1, <2>2 DEF MutualExclusion, Scanning, Handling, Once, EachProbeOnce
<1>14. CASE ShutDown \/ Crash
  <2>1. bootProbes' = NoProbes /\ bootstrapLinks' = {}
    BY <1>14 DEF ShutDown, Crash, LoseState
  <2>2. \A a \in Actors : actor'[a].at \in {"Down", "Read"}
    BY <1>14, <1>a, SMT DEF ShutDown, Crash, Resting, At
  <2> QED
    BY <2>1, <2>2 DEF MutualExclusion, Scanning, Handling, Once, EachProbeOnce, NoProbes
<1>15. CASE Restart
  <2>1. actor'["main"].at = "Idle" /\ actor'["consumer"] = actor["consumer"]
    BY <1>15, <1>a DEF Restart, Resting
  <2>2. UNCHANGED <<scanMu, bootProbes, bootstrapLinks>>
    BY <1>15 DEF Restart, probes
  <2> QED
    BY <2>1, <2>2 DEF MutualExclusion, Scanning, Handling, Once, EachProbeOnce
<1>16. CASE UNCHANGED vars
  BY <1>1, <1>16 DEF vars, probes
<1> QED
  BY <1>2, <1>3, <1>4, <1>5, <1>6, <1>7, <1>8, <1>9, <1>10, <1>11, <1>12, <1>13, <1>14, <1>15, <1>16
  DEF Next, MainStep, ConsumerStep, Scan

-----------------------------------------------------------------------------
(* The offset cache and its file                                           *)

Entry == [Contents \X Kinds -> Offsets \cup {None}]

DInv ==
  /\ entries \in Entry /\ disk \in Entry
  /\ ~blank => \A ck \in Contents \X Kinds : disk[ck] # None => entries[ck] # None

LEMMA DInit == Init => DInv
  BY DEF Init, DInv, Entry, NoEntries

LEMMA RememberStep ==
  ASSUME TInv, DInv, NEW a \in Actors, RememberOffset(a)
  PROVE  entries' \in Entry /\ \A ck \in Contents \X Kinds : entries[ck] # None => entries'[ck] # None
<1> DEFINE k == KeyOf(actor[a].event)
           ck == <<Content[k.file], k.kind>>
<1>1. actor[a].event \in Events
  BY DEF RememberOffset, At, TInv, Holds, Handling
<1>2. k.file \in Files /\ k.kind \in Kinds /\ k.offset \in Offsets
  BY <1>1 DEF KeyOf, Events
<1>3. ck \in Contents \X Kinds
  BY <1>2
<1>4. entries' = entries \/ entries' = [entries EXCEPT ![ck] = k.offset]
  BY DEF RememberOffset
<1> HIDE DEF k, ck
<1> QED
  BY <1>2, <1>3, <1>4 DEF DInv, Entry

LEMMA DStep == TInv /\ DInv /\ [Next]_vars => DInv'
<1> SUFFICES ASSUME TInv, DInv, [Next]_vars PROVE DInv'
  OBVIOUS
<1>1. ASSUME NEW a \in Actors, RememberOffset(a) PROVE DInv'
  <2>1. disk' = disk /\ blank' = blank
    BY <1>1 DEF RememberOffset
  <2> QED
    BY <1>1, <2>1, RememberStep DEF DInv
<1>2. ASSUME NEW a \in Actors, Persist(a) PROVE DInv'
  <2>1. entries' = entries /\ blank' = blank /\ (disk' = entries \/ disk' = disk)
    BY <1>2 DEF Persist
  <2> QED
    BY <2>1 DEF DInv
<1>3. CASE Restart
  <2>1. CASE entries' = disk /\ disk' = disk
    BY <2>1 DEF DInv
  <2>2. CASE entries' = NoEntries /\ blank' = TRUE /\ disk' = disk
    <3>1. NoEntries \in Entry
      BY DEF NoEntries, Entry
    <3> QED
      BY <2>2, <3>1 DEF DInv
  <2> QED
    BY <1>3, <2>1, <2>2 DEF Restart
<1>4. CASE UNCHANGED cache
  BY <1>4 DEF cache, DInv
<1>5. ASSUME NEW a \in Actors, AttachCallback(a) \/ Fail(a) \/ Forget(a) PROVE UNCHANGED cache
  BY <1>5 DEF AttachCallback, Fail, Forget
<1>6. ASSUME NEW a \in Actors, Scan(a) PROVE UNCHANGED cache
  BY <1>6 DEF Scan, ScanProcess, AttachBootstrap, ReplayCachedCallbacks, EndScan
<1>7. CASE \/ StartScan \/ RetryPending \/ Retry \/ ShutDown \/ Read \/ ScanTgid \/ Workload
           \/ Stop \/ Crash \/ UNCHANGED vars
  BY <1>4, <1>7 DEF StartScan, RetryPending, Retry, ShutDown, Read, ScanTgid, Workload, Exec, Load, Exit,
                    UseVerbs, Stop, Crash, vars
<1> QED
  BY <1>1, <1>2, <1>3, <1>4, <1>5, <1>6, <1>7 DEF Next, MainStep, ConsumerStep, Handle

-----------------------------------------------------------------------------
(* The theorems                                                            *)

LEMMA Inductive == Spec => [](TInv /\ OInv /\ DInv)
<1>1. Init => TInv /\ OInv /\ DInv
  BY TInit, OInit, DInit
<1>2. (TInv /\ OInv /\ DInv) /\ [Next]_vars => (TInv /\ OInv /\ DInv)'
  BY TStep, OStep, DStep
<1> QED
  BY <1>1, <1>2, PTL DEF Spec

\* scan and scanTgid: their critical sections, including the retries of the main
\* loop, exclude each other.
THEOREM ScansExclude == Spec => []MutualExclusion
  BY Inductive, PTL DEF OInv

\* attachBootstrapOnce: the probes of a verbs library are attached at most once,
\* and exactly while the attacher knows the library, through every interleaving
\* of the two goroutines, and through crashes.
THEOREM ProbesAttachedOnce == Spec => []EachProbeOnce
<1>1. OInv => EachProbeOnce
  BY DEF OInv, Once
<1> QED
  BY <1>1, Inductive, PTL

\* offsets.go: a life of the agent that could read its cache file never takes an
\* offset's entry off the disk.
THEOREM FileKeepsOffsets == Spec => DiskKeeps
<1>1. DInv /\ [Next]_vars =>
        [~blank => \A ck \in DOMAIN disk : disk[ck] # None => disk'[ck] # None]_vars
  <2> SUFFICES ASSUME DInv, [Next]_vars, ~blank, NEW ck \in DOMAIN disk, disk[ck] # None
               PROVE  disk'[ck] # None
    OBVIOUS
  <2>1. ck \in Contents \X Kinds
    BY DEF DInv, Entry
  <2>2. disk' = disk \/ disk' = entries
    BY DEF Next, MainStep, ConsumerStep, Handle, Scan, Persist, RememberOffset, AttachCallback, Fail, Forget,
           ScanProcess, AttachBootstrap, ReplayCachedCallbacks, EndScan, StartScan, RetryPending, Retry,
           ShutDown, Read, ScanTgid, Workload, Exec, Load, Exit, UseVerbs, Stop, Crash, Restart, vars, cache
  <2> QED
    BY <2>1, <2>2 DEF DInv
<1> QED
  BY <1>1, Inductive, PTL DEF Spec, DiskKeeps
=============================================================================
