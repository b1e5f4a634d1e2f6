---------------------- MODULE FabricNodeTopologyProofs ----------------------
(***************************************************************************)
(* Proofs about the two writers of a FabricNode, for any hosts, labels,    *)
(* lag of the informers and faults.                                        *)
(*                                                                         *)
(* The agent sends a whole status back, so its copy must hold the stored   *)
(* memberships whenever its write is accepted (Held).  The copy comes from *)
(* a cache that lags; what makes it right is that the last version an      *)
(* informer has still to see is the stored one (Tracks), so that a cache   *)
(* with nothing left to see is up to date.                                 *)
(***************************************************************************)
EXTENDS FabricNodeTopology, TLAPS

Full(o) == "owner" \in DOMAIN o /\ "status" \in DOMAIN o /\ "topologies" \in DOMAIN o.status
Shape(o) == o = None \/ Full(o)

Tracks(w, c, o) ==
  \E S : /\ w \in Seq(S) /\ \A x \in S : Shape(x)
         /\ IF w = <<>> THEN c = o ELSE w[Len(w)] = o

Busy == agent.at \in {"Own", "Create", "Backfill", "Collect", "Update"}

Types ==
  /\ DOMAIN cache = Actors /\ DOMAIN watch = Actors /\ DOMAIN fresh = Actors
  /\ Shape(object) /\ Shape(cache["agent"])
  /\ agent = [at |-> agent.at, copy |-> agent.copy, exists |-> agent.exists, started |-> agent.started]
  /\ Busy => Full(agent.copy)

Held ==
  Busy /\ fresh["agent"] /\ object # None => agent.copy.status.topologies = object.status.topologies

Heard == Running => Tracks(watch["agent"], cache["agent"], object)

IInv == Types /\ Held /\ Heard

USE ActorsAssumption

LEMMA TracksNothing == ASSUME NEW o PROVE Tracks(<<>>, o, o)
<1> DEFINE E == {}
<1>1. << >> \in Seq(E) /\ \A x \in E : Shape(x)
  OBVIOUS
<1> HIDE DEF E
<1>2. \E S : << >> \in Seq(S) /\ \A x \in S : Shape(x)
  BY <1>1, Zenon
<1> QED
  BY <1>2, Zenon DEF Tracks

LEMMA TracksAppend ==
  ASSUME NEW w, NEW c, NEW o, Tracks(w, c, o), NEW n, Shape(n)
  PROVE  Tracks(Append(w, n), c, n)
<1>1. PICK S : w \in Seq(S) /\ \A x \in S : Shape(x)
  BY DEF Tracks
<1>2. Append(w, n) \in Seq(S \cup {n}) /\ \A x \in S \cup {n} : Shape(x)
  BY <1>1
<1>3. Len(Append(w, n)) = Len(w) + 1 /\ Len(w) \in Nat /\ Append(w, n)[Len(w) + 1] = n
  BY <1>1
<1>4. Append(w, n) # <<>>
  <2> SUFFICES ASSUME Append(w, n) = <<>> PROVE FALSE
    OBVIOUS
  <2>1. Len(Append(w, n)) = 0
    OBVIOUS
  <2> QED
    BY <1>3, <2>1
<1> QED
  BY <1>2, <1>3, <1>4 DEF Tracks

LEMMA TracksTail ==
  ASSUME NEW w, NEW c, NEW o, Tracks(w, c, o), w # <<>>
  PROVE  Shape(Head(w)) /\ Tracks(Tail(w), Head(w), o)
<1>1. PICK S : w \in Seq(S) /\ (\A x \in S : Shape(x)) /\ w[Len(w)] = o
  BY DEF Tracks
<1>2. Head(w) \in S /\ Tail(w) \in Seq(S) /\ Len(Tail(w)) = Len(w) - 1 /\ Len(w) \in Nat \ {0}
  BY <1>1
<1>3. Tail(w) = <<>> => Head(w) = o
  <2> SUFFICES ASSUME Tail(w) = <<>> PROVE Head(w) = o
    OBVIOUS
  <2>1. Len(<< >>) = 0
    OBVIOUS
  <2>3. Len(Tail(w)) = 0
    BY <2>1, Zenon
  <2>2. Len(w) = 1
    BY <1>2, <2>3
  <2> QED
    BY <1>1, <2>2
<1>4. Tail(w) # <<>> => Tail(w)[Len(Tail(w))] = o
  BY <1>1, <1>2
<1> QED
  BY <1>1, <1>2, <1>3, <1>4 DEF Tracks

(* What an accepted write leaves: every running informer will hear of it.  *)
LEMMA StoreKeeps ==
  ASSUME IInv, NEW a, NEW o, Shape(o), Store(a, o), Running' => Running
  PROVE  /\ DOMAIN cache' = Actors /\ DOMAIN watch' = Actors /\ DOMAIN fresh' = Actors
         /\ Shape(object') /\ Shape(cache'["agent"]) /\ Heard'
         /\ object' = o /\ fresh'["agent"] = ("agent" = a)
<1>1. /\ DOMAIN cache' = Actors /\ DOMAIN watch' = Actors /\ DOMAIN fresh' = Actors /\ cache' = cache
      /\ object' = o /\ fresh'["agent"] = ("agent" = a)
  BY DEF Store, IInv, Types
<1>2. ASSUME Running' PROVE Tracks(watch'["agent"], cache'["agent"], object')
  <2>1. watch'["agent"] = Append(watch["agent"], o)
    BY <1>2 DEF Store
  <2>2. Tracks(watch["agent"], cache["agent"], object)
    BY <1>2 DEF IInv, Heard
  <2> QED
    BY <1>1, <2>1, <2>2, TracksAppend
<1>3. Shape(cache'["agent"]) /\ Shape(object')
  BY <1>1 DEF IInv, Types
<1> QED
  BY <1>1, <1>2, <1>3 DEF Heard

(* Steps that leave the API server's side alone.                           *)
LEMMA ApiUnchanged ==
  ASSUME IInv, UNCHANGED api, Running' => Running
  PROVE  /\ DOMAIN cache' = Actors /\ DOMAIN watch' = Actors /\ DOMAIN fresh' = Actors
         /\ Shape(object') /\ Shape(cache'["agent"]) /\ Heard'
  BY DEF api, IInv, Types, Heard

(* The agent's copy of the status keeps the memberships.                   *)
LEMMA ObserveKeeps ==
  ASSUME NEW s, "topologies" \in DOMAIN s, NEW st, NEW h, NEW ps, NEW storage
  PROVE  /\ "topologies" \in DOMAIN Observe(s, st, h, ps, storage)
         /\ Observe(s, st, h, ps, storage).topologies = s.topologies
<1> DEFINE f == IF st THEN UpdateTopologyStatus(h, s) ELSE s
<1>1. "topologies" \in DOMAIN f /\ f.topologies = s.topologies
  BY DEF UpdateTopologyStatus
<1> DEFINE w == IF storage THEN f ELSE [f EXCEPT !.pods = ps]
<1> HIDE DEF f
<1>2. "topologies" \in DOMAIN w /\ w.topologies = s.topologies
  BY <1>1
<1> HIDE DEF w
<1>3. Observe(s, st, h, ps, storage) = [w EXCEPT !.role = IF storage THEN "Storage" ELSE "GPU", !.ready = Ready(f)]
  BY DEF Observe, w, f
<1> QED
  BY <1>2, <1>3

LEMMA InitInv == Init => IInv
<1> SUFFICES ASSUME Init PROVE IInv
  OBVIOUS
<1>1. ~Busy /\ ~Running
  BY DEF Init, AgentInit, Stopped, Busy, Running
<1>2. Types
  BY <1>1 DEF Init, AgentInit, Stopped, Types, Shape
<1> QED
  BY <1>1, <1>2 DEF IInv, Held, Heard

(* The agent's steps that leave the API server's side alone.               *)
LEMMA LocalStep ==
  ASSUME IInv, UNCHANGED api,
         \/ Tick \/ TakeSignal \/ InitialScanDelayOver \/ EnsureNodeOwnerReference \/ Refused
         \/ CallFails \/ Collect \/ UNCHANGED agent
  PROVE  IInv'
<1>1. agent = [at |-> agent.at, copy |-> agent.copy, exists |-> agent.exists, started |-> agent.started]
  BY DEF IInv, Types
<1>2. CASE Tick \/ TakeSignal
  <2>1. agent' = [agent EXCEPT !.at = "Get"] /\ agent.at = "Idle"
    BY <1>2 DEF Tick, TakeSignal, Goto
  <2>2. ~Busy' /\ Running /\ Types'
    BY <1>1, <2>1, ApiUnchanged DEF Busy, Running, Types
  <2> QED
    BY <2>2, ApiUnchanged DEF IInv, Held
<1>3. CASE Refused \/ CallFails
  <2>1. agent' = [Stopped EXCEPT !.at = "Idle", !.started = agent.started] /\ Running
    BY <1>3 DEF Refused, CallFails, Return, Running
  <2>2. ~Busy' /\ Types'
    BY <2>1, ApiUnchanged DEF Busy, Types, Stopped
  <2> QED
    BY <2>1, <2>2, ApiUnchanged DEF IInv, Held
<1>4. CASE InitialScanDelayOver
  <2>1. agent' = [agent EXCEPT !.started = TRUE] /\ Running
    BY <1>4 DEF InitialScanDelayOver
  <2>2. agent'.at = agent.at /\ agent'.copy = agent.copy
    BY <1>1, <2>1
  <2>3. Types' /\ Held'
    BY <1>1, <2>1, <2>2, ApiUnchanged DEF Busy, Types, Held, IInv, api
  <2> QED
    BY <2>1, <2>3, ApiUnchanged DEF IInv
<1>5. CASE EnsureNodeOwnerReference
  <2>1. PICK o, p : /\ agent' = [agent EXCEPT !.copy.owner = o, !.at = p]
                    /\ p \in {"Create", "Backfill", "Collect"} /\ agent.at = "Own"
    BY <1>1, <1>5 DEF EnsureNodeOwnerReference
  <2>2. Busy /\ Full(agent.copy) /\ Running
    BY <2>1 DEF Busy, IInv, Types, Running
  <2>3. /\ agent' = [at |-> p, copy |-> [agent.copy EXCEPT !.owner = o], exists |-> agent.exists,
                     started |-> agent.started]
    BY <1>1, <2>1
  <2>4. Full([agent.copy EXCEPT !.owner = o]) /\ [agent.copy EXCEPT !.owner = o].status = agent.copy.status
    BY <2>2 DEF Full
  <2>5. Types' /\ Held'
    BY <2>2, <2>3, <2>4, ApiUnchanged DEF Types, Held, IInv, Busy, api
  <2> QED
    BY <2>2, <2>5, ApiUnchanged DEF IInv
<1>6. CASE Collect
  <2>1. CASE Observed = agent.copy.status
    <3>1. agent' = [Stopped EXCEPT !.at = "Idle", !.started = agent.started] /\ Running
      BY <1>6, <2>1 DEF Collect, Return, Running
    <3>2. ~Busy' /\ Types'
      BY <3>1, ApiUnchanged DEF Busy, Types, Stopped
    <3> QED
      BY <3>1, <3>2, ApiUnchanged DEF IInv, Held
  <2>2. CASE Observed # agent.copy.status
    <3>1. agent' = [agent EXCEPT !.at = "Update", !.copy.status = Observed] /\ agent.at = "Collect"
      BY <1>6, <2>2 DEF Collect
    <3>2. Busy /\ Full(agent.copy) /\ Running
      BY <3>1 DEF Busy, IInv, Types, Running
    <3>3. "topologies" \in DOMAIN Observed /\ Observed.topologies = agent.copy.status.topologies
      BY <3>2, ObserveKeeps DEF Observed, Full
    <3>4. agent' = [at |-> "Update", copy |-> [agent.copy EXCEPT !.status = Observed], exists |-> agent.exists,
                    started |-> agent.started]
      BY <1>1, <3>1
    <3>5. Full([agent.copy EXCEPT !.status = Observed]) /\ [agent.copy EXCEPT !.status = Observed].status = Observed
      BY <3>2, <3>3 DEF Full
    <3>6. Types' /\ Held'
      BY <3>2, <3>3, <3>4, <3>5, ApiUnchanged DEF Types, Held, IInv, Busy, api
    <3> QED
      BY <3>2, <3>6, ApiUnchanged DEF IInv
  <2> QED
    BY <2>1, <2>2
<1>7. CASE UNCHANGED agent
  <2>1. Types' /\ Held'
    BY <1>7, ApiUnchanged DEF Types, Held, IInv, Busy, api, Running
  <2> QED
    BY <1>7, <2>1, ApiUnchanged DEF IInv, Running
<1> QED
  BY <1>2, <1>3, <1>4, <1>5, <1>6, <1>7

(* The agent reads: a copy that is fresh is the stored object.             *)
LEMMA GetStep == ASSUME IInv, Get PROVE IInv'
<1>1. agent = [at |-> agent.at, copy |-> agent.copy, exists |-> agent.exists, started |-> agent.started]
  BY DEF IInv, Types
<1> DEFINE c == IF cache["agent"] # None THEN cache["agent"] ELSE [owner |-> None, status |-> NoStatus]
<1>2. /\ agent' = [agent EXCEPT !.at = "Own", !.exists = cache["agent"] # None, !.copy = c]
      /\ UNCHANGED <<object, cache, watch>> /\ fresh' = [fresh EXCEPT !["agent"] = watch["agent"] = <<>>]
      /\ agent.at = "Get"
  BY DEF Get, ReadCache
<1>3. Full(c)
  BY DEF IInv, Types, Shape, Full, NoStatus
<1>4. cache["agent"] # None => c = cache["agent"]
  OBVIOUS
<1> HIDE DEF c
<1>5. agent' = [at |-> "Own", copy |-> c, exists |-> cache["agent"] # None, started |-> agent.started]
  BY <1>1, <1>2
<1>6. Types'
  BY <1>2, <1>3, <1>5 DEF IInv, Types
<1>7. Tracks(watch["agent"], cache["agent"], object)
  BY <1>2 DEF IInv, Heard, Running
<1>8. Heard'
  BY <1>2, <1>7 DEF Heard
<1>9. watch["agent"] = <<>> => cache["agent"] = object
  BY <1>7 DEF Tracks
<1>10. Held'
  BY <1>2, <1>4, <1>5, <1>9 DEF Held, IInv, Types
<1> QED
  BY <1>6, <1>8, <1>10 DEF IInv

LEMMA WriteStep == ASSUME IInv, Create \/ Backfill \/ Update PROVE IInv'
<1>1. agent = [at |-> agent.at, copy |-> agent.copy, exists |-> agent.exists, started |-> agent.started]
  BY DEF IInv, Types
<1>2. Busy /\ Full(agent.copy) /\ Running
  BY DEF Create, Backfill, Update, Busy, IInv, Types, Running
<1>3. CASE Create
  <2>1. agent' = [agent EXCEPT !.at = "Collect"] /\ Store("agent", agent.copy) /\ Shape(agent.copy)
    BY <1>2, <1>3 DEF Create, Goto, Shape
  <2>2. agent'.copy = agent.copy /\ agent'.at = "Collect"
    BY <1>1, <2>1
  <2>3. object' = agent.copy /\ Types' /\ Heard'
    BY <1>1, <1>2, <2>1, <2>2, StoreKeeps DEF Types
  <2>4. Held'
    BY <2>2, <2>3 DEF Held
  <2> QED
    BY <2>3, <2>4 DEF IInv
<1>4. CASE Backfill
  <2> DEFINE o == [object EXCEPT !.owner = agent.copy.owner]
  <2>1. agent' = [agent EXCEPT !.at = "Collect"] /\ Store("agent", o) /\ object # None /\ fresh["agent"]
    BY <1>4 DEF Backfill, Goto
  <2>2. Full(o) /\ Shape(o) /\ o.status = object.status
    BY <2>1 DEF IInv, Types, Shape, Full
  <2> HIDE DEF o
  <2>3. agent'.copy = agent.copy /\ agent'.at = "Collect"
    BY <1>1, <2>1
  <2>4. object' = o /\ Types' /\ Heard'
    BY <1>1, <1>2, <2>1, <2>2, <2>3, StoreKeeps DEF Types
  <2>5. Held'
    BY <1>2, <2>1, <2>2, <2>3, <2>4 DEF Held, IInv
  <2> QED
    BY <2>4, <2>5 DEF IInv
<1>5. CASE Update
  <2> DEFINE o == [object EXCEPT !.status = agent.copy.status]
  <2>1. /\ agent' = [Stopped EXCEPT !.at = "Idle", !.started = agent.started]
        /\ Store("agent", o) /\ object # None
    BY <1>5 DEF Update, Return
  <2>2. Shape(o)
    BY <1>2, <2>1 DEF IInv, Types, Shape, Full
  <2> HIDE DEF o
  <2>3. ~Busy' /\ Types' /\ Heard'
    BY <1>2, <2>1, <2>2, StoreKeeps DEF Types, Busy, Stopped
  <2> QED
    BY <2>3 DEF IInv, Held
<1> QED
  BY <1>3, <1>4, <1>5

(* Start, end and information of the agent's process.                      *)
LEMMA ProcessStep ==
  ASSUME IInv, Start \/ Stop \/ Crash \/ CleanupStorageNodeFabricNode \/ InformAgent
  PROVE  IInv'
<1>1. agent = [at |-> agent.at, copy |-> agent.copy, exists |-> agent.exists, started |-> agent.started]
  BY DEF IInv, Types
<1>2. CASE Start
  <2>1. PICK at \in {"Get", "Idle"} : agent' = [Stopped EXCEPT !.at = at]
    BY <1>2 DEF Start
  <2>2. /\ cache' = [cache EXCEPT !["agent"] = object] /\ watch' = [watch EXCEPT !["agent"] = <<>>]
        /\ UNCHANGED <<object, fresh>>
    BY <1>2 DEF Start
  <2>3. cache'["agent"] = object /\ watch'["agent"] = <<>>
    BY <2>2 DEF IInv, Types
  <2>4. ~Busy' /\ Types'
    BY <2>1, <2>2, <2>3 DEF IInv, Types, Busy, Stopped
  <2>5. Heard'
    BY <2>2, <2>3, TracksNothing DEF Heard
  <2> QED
    BY <2>4, <2>5 DEF IInv, Held
<1>3. ASSUME Exit, Shape(object'), DOMAIN watch' = Actors, DOMAIN fresh' = Actors PROVE IInv'
  <2>1. agent' = Stopped /\ cache' = [cache EXCEPT !["agent"] = None]
    BY <1>3 DEF Exit
  <2>2. ~Busy' /\ ~Running' /\ Types'
    BY <1>3, <2>1 DEF IInv, Types, Busy, Stopped, Running, Shape
  <2> QED
    BY <2>2 DEF IInv, Held, Heard
<1>4. CASE Crash
  BY <1>3, <1>4 DEF Crash, IInv, Types
<1>5. CASE Stop
  <2>1. CASE storageNode
    <3>1. agent' = [agent EXCEPT !.at = "Cleanup"] /\ UNCHANGED api /\ Running
      BY <1>5, <2>1 DEF Stop, Goto, Running
    <3>2. ~Busy' /\ Types'
      BY <1>1, <3>1, ApiUnchanged DEF Types, Busy
    <3> QED
      BY <3>1, <3>2, ApiUnchanged DEF IInv, Held
  <2>2. CASE ~storageNode
    BY <1>3, <1>5, <2>2 DEF Stop, IInv, Types
  <2> QED
    BY <2>1, <2>2
<1>6. CASE CleanupStorageNodeFabricNode
  BY <1>3, <1>6 DEF CleanupStorageNodeFabricNode, IInv, Types, Shape
<1>7. CASE InformAgent
  <2>1. /\ cache' = [cache EXCEPT !["agent"] = Head(watch["agent"])]
        /\ watch' = [watch EXCEPT !["agent"] = Tail(watch["agent"])]
        /\ UNCHANGED <<object, fresh, agent>> /\ watch["agent"] # <<>> /\ Running
    BY <1>7 DEF InformAgent
  <2>2. Shape(Head(watch["agent"])) /\ Tracks(Tail(watch["agent"]), Head(watch["agent"]), object)
    BY <2>1, TracksTail DEF IInv, Heard
  <2>3. cache'["agent"] = Head(watch["agent"]) /\ watch'["agent"] = Tail(watch["agent"])
    BY <2>1 DEF IInv, Types
  <2>4. Types' /\ Held'
    BY <2>1, <2>2, <2>3 DEF IInv, Types, Busy, Held
  <2>5. Heard'
    BY <2>1, <2>2, <2>3 DEF Heard
  <2> QED
    BY <2>4, <2>5 DEF IInv
<1> QED
  BY <1>2, <1>4, <1>5, <1>6, <1>7

(* Writes of others end the agent's right to write.                        *)
LEMMA ForeignWrite ==
  ASSUME IInv, UserDelete \/ CollectGarbage \/ Patch
  PROVE  IInv'
<1>1. agent' = agent
  BY DEF UserDelete, CollectGarbage, Patch, agentVars
<1>2. CASE UserDelete \/ CollectGarbage
  <2>1. Store(None, None) /\ Shape(None)
    BY <1>2 DEF UserDelete, CollectGarbage, Shape
  <2>2. object' = None /\ Types' /\ Heard'
    BY <1>1, <2>1, StoreKeeps DEF IInv, Types, Busy, Running
  <2> QED
    BY <2>2 DEF IInv, Held
<1>3. CASE Patch
  <2> DEFINE o == [object EXCEPT !.status.topologies = ctl.desired]
  <2>1. Store("controller", o) /\ object # None
    BY <1>3 DEF Patch
  <2>2. Shape(o)
    BY <2>1 DEF IInv, Types, Shape, Full
  <2> HIDE DEF o
  <2>3. Types' /\ Heard'
    BY <1>1, <2>1, <2>2, StoreKeeps DEF IInv, Types, Busy, Running
  <2>4. ~fresh'["agent"]
    BY <2>1 DEF Store
  <2> QED
    BY <2>3, <2>4 DEF IInv, Held
<1> QED
  BY <1>2, <1>3

(* The controller's informer and its reads are its own.                    *)
LEMMA ControllerStep ==
  ASSUME IInv, InformController \/ RelistController \/ RestartController \/ Reconcile
  PROVE  IInv'
<1>1. UNCHANGED <<object, agent>>
  BY DEF InformController, RelistController, RestartController, Reconcile, ReadCache, agentVars
<1>2. /\ cache'["agent"] = cache["agent"] /\ watch'["agent"] = watch["agent"] /\ fresh'["agent"] = fresh["agent"]
      /\ DOMAIN cache' = Actors /\ DOMAIN watch' = Actors /\ DOMAIN fresh' = Actors
  BY DEF InformController, RelistController, RestartController, Reconcile, ReadCache, IInv, Types
<1>3. Types' /\ Held' /\ Heard'
  BY <1>1, <1>2 DEF IInv, Types, Held, Heard, Busy, Running
<1> QED
  BY <1>3 DEF IInv

LEMMA IInvStep == IInv /\ [Next]_vars => IInv'
<1> SUFFICES ASSUME IInv, [Next]_vars PROVE IInv'
  OBVIOUS
<1>1. CASE AgentNext
  <2>1. CASE \/ Tick \/ TakeSignal \/ InitialScanDelayOver \/ EnsureNodeOwnerReference \/ Refused
             \/ CallFails \/ Collect \/ InformAgentOfNode \/ ChangeHost \/ ChangePods
    <3>1. UNCHANGED api
      BY <2>1 DEF Tick, TakeSignal, InitialScanDelayOver, EnsureNodeOwnerReference, Refused, CallFails, Collect,
                  InformAgentOfNode, ChangeHost, ChangePods
    <3>2. InformAgentOfNode \/ ChangeHost \/ ChangePods => UNCHANGED agent
      BY DEF InformAgentOfNode, ChangeHost, ChangePods
    <3> QED
      BY <2>1, <3>1, <3>2, LocalStep
  <2>2. CASE Get
    BY <2>2, GetStep
  <2>3. CASE Create \/ Backfill \/ Update
    BY <2>3, WriteStep
  <2>4. CASE Start \/ Stop \/ Crash \/ CleanupStorageNodeFabricNode \/ InformAgent
    BY <2>4, ProcessStep
  <2>5. CASE UserDelete \/ CollectGarbage
    BY <2>5, ForeignWrite
  <2> QED
    BY <1>1, <2>1, <2>2, <2>3, <2>4, <2>5 DEF AgentNext, AgentStep
<1>2. CASE InformController \/ RelistController \/ RestartController \/ Reconcile
  BY <1>2, ControllerStep
<1>3. CASE Patch
  BY <1>3, ForeignWrite
<1>4. CASE ChangeNode \/ PatchRefused \/ PatchFails \/ UNCHANGED vars
  <2>1. UNCHANGED api /\ UNCHANGED agent
    BY <1>4 DEF ChangeNode, PatchRefused, PatchFails, vars, agentVars
  <2> QED
    BY <2>1, LocalStep
<1> QED
  BY <1>1, <1>2, <1>3, <1>4 DEF Next

(* The comment of fabricNodeTopologyReconciler ("the only writer of           *)
(* status.topologies"): although the agent's Status().Update sends all of the *)
(* status, only the controller's patch changes the memberships of an object.  *)
THEOREM TopologiesHaveOneWriter == Spec => OneWriterOfTopologies
<1> DEFINE Changed == object # None /\ object' # None /\ object'.status.topologies # object.status.topologies
<1>1. IInv /\ [Next]_vars => [Changed => ctl.at = "Patch"]_vars
  <2> SUFFICES ASSUME IInv, [Next]_vars, Changed PROVE ctl.at = "Patch"
    BY DEF OneWriterOfTopologies
  <2>1. CASE Patch
    BY <2>1 DEF Patch
  <2>2. CASE UNCHANGED object
    BY <2>2
  <2>3. CASE Create \/ UserDelete \/ CollectGarbage
    BY <2>3 DEF Create, UserDelete, CollectGarbage, Store
  <2>4. CASE CleanupStorageNodeFabricNode
    BY <2>4 DEF CleanupStorageNodeFabricNode
  <2>5. CASE Backfill
    <3>1. object' = [object EXCEPT !.owner = agent.copy.owner]
      BY <2>5 DEF Backfill, Store
    <3>2. object'.status = object.status
      BY <3>1 DEF IInv, Types, Shape, Full
    <3> QED
      BY <3>2
  <2>6. CASE Update
    <3>1. object' = [object EXCEPT !.status = agent.copy.status] /\ Busy /\ fresh["agent"]
      BY <2>6 DEF Update, Store, Busy
    <3>2. object'.status = agent.copy.status
      BY <3>1 DEF IInv, Types, Shape, Full
    <3> QED
      BY <3>1, <3>2 DEF IInv, Held
  <2>7. \/ Patch \/ Create \/ UserDelete \/ CollectGarbage \/ CleanupStorageNodeFabricNode \/ Backfill
        \/ Update \/ UNCHANGED object
    BY DEF Next, AgentNext, AgentStep, InformController, RelistController, ChangeNode, Reconcile, PatchRefused,
           PatchFails, RestartController, Get, EnsureNodeOwnerReference, Refused, Collect, Start, InformAgent,
           InformAgentOfNode, Tick, TakeSignal, InitialScanDelayOver, CallFails, Stop, Crash, ChangeHost,
           ChangePods, ReadCache, api, vars
  <2> QED
    BY <2>1, <2>2, <2>3, <2>4, <2>5, <2>6, <2>7
<1> QED
  BY InitInv, IInvStep, <1>1, PTL DEF Spec, OneWriterOfTopologies
=============================================================================
