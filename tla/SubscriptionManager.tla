------------------------- MODULE SubscriptionManager -------------------------
(***************************************************************************)
(* The controller's switch subscriptions                                   *)
(* (pkg/controller/switchtopology/subscription_manager.go), with the API   *)
(* server that stores Switch objects, the informer cache they are read     *)
(* from, and one feed per switch agent (SnapshotFeed, which SwitchAgent is *)
(* shown to implement).                                                    *)
(*                                                                         *)
(* A sync goroutine lists the Switches on a ticker and starts or cancels   *)
(* one subscription goroutine ("runner") per Switch.  A runner dials the   *)
(* agent, receives snapshots and writes each one into Switch.status; when  *)
(* the stream fails it writes Healthy=false and dials again.  Status       *)
(* writes go through mutateSwitchStatus: read from the cache, change,      *)
(* update under optimistic locking, retry on conflict.                     *)
(***************************************************************************)
EXTENDS Naturals, Sequences, FiniteSets

CONSTANTS
  Switch,          \* names of Switch objects
  Target,          \* mgmtIP:grpcPort of the switch agents
  Slot,            \* runners of one Switch alive at one time, cancelled ones too
  NodeName,        \* Kubernetes Node names
  IgnoredPort,     \* ports matched by ignoreSwitchPorts
  Nil,
  Syncer,          \* the sync goroutine, as a writer of status
  MaxTries,        \* attempts of RetryOnConflict (DefaultRetry: 5)
  Scenarios        \* records [objects, left]: the Switches at the start (with the status an
                   \* earlier controller may have left), and bounds on the environment:
                   \* left.tables[t], the LLDP tables agent t may publish, sets of
                   \* [port, name]; left.generations, how many it publishes in one life;
                   \* faults, edits, creations, deletions, controller and agent crashes

Runner == Switch \X Slot
Writer == Runner \cup {Syncer}

ASSUME ManagerAssumptions ==
  /\ Nil \notin Target /\ Nil \notin Switch
  /\ Syncer \notin Runner
  /\ MaxTries \in Nat \ {0}

VARIABLES
  obj,             \* obj[sw]: the Switch in the API server
  cache,           \* cache[sw]: the Switch in the controller's informer cache
  subscriptions,   \* subscriptions[sw]: target of the running subscription, or Nil
  sync,            \* progress of syncSubscriptions
  runner,          \* runner[r]: a runSubscription goroutine
  op,              \* op[w]: the mutateSwitchStatus call w is in
  log, epoch,      \* per agent: tables published, and its number of restarts
  streams, view,   \* open streams, and the newest generation received on each
  left             \* what remains of the scenario's bounds

apiVars == <<obj, cache>>
feedVars == <<log, epoch>>
streamVars == <<streams, view>>
vars == <<obj, cache, subscriptions, sync, runner, op, log, epoch, streams, view, left>>

-----------------------------------------------------------------------------
(* normalizeSnapshotNeighbors: ports matched by ignoreSwitchPorts are left *)
(* out, an entry without remote name rejects the snapshot, several links   *)
(* to one remote system become one entry.  The sorted list is a set.       *)
Kept(table) == {e \in table : e.port \notin IgnoredPort}

Malformed(table) == \E e \in Kept(table) : e.name = ""

ClassifyRemoteSystemType(name, nodes) ==
  IF name \in nodes THEN "KubernetesNode" ELSE "Switch"

NormalizeSnapshotNeighbors(table, nodes) ==
  { [name |-> n, type |-> ClassifyRemoteSystemType(n, nodes),
     links |-> Cardinality({e \in Kept(table) : e.name = n})]
      : n \in {e.name : e \in Kept(table)} }

(* Switch.status: healthy, the reason of condition Connected, the          *)
(* generation in the message of condition Ready (0: DataStale), the spec   *)
(* generation both conditions observed, and the neighbors.  origin is      *)
(* history: the snapshot the neighbors came from.                          *)
EmptyStatus == [healthy |-> FALSE, connected |-> "", ready |-> 0, observed |-> 0,
                neighbors |-> {}, origin |-> Nil]

Visible(status) == [status EXCEPT !.origin = Nil]

(* The closures handed to mutateSwitchStatus.                              *)
Accept(o, nb) == [kind |-> "accept", origin |-> o, neighbors |-> nb]
Mark(reason) == [kind |-> "mark", reason |-> reason]
Clear == [kind |-> "clear"]

Mutate(change, o) ==
  CASE change.kind = "accept" ->
         [healthy |-> TRUE, connected |-> "StreamReady", ready |-> change.origin.gen,
          observed |-> o.generation, neighbors |-> change.neighbors, origin |-> change.origin]
    [] change.kind = "mark" ->
         [o.status EXCEPT !.healthy = FALSE, !.connected = change.reason, !.ready = 0,
                          !.observed = o.generation]
    [] change.kind = "clear" -> EmptyStatus

NoOp == [phase |-> "none"]
Begin(sw, change) == [phase |-> "get", sw |-> sw, change |-> change, tries |-> 1]

(* stored is history: the neighbors of the last accepted snapshot, Nil     *)
(* when its write was skipped because the cache already showed them.       *)
NoRunner == [pc |-> "off", live |-> FALSE, target |-> Nil, lastGeneration |-> 0,
             stored |-> Nil]
NoSync == [phase |-> "idle", todo |-> {}, want |-> [sw \in Switch |-> Nil]]
NewSwitch(t, rv) == [exists |-> TRUE, mgmt |-> t, generation |-> 1,
                     status |-> EmptyStatus, rv |-> rv]
Absent(rv) == [NewSwitch(Nil, rv) EXCEPT !.exists = FALSE]

Init ==
  /\ \E s \in Scenarios : obj \in s.objects /\ left = s.left
  /\ cache = obj
  /\ subscriptions = [sw \in Switch |-> Nil]
  /\ sync = NoSync
  /\ runner = [r \in Runner |-> NoRunner]
  /\ op = [w \in Writer |-> NoOp]
  /\ log = [t \in Target |-> << >>]
  /\ epoch = [t \in Target |-> 0]
  /\ streams = {}
  /\ view = [r \in Runner |-> 0]

Spend(what) == left[what] > 0 /\ left' = [left EXCEPT ![what] = @ - 1]

-----------------------------------------------------------------------------
(* mutateSwitchStatus, called by runners and by the sync goroutine         *)

(* The error of subscribeUntilDisconnect is classified and marked; the     *)
(* deferred conn.Close ends the stream.                                    *)
Disconnect(r, reason) ==
  /\ runner' = [runner EXCEPT ![r].pc = "marking"]
  /\ op' = [op EXCEPT ![r] = Begin(r[1], Mark(reason))]
  /\ streams' = streams \ {r}
  /\ view' = [view EXCEPT ![r] = 0]
  /\ UNCHANGED sync

(* Mutant: a generation counts as accepted although its write failed.       *)
MutReturnAdvances(w, ok) ==
  CASE w = Syncer ->
         /\ sync' = IF ok THEN [sync EXCEPT !.todo = @ \ {op[w].sw}] ELSE NoSync
         /\ op' = [op EXCEPT ![w] = NoOp]
         /\ UNCHANGED <<runner, streamVars>>
    [] w # Syncer /\ runner[w].pc = "handling" ->
         /\ runner' = [runner EXCEPT ![w].pc = "receiving",
                                     ![w].lastGeneration = op[w].change.origin.gen,
                                     ![w].stored = Nil]
         /\ op' = [op EXCEPT ![w] = NoOp]
         /\ UNCHANGED <<sync, streamVars>>
    [] w # Syncer /\ runner[w].pc = "marking" ->
         /\ runner' = [runner EXCEPT ![w].pc = "backoff"]
         /\ op' = [op EXCEPT ![w] = NoOp]
         /\ UNCHANGED <<sync, streamVars>>

(* What the caller does with the result.  A generation counts as accepted  *)
(* once its status write succeeded; an error while clearing ends the sync. *)
Return(w, ok) ==
  CASE w = Syncer ->
         /\ sync' = IF ok THEN [sync EXCEPT !.todo = @ \ {op[w].sw}] ELSE NoSync
         /\ op' = [op EXCEPT ![w] = NoOp]
         /\ UNCHANGED <<runner, streamVars>>
    [] w # Syncer /\ runner[w].pc = "handling" /\ ok ->
         /\ runner' = [runner EXCEPT ![w].pc = "receiving",
                                     ![w].lastGeneration = op[w].change.origin.gen,
                                     ![w].stored = IF op[w].phase = "put"
                                                     THEN op[w].change.neighbors ELSE Nil]
         /\ op' = [op EXCEPT ![w] = NoOp]
         /\ UNCHANGED <<sync, streamVars>>
    [] w # Syncer /\ runner[w].pc = "handling" /\ ~ok ->
         Disconnect(w, "DialFailed")
    [] w # Syncer /\ runner[w].pc = "marking" ->
         /\ runner' = [runner EXCEPT ![w].pc = "backoff"]
         /\ op' = [op EXCEPT ![w] = NoOp]
         /\ UNCHANGED <<sync, streamVars>>

(* Get from the cache, mutate, and send the update unless there is nothing *)
(* to do: the object is not found, or its status would not change.         *)
Get(w) ==
  /\ op[w].phase = "get"
  /\ w # Syncer => runner[w].live
  /\ LET o == cache[op[w].sw]
         body == Mutate(op[w].change, o)
     IN IF ~o.exists \/ Visible(body) = Visible(o.status)
          THEN Return(w, TRUE)
          ELSE /\ op' = [op EXCEPT ![w] =
                           [phase |-> "put", sw |-> op[w].sw, change |-> op[w].change,
                            tries |-> op[w].tries, rv |-> o.rv, body |-> body]]
               /\ UNCHANGED <<sync, runner, streamVars>>
  /\ UNCHANGED <<apiVars, subscriptions, feedVars, left>>

Store(w) ==
  obj' = [obj EXCEPT ![op[w].sw].status = op[w].body, ![op[w].sw].rv = @ + 1]

Current(w) == obj[op[w].sw].exists /\ obj[op[w].sw].rv = op[w].rv

(* Mutant: the update carries no resource version.                          *)
MutPutBlind(w) ==
  /\ op[w].phase = "put"
  /\ obj[op[w].sw].exists
  /\ Store(w)
  /\ Return(w, TRUE)
  /\ UNCHANGED <<cache, subscriptions, feedVars, left>>

(* The API server takes an update made from the current version only.      *)
Put(w) ==
  /\ op[w].phase = "put"
  /\ Current(w)
  /\ Store(w)
  /\ Return(w, TRUE)
  /\ UNCHANGED <<cache, subscriptions, feedVars, left>>

(* A conflict is retried from the cache, which may still be behind; an     *)
(* update of a deleted object fails.                                       *)
PutRefused(w) ==
  /\ op[w].phase = "put"
  /\ ~Current(w)
  /\ IF obj[op[w].sw].exists /\ op[w].tries < MaxTries
       THEN /\ op' = [op EXCEPT ![w] = [phase |-> "get", sw |-> op[w].sw,
                                        change |-> op[w].change, tries |-> op[w].tries + 1]]
            /\ UNCHANGED <<sync, runner, streamVars>>
       ELSE Return(w, FALSE)
  /\ UNCHANGED <<apiVars, subscriptions, feedVars, left>>

(* The request or its answer is lost: the caller sees an error whether or  *)
(* not the update was stored.                                              *)
PutLost(w) ==
  /\ op[w].phase = "put"
  /\ Spend("faults")
  /\ \/ Current(w) /\ Store(w)
     \/ UNCHANGED obj
  /\ Return(w, FALSE)
  /\ UNCHANGED <<cache, subscriptions, feedVars>>

-----------------------------------------------------------------------------
(* runSubscription, subscribeUntilDisconnect and handleSnapshot            *)

(* Mutant: a new stream is served from the first snapshot on.               *)
MutDialFromStart(r) ==
  /\ runner[r].live /\ runner[r].pc = "dialing"
  /\ log[runner[r].target] # << >>
  /\ runner' = [runner EXCEPT ![r].pc = "receiving"]
  /\ streams' = streams \cup {r}
  /\ UNCHANGED <<apiVars, subscriptions, sync, op, view, feedVars, left>>

(* The agent registers the stream; it has a snapshot to send.              *)
Dial(r) ==
  /\ runner[r].live /\ runner[r].pc = "dialing"
  /\ log[runner[r].target] # << >>
  /\ runner' = [runner EXCEPT ![r].pc = "receiving"]
  /\ streams' = streams \cup {r}
  /\ view' = [view EXCEPT ![r] = Len(log[runner[r].target]) - 1]
  /\ UNCHANGED <<apiVars, subscriptions, sync, op, feedVars, left>>

(* The agent answers Unavailable before its first snapshot.                *)
DialUnavailable(r) ==
  /\ runner[r].live /\ runner[r].pc = "dialing"
  /\ log[runner[r].target] = << >>
  /\ Disconnect(r, "DialFailed")
  /\ UNCHANGED <<apiVars, subscriptions, feedVars, left>>

DialFails(r) ==
  /\ runner[r].live /\ runner[r].pc = "dialing"
  /\ Spend("faults")
  /\ \E reason \in {"DialFailed", "AuthenticationFailed"} : Disconnect(r, reason)
  /\ UNCHANGED <<apiVars, subscriptions, feedVars>>

(* Recv returns the next snapshot and handleSnapshot starts on it.  Nodes  *)
(* are listed to tell Nodes from switches; when that fails none is known.  *)
Receive(r) ==
  LET t == runner[r].target
  IN /\ runner[r].live /\ runner[r].pc = "receiving" /\ r \in streams
     /\ \E g \in (view[r] + 1) .. Len(log[t]) :
          IF g <= runner[r].lastGeneration
            THEN /\ view' = [view EXCEPT ![r] = g]
                 /\ UNCHANGED <<runner, op, sync, streams, left>>
          ELSE IF Malformed(log[t][g])
            THEN Disconnect(r, "SnapshotRejected") /\ UNCHANGED left
          ELSE /\ view' = [view EXCEPT ![r] = g]
               /\ runner' = [runner EXCEPT ![r].pc = "handling"]
               /\ \E nodes \in {NodeName, {}} :
                    /\ op' = [op EXCEPT ![r] =
                         Begin(r[1], Accept([target |-> t, epoch |-> epoch[t], gen |-> g],
                                     NormalizeSnapshotNeighbors(log[t][g], nodes)))]
                    /\ IF nodes = NodeName THEN UNCHANGED left ELSE Spend("faults")
               /\ UNCHANGED <<sync, streams>>
     /\ UNCHANGED <<apiVars, subscriptions, feedVars>>

(* The agent is gone.                                                      *)
StreamClosed(r) ==
  /\ runner[r].live /\ runner[r].pc = "receiving" /\ r \notin streams
  /\ Disconnect(r, "DialFailed")
  /\ UNCHANGED <<apiVars, subscriptions, feedVars, left>>

StreamBreaks(r) ==
  /\ runner[r].live /\ runner[r].pc = "receiving" /\ r \in streams
  /\ Spend("faults")
  /\ Disconnect(r, "DialFailed")
  /\ UNCHANGED <<apiVars, subscriptions, feedVars>>

Redial(r) ==
  /\ runner[r].live /\ runner[r].pc = "backoff"
  /\ runner' = [runner EXCEPT ![r].pc = "dialing"]
  /\ UNCHANGED <<apiVars, subscriptions, sync, op, feedVars, streamVars, left>>

(* A cancelled context fails the dial, the Recv and every update not sent  *)
(* yet, so a cancelled runner does nothing more and returns; an update it  *)
(* has already sent may be stored first (Put) or be given up.              *)
Exit(r) ==
  /\ ~runner[r].live /\ runner[r].pc # "off"
  /\ runner' = [runner EXCEPT ![r] = NoRunner]
  /\ op' = [op EXCEPT ![r] = NoOp]
  /\ streams' = streams \ {r}
  /\ view' = [view EXCEPT ![r] = 0]
  /\ UNCHANGED <<apiVars, subscriptions, sync, feedVars, left>>

-----------------------------------------------------------------------------
(* syncSubscriptions, on every tick                                        *)

RunnersOf(sw) == {r \in Runner : r[1] = sw}

Cancelled(cancel) ==
  [r \in Runner |-> IF r[1] \in cancel THEN [runner[r] EXCEPT !.live = FALSE] ELSE runner[r]]

(* Mutant: only a Switch that has a subscription is cleared.                *)
MutSyncListOnce ==
  /\ sync.phase = "idle"
  /\ sync' = [phase |-> "clearing",
              todo |-> {sw \in Switch : /\ cache[sw].exists /\ cache[sw].mgmt = Nil
                                        /\ subscriptions[sw] # Nil},
              want |-> [sw \in Switch |-> IF cache[sw].exists THEN cache[sw].mgmt ELSE Nil]]
  /\ UNCHANGED <<apiVars, subscriptions, runner, op, feedVars, streamVars, left>>

(* List the Switches from the cache; those without mgmtIP are to be cleared. *)
SyncList ==
  /\ sync.phase = "idle"
  /\ sync' = [phase |-> "clearing",
              todo |-> {sw \in Switch : cache[sw].exists /\ cache[sw].mgmt = Nil},
              want |-> [sw \in Switch |-> IF cache[sw].exists THEN cache[sw].mgmt ELSE Nil]]
  /\ UNCHANGED <<apiVars, subscriptions, runner, op, feedVars, streamVars, left>>

(* A Switch without mgmtIP: stopSubscription, then clear its status.       *)
SyncClear(sw) ==
  /\ sync.phase = "clearing" /\ sw \in sync.todo /\ op[Syncer] = NoOp
  /\ subscriptions' = [subscriptions EXCEPT ![sw] = Nil]
  /\ runner' = Cancelled({sw})
  /\ op' = [op EXCEPT ![Syncer] = Begin(sw, Clear)]
  /\ UNCHANGED <<apiVars, sync, feedVars, streamVars, left>>

FreeSlot(sw) == CHOOSE i \in Slot : runner[<<sw, i>>].pc = "off"

(* Mutant: a subscription to a former target is not cancelled.              *)
MutSyncApplyKeepsOld ==
  LET start == {sw \in Switch : sync.want[sw] \notin {Nil, subscriptions[sw]}}
      stop == {sw \in Switch : sync.want[sw] = Nil}
  IN /\ sync.phase = "clearing" /\ sync.todo = {} /\ op[Syncer] = NoOp
     /\ \A sw \in start : \E i \in Slot : runner[<<sw, i>>].pc = "off"
     /\ subscriptions' = sync.want
     /\ runner' = [r \in Runner |->
          IF r[1] \in start /\ r[2] = FreeSlot(r[1])
            THEN [NoRunner EXCEPT !.pc = "dialing", !.live = TRUE, !.target = sync.want[r[1]]]
            ELSE Cancelled(stop)[r]]
     /\ sync' = NoSync
     /\ UNCHANGED <<apiVars, op, feedVars, streamVars, left>>

(* Subscriptions of missing or re-targeted Switches are cancelled, and the *)
(* missing ones started with a fresh lastGeneration.  Only this goroutine  *)
(* touches the map, so the loops are one step.  At most Cardinality(Slot)  *)
(* runners of a Switch are still returning.                                *)
SyncApply ==
  LET start == {sw \in Switch : sync.want[sw] \notin {Nil, subscriptions[sw]}}
      stop == {sw \in Switch : sync.want[sw] # subscriptions[sw]}
  IN /\ sync.phase = "clearing" /\ sync.todo = {} /\ op[Syncer] = NoOp
     /\ \A sw \in start : \E i \in Slot : runner[<<sw, i>>].pc = "off"
     /\ subscriptions' = sync.want
     /\ runner' = [r \in Runner |->
          IF r[1] \in start /\ r[2] = FreeSlot(r[1])
            THEN [NoRunner EXCEPT !.pc = "dialing", !.live = TRUE, !.target = sync.want[r[1]]]
            ELSE Cancelled(stop)[r]]
     /\ sync' = NoSync
     /\ UNCHANGED <<apiVars, op, feedVars, streamVars, left>>

-----------------------------------------------------------------------------
(* The environment: users, the informer, agents, crashes                   *)

EditSpec(sw, t) ==
  /\ obj[sw].exists /\ obj[sw].mgmt # t
  /\ Spend("edits")
  /\ obj' = [obj EXCEPT ![sw].mgmt = t, ![sw].generation = @ + 1, ![sw].rv = @ + 1]
  /\ UNCHANGED <<cache, subscriptions, sync, runner, op, feedVars, streamVars>>

Delete(sw) ==
  /\ obj[sw].exists
  /\ Spend("deletes")
  /\ obj' = [obj EXCEPT ![sw] = Absent(obj[sw].rv + 1)]
  /\ UNCHANGED <<cache, subscriptions, sync, runner, op, feedVars, streamVars>>

Create(sw, t) ==
  /\ ~obj[sw].exists
  /\ Spend("creates")
  /\ obj' = [obj EXCEPT ![sw] = NewSwitch(t, obj[sw].rv + 1)]
  /\ UNCHANGED <<cache, subscriptions, sync, runner, op, feedVars, streamVars>>

(* The watch brings the cache up to date.                                  *)
Inform(sw) ==
  /\ cache[sw] # obj[sw]
  /\ cache' = [cache EXCEPT ![sw] = obj[sw]]
  /\ UNCHANGED <<obj, subscriptions, sync, runner, op, feedVars, streamVars, left>>

Newest(t) == IF log[t] = << >> THEN Nil ELSE log[t][Len(log[t])]

Publish(t, table) ==
  /\ Len(log[t]) < left.generations
  /\ Newest(t) # table
  /\ log' = [log EXCEPT ![t] = Append(@, table)]
  /\ UNCHANGED <<apiVars, subscriptions, sync, runner, op, epoch, streamVars, left>>

AgentCrash(t) ==
  /\ Spend("agentCrashes")
  /\ log' = [log EXCEPT ![t] = << >>]
  /\ epoch' = [epoch EXCEPT ![t] = @ + 1]
  /\ streams' = {r \in streams : runner[r].target # t}
  /\ view' = [r \in Runner |-> IF r \in streams' THEN view[r] ELSE 0]
  /\ UNCHANGED <<apiVars, subscriptions, sync, runner, op>>

(* The controller dies or loses its lease; the next one starts with an     *)
(* informed cache.  Updates its runners have sent may still be stored.     *)
ControllerCrash ==
  /\ Spend("crashes")
  /\ subscriptions' = [sw \in Switch |-> Nil]
  /\ runner' = Cancelled(Switch)
  /\ sync' = NoSync
  /\ op' = [op EXCEPT ![Syncer] = NoOp]
  /\ cache' = obj
  /\ UNCHANGED <<obj, feedVars, streamVars>>

-----------------------------------------------------------------------------
MutateStep(w) == Get(w) \/ Put(w) \/ PutRefused(w)

RunnerStep(r) ==
  Dial(r) \/ DialUnavailable(r) \/ Receive(r) \/ StreamClosed(r) \/ Redial(r) \/ Exit(r)

SyncStep == SyncList \/ (\E sw \in Switch : SyncClear(sw)) \/ SyncApply

Next ==
  \/ \E w \in Writer : MutateStep(w) \/ PutLost(w)
  \/ \E r \in Runner : RunnerStep(r) \/ DialFails(r) \/ StreamBreaks(r)
  \/ SyncStep
  \/ \E sw \in Switch : \/ Delete(sw) \/ Inform(sw)
                        \/ \E t \in Target \cup {Nil} : EditSpec(sw, t) \/ Create(sw, t)
  \/ \E t \in Target : AgentCrash(t) \/ \E table \in left.tables[t] : Publish(t, table)
  \/ ControllerCrash

Spec == Init /\ [][Next]_vars

(* Goroutines run, the API server answers, the watch delivers and the      *)
(* ticker ticks; users, agents and faults owe nothing.                     *)
FairSpec ==
  /\ Spec
  /\ \A w \in Writer : WF_vars(MutateStep(w))
  /\ \A r \in Runner : WF_vars(RunnerStep(r))
  /\ WF_vars(SyncStep)
  /\ \A sw \in Switch : WF_vars(Inform(sw))

-----------------------------------------------------------------------------
Table == UNION {s.left.tables[t] : s \in Scenarios, t \in Target}
Origin == [target : Target, epoch : Nat, gen : Nat \ {0}]
Neighbors == SUBSET [name : STRING, type : {"KubernetesNode", "Switch"}, links : Nat]
Reason == {"DialFailed", "AuthenticationFailed", "SnapshotRejected"}
Status == [healthy : BOOLEAN, connected : Reason \cup {"", "StreamReady"}, ready : Nat,
           observed : Nat, neighbors : Neighbors, origin : Origin \cup {Nil}]
Object == [exists : BOOLEAN, mgmt : Target \cup {Nil}, generation : Nat, status : Status, rv : Nat]

ASSUME OriginAssumption == Nil \notin Origin

(* What an earlier controller left is typed and from no snapshot of this history. *)
ASSUME ScenarioAssumption ==
  \A s \in Scenarios :
    /\ "tables" \in DOMAIN s.left
    /\ \A o \in s.objects :
         o \in [Switch -> Object] /\ \A sw \in Switch : o[sw].status.origin = Nil

(* Every goroutine still running under a live context is the one the       *)
(* subscriptions map knows: one per Switch, on the Switch's target.        *)
OneLiveRunner ==
  \A sw \in Switch :
    LET live == {r \in RunnersOf(sw) : runner[r].live}
    IN IF subscriptions[sw] = Nil THEN live = {}
       ELSE \E r \in live : live = {r} /\ runner[r].target = subscriptions[sw]

(* Switch.status holds what the live subscription of sw has stored, or     *)
(* something newer it stored without learning so.                          *)
HoldsStored(sw) ==
  \A r \in RunnersOf(sw) :
    runner[r].live /\ runner[r].stored # Nil =>
      LET status == obj[sw].status
      IN \/ status.neighbors = runner[r].stored
         \/ /\ status.origin # Nil /\ status.origin.target = runner[r].target
            /\ status.origin.gen > runner[r].lastGeneration

(* What a live subscription has stored in Switch.status stays there until  *)
(* it stores something newer: no update that an earlier subscription has   *)
(* in flight replaces it, and nothing clears it.  Only deleting or         *)
(* creating the Switch itself may lose it.  Snapshots accepted without a   *)
(* write are not covered.                                                  *)
StoredStays ==
  [][\A sw \in Switch :
       obj[sw].exists /\ obj'[sw].exists /\ HoldsStored(sw) => HoldsStored(sw)']_vars

(* Status never goes back to an older snapshot of the same agent process,  *)
(* whatever updates of cancelled runners are still on their way.           *)
StatusNeverRegresses ==
  [][\A sw \in Switch :
       LET old == obj[sw].status.origin
           new == obj'[sw].status.origin
       IN old # Nil /\ new # Nil /\ old.target = new.target /\ old.epoch = new.epoch
            => new.gen >= old.gen]_vars

Links(neighbors) == {[name |-> n.name, links |-> n.links] : n \in neighbors}

(* The Switch names an agent whose newest table can be accepted.           *)
Observable(sw) ==
  LET t == obj[sw].mgmt
  IN obj[sw].exists /\ t # Nil /\ log[t] # << >> /\ ~Malformed(Newest(t))

Reflects(sw) ==
  Links(obj[sw].status.neighbors) =
    Links(NormalizeSnapshotNeighbors(Newest(obj[sw].mgmt), NodeName))

(* Once a Switch and its agent stay as they are, the neighbors in          *)
(* Switch.status become and remain those of the agent's newest snapshot.   *)
(* (An agent that was restarted counts its generations from 1 again, which *)
(* lastGeneration hides until they are higher than before.)                *)
DataConverges ==
  \A sw \in Switch : <>[](Observable(sw) /\ epoch[obj[sw].mgmt] = 0) => <>[](Observable(sw) /\ Reflects(sw))

(* ... and the Switch is reported healthy again after disconnections.      *)
(* docs/design/scaleout-topology.md: the Controller "recovers              *)
(* automatically after disconnections".                                    *)
HealthRecovers ==
  \A sw \in Switch : <>[]Observable(sw) => <>[]obj[sw].status.healthy

(* When mgmtIP is removed the whole status is cleared in the end, late     *)
(* updates of the cancelled runner notwithstanding.                        *)
ClearedInTheEnd ==
  \A sw \in Switch :
    <>[](obj[sw].exists /\ obj[sw].mgmt = Nil) => <>[](obj[sw].status = EmptyStatus)

Feed(t) == INSTANCE SnapshotFeed WITH
  Stream <- Runner,
  Table <- Table,
  log <- log[t],
  joined <- {r \in streams : runner[r].target = t},
  view <- [r \in Runner |-> IF runner[r].target = t THEN view[r] ELSE 0]

(* The agents as seen by the runners are feeds, which is what SwitchAgent  *)
(* was shown to implement.                                                 *)
UsesFeeds ==
  [][\A t \in Target : Feed(t)!FeedNext \/ UNCHANGED Feed(t)!feedVars]_vars
=============================================================================
