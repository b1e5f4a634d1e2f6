--------------------------- MODULE FabricNodeAgent ---------------------------
(***************************************************************************)
(* The agent's FabricNode loop (pkg/agent/fabricnode, fabricnode.go and    *)
(* pod.go): one goroutine that creates the FabricNode of its Node, makes   *)
(* the Node its owner, and reports NICs, LLDP neighbours and RDMA Pods.    *)
(*                                                                         *)
(* The API server keeps one FabricNode.  Each actor that reads it has an   *)
(* informer cache of its own that lags behind (watch), and a write is      *)
(* refused unless the writer's copy is the newest (fresh).  What a link, a *)
(* neighbour or a Pod is called is left out; so are the node IP and the    *)
(* Kubernetes Event about LLDP, which no other part reads.                 *)
(***************************************************************************)
EXTENDS Integers, Sequences, FiniteSets

CONSTANTS
  Actors,       \* readers of the FabricNode, the agent among them
  Hosts,        \* states of the host: [links, lldp], each possibly Failed
  PodSets,      \* the sets of RDMA Pods that may run on the Node
  Configured,   \* the interface selectors that are set: storage, scaleUp, scaleOut
  Labels,       \* the topology memberships the Node's labels may express
  MaxLag,       \* versions an informer may be behind
  Scenarios,    \* starts: [host, pods, labels, storageNode], and in budget how
                \* many events of each kind the behaviour may contain
  Failed,       \* a host command that fails
  None          \* an absent object or condition

ASSUME ActorsAssumption == "agent" \in Actors /\ MaxLag \in Nat \ {0}

VARIABLES
  node,        \* the Node: [uid, labels], or None
  nodeCache,   \* the UID the agent's Node informer shows, or None
  host, pods,  \* what the agent finds on the host and in its Pod informer
  object,      \* the FabricNode in the API server: [owner, status], or None
  cache,       \* each actor's informer copy of it
  watch,       \* versions of it the informer has not seen yet
  fresh,       \* the copy an actor works on is the newest version
  storageNode, \* the agent runs on a storage node
  agent,       \* the agent's goroutine
  signal,      \* reconcileChan holds its one element
  budget

api == <<object, cache, watch, fresh>>
outside == <<node, nodeCache, host, pods>>

NoStatus == [scaleOut |-> {}, storage |-> {}, lldp |-> None, ready |-> None,
             pods |-> {}, role |-> None, topologies |-> {}]

-----------------------------------------------------------------------------
(* Discovery                                                               *)

\* classifyTopologyNIC: storage wins over scale-up, scale-up over scale-out;
\* without a scale-out selector every remaining NIC is a scale-out NIC.
ClassifyTopologyNIC(l) ==
  IF "storage" \in Configured /\ "storage" \in l.matches THEN "storage"
  ELSE IF "scaleUp" \in Configured /\ "scaleUp" \in l.matches THEN "none"
  ELSE IF "scaleOut" \notin Configured \/ "scaleOut" \in l.matches THEN "scaleOut" ELSE "none"

\* Links of another type, virtual functions, links without an RDMA device and
\* links whose addresses cannot be read are not usable.
Nics(h, class) ==
  {[name |-> l.name, up |-> l.up, optional |-> l.infiniband,
    neighbor |-> h.lldp # Failed /\ l.name \in h.lldp] :
     l \in {x \in h.links : x.usable /\ ClassifyTopologyNIC(x) = class}}

\* setLLDPNeighborsReadyCondition.
LLDPNeighborsReady(h, nics) ==
  LET required == {n \in nics : ~n.optional}
      missing == {n.name : n \in {x \in required : x.up /\ ~x.neighbor}}
  IN IF nics = {} THEN None
     ELSE IF required = {} THEN [status |-> "True", of |-> {}]
     ELSE IF h.lldp = Failed THEN [status |-> "Unknown", of |-> {}]
     ELSE [status |-> IF missing = {} THEN "True" ELSE "False", of |-> missing]

\* updateTopologyStatus: without a list of links only the condition changes.
UpdateTopologyStatus(h, status) ==
  IF h.links = Failed THEN [status EXCEPT !.lldp = [status |-> "Unknown", of |-> {"links"}]]
  ELSE [status EXCEPT !.scaleOut = Nics(h, "scaleOut"), !.storage = Nics(h, "storage"),
                      !.lldp = LLDPNeighborsReady(h, Nics(h, "scaleOut") \cup Nics(h, "storage"))]

\* updateReadyCondition: LLDPNeighborsReady is the only other condition.
Ready(status) == IF status.lldp = None THEN [status |-> "True", of |-> {}] ELSE status.lldp

\* The status doReconcile computes from a copy of the stored one.
Observe(status, started, h, ps, storage) ==
  LET found == IF started THEN UpdateTopologyStatus(h, status) ELSE status
      withPods == IF storage THEN found ELSE [found EXCEPT !.pods = ps]
  IN [withPods EXCEPT !.role = IF storage THEN "Storage" ELSE "GPU", !.ready = Ready(found)]

-----------------------------------------------------------------------------
(* The API server and the agent's informers                                *)

Running == agent.at # "Stopped"

\* An object is stored (or removed, None): every informer will hear of it, and
\* every copy but the writer's is out of date.  No informer is more than MaxLag
\* versions behind.
Store(writer, o) ==
  /\ \A a \in Actors : Len(watch[a]) < MaxLag
  /\ object' = o
  /\ watch' = [a \in Actors |-> IF a = "agent" /\ ~Running THEN <<>> ELSE Append(watch[a], o)]
  /\ fresh' = [a \in Actors |-> a = writer]
  /\ UNCHANGED cache

\* An actor copies the object out of its cache.
ReadCache(a) ==
  /\ fresh' = [fresh EXCEPT ![a] = watch[a] = <<>>]
  /\ UNCHANGED <<object, cache, watch>>

Spend(kind) == budget[kind] > 0 /\ budget' = [budget EXCEPT ![kind] = @ - 1]

Stopped == [at |-> "Stopped", copy |-> None, exists |-> FALSE, started |-> FALSE]
Goto(at) == agent' = [agent EXCEPT !.at = at]
\* doReconcile returns; nothing of its copy is used again.
Return == agent' = [Stopped EXCEPT !.at = "Idle", !.started = agent.started]

AgentInit ==
  /\ \E s \in Scenarios :
       /\ node = [uid |-> 1, labels |-> s.labels]
       /\ host = s.host /\ pods = s.pods
       /\ storageNode = s.storageNode
       /\ budget = s.budget
  /\ nodeCache = None /\ object = None
  /\ cache = [a \in Actors |-> None] /\ watch = [a \in Actors |-> <<>>]
  /\ fresh = [a \in Actors |-> TRUE]
  /\ agent = Stopped /\ signal = FALSE

\* The agent's manager delivers a FabricNode event: Reconcile sends its signal
\* without blocking.
InformAgent ==
  /\ Running /\ watch["agent"] # <<>>
  /\ cache' = [cache EXCEPT !["agent"] = Head(watch["agent"])]
  /\ watch' = [watch EXCEPT !["agent"] = Tail(@)]
  /\ signal' = TRUE
  /\ UNCHANGED <<object, fresh, outside, storageNode, agent, budget>>

NodeUID == IF node = None THEN None ELSE node.uid

InformAgentOfNode ==
  /\ Running /\ nodeCache # NodeUID
  /\ nodeCache' = NodeUID
  /\ UNCHANGED <<node, host, pods, api, storageNode, agent, signal, budget>>

-----------------------------------------------------------------------------
(* doReconcile                                                             *)

\* The ticker fires, or the signal of a Pod or FabricNode event is taken.
Tick ==
  /\ agent.at = "Idle"
  /\ Goto("Get")
  /\ UNCHANGED <<outside, api, storageNode, signal, budget>>

TakeSignal ==
  /\ agent.at = "Idle" /\ signal
  /\ signal' = FALSE
  /\ Goto("Get")
  /\ UNCHANGED <<outside, api, storageNode, budget>>

\* initialScanDelay is over.
InitialScanDelayOver ==
  /\ Running /\ ~agent.started
  /\ agent' = [agent EXCEPT !.started = TRUE]
  /\ UNCHANGED <<outside, api, storageNode, signal, budget>>

Get ==
  /\ agent.at = "Get"
  /\ ReadCache("agent")
  /\ agent' = [agent EXCEPT !.at = "Own", !.exists = cache["agent"] # None,
                 !.copy = IF cache["agent"] # None THEN cache["agent"]
                          ELSE [owner |-> None, status |-> NoStatus]]
  /\ UNCHANGED <<outside, storageNode, signal, budget>>

\* ensureNodeOwnerReference, and which call follows it.
EnsureNodeOwnerReference ==
  /\ agent.at = "Own"
  /\ LET adds == ~storageNode /\ agent.copy.owner = None /\ nodeCache # None
     IN agent' = [agent EXCEPT !.copy.owner = IF adds THEN nodeCache ELSE @,
                    !.at = IF ~agent.exists THEN "Create" ELSE IF adds THEN "Backfill" ELSE "Collect"]
  /\ UNCHANGED <<outside, api, storageNode, signal, budget>>

Create ==
  /\ agent.at = "Create" /\ object = None
  /\ Store("agent", agent.copy)
  /\ Goto("Collect")
  /\ UNCHANGED <<outside, storageNode, signal, budget>>

\* client.Update of the main resource: the API server keeps the status.
Backfill ==
  /\ agent.at = "Backfill" /\ object # None /\ fresh["agent"]
  /\ Store("agent", [object EXCEPT !.owner = agent.copy.owner])
  /\ Goto("Collect")
  /\ UNCHANGED <<outside, storageNode, signal, budget>>

\* AlreadyExists, NotFound or a conflict: doReconcile returns the error and the
\* next tick or signal starts over.
Refused ==
  /\ \/ agent.at = "Create" /\ object # None
     \/ agent.at \in {"Backfill", "Update"} /\ (object = None \/ ~fresh["agent"])
  /\ Return
  /\ UNCHANGED <<outside, api, storageNode, signal, budget>>

CallFails ==
  /\ agent.at \in {"Create", "Backfill", "Update"} /\ Spend("fail")
  /\ Return
  /\ UNCHANGED <<outside, api, storageNode, signal>>

Observed == Observe(agent.copy.status, agent.started, host, pods, storageNode)

\* Mutant: a change of the topology part alone is not written.
MutCollect ==
  /\ agent.at = "Collect"
  /\ IF Observed.pods = agent.copy.status.pods /\ Observed.role = agent.copy.status.role THEN Return
     ELSE agent' = [agent EXCEPT !.at = "Update", !.copy.status = Observed]
  /\ UNCHANGED <<outside, api, storageNode, signal, budget>>

\* The status is computed; it is written only if something in it changed.
Collect ==
  /\ agent.at = "Collect"
  /\ IF Observed = agent.copy.status THEN Return
     ELSE agent' = [agent EXCEPT !.at = "Update", !.copy.status = Observed]
  /\ UNCHANGED <<outside, api, storageNode, signal, budget>>

\* Mutant: the status is sent without the version it was computed from.
MutUpdate ==
  /\ agent.at = "Update" /\ object # None
  /\ Store("agent", [object EXCEPT !.status = agent.copy.status])
  /\ Return
  /\ UNCHANGED <<outside, storageNode, signal, budget>>

\* Status().Update sends the whole status, topologies included.
Update ==
  /\ agent.at = "Update" /\ object # None /\ fresh["agent"]
  /\ Store("agent", [object EXCEPT !.status = agent.copy.status])
  /\ Return
  /\ UNCHANGED <<outside, storageNode, signal, budget>>

-----------------------------------------------------------------------------
(* The agent's process                                                     *)

\* A new process lists everything and reconciles at once; that first reconcile
\* fails if it reads before the manager has started the informers.
Start ==
  /\ agent.at = "Stopped"
  /\ \E at \in {"Get", "Idle"} : agent' = [Stopped EXCEPT !.at = at]
  /\ cache' = [cache EXCEPT !["agent"] = object]
  /\ watch' = [watch EXCEPT !["agent"] = <<>>]
  /\ nodeCache' = NodeUID
  /\ signal' = TRUE
  /\ UNCHANGED <<object, fresh, node, host, pods, storageNode, budget>>

\* The process ends: its informers are gone.
Exit ==
  /\ agent' = Stopped /\ signal' = FALSE
  /\ cache' = [cache EXCEPT !["agent"] = None]

\* The context is done while the loop waits: a storage node cleans up.
Stop ==
  /\ agent.at = "Idle" /\ Spend("stop")
  /\ IF storageNode THEN Goto("Cleanup") /\ UNCHANGED <<signal, api>>
     ELSE Exit /\ watch' = [watch EXCEPT !["agent"] = <<>>] /\ UNCHANGED <<object, fresh>>
  /\ UNCHANGED <<outside, storageNode>>

\* cleanupStorageNodeFabricNode: Get reads the cache, Delete names the object.
CleanupStorageNodeFabricNode ==
  /\ agent.at = "Cleanup"
  /\ LET removed == cache["agent"] # None /\ object # None
     IN /\ object' = IF removed THEN None ELSE object
        /\ watch' = [a \in Actors |-> IF a = "agent" THEN <<>>
                                      ELSE IF removed THEN Append(watch[a], None) ELSE watch[a]]
        /\ fresh' = [a \in Actors |-> fresh[a] /\ ~removed]
  /\ Exit
  /\ UNCHANGED <<outside, storageNode, budget>>

\* The call fails, or the process is killed where it is.
Crash ==
  /\ Running /\ Spend("crash")
  /\ Exit /\ watch' = [watch EXCEPT !["agent"] = <<>>]
  /\ UNCHANGED <<object, fresh, outside, storageNode>>

-----------------------------------------------------------------------------
(* The world around it                                                     *)

ChangeHost ==
  /\ Spend("host")
  /\ host' \in Hosts \ {host}
  /\ UNCHANGED <<node, nodeCache, pods, api, storageNode, agent, signal>>

\* The Pod informer wakes the loop.
ChangePods ==
  /\ Running /\ Spend("pods")
  /\ pods' \in PodSets \ {pods}
  /\ signal' = TRUE
  /\ UNCHANGED <<node, nodeCache, host, api, storageNode, agent>>

\* Someone deletes the FabricNode.
UserDelete ==
  /\ object # None /\ Spend("delete")
  /\ Store(None, None)
  /\ UNCHANGED <<outside, storageNode, agent, signal>>

\* The garbage collector deletes an object whose owner is gone: the Node with
\* that UID, not one that only has its name.
CollectGarbage ==
  /\ object # None /\ object.owner # None /\ object.owner # NodeUID
  /\ Store(None, None)
  /\ UNCHANGED <<outside, storageNode, agent, signal, budget>>

AgentStep ==
  \/ Get \/ EnsureNodeOwnerReference \/ Create \/ Backfill \/ Refused \/ Collect \/ Update
  \/ CleanupStorageNodeFabricNode \/ Start

AgentNext ==
  \/ AgentStep \/ InformAgent \/ InformAgentOfNode \/ Tick \/ TakeSignal \/ InitialScanDelayOver
  \/ CallFails \/ Stop \/ Crash
  \/ ChangeHost \/ ChangePods \/ UserDelete \/ CollectGarbage
=============================================================================
