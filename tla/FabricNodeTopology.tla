------------------------- MODULE FabricNodeTopology -------------------------
(***************************************************************************)
(* The FabricNodeTopology controller (pkg/controller/topologystatus,       *)
(* fabricnode_controller.go) composed with the agent's FabricNode loop.    *)
(*                                                                         *)
(* The controller writes status.topologies from the labels of the Node,    *)
(* the agent writes the rest of the status of the same object; both work   *)
(* on copies from informer caches of their own.  The controller hears of   *)
(* label changes and of FabricNodes that appear, never of updates.         *)
(***************************************************************************)
EXTENDS FabricNodeAgent

VARIABLES
  queued,   \* the controller's work queue holds the Node's name
  ctl,      \* its reconcile in progress: [at, desired]
  unaware   \* history: it last decided not to write on an old copy, or its
            \* informer took a new FabricNode for an update of the former one

vars == <<outside, api, storageNode, agent, signal, budget, queued, ctl, unaware>>
agentVars == <<storageNode, agent, signal>>

Waiting == [at |-> "Idle", desired |-> {}]

Init ==
  /\ AgentInit
  /\ queued = TRUE /\ ctl = Waiting /\ unaware = FALSE

\* createOnlyPredicate.
Created(old, new) == old = None /\ new # None

InformController ==
  /\ watch["controller"] # <<>>
  /\ cache' = [cache EXCEPT !["controller"] = Head(watch["controller"])]
  /\ watch' = [watch EXCEPT !["controller"] = Tail(@)]
  /\ queued' = (queued \/ Created(cache["controller"], Head(watch["controller"])))
  /\ UNCHANGED <<object, fresh, outside, agentVars, budget, ctl, unaware>>

\* The watch breaks and the informer lists again: versions in between are never
\* seen, and an object that was replaced looks updated.
RelistController ==
  /\ watch["controller"] # <<>> /\ Spend("relist")
  /\ cache' = [cache EXCEPT !["controller"] = object]
  /\ watch' = [watch EXCEPT !["controller"] = <<>>]
  /\ queued' = (queued \/ Created(cache["controller"], object))
  /\ unaware' = (unaware \/ \E i \in DOMAIN watch["controller"] : watch["controller"][i] = None)
  /\ UNCHANGED <<object, fresh, outside, agentVars, ctl>>

\* The Node appears, goes away, or gets other topology labels; the controller's
\* Node informer passes all three on (topologyLabelPredicate).
ChangeNode ==
  /\ \/ /\ node = None /\ Spend("node")
        /\ \E l \in Labels : node' = [uid |-> 2, labels |-> l]
     \/ /\ node # None /\ node.uid = 1 /\ Spend("node")
        /\ node' = None
     \/ /\ node # None /\ Spend("label")
        /\ \E l \in Labels \ {node.labels} : node' = [node EXCEPT !.labels = l]
  /\ queued' = TRUE
  /\ UNCHANGED <<nodeCache, host, pods, api, agentVars, ctl, unaware>>

\* Reconcile, up to its write.  matchingTopologies of the Node's labels is what
\* node.labels stands for.
Reconcile ==
  /\ queued /\ ctl.at = "Idle"
  /\ queued' = FALSE
  /\ ReadCache("controller")
  /\ IF node # None /\ cache["controller"] # None
          /\ cache["controller"].status.topologies # node.labels
     THEN ctl' = [at |-> "Patch", desired |-> node.labels] ELSE UNCHANGED ctl
  /\ unaware' = (ctl' = ctl /\ watch["controller"] # <<>>)
  /\ UNCHANGED <<outside, agentVars, budget>>

\* The merge patch names status.topologies alone, and the version it is based on.
Patch ==
  /\ ctl.at = "Patch" /\ object # None /\ fresh["controller"]
  /\ Store("controller", [object EXCEPT !.status.topologies = ctl.desired])
  /\ ctl' = Waiting
  /\ UNCHANGED <<outside, agentVars, budget, queued, unaware>>

\* Mutant: a conflict ends the reconcile.
MutPatchRefused ==
  /\ ctl.at = "Patch" /\ (object = None \/ ~fresh["controller"])
  /\ ctl' = Waiting
  /\ UNCHANGED <<outside, api, agentVars, budget, queued, unaware>>

\* A conflict or another error: the request is queued again.
PatchRefused ==
  /\ ctl.at = "Patch" /\ (object = None \/ ~fresh["controller"])
  /\ ctl' = Waiting /\ queued' = TRUE
  /\ UNCHANGED <<outside, api, agentVars, budget, unaware>>

PatchFails ==
  /\ ctl.at = "Patch" /\ Spend("fail")
  /\ ctl' = Waiting /\ queued' = TRUE
  /\ UNCHANGED <<outside, api, agentVars, unaware>>

\* A new controller process lists everything and reconciles every Node.
RestartController ==
  /\ Spend("restart")
  /\ cache' = [cache EXCEPT !["controller"] = object]
  /\ watch' = [watch EXCEPT !["controller"] = <<>>]
  /\ queued' = TRUE /\ ctl' = Waiting /\ unaware' = FALSE
  /\ UNCHANGED <<object, fresh, outside, agentVars>>

Next ==
  \/ AgentNext /\ UNCHANGED <<queued, ctl, unaware>>
  \/ InformController \/ RelistController \/ ChangeNode
  \/ Reconcile \/ Patch \/ PatchRefused \/ PatchFails \/ RestartController

Spec == Init /\ [][Next]_vars

\* Informers deliver, the work queue and the two reconcilers go on, the ticker
\* fires, the initial scan delay ends, a stopped agent is started again (the
\* DaemonSet), and the garbage collector does its work.
FairSpec ==
  /\ Spec
  /\ WF_vars(AgentStep /\ UNCHANGED <<queued, ctl, unaware>>)
  /\ WF_vars(InformAgent /\ UNCHANGED <<queued, ctl, unaware>>)
  /\ WF_vars(InformAgentOfNode /\ UNCHANGED <<queued, ctl, unaware>>)
  /\ WF_vars(Tick /\ UNCHANGED <<queued, ctl, unaware>>)
  /\ WF_vars(InitialScanDelayOver /\ UNCHANGED <<queued, ctl, unaware>>)
  /\ WF_vars(CollectGarbage /\ UNCHANGED <<queued, ctl, unaware>>)
  /\ WF_vars(InformController)
  /\ WF_vars(Reconcile \/ Patch \/ PatchRefused)

-----------------------------------------------------------------------------

\* The comment of fabricNodeTopologyReconciler: it is the only writer of
\* status.topologies.  The agent sends whole statuses, yet none of its writes
\* to a FabricNode that stays in place changes the memberships.
OneWriterOfTopologies ==
  [][(object # None /\ object' # None /\ object'.status.topologies # object.status.topologies)
       => ctl.at = "Patch"]_vars

\* ensureNodeOwnerReference ("a later reconcile retries once the Node exists"),
\* the garbage collector and doReconcile: in the end a Node that exists has a
\* FabricNode which, on a GPU node, that Node owns and not a former one of its
\* name, and which reports what is found on the host and the Pods that run,
\* whatever writes were refused or lost on the way.
ReportAtLast ==
  <>[](node # None => /\ object # None
                      /\ object.owner = IF storageNode THEN None ELSE node.uid
                      /\ object.status = Observe(object.status, TRUE, host, pods, storageNode))

\* The comment of fabricNodeTopologyReconciler: status.topologies is kept in
\* sync with the labels of the Node, in the end, unless the controller is
\* unaware: it saw no difference in an old copy, or missed a replacement.
TopologiesAtLast ==
  <>[](unaware \/ node = None \/ object = None \/ object.status.topologies = node.labels)
=============================================================================
