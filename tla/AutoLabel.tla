----------------------------- MODULE AutoLabel -----------------------------
(***************************************************************************)
(* The auto-label controller: it discovers the fabric of each managed role *)
(* and names the groups it finds by labels on Nodes and Switches.  Every   *)
(* read of and every write to the API server is a step, so that users,     *)
(* agents and the other controllers act in between.                        *)
(*                                                                         *)
(* A label value tierN-groupM is <<N, M>>; Foreign is a value of any other *)
(* form.  A Node's labels are records [role, tier, name]: role and tier    *)
(* are what the role's label template renders to and matches.  A Switch    *)
(* carries at most one domain label, here a set of values.  A write        *)
(* carries the resourceVersion of the list; dirty holds the objects that   *)
(* have a newer one.                                                       *)
(***************************************************************************)
EXTENDS TopologyInputs, Sequences

CONSTANTS
  Worlds,      \* what may happen in a cluster, by the cluster's name: see below
  Scenarios    \* records [start, budget]: start has nodes, fabricNodes and switches,
               \* budget the name of the world and how often each kind of event happens

VARIABLES
  nodes,         \* Nodes that exist, to their topology labels
  fabricNodes,   \* FabricNodes that exist, to their status
  switches,      \* Switches that exist
  topologies,    \* Topologies that exist: [deleting, finalizer], by role
  managed,       \* managedTopologies
  pc,            \* where Reconcile is
  left,          \* roles that the loop at pc has still to handle
  seen,          \* the lists Reconcile has read
  plan,          \* labels that are still to be written, or to be removed
  dirty,         \* objects written by others since they were listed
  budget

cluster == <<nodes, fabricNodes, switches>>
local == <<pc, left, seen, plan, dirty>>
vars == <<nodes, fabricNodes, switches, topologies, managed, pc, left, seen, plan, dirty, budget>>

World == Worlds[budget.world]
FabricNodeStates == World.fabricNodes   \* what the agent of a node may report, by node name
SwitchStates == World.switches          \* what a Switch may be, without its label, by name
Departing == World.departing            \* the Nodes and Switches that may be deleted
UserLabels == World.labels              \* labels that users write: [role, tier, name]
Configurations == World.configurations  \* sequences of managed roles that may be configured

\* Cables stay where they are, a leaf in service has nodes, and nobody writes
\* labels by hand.
Steady == World.steady

Empty == [x \in {} |-> {}]
Foreign == <<0, 0>>
Unread == [nodes |-> Empty, fabricNodes |-> Empty, switches |-> Empty]
NoPlan == [valid |-> TRUE, nodes |-> {}, switches |-> {}]

LOCAL Min(S) == CHOOSE x \in S : \A y \in S : x <= y
LOCAL Largest(S) == CHOOSE x \in S : \A y \in S : x >= y
Without(f, x) == [y \in DOMAIN f \ {x} |-> f[y]]

-----------------------------------------------------------------------------
(* buildAutoLabelPlan                                                       *)

\* FabricNodes whose Node is in the list.
Eligible(view) == [n \in DOMAIN view.fabricNodes \cap DOMAIN view.nodes |-> view.fabricNodes[n]]

InputsOf(role, view) == BuildTopologyInputsForRole(role, Eligible(view), view.switches)

\* The groups with the hosts whose walk up the parents meets them.
\* normalizeDiscoveredGroups fails for a host that is hidden by a switch of the
\* same name when that switch has a parent: the path does not begin at tier 1.
DiscoverTopology(inputs, graph, tier) ==
  [valid |-> inputs.valid /\ \A p \in TierLinks(graph.adj, tier) :
               p[1] \in inputs.hosts \cap graph.switches => tier[p[2]] < tier[p[1]],
   groups |-> IF inputs.valid THEN GroupsByTier(graph, tier) ELSE {}]

\* The quantifiers bind what the code computes once.
Discover(role, view) ==
  CHOOSE discovered \in
    UNION {UNION {{DiscoverTopology(inputs, graph, tier) : tier \in {Tiers(graph)}} :
                    graph \in {BuildTopologyGraph(inputs.hosts, inputs.neighbors)}} :
             inputs \in {InputsOf(role, view)}} : TRUE

NamesOnNodes(role, view) ==
  UNION {{l \in view.nodes[n] : l.role = role} : n \in DOMAIN view.nodes}

NamesOnSwitches(role, view) ==
  UNION {view.switches[s].label : s \in SwitchesOfRole(role, view.switches)}

\* scanExistingAutoNames and scanExistingAutoMemberName.
ScanFails(role, view) ==
  \/ \E l \in NamesOnNodes(role, view) : l.name[1] # l.tier
  \/ Foreign \in NamesOnSwitches(role, view)

MaxByTier(role, view, tier) ==
  Largest({0} \cup {name[2] : name \in {x \in {l.name : l \in NamesOnNodes(role, view)} \cup
                                              NamesOnSwitches(role, view) : x[1] = tier}})

NodeNames(role, view, n, tier) ==
  {l.name : l \in {x \in view.nodes[n] : x.role = role /\ x.tier = tier}}

\* A member that is no Switch is a synthetic leaf.  One that is a Switch of
\* another role counts as that Switch.
SwitchNames(view, s) == IF s \in DOMAIN view.switches THEN view.switches[s].label ELSE {}

Locked(role, view, grp) ==
  UNION ({NodeNames(role, view, n, grp.tier) : n \in grp.nodes} \cup
         {SwitchNames(view, s) : s \in grp.members})

\* The locked name or, in the order of the member names, the next number.
AssignedName(role, view, groups, grp) ==
  IF Locked(role, view, grp) # {} THEN CHOOSE name \in Locked(role, view, grp) : TRUE
  ELSE <<grp.tier, MaxByTier(role, view, grp.tier) +
                   Cardinality({other \in groups :
                                  /\ other.tier = grp.tier
                                  /\ Locked(role, view, other) = {}
                                  /\ Min(other.members) <= Min(grp.members)})>>

\* Mutant: the names of different groups are not compared.
MutConflict(role, view, groups) ==
  \E grp \in groups : \/ NodeOnly(role, view.switches) /\ grp.tier # 1
                      \/ Cardinality(Locked(role, view, grp)) > 1
                      \/ \E name \in Locked(role, view, grp) : name[1] # grp.tier

\* The errors of the loop over the groups.  Two groups get one name when it is
\* locked in both, or locked in one on a Switch of another role, whose names
\* MaxByTier does not count.
Conflict(role, view, groups) ==
  \/ \E grp \in groups : \/ NodeOnly(role, view.switches) /\ grp.tier # 1
                         \/ Cardinality(Locked(role, view, grp)) > 1
                         \/ \E name \in Locked(role, view, grp) : name[1] # grp.tier
  \/ \E g1, g2 \in groups :
       /\ g1 # g2
       /\ AssignedName(role, view, groups, g1) = AssignedName(role, view, groups, g2)

\* Mutant: the leaf label of a Node is left out.
MutMissingAboveLeaf(role, view, groups) ==
  {<<p[1], [role |-> role, tier |-> p[2].tier, name |-> AssignedName(role, view, groups, p[2])]>> :
     p \in {q \in (DOMAIN view.nodes) \X groups :
              /\ q[1] \in q[2].nodes /\ q[2].tier > 1
              /\ NodeNames(role, view, q[1], q[2].tier) = {}}}

MissingOnNodes(role, view, groups) ==
  {<<p[1], [role |-> role, tier |-> p[2].tier, name |-> AssignedName(role, view, groups, p[2])]>> :
     p \in {q \in (DOMAIN view.nodes) \X groups :
              q[1] \in q[2].nodes /\ NodeNames(role, view, q[1], q[2].tier) = {}}}

MissingOnSwitches(role, view, groups) ==
  {<<p[1], AssignedName(role, view, groups, p[2])>> :
     p \in {q \in (DOMAIN view.switches) \X groups :
              q[1] \in q[2].members /\ view.switches[q[1]].label = {}}}

BuildAutoLabelPlan(role, view, discovered) ==
  IF ScanFails(role, view) \/ ~discovered.valid \/ Conflict(role, view, discovered.groups)
  THEN [NoPlan EXCEPT !.valid = FALSE]
  ELSE [valid |-> TRUE,
        nodes |-> MissingOnNodes(role, view, discovered.groups),
        switches |-> MissingOnSwitches(role, view, discovered.groups)]

-----------------------------------------------------------------------------
(* Reconcile.  MaxConcurrentReconciles is 1.                                *)

Init ==
  /\ \E s \in Scenarios : /\ nodes = s.start.nodes
                          /\ fabricNodes = s.start.fabricNodes
                          /\ switches = s.start.switches
                          /\ managed \in Worlds[s.budget.world].configurations
                          /\ budget = s.budget
  /\ topologies = Empty
  /\ pc = "idle" /\ left = << >> /\ seen = Unread /\ plan = NoPlan /\ dirty = {}

\* Reconcile returns, with or without an error; it is called again after an
\* event, an error or autoTopologyResync.
Return ==
  /\ pc' = "idle" /\ left' = << >> /\ seen' = Unread /\ plan' = NoPlan /\ dirty' = {}

Goto(step, roles) == pc' = step /\ left' = roles

Unmanaged == SelectSeq(<<"ScaleOut", "Storage">>, LAMBDA r : \A i \in DOMAIN managed : managed[i] # r)

Begin ==
  /\ pc = "idle"
  /\ Goto("release", Unmanaged)
  /\ UNCHANGED <<cluster, topologies, managed, seen, plan, dirty, budget>>

\* Mutant: the finalizer stays.
MutFinalizerRemoved(role) == topologies

\* A Topology that is being deleted is gone once it has no finalizer.
FinalizerRemoved(role) ==
  IF topologies[role].deleting THEN Without(topologies, role)
  ELSE [topologies EXCEPT ![role].finalizer = FALSE]

ReleaseUnmanagedFinalizers ==
  /\ pc = "release"
  /\ IF left = << >>
     THEN Goto("check", managed) /\ UNCHANGED <<topologies, seen, plan, dirty>>
     ELSE IF Head(left) \in DOMAIN topologies /\ topologies[Head(left)].finalizer
     THEN topologies' = FinalizerRemoved(Head(left)) /\ Return
     ELSE Goto("release", Tail(left)) /\ UNCHANGED <<topologies, seen, plan, dirty>>
  /\ UNCHANGED <<cluster, managed, budget>>

CheckDeleting ==
  /\ pc = "check"
  /\ IF left = << >> THEN Goto("listFabricNodes", << >>) /\ UNCHANGED <<seen, plan, dirty>>
     ELSE IF Head(left) \notin DOMAIN topologies \/ ~topologies[Head(left)].deleting
     THEN Goto("check", Tail(left)) /\ UNCHANGED <<seen, plan, dirty>>
     ELSE IF topologies[Head(left)].finalizer
     THEN Goto("resetNodes", <<Head(left)>>) /\ UNCHANGED <<seen, plan, dirty>>
     ELSE Return
  /\ UNCHANGED <<cluster, topologies, managed, budget>>

\* resetTopology: the lists, the patches in list order, the finalizer.
ResetListNodes ==
  /\ pc = "resetNodes"
  /\ plan' = [plan EXCEPT !.nodes =
                 UNION {{n} \X {l \in nodes[n] : l.role = Head(left)} : n \in DOMAIN nodes}]
  /\ dirty' = {}
  /\ Goto("resetSwitches", left)
  /\ UNCHANGED <<cluster, topologies, managed, seen, budget>>

ResetListSwitches ==
  /\ pc = "resetSwitches"
  /\ plan' = [plan EXCEPT !.switches =
                 UNION {{s} \X switches[s].label : s \in SwitchesOfRole(Head(left), switches)}]
  /\ Goto("reset", left)
  /\ dirty' = dirty \ DOMAIN SwitchStates
  /\ UNCHANGED <<cluster, topologies, managed, seen, budget>>

PlanOf(changes, x) == {c[2] : c \in {d \in changes : d[1] = x}}
Remaining(changes, x) == {c \in changes : c[1] # x}
NextObject(changes) == Min({c[1] : c \in changes})

\* Mutant: a patch carries no resource version.
MutAccepted(x, objects) == x \in DOMAIN objects

\* A patch is rejected when the object is gone or has changed.
Accepted(x, objects) == x \in DOMAIN objects \ dirty

\* A reset removes the planned labels, an application sets them.
Patched(labels, change) == IF pc = "reset" THEN labels \ change ELSE labels \cup change

\* patchNodeLabels and patchSwitchLabels, with what reconcileLabelMap does.
PatchNode ==
  LET n == NextObject(plan.nodes)
  IN  IF Accepted(n, nodes)
      THEN /\ nodes' = [nodes EXCEPT ![n] = Patched(@, PlanOf(plan.nodes, n))]
           /\ plan' = [plan EXCEPT !.nodes = Remaining(@, n)]
           /\ UNCHANGED <<pc, left, seen, dirty>>
      ELSE Return /\ UNCHANGED nodes

PatchSwitch ==
  LET s == NextObject(plan.switches)
  IN  IF Accepted(s, switches)
      THEN /\ switches' = [switches EXCEPT ![s].label = Patched(@, PlanOf(plan.switches, s))]
           /\ plan' = [plan EXCEPT !.switches = Remaining(@, s)]
           /\ UNCHANGED <<pc, left, seen, dirty>>
      ELSE Return /\ UNCHANGED switches

ResetNode ==
  /\ pc = "reset" /\ plan.nodes # {}
  /\ PatchNode
  /\ UNCHANGED <<fabricNodes, switches, topologies, managed, budget>>

ResetSwitch ==
  /\ pc = "reset" /\ plan.nodes = {} /\ plan.switches # {}
  /\ PatchSwitch
  /\ UNCHANGED <<nodes, fabricNodes, topologies, managed, budget>>

ResetDone ==
  /\ pc = "reset" /\ plan.nodes = {} /\ plan.switches = {}
  /\ topologies' = FinalizerRemoved(Head(left))
  /\ Return
  /\ UNCHANGED <<cluster, managed, budget>>

ListFabricNodes ==
  /\ pc = "listFabricNodes"
  /\ seen' = [seen EXCEPT !.fabricNodes = fabricNodes]
  /\ Goto("listSwitches", << >>)
  /\ UNCHANGED <<cluster, topologies, managed, plan, dirty, budget>>

ListSwitches ==
  /\ pc = "listSwitches"
  /\ seen' = [seen EXCEPT !.switches = switches]
  /\ dirty' = {}
  /\ Goto("listNodes", << >>)
  /\ UNCHANGED <<cluster, topologies, managed, plan, budget>>

ListNodes ==
  /\ pc = "listNodes"
  /\ seen' = [seen EXCEPT !.nodes = nodes]
  /\ dirty' = dirty \ DOMAIN FabricNodeStates
  /\ Goto("plan", managed)
  /\ UNCHANGED <<cluster, topologies, managed, plan, budget>>

EnsureTopologyFinalizer(role, createIfMissing) ==
  IF role \notin DOMAIN topologies
  THEN IF createIfMissing
       THEN (role :> [deleting |-> FALSE, finalizer |-> TRUE]) @@ topologies
       ELSE topologies
  ELSE IF topologies[role].deleting THEN topologies
  ELSE [topologies EXCEPT ![role].finalizer = TRUE]

\* merge fails when two roles name one Switch differently.
Merged(p, q) == [p EXCEPT !.nodes = @ \cup q.nodes, !.switches = @ \cup q.switches]

MergeFails(p, q) == \E c \in p.switches, d \in q.switches : c[1] = d[1] /\ c[2] # d[2]

\* Mutant: the finalizer is not put on the Topology before labels are written.
MutPlanRole ==
  /\ pc = "plan"
  /\ IF left = << >>
     THEN Goto("apply", << >>) /\ UNCHANGED <<topologies, seen, plan, dirty>>
     ELSE \E discovered \in {Discover(Head(left), seen)} :
          \E rolePlan \in {BuildAutoLabelPlan(Head(left), seen, discovered)} :
              IF ~rolePlan.valid THEN Return /\ UNCHANGED topologies
              ELSE /\ plan' = Merged(plan, rolePlan)
                   /\ Goto("plan", Tail(left))
                   /\ UNCHANGED <<topologies, seen, dirty>>
  /\ UNCHANGED <<cluster, managed, budget>>

PlanRole ==
  /\ pc = "plan"
  /\ IF left = << >>
     THEN Goto("apply", << >>) /\ UNCHANGED <<topologies, seen, plan, dirty>>
     ELSE \E discovered \in {Discover(Head(left), seen)} :
          \E rolePlan \in {BuildAutoLabelPlan(Head(left), seen, discovered)} :
              IF ~rolePlan.valid THEN Return /\ UNCHANGED topologies
              ELSE /\ topologies' = EnsureTopologyFinalizer(Head(left),
                                      rolePlan.nodes \cup rolePlan.switches # {})
                   /\ IF MergeFails(plan, rolePlan) THEN Return
                      ELSE /\ plan' = Merged(plan, rolePlan)
                           /\ Goto("plan", Tail(left))
                           /\ UNCHANGED <<seen, dirty>>
  /\ UNCHANGED <<cluster, managed, budget>>

ApplyNode ==
  /\ pc = "apply" /\ plan.nodes # {}
  /\ PatchNode
  /\ UNCHANGED <<fabricNodes, switches, topologies, managed, budget>>

ApplySwitch ==
  /\ pc = "apply" /\ plan.nodes = {} /\ plan.switches # {}
  /\ PatchSwitch
  /\ UNCHANGED <<nodes, fabricNodes, topologies, managed, budget>>

ApplyDone ==
  /\ pc = "apply" /\ plan.nodes = {} /\ plan.switches = {}
  /\ Return
  /\ UNCHANGED <<cluster, topologies, managed, budget>>

Reconcile ==
  \/ Begin \/ ReleaseUnmanagedFinalizers \/ CheckDeleting
  \/ ResetListNodes \/ ResetListSwitches \/ ResetNode \/ ResetSwitch \/ ResetDone
  \/ ListFabricNodes \/ ListSwitches \/ ListNodes \/ PlanRole
  \/ ApplyNode \/ ApplySwitch \/ ApplyDone

-----------------------------------------------------------------------------
(* Everyone else.                                                           *)

Spend(kind) == budget[kind] > 0 /\ budget' = [budget EXCEPT ![kind] = @ - 1]

Written(x) == dirty' = IF pc = "idle" THEN {} ELSE dirty \cup {x}

\* A call fails, its answer is lost, or the process dies between two calls.
Abort ==
  /\ pc # "idle" /\ Spend("abort")
  /\ Return
  /\ UNCHANGED <<cluster, topologies, managed>>

\* The controller is started again with another configuration.
Restart(roles) ==
  /\ roles # managed /\ Spend("restart")
  /\ managed' = roles
  /\ Return
  /\ UNCHANGED <<cluster, topologies>>

\* A kubelet or a switch subscription writes what does not concern topology.
Touch(x) ==
  /\ pc # "idle" /\ x \in (DOMAIN nodes \cup DOMAIN switches) \ dirty
  /\ Spend("touch") /\ Written(x)
  /\ UNCHANGED <<cluster, topologies, managed, pc, left, seen, plan>>

CreateNode(n) ==
  /\ n \notin DOMAIN nodes /\ Spend("node") /\ Written(n)
  /\ nodes' = (n :> {}) @@ nodes
  /\ UNCHANGED <<fabricNodes, switches, topologies, managed, pc, left, seen, plan>>

DeleteNode(n) ==
  /\ n \in DOMAIN nodes \cap Departing /\ Spend("node") /\ Written(n)
  /\ nodes' = Without(nodes, n)
  /\ UNCHANGED <<fabricNodes, switches, topologies, managed, pc, left, seen, plan>>

\* The agent on a node creates its FabricNode or updates it.
ReportFabricNode(n, status) ==
  /\ n \in DOMAIN fabricNodes => fabricNodes[n] # status
  /\ Spend("fabricNode")
  /\ fabricNodes' = (n :> status) @@ fabricNodes
  /\ UNCHANGED <<nodes, switches, topologies, managed, local>>

DeleteFabricNode(n) ==
  /\ n \in DOMAIN fabricNodes \cap Departing /\ Spend("fabricNode")
  /\ fabricNodes' = Without(fabricNodes, n)
  /\ UNCHANGED <<nodes, switches, topologies, managed, local>>

Labelled(state, label) ==
  [role |-> state.role, hostname |-> state.hostname, annotated |-> state.annotated,
   manual |-> state.manual, neighbors |-> state.neighbors, label |-> label]

\* A user creates or edits a Switch, or its agent reports other neighbors.
ReportSwitch(s, state) ==
  /\ Spend("switch") /\ Written(s)
  /\ IF s \in DOMAIN switches
     THEN /\ switches[s] # Labelled(state, switches[s].label)
          /\ switches' = [switches EXCEPT ![s] = Labelled(state, @.label)]
     ELSE switches' = (s :> Labelled(state, {})) @@ switches
  /\ UNCHANGED <<nodes, fabricNodes, topologies, managed, pc, left, seen, plan>>

DeleteSwitch(s) ==
  /\ s \in DOMAIN switches \cap Departing /\ Spend("switch") /\ Written(s)
  /\ switches' = Without(switches, s)
  /\ UNCHANGED <<nodes, fabricNodes, topologies, managed, pc, left, seen, plan>>

LabelNode(n, label) ==
  /\ n \in DOMAIN nodes /\ label \notin nodes[n] /\ Spend("label") /\ Written(n)
  /\ nodes' = [nodes EXCEPT ![n] = {l \in @ : l.role # label.role \/ l.tier # label.tier}
                                   \cup {label}]
  /\ UNCHANGED <<fabricNodes, switches, topologies, managed, pc, left, seen, plan>>

LabelSwitch(s, label) ==
  /\ s \in DOMAIN switches /\ switches[s].label # {label.name}
  /\ Spend("label") /\ Written(s)
  /\ switches' = [switches EXCEPT ![s].label = {label.name}]
  /\ UNCHANGED <<nodes, fabricNodes, topologies, managed, pc, left, seen, plan>>

DeleteTopology(role) ==
  /\ role \in DOMAIN topologies /\ ~topologies[role].deleting /\ Spend("delete")
  /\ topologies' = IF topologies[role].finalizer
                   THEN [topologies EXCEPT ![role].deleting = TRUE]
                   ELSE Without(topologies, role)
  /\ UNCHANGED <<cluster, managed, local>>

\* The topology status controller creates the object when its cache holds
\* labels, which may be gone already.
CreateTopologyForStatus(role) ==
  /\ role \notin DOMAIN topologies /\ Spend("create")
  /\ topologies' = (role :> [deleting |-> FALSE, finalizer |-> FALSE]) @@ topologies
  /\ UNCHANGED <<cluster, managed, local>>

Environment ==
  \/ Abort
  \/ \E roles \in Configurations : Restart(roles)
  \/ \E x \in DOMAIN nodes \cup DOMAIN switches : Touch(x)
  \/ \E n \in DOMAIN FabricNodeStates :
       \/ CreateNode(n) \/ DeleteNode(n) \/ DeleteFabricNode(n)
       \/ \E status \in FabricNodeStates[n] : ReportFabricNode(n, status)
       \/ \E label \in UserLabels : LabelNode(n, label)
  \/ \E s \in DOMAIN SwitchStates :
       \/ DeleteSwitch(s)
       \/ \E state \in SwitchStates[s] : ReportSwitch(s, state)
       \/ \E label \in UserLabels : LabelSwitch(s, label)
  \/ \E role \in {"ScaleOut", "Storage"} : DeleteTopology(role) \/ CreateTopologyForStatus(role)

Next == Reconcile \/ Environment

\* controller-runtime calls Reconcile again after every return, and every call
\* it makes returns.
Spec == Init /\ [][Next]_vars /\ WF_vars(Reconcile)

-----------------------------------------------------------------------------
Name == {Foreign} \cup {<<t, k>> : t \in 1 .. 9, k \in 1 .. 9}

Current == [nodes |-> nodes, fabricNodes |-> fabricNodes, switches |-> switches]

IsManaged(role) == \E i \in DOMAIN managed : managed[i] = role

\* A label that is there is never replaced and never removed by the controller,
\* except that a managed role's labels are removed while its Topology is being
\* deleted; whatever users wrote, whatever else was written since the lists
\* were read.
OnlyFills ==
  [][budget' = budget =>
       /\ \A n \in DOMAIN nodes : \A l \in nodes[n] \ nodes'[n] :
            IsManaged(l.role) /\ l.role \in DOMAIN topologies /\ topologies[l.role].deleting
       /\ \A n \in DOMAIN nodes : \A l, k \in nodes'[n] :
            l.role = k.role /\ l.tier = k.tier => l = k
       /\ \A s \in DOMAIN switches : switches[s].label # switches'[s].label =>
            \/ switches[s].label = {}
            \/ /\ switches'[s].label = {} /\ IsManaged(switches[s].role)
               /\ switches[s].role \in DOMAIN topologies
               /\ topologies[switches[s].role].deleting]_vars

\* As long as labels of a role are on any object that no user has labelled, the
\* Topology of the role exists and its finalizer will have them cleared when it is deleted; the
\* Topology is never gone with labels left behind.
LabelsHaveOwner ==
  Steady => \A role \in {"ScaleOut", "Storage"} :
    NamesOnNodes(role, Current) # {} \/ NamesOnSwitches(role, Current) # {} =>
      role \in DOMAIN topologies /\ topologies[role].finalizer

\* Every group has one name, which all its Switches and Nodes carry, and no
\* other group of the role has it.
Complete(role) ==
  LET groups == Discover(role, Current).groups
      Carried(grp) == {NodeNames(role, Current, n, grp.tier) : n \in grp.nodes} \cup
                      {switches[s].label : s \in grp.members \cap DOMAIN switches}
  IN  /\ \A grp \in groups : \E name \in Name : Carried(grp) = {{name}}
      /\ \A g1, g2 \in groups : g1 # g2 => Carried(g1) \cap Carried(g2) = {}

SameInputs ==
  /\ fabricNodes = seen.fabricNodes
  /\ DOMAIN nodes = DOMAIN seen.nodes /\ DOMAIN switches = DOMAIN seen.switches
  /\ \A s \in DOMAIN switches : Labelled(switches[s], {}) = Labelled(seen.switches[s], {})

Succeeded == pc = "apply" /\ plan.nodes = {} /\ plan.switches = {}

\* Reconcile returns without an error only after it has finished the job: unless
\* the cluster changed meanwhile, every group of every managed role is then
\* named, completely and uniquely.
SuccessIsComplete ==
  Succeeded /\ SameInputs /\ dirty = {} => \A i \in DOMAIN managed : Complete(managed[i])

\* A Topology that a user deletes does go away, over conflicts and failures.
DeletionCompletes ==
  \A role \in {"ScaleOut", "Storage"} :
    (role \in DOMAIN topologies /\ topologies[role].deleting)
      ~> ~(role \in DOMAIN topologies /\ topologies[role].deleting)

\* Once a steady cluster stops changing, every Node with a NIC on a leaf of a managed
\* role has its leaf label in the end, and keeps it.
LabelledInTheEnd ==
  <>[](Steady => \A i \in DOMAIN managed : \A n \in DOMAIN nodes \cap DOMAIN fabricNodes :
         PeersOfNode(managed[i], fabricNodes[n], switches) # {} =>
           NodeNames(managed[i], Current, n, 1) # {})
=============================================================================
