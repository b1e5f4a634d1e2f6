--------------------------- MODULE TopologyStatus ---------------------------
(***************************************************************************)
(* The topology status controller (pkg/controller/topologystatus, files    *)
(* controller.go and build.go) for one of the fixed Topology names.        *)
(*                                                                         *)
(* A Topology's status is computed from the labels of Nodes and Switches   *)
(* and from the status it had: node groups keep their names.  The previous *)
(* status is read from an informer cache that may be behind the API        *)
(* server; a write is refused unless the copy it is based on is the newest *)
(* (optimistic lock).                                                      *)
(*                                                                         *)
(* Names of Nodes, Switches and domains are integers in string order.  A   *)
(* Node's topology labels are a function from tiers to domains: a label    *)
(* key and its tier determine each other.  Label values are valid domain   *)
(* names, because the API server accepts no others.  The name node-groupN  *)
(* is the number N.                                                        *)
(***************************************************************************)
EXTENDS Integers, Sequences, FiniteSets, SequencesExt, FiniteSetsExt

CONSTANTS
  NodeLabels,   \* Node -> the label functions the Node may get
  SwitchLabels, \* Switch -> the [role, domain] pairs the Switch may get
  Starts,       \* initial [nodes, switches]
  Role,         \* the role whose Switches belong to this Topology
  Budgets,      \* how many events of each kind a behaviour may contain
  None          \* an absent object, an empty label, nothing read

\* A Node carries finitely many topology labels, and domains are integers.
IsLabels(l) == IsFiniteSet(DOMAIN l) /\ \A t \in DOMAIN l : l[t] \in Int

ASSUME LabelAssumptions ==
  /\ IsFiniteSet(DOMAIN NodeLabels)
  /\ \A n \in DOMAIN NodeLabels : \A l \in NodeLabels[n] : IsLabels(l)
  /\ \A s \in Starts : /\ DOMAIN s.nodes \subseteq DOMAIN NodeLabels
                       /\ \A n \in DOMAIN s.nodes : IsLabels(s.nodes[n])

NoDomain == 0
EmptyStatus == [domains |-> {}, groups |-> {}]

VARIABLES
  nodes,      \* the Nodes and their labels, as the informer shows them
  switches,   \* the Switches, likewise
  topology,   \* the Topology in the API server: [deleting, status] or None
  cache,      \* the informer's copy of it
  watch,      \* versions of it the informer has not seen yet
  queued,     \* the work queue holds a request
  debounce,   \* notBefore: "None", "Waiting" before and "Over" after the deadline
  rec,        \* the reconcile in progress
  skipped,    \* history: the last decision not to write was taken on an old copy
  budget

vars == <<nodes, switches, topology, cache, watch, queued, debounce, rec, skipped, budget>>
world == <<nodes, switches>>
api == <<topology, cache, watch>>

-----------------------------------------------------------------------------
(* BuildTopologyStatus                                                     *)

Labelled(ns) == {n \in DOMAIN ns : ns[n] # <<>>}
TiersOf(ns, n) == DOMAIN ns[n]

\* labelsByTier and the loop over the Nodes: no path may have a hole, a domain
\* is in one tier and has one parent.
Conflict(ns) ==
  \/ \E n \in Labelled(ns) : TiersOf(ns, n) # 1 .. Cardinality(TiersOf(ns, n))
  \/ \E n, m \in Labelled(ns) : \E t \in TiersOf(ns, n), u \in TiersOf(ns, m) :
       /\ ns[n][t] = ns[m][u]
       /\ \/ t # u
          \/ /\ t + 1 \in TiersOf(ns, n) /\ u + 1 \in TiersOf(ns, m)
             /\ ns[n][t + 1] # ns[m][u + 1]

Path(l) == Reverse([t \in 1 .. Cardinality(DOMAIN l) |-> l[t]])

\* Paths are compared as strings joined by the zero byte.
PathLess(p, q) ==
  \/ IsStrictPrefix(p, q)
  \/ \E i \in 1 .. Len(p) : /\ i <= Len(q) /\ p[i] < q[i]
                            /\ \A j \in 1 .. i - 1 : p[j] = q[j]

Previous(groups, path) == {g \in groups : g.path = path}

\* Mutant: numbers in use are not avoided.
MutFreshNumberReuses(taken, k) == k

\* The k-th new group gets the k-th number that no previous group has.
FreshNumber(taken, k) ==
  CHOOSE x \in 1 .. Cardinality(taken) + k :
    /\ x \notin taken
    /\ Cardinality((1 .. x) \ taken) = k

AssignNodeGroupNames(paths, previous) ==
  LET known == {p \in paths : Previous(previous, p) # {}}
      taken == {g.name : g \in previous}
      rank(p) == Cardinality({q \in paths \ known : q = p \/ PathLess(q, p)})
  IN [p \in paths |-> IF p \in known THEN (CHOOSE g \in Previous(previous, p) : TRUE).name
                                     ELSE FreshNumber(taken, rank(p))]

Domains(ns) == UNION {{<<ns[n][t], t>> : t \in TiersOf(ns, n)} : n \in Labelled(ns)}
Parents(ns, d) ==
  UNION {{ns[n][t + 1] : t \in {u \in TiersOf(ns, n) : ns[n][u] = d /\ u + 1 \in TiersOf(ns, n)}} :
           n \in Labelled(ns)}

\* Members are the Switches that carry the domain; others are pending.
BuildTopologyStatus(ns, ss, previous) ==
  LET paths == {Path(ns[n]) : n \in Labelled(ns)}
      name == AssignNodeGroupNames(paths, previous)
  IN [domains |-> {[name |-> d[1], tier |-> d[2],
                    parent |-> IF Parents(ns, d[1]) = {} THEN NoDomain
                               ELSE CHOOSE p \in Parents(ns, d[1]) : TRUE,
                    members |-> {s \in DOMAIN ss : ss[s].domain = d[1]}] : d \in Domains(ns)},
      groups |-> {[name |-> name[p], path |-> p,
                   nodes |-> {n \in Labelled(ns) : Path(ns[n]) = p}] : p \in paths}]

\* switchBelongsToTopology, effectiveTopologySwitchRole.
EffectiveRole(s) == IF s.role = None THEN "ScaleOut" ELSE s.role
Belonging(ss) == [s \in {x \in DOMAIN ss : EffectiveRole(ss[x]) = Role} |-> ss[s]]

-----------------------------------------------------------------------------
Idle == [at |-> "Idle", object |-> None, fresh |-> TRUE, nodes |-> None, status |-> None]

Init ==
  /\ \E s \in Starts : nodes = s.nodes /\ switches = s.switches
  /\ topology = None /\ cache = None /\ watch = <<>>
  /\ queued = TRUE /\ debounce = "None" /\ rec = Idle
  /\ skipped = FALSE
  /\ budget \in Budgets

Spend(kind) == budget[kind] > 0 /\ budget' = [budget EXCEPT ![kind] = @ - 1]

\* The API server stores an object: the watch will report it, and every copy
\* but the writer's is out of date.
Store(object) ==
  /\ topology' = object
  /\ watch' = Append(watch, object)
  /\ UNCHANGED cache

\* fixedTopologyPredicate: creation, deletion and a changed deletionTimestamp.
TopologyEvent(old, new) ==
  \/ (old = None) # (new = None)
  \/ old # None /\ new # None /\ old.deleting # new.deleting

Inform ==
  /\ watch # <<>>
  /\ cache' = Head(watch) /\ watch' = Tail(watch)
  /\ queued' = (queued \/ TopologyEvent(cache, Head(watch)))
  /\ UNCHANGED <<world, topology, debounce, rec, skipped, budget>>

\* topologyLabelPredicate: a Node's or a Switch's topology labels, or the role
\* of a Switch, change.
ChangeNode(n) ==
  \E l \in NodeLabels[n] :
    /\ ~(n \in DOMAIN nodes /\ nodes[n] = l)
    /\ Spend("node")
    /\ nodes' = [m \in DOMAIN nodes \cup {n} |-> IF m = n THEN l ELSE nodes[m]]
    /\ queued' = TRUE
    /\ UNCHANGED <<switches, api, debounce, rec, skipped>>

RemoveNode(n) ==
  /\ n \in DOMAIN nodes /\ Spend("node")
  /\ nodes' = [m \in DOMAIN nodes \ {n} |-> nodes[m]]
  /\ queued' = (queued \/ nodes[n] # <<>>)
  /\ UNCHANGED <<switches, api, debounce, rec, skipped>>

ChangeSwitch(s) ==
  \E l \in SwitchLabels[s] :
    /\ switches[s] # l /\ Spend("switch")
    /\ switches' = [switches EXCEPT ![s] = l]
    /\ queued' = (\/ queued
                  \/ switches[s].domain # l.domain
                  \/ EffectiveRole(switches[s]) # EffectiveRole(l))
    /\ UNCHANGED <<nodes, api, debounce, rec, skipped>>

\* A user deletes the Topology; the label controller's finalizer is what makes
\* deletion two steps.
RequestDeletion ==
  /\ topology # None /\ ~topology.deleting /\ Spend("delete")
  /\ Store([topology EXCEPT !.deleting = TRUE])
  /\ rec' = [rec EXCEPT !.fresh = FALSE]
  /\ UNCHANGED <<world, queued, debounce, skipped>>

Delete ==
  /\ topology # None /\ topology.deleting
  /\ Store(None)
  /\ rec' = [rec EXCEPT !.fresh = FALSE]
  /\ UNCHANGED <<world, queued, debounce, skipped, budget>>

\* A user creates the Topology (the manual and annotation documents do).
UserCreate ==
  /\ topology = None /\ Spend("create")
  /\ Store([deleting |-> FALSE, status |-> EmptyStatus])
  /\ rec' = [rec EXCEPT !.fresh = FALSE]
  /\ UNCHANGED <<world, queued, debounce, skipped>>

-----------------------------------------------------------------------------
(* debounceDelay.  The first call starts a delay and asks to be called     *)
(* when it is over; calls before that ask for the rest of it.              *)

StartDelay ==
  /\ rec.at = "Idle" /\ queued /\ debounce = "None"
  /\ debounce' = "Waiting" /\ queued' = FALSE
  /\ UNCHANGED <<world, api, rec, skipped, budget>>

StillDelayed ==
  /\ rec.at = "Idle" /\ queued /\ debounce = "Waiting"
  /\ queued' = FALSE
  /\ UNCHANGED <<world, api, debounce, rec, skipped, budget>>

\* Mutant: nobody asks for the request again.
MutDelayOver ==
  /\ debounce = "Waiting"
  /\ debounce' = "Over" /\ UNCHANGED queued
  /\ UNCHANGED <<world, api, rec, skipped, budget>>

\* The work queue's timer: RequeueAfter adds the request again.
DelayOver ==
  /\ debounce = "Waiting"
  /\ debounce' = "Over" /\ queued' = TRUE
  /\ UNCHANGED <<world, api, rec, skipped, budget>>

\* The delay is over: the Topology is read from the cache.
Begin ==
  /\ rec.at = "Idle" /\ queued /\ debounce = "Over"
  /\ debounce' = "None" /\ queued' = FALSE
  /\ rec' = IF cache # None /\ cache.deleting THEN Idle
            ELSE [Idle EXCEPT !.at = "List", !.object = cache, !.fresh = (watch = <<>>)]
  /\ UNCHANGED <<world, api, skipped, budget>>

ListNodes ==
  /\ rec.at = "List"
  /\ rec' = [rec EXCEPT !.at = "Build", !.nodes = nodes]
  /\ UNCHANGED <<world, api, queued, debounce, skipped, budget>>

PreviousGroups(object) == IF object = None THEN {} ELSE object.status.groups

\* The Switches are listed and the status is built.  A conflict among labels
\* preserves the status and is retried; an equal status is not written.
ListSwitchesAndBuild ==
  /\ rec.at = "Build"
  /\ IF Conflict(rec.nodes)
     THEN rec' = Idle /\ queued' = TRUE /\ UNCHANGED skipped
     ELSE \E new \in {BuildTopologyStatus(rec.nodes, Belonging(switches), PreviousGroups(rec.object))} :
            IF IF rec.object = None THEN new = EmptyStatus ELSE rec.object.status = new
            THEN rec' = Idle /\ skipped' = (rec.object # None /\ ~rec.fresh) /\ UNCHANGED queued
            ELSE /\ rec' = [rec EXCEPT !.at = IF rec.object = None THEN "Create" ELSE "Patch",
                                       !.status = new, !.nodes = None]
                 /\ UNCHANGED <<queued, skipped>>
  /\ UNCHANGED <<world, api, debounce, budget>>

\* Create: the object that is returned is the newest and has an empty status.
Create ==
  /\ rec.at = "Create" /\ topology = None
  /\ Store([deleting |-> FALSE, status |-> EmptyStatus])
  /\ rec' = [rec EXCEPT !.at = "Patch", !.object = [deleting |-> FALSE, status |-> EmptyStatus],
                        !.fresh = TRUE]
  /\ UNCHANGED <<world, queued, debounce, skipped, budget>>

\* AlreadyExists: the cache had not seen the object.
CreateRefused ==
  /\ rec.at = "Create" /\ topology # None
  /\ rec' = Idle /\ queued' = TRUE
  /\ UNCHANGED <<world, api, debounce, skipped, budget>>

\* Mutant: a patch without the optimistic lock.
MutPatchBlind ==
  /\ rec.at = "Patch" /\ topology # None
  /\ Store([topology EXCEPT !.status = rec.status])
  /\ rec' = Idle /\ skipped' = FALSE
  /\ UNCHANGED <<world, queued, debounce, budget>>

Patch ==
  /\ rec.at = "Patch" /\ rec.fresh
  /\ Store([topology EXCEPT !.status = rec.status])
  /\ rec' = Idle /\ skipped' = FALSE
  /\ UNCHANGED <<world, queued, debounce, budget>>

\* Conflict or NotFound: the error puts the request back.
PatchRefused ==
  /\ rec.at = "Patch" /\ ~rec.fresh
  /\ rec' = Idle /\ queued' = TRUE
  /\ UNCHANGED <<world, api, debounce, skipped, budget>>

\* A read or a write fails and the request is retried.  A write may have been
\* stored all the same.
CallFails ==
  /\ rec.at # "Idle" /\ Spend("fault")
  /\ \/ UNCHANGED api
     \/ rec.at = "Create" /\ topology = None /\ Store([deleting |-> FALSE, status |-> EmptyStatus])
     \/ rec.at = "Patch" /\ rec.fresh /\ Store([topology EXCEPT !.status = rec.status])
  /\ rec' = Idle /\ queued' = TRUE
  /\ UNCHANGED <<world, debounce, skipped>>

\* A new controller process: lists everything, remembers nothing.
Restart ==
  /\ Spend("restart")
  /\ cache' = topology /\ watch' = <<>>
  /\ queued' = (topology # None \/ Labelled(nodes) # {} \/ \E s \in DOMAIN switches : switches[s].domain # NoDomain)
  /\ debounce' = "None" /\ rec' = Idle /\ skipped' = FALSE
  /\ UNCHANGED <<world, topology>>

Reconcile ==
  \/ StartDelay \/ StillDelayed \/ Begin \/ ListNodes \/ ListSwitchesAndBuild
  \/ Create \/ CreateRefused \/ Patch \/ PatchRefused

Next ==
  \/ Inform \/ DelayOver \/ Reconcile \/ CallFails \/ Restart
  \/ RequestDeletion \/ Delete \/ UserCreate
  \/ \E n \in DOMAIN NodeLabels : ChangeNode(n) \/ RemoveNode(n)
  \/ \E s \in DOMAIN SwitchLabels : ChangeSwitch(s)

Spec == Init /\ [][Next]_vars

\* The worker, the queue's timer and the watch make progress; a finalizer is
\* removed in the end.
FairSpec ==
  /\ Spec
  /\ WF_vars(Reconcile) /\ WF_vars(DelayOver) /\ WF_vars(Inform) /\ WF_vars(Delete)

-----------------------------------------------------------------------------
(* Properties                                                              *)

\* Two node groups never have one name, however groups come and go and however
\* old the copy is from which names are taken over (assignNodeGroupNames).
NamesUnique ==
  topology # None =>
    \A g, h \in topology.status.groups : g.name = h.name \/ g.path = h.path => g = h

\* "An existing group keeps its name across reconciles": a write never renames
\* the group of a path that had one, although names are taken from a cached copy.
NamesKept ==
  [][topology # None /\ topology' # None =>
       \A g \in topology.status.groups, h \in topology'.status.groups :
         g.path = h.path => g.name = h.name]_vars

\* What the labels say, apart from the names of the groups.
Shown(st) == [domains |-> st.domains, groups |-> {[path |-> g.path, nodes |-> g.nodes] : g \in st.groups}]

Current ==
  IF topology = None THEN Labelled(nodes) = {}
  ELSE Shown(topology.status) = Shown(BuildTopologyStatus(nodes, Belonging(switches), {}))

\* Once labels stop changing and agree with each other, the status shows them:
\* the debounce loses no event, conflicts are retried and a deleted Topology is
\* created again.  The one exception: an equal status found in an old copy.
InSync == <>[](skipped \/ Conflict(nodes) \/ Current)
=============================================================================
