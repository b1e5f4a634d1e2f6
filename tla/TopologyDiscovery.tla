------------------------- MODULE TopologyDiscovery -------------------------
(***************************************************************************)
(* The traversals of pkg/topology: InferTiers, CollectConnectedZones,      *)
(* BuildTierGroups and BuildParentIndexForZone, each iteration of a loop   *)
(* one step, and the walk up the parents that the auto-label controller    *)
(* makes with the result.  The input is any set of host names and any      *)
(* neighbor lists of the switches.                                         *)
(***************************************************************************)
EXTENDS TopologyGraph, Sequences, SequencesExt

CONSTANTS Hosts,
          Neighborhoods   \* neighbor lists of the switches, functions to sets of names

VARIABLES
  graph,      \* TopologyGraph: the devices and the links read from the input
  adj,        \* TopologyGraph.Adj, narrowed by NormalizeTierEdges
  tier,       \* Device.Tier
  phase,      \* "infer", "zone", "group", "done"
  queue,      \* the queue of the running traversal
  visited,    \* devices already put into a zone
  zone,       \* the zone being collected or grouped
  level,      \* the tier being grouped
  members,    \* the group being collected
  groups,     \* GroupsByTier, as a set of [tier, members]
  parents     \* ParentIndex, as a set of <<child name, parent name>>

vars == <<graph, adj, tier, phase, queue, visited, zone, level, members, groups, parents>>

Sorted(S) == SetToSortSeq(S, <)

HasHostNeighbor(g, s) == Adjacent(g.adj, s) \cap g.hosts # {}

Init ==
  \E neighbors \in Neighborhoods :
    /\ graph = BuildTopologyGraph(Hosts, neighbors)
    /\ adj = graph.adj
    /\ tier = [d \in Devices(graph) |->
                 IF d \in graph.hosts THEN 0
                 ELSE IF HasHostNeighbor(graph, d) THEN 1 ELSE -1]
    /\ queue = Sorted({s \in graph.switches : HasHostNeighbor(graph, s)})
    /\ phase = "infer"
    /\ visited = {} /\ zone = {} /\ level = 0 /\ members = {}
    /\ groups = {} /\ parents = {}

InferTier ==
  /\ phase = "infer" /\ queue # << >>
  /\ LET found == {s \in Adjacent(adj, Head(queue)) \cap graph.switches : tier[s] = -1}
     IN  /\ tier' = [d \in DOMAIN tier |->
                       IF d \in found THEN tier[Head(queue)] + 1 ELSE tier[d]]
         /\ queue' = Tail(queue) \o Sorted(found)
  /\ UNCHANGED <<graph, adj, phase, visited, zone, level, members, groups, parents>>

NormalizeTierEdges ==
  {p \in adj : /\ tier[p[1]] >= 0 /\ tier[p[2]] >= 0
               /\ tier[p[1]] - tier[p[2]] \in {-1, 1}}

TiersInferred ==
  /\ phase = "infer" /\ queue = << >>
  /\ adj' = NormalizeTierEdges
  /\ phase' = "zone"
  /\ UNCHANGED <<graph, tier, queue, visited, zone, level, members, groups, parents>>

-----------------------------------------------------------------------------
(* CollectConnectedZones: one zone at a time, from the hosts in order.      *)

StartZone ==
  /\ phase = "zone" /\ queue = << >> /\ zone = {}
  /\ graph.hosts \ visited # {}
  /\ queue' = <<Sorted(graph.hosts \ visited)[1]>>
  /\ UNCHANGED <<graph, adj, tier, phase, visited, zone, level, members, groups, parents>>

CollectZone ==
  /\ phase = "zone" /\ queue # << >>
  /\ IF Head(queue) \in visited
     THEN queue' = Tail(queue) /\ UNCHANGED <<visited, zone>>
     ELSE /\ visited' = visited \cup {Head(queue)}
          /\ zone' = zone \cup {Head(queue)}
          /\ queue' = Tail(queue) \o Sorted(Adjacent(adj, Head(queue)) \ visited')
  /\ UNCHANGED <<graph, adj, tier, phase, level, members, groups, parents>>

ZoneTiersAbove(t) == {tier[d] : d \in zone} \ (0 .. t)

\* A zone of one host has no tier of switches; its host has no parents.
ZoneCollected ==
  /\ phase = "zone" /\ queue = << >> /\ zone # {}
  /\ IF ZoneTiersAbove(0) = {}
     THEN zone' = {} /\ UNCHANGED <<phase, level>>
     ELSE level' = Sorted(ZoneTiersAbove(0))[1] /\ phase' = "group" /\ UNCHANGED zone
  /\ UNCHANGED <<graph, adj, tier, queue, visited, members, groups, parents>>

-----------------------------------------------------------------------------
(* BuildTierGroups: the groups of one tier of the zone.                     *)

DevicesInTier == {d \in zone : tier[d] = level}

Processed == members \cup UNION {grp.members : grp \in {x \in groups : x.tier = level}}

\* groupNameOfDevice, with the groups of the tier below.
GroupNameOfDevice(d) ==
  IF \E grp \in groups : d \in grp.members
  THEN (CHOOSE grp \in groups : d \in grp.members).members
  ELSE {d}

LowerGroupNames(d) ==
  {GroupNameOfDevice(n) : n \in {x \in Adjacent(adj, d) \cap zone : tier[x] = level - 1}}

\* Mutant: switches are related by any common neighbor.
MutRelated(d) == {e \in DevicesInTier : Adjacent(adj, e) \cap Adjacent(adj, d) # {}}

\* lowerGroupToTierDevices of the lower groups of d.
Related(d) == {e \in DevicesInTier : LowerGroupNames(e) \cap LowerGroupNames(d) # {}}

StartGroup ==
  /\ phase = "group" /\ queue = << >> /\ members = {}
  /\ DevicesInTier \ Processed # {}
  /\ queue' = <<Sorted(DevicesInTier \ Processed)[1]>>
  /\ UNCHANGED <<graph, adj, tier, phase, visited, zone, level, members, groups, parents>>

CollectGroup ==
  /\ phase = "group" /\ queue # << >>
  /\ IF Head(queue) \in Processed
     THEN queue' = Tail(queue) /\ UNCHANGED members
     ELSE /\ members' = members \cup {Head(queue)}
          /\ queue' = Tail(queue) \o Sorted(Related(Head(queue)) \ (Processed \cup {Head(queue)}))
  /\ UNCHANGED <<graph, adj, tier, phase, visited, zone, level, groups, parents>>

GroupCollected ==
  /\ phase = "group" /\ queue = << >> /\ members # {}
  /\ groups' = groups \cup {[tier |-> level, members |-> members]}
  /\ members' = {}
  /\ UNCHANGED <<graph, adj, tier, phase, queue, visited, zone, level, parents>>

\* Mutant: devices of any other tier are parents.
MutParentsOf(d) ==
  {GroupNameOfDevice(p) : p \in {x \in Adjacent(adj, d) \cap zone : tier[x] # tier[d]}}

\* The names of the groups of the devices one tier above d.
ParentsOf(d) ==
  {GroupNameOfDevice(p) : p \in {x \in Adjacent(adj, d) \cap zone : tier[x] = tier[d] + 1}}

\* BuildParentIndexForZone: buildDeviceParentIndex and buildGroupParentIndex.  A
\* group of one device has the device's name and the same parents.
ZoneParents ==
  UNION ({{<<{d}, p>> : p \in ParentsOf(d)} : d \in zone} \cup
         {{<<grp.members, p>> : p \in UNION {ParentsOf(d) : d \in grp.members} \ {grp.members}} :
            grp \in {x \in groups : x.members \subseteq zone}})

TierGrouped ==
  /\ phase = "group" /\ queue = << >> /\ members = {}
  /\ DevicesInTier \subseteq Processed
  /\ IF ZoneTiersAbove(level) # {}
     THEN level' = Sorted(ZoneTiersAbove(level))[1] /\ UNCHANGED <<phase, zone, parents>>
     ELSE /\ parents' = parents \cup ZoneParents
          /\ zone' = {} /\ phase' = "zone"
          /\ UNCHANGED level
  /\ UNCHANGED <<graph, adj, tier, queue, visited, members, groups>>

Finish ==
  /\ phase = "zone" /\ queue = << >> /\ zone = {} /\ graph.hosts \subseteq visited
  /\ phase' = "done"
  /\ UNCHANGED <<graph, adj, tier, queue, visited, zone, level, members, groups, parents>>

Next ==
  \/ InferTier \/ TiersInferred
  \/ StartZone \/ CollectZone \/ ZoneCollected
  \/ StartGroup \/ CollectGroup \/ GroupCollected \/ TierGrouped
  \/ Finish

Spec == Init /\ [][Next]_vars /\ WF_vars(Next)

-----------------------------------------------------------------------------
(* normalizeDiscoveredGroups: the walk from a host up the parent index.     *)

ParentIndex(name) == {e[2] : e \in {x \in parents : x[1] = name}}

Walk(h) ==
  LET at[i \in 0 .. Cardinality(graph.switches) + 1] ==
        IF i = 0 THEN {{h}} ELSE UNION {ParentIndex(name) : name \in at[i - 1]}
  IN  at

\* Several parents, a parent that is no group, or a group of a wrong tier; a
\* cycle would come back to a group of a wrong tier.
NormalizeFails ==
  \E h \in graph.hosts :
    LET at == Walk(h)
    IN  \E i \in DOMAIN at \ {0} :
          \/ Cardinality(at[i]) > 1
          \/ \E name \in at[i] : [tier |-> i, members |-> name] \notin groups

NodesOfGroup(grp) == {h \in graph.hosts : grp.members \in Walk(h)[grp.tier]}

-----------------------------------------------------------------------------

\* BuildTierGroups merges switches step by step through the groups of the tier
\* below, zone by zone, on tiers that InferTiers assigned when it first met a
\* switch and never corrected.  Still a group's tier is its distance from the
\* nearest host, two switches of a tier end in the same group exactly when they
\* are joined by links that go no higher than their tier, and no switch that is
\* connected to a host is left out.
GroupsAreJoined ==
  phase = "done" =>
    groups = {[tier |-> grp.tier, members |-> grp.members] : grp \in Groups(graph)}

\* The auto-label controller gives up when a host or a group has several
\* parents or when the tiers along a path have a gap.  Discovery never returns
\* such a topology, and the hosts that reach a group by walking up are all the
\* hosts joined to it by links that go no higher than the group.
PathsAreUnique ==
  phase = "done" =>
    /\ ~NormalizeFails
    /\ \A grp \in Groups(graph) : NodesOfGroup(grp) = grp.nodes
=============================================================================
