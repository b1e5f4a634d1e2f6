--------------------------- MODULE TopologyGraph ---------------------------
(***************************************************************************)
(* What pkg/topology computes: the tiers of a fabric and the groups of     *)
(* switches in each tier, as definitions rather than as the traversals of  *)
(* the code.  TopologyDiscovery models the traversals and is checked       *)
(* against this module; AutoLabel builds on it.                            *)
(*                                                                         *)
(* A device name is an integer; integers are ordered the way the names are *)
(* ordered as strings.  GenerateGroupName names a group of one device      *)
(* after the device and a larger one after the hash of its joined member   *)
(* names, so a name is here the set of members; that hashing and joining   *)
(* keep different sets apart is an assumption.                             *)
(***************************************************************************)
EXTENDS Integers, FiniteSets, TLC

\* neighbors maps each switch to the names it is connected to.  A name that
\* is no device is skipped; a switch hides a host of the same name.
BuildTopologyGraph(hosts, neighbors) ==
  LET switches == DOMAIN neighbors
      link == {p \in switches \X (hosts \cup switches) : p[2] \in neighbors[p[1]]}
  IN  [hosts |-> hosts \ switches, switches |-> switches,
       adj |-> link \cup {<<p[2], p[1]>> : p \in link}]

Devices(g) == g.hosts \cup g.switches

Adjacent(adj, d) == {p[2] : p \in {q \in adj : q[1] = d}}

\* The devices within n links of those of S, along links between devices of D.
Within(adj, D, S, n) ==
  LET ball[k \in 0 .. n] ==
        IF k = 0 THEN S ELSE UNION {{d} \cup (Adjacent(adj, d) \cap D) : d \in ball[k - 1]}
  IN  ball[n]

\* The tier of a device is its distance from the nearest host.  A device that
\* is connected to no host has none.
Tiers(g) ==
  LET n == Cardinality(g.switches)
      Reached(k) == Within(g.adj, Devices(g), g.hosts, k)
      AtDistance(k) == IF k = 0 THEN g.hosts ELSE Reached(k) \ Reached(k - 1)
      upTo[k \in 0 .. n] ==
        [d \in AtDistance(k) |-> k] @@ (IF k = 0 THEN << >> ELSE upTo[k - 1])
  IN  upTo[n]

TierLinks(adj, tier) ==
  {p \in adj : {p[1], p[2]} \subseteq DOMAIN tier /\ tier[p[1]] - tier[p[2]] \in {-1, 1}}

\* The groups above tier 0: the switches of a tier that are joined by links of
\* that tier and the tiers below, with the hosts they are joined to.
GroupsByTier(g, tier) ==
  {[tier |-> tier[s],
    members |-> {d \in joined : tier[d] = tier[s]},
    nodes |-> joined \cap g.hosts] : <<s, joined>> \in
      {<<s, Within(TierLinks(g.adj, tier), {d \in DOMAIN tier : tier[d] <= tier[s]}, {s},
                   Cardinality(DOMAIN tier))>> : s \in DOMAIN tier \cap g.switches}}

Groups(g) == UNION {GroupsByTier(g, tier) : tier \in {Tiers(g)}}
=============================================================================
