--------------------------- MODULE TopologyInputs ---------------------------
(***************************************************************************)
(* buildTopologyInputsForRole: which hosts and which links the auto-label  *)
(* controller hands to discovery, from FabricNode and Switch objects.      *)
(*                                                                         *)
(* fabricNodes maps the names of the FabricNodes to records with           *)
(*   role      status.nodeRole                                             *)
(*   nics      per Switch role, the LLDP hostnames of the NICs that are up *)
(* switches maps the names of the Switches to records with                 *)
(*   role      the effective role                                          *)
(*   hostname  status.hostname, NoName when empty                          *)
(*   annotated, manual   the switch-neighbors annotation                   *)
(*   neighbors status.lldpNeighbors without the entries that the           *)
(*             subscription manager marked as KubernetesNode               *)
(* A manual list that is no JSON array of names contains NoName.           *)
(***************************************************************************)
EXTENDS TopologyGraph

CONSTANT Canonical   \* normalizeResourceName, a function on names

NoName == 0

ASSUME CanonicalAssumption == \A name \in DOMAIN Canonical :
  Canonical[name] \in DOMAIN Canonical /\ Canonical[Canonical[name]] = Canonical[name]

LOCAL Max(S) == CHOOSE x \in S : \A y \in S : x >= y

SwitchesOfRole(role, switches) == {s \in DOMAIN switches : switches[s].role = role}

NodeNicsForRole(fabricNode, role) ==
  IF role = "ScaleOut" /\ fabricNode.role = "Storage" THEN {} ELSE fabricNode.nics[role]

\* normalizedSwitchNames: the Switch that a name stands for, the last in list
\* order when there are several.
NormalizedSwitchName(name, real, switches) ==
  LET aliases == {s \in real : \/ Canonical[s] = Canonical[name]
                               \/ /\ switches[s].hostname # NoName
                                  /\ Canonical[switches[s].hostname] = Canonical[name]}
  IN  IF aliases = {} THEN NoName ELSE Max(aliases)

\* An exact name comes first.
ResolveSwitchName(name, real, switches) ==
  IF name \in real THEN name ELSE NormalizedSwitchName(name, real, switches)

NodeOnly(role, switches) == SwitchesOfRole(role, switches) = {}

SemiAutomatic(role, switches) ==
  /\ ~NodeOnly(role, switches)
  /\ \A s \in SwitchesOfRole(role, switches) : switches[s].annotated

\* The device a NIC is connected to: a Switch of the role or, without switch
\* side LLDP, a synthetic leaf.
NicPeer(role, switches, name) ==
  LET found == ResolveSwitchName(name, SwitchesOfRole(role, switches), switches)
  IN  IF found # NoName THEN found
      ELSE IF NodeOnly(role, switches) \/ SemiAutomatic(role, switches)
      THEN Canonical[name] ELSE NoName

PeersOfNode(role, fabricNode, switches) ==
  {NicPeer(role, switches, nic) : nic \in NodeNicsForRole(fabricNode, role)} \ {NoName}

SyntheticSwitches(role, fabricNodes, switches) ==
  UNION {PeersOfNode(role, fabricNodes[n], switches) : n \in DOMAIN fabricNodes}
    \ SwitchesOfRole(role, switches)

\* parseManualSwitchNeighbors and the loop over its result; NoName stands for
\* an entry that is rejected.
ManualPeers(role, fabricNodes, switches, s) ==
  LET synthetic == SyntheticSwitches(role, fabricNodes, switches)
      Peer(name) ==
        IF name = NoName THEN NoName
        ELSE LET found == ResolveSwitchName(name, SwitchesOfRole(role, switches), switches)
             IN  IF found = s THEN NoName
                 ELSE IF found # NoName THEN found
                 ELSE IF Canonical[name] \in synthetic THEN Canonical[name] ELSE NoName
  IN  {Peer(name) : name \in switches[s].manual}

\* canonicalRemoteSystemName: unlike resolveSwitchName it has no preference for
\* an exact name.
CanonicalRemoteSystemName(name, real, switches) ==
  LET found == NormalizedSwitchName(name, real, switches)
  IN  IF found = NoName THEN name ELSE found

\* The entries of status.lldpNeighbors that are not hosts.
ReportedPeers(role, fabricNodes, switches, s) ==
  {CanonicalRemoteSystemName(name, SwitchesOfRole(role, switches), switches) :
     name \in switches[s].neighbors \ DOMAIN fabricNodes} \ DOMAIN fabricNodes

SwitchPeers(role, fabricNodes, switches, s) ==
  IF SemiAutomatic(role, switches) THEN ManualPeers(role, fabricNodes, switches, s)
  ELSE ReportedPeers(role, fabricNodes, switches, s)

\* valid is FALSE when a manual list is rejected.
BuildTopologyInputsForRole(role, fabricNodes, switches) ==
  LET real == SwitchesOfRole(role, switches)
      devices == real \cup SyntheticSwitches(role, fabricNodes, switches)
      toHosts == UNION {PeersOfNode(role, fabricNodes[n], switches) \X {n} : n \in DOMAIN fabricNodes}
      toSwitches == UNION {{s} \X SwitchPeers(role, fabricNodes, switches, s) : s \in real}
  IN  [valid |-> \A link \in toSwitches : link[2] # NoName,
       hosts |-> {link[2] : link \in toHosts},
       neighbors |-> [s \in devices |-> {link[2] : link \in {x \in toHosts \cup toSwitches : x[1] = s}}]]
=============================================================================
