------------------------ MODULE MCTopologyDiscovery ------------------------
(***************************************************************************)
(* The two algorithms under the controllers.  Discovery: every fabric of   *)
(* two hosts and four switches whose links between switches are reported   *)
(* by one end, and whose last switch has no host and also reports a device *)
(* that is neither a host nor a switch.  Label templates: every pair with  *)
(* up to three and up to two characters of text out of 0, 1 and a, and     *)
(* ones that are refused.  A behaviour runs one of the two.                *)
(***************************************************************************)
EXTENDS TopologyDiscovery, TopologyLabel

HostNames == {1, 2}
SwitchNames == 11 .. 14
Unknown == 99

Cables ==
  {c \in SwitchNames \X (HostNames \cup SwitchNames) :
     c[2] < c[1] /\ (c[2] \in HostNames => c[1] # 14)}

Reported ==
  {[s \in SwitchNames |-> {c[2] : c \in {x \in cables : x[1] = s}} \cup
                         (IF s = 14 THEN {Unknown} ELSE {})] :
     cables \in SUBSET Cables}

\* Templates with n characters of text.
Chars == {48, 49, 97}
WithText(n) ==
  {SubSeq(text, 1, k) \o <<Tier>> \o SubSeq(text, k + 1, n) : text \in [1 .. n -> Chars], k \in 0 .. n}
Storage == <<97, 97, 45, Tier>>

MCConfigurations ==
  {<<l, r, Storage>> : l \in UNION {WithText(n) : n \in 0 .. 3}, r \in UNION {WithText(n) : n \in 0 .. 2}}
    \cup {<<l, Storage, Storage>> : l \in {<< >>, <<97>>, <<97, Other>>, <<Tier, 97, Tier>>, <<45, Tier>>, <<97, Tier, 45>>}}

MCTiers == {1, 10, 11, 100, 101, 110, 111} \cup {1000 + n : n \in {0, 1, 10, 11, 100, 101, 110, 111}}

NoFabric ==
  /\ graph = BuildTopologyGraph({}, << >>) /\ phase = "done"
  /\ adj = {} /\ tier = << >> /\ queue = << >> /\ visited = {} /\ zone = {} /\ level = 0
  /\ members = {} /\ groups = {} /\ parents = {}

NoTemplates ==
  /\ setting = << >> /\ compiled = << >> /\ comparing = << >> /\ frontier = << >> /\ reached = {}
  /\ outcome = [status |-> "none"]

MCInit == (Init /\ NoTemplates) \/ (NoFabric /\ LabelInit)

MCNext == (Next /\ UNCHANGED labelVars) \/ (LabelNext /\ UNCHANGED vars)

MCSpec == MCInit /\ [][MCNext]_<<vars, labelVars>> /\ WF_<<vars, labelVars>>(MCNext)

\* The loops of both algorithms end: in topology.go a device is queued more than
\* once but processed once, and in template.go the search for a key of two
\* templates ends although the languages it compares are infinite.
AlgorithmsEnd == <>(phase = "done" /\ outcome # Pending)
=============================================================================
