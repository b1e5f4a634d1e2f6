------------------------ MODULE MCFabricNodeTopology ------------------------
(* One Node, its agent and the controller on small hosts.                  *)
EXTENDS FabricNodeTopology, TLC

Link(n, matches, infiniband, up, usable) ==
  [name |-> n, matches |-> matches, infiniband |-> infiniband, up |-> up, usable |-> usable]

MCActors == {"agent", "controller"}
MCConfigured == {"storage", "scaleUp"}
\* One scale-out link, one storage link that is an InfiniBand one, one scale-up
\* link and one that is skipped; the second host misses the neighbour.
MCLinks == {Link("a", {}, FALSE, TRUE, TRUE), Link("b", {"storage", "scaleUp"}, TRUE, TRUE, TRUE),
            Link("c", {"scaleUp"}, FALSE, TRUE, TRUE), Link("d", {}, FALSE, TRUE, FALSE)}
Host(links, lldp) == [links |-> links, lldp |-> lldp]
MCHosts == {Host(MCLinks, {"a"}), Host(MCLinks, {}), Host(MCLinks, Failed), Host(Failed, {"a"})}
MCPodSets == {{}, {"p"}}
MCLabels == {{}, {"scaleout"}}

Nothing == [fail |-> 0, host |-> 0, pods |-> 0, delete |-> 0, stop |-> 0, crash |-> 0,
            node |-> 0, label |-> 0, relist |-> 0, restart |-> 0]
Scenario(ps, labels, storage, b) ==
  [host |-> Host(MCLinks, {"a"}), pods |-> ps, labels |-> labels, storageNode |-> storage,
   budget |-> b]
MCScenarios ==
  {Scenario({}, {}, FALSE, [Nothing EXCEPT !.label = 2]),
   Scenario({"p"}, {"scaleout"}, FALSE, [Nothing EXCEPT !.node = 2]),
   Scenario({}, {"scaleout"}, FALSE, [Nothing EXCEPT !.host = 1, !.fail = 1]),
   Scenario({}, {"scaleout"}, FALSE, [Nothing EXCEPT !.delete = 1, !.relist = 1]),
   Scenario({}, {"scaleout"}, FALSE, [Nothing EXCEPT !.pods = 1, !.restart = 1]),
   Scenario({}, {}, FALSE, [Nothing EXCEPT !.crash = 1, !.label = 1]),
   Scenario({}, {"scaleout"}, TRUE, [Nothing EXCEPT !.stop = 1, !.host = 1])}
=============================================================================
