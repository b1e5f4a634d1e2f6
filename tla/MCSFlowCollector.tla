-------------------------- MODULE MCSFlowCollector --------------------------
(* Instance of SFlowCollector: one scenario per sampled packet, one with    *)
(* full queues, failing exports and a shutdown, one with changing Pods.     *)
EXTENDS SFlowCollector, TLC

CONSTANTS P1, P2

Plain == [tags |-> 0, version |-> 4, total |-> 80, options |-> 0, chain |-> <<>>, proto |-> 6,
          later |-> FALSE, cut |-> 96, frame |-> 110]

MCIPs == {"a", "b"}
MCEnds == <<"a", "b">>
State(run, ips, more) == [running |-> run, ips |-> ips, annotated |-> more]
MCPodStates == {State(FALSE, {"b"}, {}), State(TRUE, {}, {}), State(TRUE, {"a"}, {}), State(TRUE, {"a"}, {"a", "b"})}
TwoPods == P1 :> State(TRUE, {"a"}, {}) @@ P2 :> State(TRUE, {"b"}, {})
Budget(pod, write, cancel) == [pod |-> pod, write |-> write, cancel |-> cancel]
Scenario(ds, n, b) == [datagrams |-> ds, count |-> n, pods |-> TwoPods, budget |-> b]

Cuts == {13, 14, 16, 18, 30, 34, 37, 38, 54, 56, 58, 62, 66, 70, 78, 86, 96, 180}
Ext(kind, len) == [kind |-> kind, len |-> len]
Extras == {Ext(0, 0), Ext(43, 1), Ext(44, 0), Ext(51, 1), Ext(60, 0)}
Chains == {<<>>} \cup {<<x>> : x \in Extras} \cup {<<x, y>> : x \in Extras, y \in Extras}
            \cup {[i \in 1 .. 8 |-> Ext(60, 0)], <<Ext(0, 254)>>, <<Ext(51, 253)>>}
FourPackets ==
  {[Plain EXCEPT !.tags = t, !.options = o, !.proto = pr, !.cut = c, !.frame = f[1], !.total = f[2]] :
     t \in 0 .. 3, o \in {0, 2, 10}, pr \in {1, 17}, c \in Cuts, f \in {<<110, 80>>, <<0, 80>>, <<0, 0>>}}
SixPackets ==
  {[Plain EXCEPT !.version = 6, !.tags = t, !.chain = ch, !.proto = pr, !.cut = c, !.frame = 0] :
     t \in {0, 2}, ch \in Chains, pr \in {58, 132}, c \in Cuts}
\* Packets the parser is not made for.
OddPackets ==
  {[Plain EXCEPT !.version = 6, !.chain = <<Ext(60, 255)>>, !.proto = 17],
   [Plain EXCEPT !.version = 6, !.chain = <<Ext(51, 254)>>, !.proto = 17],
   [Plain EXCEPT !.later = TRUE]}

\* All packets of one kind are one scenario's datagrams.
Headers(ps) == Scenario({<<p>> : p \in ps}, 0, Budget(0, 0, 0))
MCScenarios ==
  {Headers(FourPackets), Headers(SixPackets), Headers(OddPackets),
   Scenario({<<Plain>>, <<Plain, [Plain EXCEPT !.cut = 20], Plain>>, Malformed}, 2, Budget(0, 1, 1)),
   Scenario({<<Plain>>}, 1, Budget(2, 0, 0))}
=============================================================================
