---------------------------- MODULE SFlowHeader ----------------------------
(***************************************************************************)
(* The parser of sampled Ethernet headers (pkg/sflow/decoder.go), on the   *)
(* bytes the switch captured, and the wire format it parses.               *)
(***************************************************************************)
EXTENDS Integers, Sequences, SequencesExt

Reject == [ok |-> FALSE]
etherTypeIPv4 == 2048
etherTypeIPv6 == 34525
TagTypes == {33024, 34984, 37120}
Transports == {6, 17, 132}

At(h, i) == h[i + 1]
Word(h, i) == 256 * At(h, i) + At(h, i + 1)
From(h, i) == SubSeq(h, i + 1, Len(h))

Ports(ip, proto, offset) ==
  IF proto \in Transports /\ Len(ip) >= offset + 4
  THEN <<Word(ip, offset), Word(ip, offset + 2)>> ELSE <<0, 0>>

\* parseIPv4.
ParseIPv4(ip, frameLength) ==
  IF Len(ip) < 20 \/ At(ip, 0) \div 16 # 4 THEN Reject
  ELSE LET ihl == (At(ip, 0) % 16) * 4
       IN IF ihl < 20 \/ Len(ip) < ihl THEN Reject
          ELSE [ok |-> TRUE, etype |-> etherTypeIPv4, proto |-> At(ip, 9),
                ports |-> Ports(ip, At(ip, 9), ihl),
                bytes |-> IF frameLength # 0 THEN frameLength ELSE Word(ip, 2),
                addrs |-> SubSeq(ip, 13, 20)]

\* The size of an extension header: the sum is one byte wide in the code.
HdrLen(next, b) ==
  IF next = 44 THEN 8 ELSE IF next = 51 THEN ((b + 2) % 256) * 4 ELSE ((b + 1) % 256) * 8

\* The loop of parseIPv6 over at most eight extension headers.
RECURSIVE SkipExtensions(_, _, _, _)

\* Mutant: an authentication header is measured like the others.
MutSkipExtensions(ip, i, next, offset) ==
  IF i = 8 \/ next \notin {0, 43, 44, 51, 60} THEN [ok |-> TRUE, next |-> next, offset |-> offset]
  ELSE IF Len(ip) < offset + (IF next = 44 THEN 8 ELSE 2) THEN Reject
  ELSE LET n == HdrLen(IF next = 51 THEN 0 ELSE next, At(ip, offset + 1))
       IN IF Len(ip) < offset + n THEN Reject
          ELSE SkipExtensions(ip, i + 1, At(ip, offset), offset + n)

SkipExtensions(ip, i, next, offset) ==
  IF i = 8 \/ next \notin {0, 43, 44, 51, 60} THEN [ok |-> TRUE, next |-> next, offset |-> offset]
  ELSE IF Len(ip) < offset + (IF next = 44 THEN 8 ELSE 2) THEN Reject
  ELSE LET n == HdrLen(next, At(ip, offset + 1))
       IN IF Len(ip) < offset + n THEN Reject
          ELSE SkipExtensions(ip, i + 1, At(ip, offset), offset + n)

\* parseIPv6.
ParseIPv6(ip, frameLength) ==
  IF Len(ip) < 40 \/ At(ip, 0) \div 16 # 6 THEN Reject
  ELSE LET t == SkipExtensions(ip, 0, At(ip, 6), 40)
       IN IF ~t.ok THEN Reject
          ELSE [ok |-> TRUE, etype |-> etherTypeIPv6, proto |-> t.next,
                ports |-> Ports(ip, t.next, t.offset),
                bytes |-> IF frameLength # 0 THEN frameLength ELSE 40 + Word(ip, 4),
                addrs |-> SubSeq(ip, 9, 40)]

\* parseSampledHeader: up to two VLAN tags are skipped.
ParseSampledHeader(h, frameLength) ==
  LET tagged(o) == Word(h, o) \in TagTypes
      tags == IF Len(h) < 14 \/ ~tagged(12) THEN 0
              ELSE IF Len(h) < 18 \/ ~tagged(16) THEN 1 ELSE 2
      offset == 14 + 4 * tags
  IN IF Len(h) < offset THEN Reject
     ELSE CASE Word(h, offset - 2) = etherTypeIPv4 -> ParseIPv4(From(h, offset), frameLength)
            [] Word(h, offset - 2) = etherTypeIPv6 -> ParseIPv6(From(h, offset), frameLength)
            [] OTHER -> Reject

-----------------------------------------------------------------------------
(* The wire format.  A packet is [tags, version, total, options, chain,    *)
(* proto, later, cut, frame]: VLAN tags, IP version, IPv4's total length   *)
(* (0 when the sender's card was to fill it in), words of IPv4 options or  *)
(* IPv6 extension headers [kind, len], transport protocol, whether it is a *)
(* later fragment, how many bytes were captured, and the frame length.     *)

Fill(n, b) == [i \in 1 .. n |-> b]
Pair(w) == <<w \div 256, w % 256>>
Size(x) == CASE x.kind = 44 -> 8 [] x.kind = 51 -> (x.len + 2) * 4 [] OTHER -> (x.len + 1) * 8
First(chain, i, proto) == IF i <= Len(chain) THEN chain[i].kind ELSE proto
Extensions(p) ==
  FlattenSeq([i \in DOMAIN p.chain |->
                <<First(p.chain, i + 1, p.proto), p.chain[i].len>> \o Fill(Size(p.chain[i]) - 2, 7)])
IPv4Header(p) ==
  <<64 + 5 + p.options, 0>> \o Pair(p.total) \o Fill(5, 0) \o <<p.proto>> \o Fill(2, 0)
    \o <<10, 0, 0, 1, 10, 0, 0, 2>> \o Fill(4 * p.options, 1)
IPv6Header(p) ==
  <<96, 0, 0, 0>> \o Pair(60) \o <<First(p.chain, 1, p.proto), 64>> \o Fill(16, 1) \o Fill(16, 2)
    \o Extensions(p)
Encode(p) ==
  LET wire == Fill(12, 0) \o FlattenSeq([i \in 1 .. p.tags |-> Pair(33024) \o <<0, 5>>])
                \o (IF p.version = 4 THEN Pair(etherTypeIPv4) \o IPv4Header(p)
                                     ELSE Pair(etherTypeIPv6) \o IPv6Header(p))
                \o (IF p.later THEN Fill(4, 9) ELSE Pair(1000) \o Pair(2000)) \o Fill(16, 8)
  IN SubSeq(wire, 1, IF p.cut < Len(wire) THEN p.cut ELSE Len(wire))

\* Where the transport header of a packet starts.
TransportAt(p) ==
  14 + 4 * p.tags + (IF p.version = 4 THEN 20 + 4 * p.options
                     ELSE 40 + FoldSeq(LAMBDA x, n : Size(x) + n, 0, p.chain))

\* What a packet should be recorded as: nothing unless all of its headers
\* before the transport header were captured; ports only if they were.
Expected(p) ==
  IF p.tags > 2 \/ p.cut < TransportAt(p) THEN Reject
  ELSE [ok |-> TRUE, etype |-> IF p.version = 4 THEN etherTypeIPv4 ELSE etherTypeIPv6, proto |-> p.proto,
        ports |-> IF p.proto \in Transports /\ ~p.later /\ p.cut >= TransportAt(p) + 4
                  THEN <<1000, 2000>> ELSE <<0, 0>>,
        bytes |-> IF p.frame # 0 THEN p.frame ELSE IF p.version = 6 THEN 100 ELSE IF p.total = 0 THEN 1 ELSE p.total,
        addrs |-> IF p.version = 4 THEN <<10, 0, 0, 1, 10, 0, 0, 2>> ELSE Fill(16, 1) \o Fill(16, 2)]

\* recordsFromFlowRecords: a record counts at least one byte.
FlowOf(p) ==
  LET f == ParseSampledHeader(Encode(p), p.frame)
  IN IF f.ok /\ f.bytes = 0 THEN [f EXCEPT !.bytes = 1] ELSE f

\* Packets the parser is made for: it does not look at fragment offsets, stops
\* after eight extension headers, and adds to the length byte of an extension
\* header without widening it.
Handled(p) ==
  /\ ~p.later /\ Len(p.chain) <= 8
  /\ \A i \in DOMAIN p.chain : p.chain[i].kind # 44 => p.chain[i].len < IF p.chain[i].kind = 51 THEN 254 ELSE 255
=============================================================================
