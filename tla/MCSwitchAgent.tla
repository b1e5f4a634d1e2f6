--------------------------- MODULE MCSwitchAgent ---------------------------
(* Instances of the switch agent for TLC.                                  *)
EXTENDS SwitchAgent

Entry(p, n) == [port |-> p, name |-> n, complete |-> TRUE]
HalfEntry(p, n) == [port |-> p, name |-> n, complete |-> FALSE]

(* Two different tables, and a third output that parses to the first one.  *)
MCLldpOutput ==
  { {Entry("p1", "n1")},
    {Entry("p1", "n1"), HalfEntry("p2", "n2")},
    {Entry("p2", "n2")} }
=============================================================================
