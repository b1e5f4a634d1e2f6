--------------------------- MODULE MCSendPipeline ---------------------------
(* One sink with a small queue; rows per event and per window.             *)
EXTENDS SendPipeline, TLC

MCSinks == {"otlp"}
MCKinds == {"send", "write"}
MCSlots == {1, 2}
MCAggregates == BOOLEAN
=============================================================================
