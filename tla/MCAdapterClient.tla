--------------------------- MODULE MCAdapterClient ---------------------------
(* Finite instances of AdapterClient for TLC. *)
EXTENDS AdapterClient

MCUiMethods == {"describeDataPoint", "inspectLicense"}
MCOneUiMethod == {"describeDataPoint"}
=============================================================================
