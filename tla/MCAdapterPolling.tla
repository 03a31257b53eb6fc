-------------------------- MODULE MCAdapterPolling --------------------------
(* AdapterPolling takes only numbers and truth values; this module is what *)
(* its configurations name.                                                *)
EXTENDS AdapterPolling
=============================================================================
