------------------------ MODULE MCDeviceOwnership ------------------------
(* Instances of DeviceOwnership for TLC. *)
EXTENDS DeviceOwnership

\* Both adapters come with device 1, the first also with device 2.
SharedDefaults == [a \in Adapters |-> IF a = 1 THEN {1, 2} ELSE {1}]
=============================================================================
