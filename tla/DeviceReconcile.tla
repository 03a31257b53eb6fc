-------------------------- MODULE DeviceReconcile --------------------------
(***************************************************************************)
(* SettingsModel::reconcileDevicesWithAdapters() (models/settingsmodel.cpp)*)
(* as a function: which adapter owns which device, given the devices the   *)
(* adapters declare.                                                       *)
(*                                                                         *)
(* Adapter ids are numbers in the order of SettingsModel::adapterIds().    *)
(* A device list maps every device id to its owner, or to NoAdapter when   *)
(* the list has no such device; names of devices are left out.             *)
(***************************************************************************)
EXTENDS Naturals

CONSTANTS
    NAdapters,   \* number of adapters
    Modbus,      \* the adapter whose id is "modbus"
    MaxDevice    \* bound: highest device id

ASSUME ReconcileAssumption ==
    /\ NAdapters \in Nat \ {0}
    /\ MaxDevice \in Nat \ {0}
    /\ Modbus \in 1 .. NAdapters

Adapters == 1 .. NAdapters
Devices == 1 .. MaxDevice
NoAdapter == 0

FirstDevice == 1   \* Device::cFirstDeviceId

DeviceLists == [Devices -> Adapters \cup {NoAdapter}]

(* The devices that are in the list. *)
Ids(devices) == {d \in Devices : devices[d] # NoAdapter}

(* Mutation of Precedes: the order of adapterIds(), whoever was configured. *)
AlphabeticalOnly(a, b, stored) == a <= b

(* The order in which adapters claim devices: those with a stored config   *)
(* first, then "modbus", then the others, each group in adapterIds() order. *)
Precedes(a, b, stored) ==
    IF (a \in stored) # (b \in stored) THEN a \in stored
    ELSE IF a \notin stored /\ Modbus \in {a, b} THEN a = Modbus
    ELSE a <= b

(* Mutation of FirstOf: every claim overwrites the earlier ones. *)
LastOf(claimants, stored) ==
    CHOOSE a \in claimants : \A b \in claimants : Precedes(b, a, stored)

FirstOf(claimants, stored) ==
    CHOOSE a \in claimants : \A b \in claimants : Precedes(a, b, stored)

(* Every device declared by an adapter with a known schema goes to the     *)
(* first that declares it; nothing is removed.                             *)
Reconciled(devices, schema, stored, declared) ==
    [d \in Devices |->
        LET claimants == {a \in schema : d \in declared[a]}
        IN  IF claimants = {} THEN devices[d] ELSE FirstOf(claimants, stored)]
=============================================================================
