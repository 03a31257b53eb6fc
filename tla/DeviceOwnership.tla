-------------------------- MODULE DeviceOwnership --------------------------
(***************************************************************************)
(* The device list of SettingsModel and the devices in the configs of the  *)
(* adapters, through everything that writes them: adapters that describe   *)
(* themselves (models/settingsmodel.cpp), the settings dialog              *)
(* (dialogs/adapterdevicesettings.cpp) and the load of a project file      *)
(* (importexport/projectfilehandler.cpp).                                  *)
(*                                                                         *)
(* Only the device ids of a config are kept.  A config without a "devices" *)
(* array takes its devices from the adapter's defaults.  The dialog is     *)
(* modal: no project is loaded while it is open, but adapters describe.    *)
(***************************************************************************)
EXTENDS DeviceReconcile, FiniteSets, FiniteSetsExt

CONSTANT
    Defaults         \* adapter -> devices of its default config

ASSUME OwnershipAssumption == Defaults \in [Adapters -> SUBSET Devices]

VARIABLES
    schema,     \* adapters that described themselves, AdapterData::schema()
    stored,     \* adapters with AdapterData::hasStoredConfig()
    listing,    \* those of them whose stored config has a "devices" array
    lists,      \* adapter -> devices of that array
    devices,    \* SettingsModel::_devices, device -> owner
    dialog,     \* the Devices page of the settings dialog
    chosen,     \* history: owners the user accepted in the dialog,
    known,      \* and the adapters it knew
    aligned,    \* history: adapters whose device lists the last load aligned,
                \* until something else changes the model
    loaded      \* history: whether the model holds what an agreeing project
                \* file brought, loaded "first" or after another config was stored

modelVars == <<schema, stored, listing, lists, devices>>
vars == <<modelVars, dialog, chosen, known, aligned, loaded>>

Nobody == [d \in Devices |-> NoAdapter]

Dialogs == [open : BOOLEAN,
            valid : SUBSET Adapters,              \* _validAdapterIds
            withoutTab : SUBSET Devices,          \* _deviceIdsWithoutTab
            tabs : DeviceLists,                   \* adapter chosen in each tab
            choices : [Devices -> SUBSET Adapters]] \* entries of its adapter box

Closed == [open |-> FALSE, valid |-> {}, withoutTab |-> {}, tabs |-> Nobody,
           choices |-> [d \in Devices |-> {}]]

TypeOK ==
    /\ schema \subseteq Adapters
    /\ stored \subseteq Adapters
    /\ listing \subseteq stored
    /\ lists \in [Adapters -> SUBSET Devices]
    /\ devices \in DeviceLists
    /\ dialog \in Dialogs
    /\ chosen \in DeviceLists
    /\ known \subseteq Adapters
    /\ aligned \subseteq Adapters
    /\ loaded \in {"no", "first", "again"}

Init ==
    /\ schema = {} /\ stored = {} /\ listing = {}
    /\ lists = [a \in Adapters |-> {}]
    /\ devices = [Nobody EXCEPT ![FirstDevice] = Modbus]
    /\ dialog = Closed
    /\ chosen = Nobody
    /\ known = {}
    /\ aligned = {}
    /\ loaded = "no"

(* The devices of effectiveConfig(): the defaults are empty until the      *)
(* adapter described itself.                                               *)
Declared(a) ==
    IF a \in listing THEN lists[a]
    ELSE IF a \in schema THEN Defaults[a]
    ELSE {}

(* updateAdapterFromDescribe(), also when an adapter describes again. *)
Describe(a) ==
    /\ schema' = schema \cup {a}
    /\ devices' = Reconciled(devices, schema', stored,
                     [b \in Adapters |-> IF b = a /\ a \notin listing THEN Defaults[a] ELSE Declared(b)])
    /\ aligned' = {}
    /\ UNCHANGED <<stored, listing, lists, dialog, chosen, known, loaded>>

-----------------------------------------------------------------------------
(***************************************************************************)
(* The Devices page of the settings dialog.                                *)
(***************************************************************************)

OpenDialog ==
    /\ ~dialog.open /\ schema # {}
    /\ devices' = Reconciled(devices, schema, stored, [a \in Adapters |-> Declared(a)])
    /\ dialog' = [open |-> TRUE,
                  valid |-> schema,
                  withoutTab |-> {d \in Ids(devices') : devices'[d] \notin schema},
                  tabs |-> [d \in Devices |-> IF devices'[d] \in schema THEN devices'[d]
                                                                       ELSE NoAdapter],
                  choices |-> [d \in Devices |-> IF devices'[d] \in schema THEN schema
                                                                          ELSE {}]]
    /\ aligned' = {}
    /\ UNCHANGED <<schema, stored, listing, lists, chosen, known, loaded>>

(* A new tab gets the next free id and the default adapter. *)
AddTab ==
    /\ dialog.open
    /\ LET used == Ids(devices) \cup Ids(dialog.tabs)
           newId == IF used = {} THEN FirstDevice ELSE Max(used) + 1
           owner == IF Modbus \in dialog.valid THEN Modbus ELSE Min(dialog.valid)
       IN  /\ newId \in Devices
           /\ dialog' = [dialog EXCEPT !.tabs[newId] = owner, !.choices[newId] = schema]
    /\ UNCHANGED <<modelVars, chosen, known, aligned, loaded>>

CloseTab(d) ==
    /\ dialog.open /\ d \in Ids(dialog.tabs)
    /\ dialog' = [dialog EXCEPT !.tabs[d] = NoAdapter, !.choices[d] = {}]
    /\ UNCHANGED <<modelVars, chosen, known, aligned, loaded>>

ChooseAdapter(d, a) ==
    /\ dialog.open /\ a \in dialog.choices[d] \ {dialog.tabs[d]}
    /\ dialog' = [dialog EXCEPT !.tabs[d] = a]
    /\ UNCHANGED <<modelVars, chosen, known, aligned, loaded>>

(* Mutation of TabsOf: an adapter keeps the devices it declared before. *)
TabsAndOldDevices(a) == Declared(a) \cup {d \in Devices : dialog.tabs[d] = a}

(* The devices the page writes to the config of an adapter. *)
TabsOf(a) == {d \in Devices : dialog.tabs[d] = a}

(* setAdapterCurrentConfig() of these adapters, with a list of devices. *)
Configured(adapters) ==
    /\ stored' = stored \cup adapters
    /\ listing' = listing \cup adapters

(* acceptValues(): the configs of the adapters the page was built with,    *)
(* then the device list.                                                   *)
AcceptDialog ==
    /\ dialog.open
    /\ Configured(dialog.valid)
    /\ lists' = [a \in Adapters |-> IF a \in dialog.valid THEN TabsOf(a) ELSE lists[a]]
    /\ devices' = [d \in Devices |-> IF d \in Ids(dialog.tabs) THEN dialog.tabs[d]
                                     ELSE IF d \in dialog.withoutTab THEN devices[d]
                                     ELSE NoAdapter]
    /\ dialog' = Closed
    /\ chosen' = dialog.tabs
    /\ known' = dialog.valid
    /\ aligned' = {}
    /\ loaded' = "no"
    /\ UNCHANGED schema

CancelDialog ==
    /\ dialog.open
    /\ dialog' = Closed
    /\ UNCHANGED <<modelVars, chosen, known, aligned, loaded>>

-----------------------------------------------------------------------------
(***************************************************************************)
(* Loading a project.  "in" are the adapters of the file, "arrays" those   *)
(* of them that list devices, "claims" these lists and "section" the owners *)
(* in the devices section of the file.                                     *)
(***************************************************************************)

Claimants(d, arrays, claims) == {a \in arrays : d \in claims[a]}

(* The device list of alignDevicesWithAdapterConfigs(). *)
AlignedDevices(arrays, claims, section) ==
    [d \in Devices |->
        LET claimants == Claimants(d, arrays, claims)
        IN  IF /\ claimants # {}
               /\ \/ section[d] = NoAdapter
                  \/ section[d] \in arrays \ claimants
            THEN Min(claimants)
            ELSE section[d]]

(* Mutation of AlignedClaims: the configs of the file are taken as they are. *)
ClaimsOfFile(arrays, claims, section) ==
    [a \in Adapters |-> IF a \in arrays THEN claims[a] ELSE {}]

(* The configs it leaves: a device nobody lists is added to its owner's. *)
AlignedClaims(arrays, claims, section) ==
    [a \in Adapters |->
        IF a \in arrays
        THEN claims[a] \cup {d \in Devices : /\ section[d] = a
                                             /\ Claimants(d, arrays, claims) = {}}
        ELSE {}]

(* A file as saveProjectFile() writes it when configs and devices agree:   *)
(* a config that went through the dialog lists its devices.                *)
Agrees(in, arrays, claims, section) ==
    /\ arrays = in
    /\ \A d \in Devices, a \in arrays : d \in claims[a] <=> section[d] = a

(* updateProjectSetting(): configs of adapters that are not in the file stay. *)
LoadProject(in, arrays, claims, section) ==
    /\ ~dialog.open
    /\ stored' = stored \cup in
    /\ listing' = (listing \ in) \cup arrays
    /\ lists' = [a \in Adapters |-> IF a \in in THEN AlignedClaims(arrays, claims, section)[a]
                                               ELSE lists[a]]
    /\ devices' = AlignedDevices(arrays, claims, section)
    /\ chosen' = Nobody
    /\ known' = {}
    /\ aligned' = arrays
    /\ loaded' = IF ~Agrees(in, arrays, claims, section) THEN "no"
                 ELSE IF stored = {} THEN "first" ELSE "again"
    /\ UNCHANGED <<schema, dialog>>

LoadSomeProject ==
    \E in \in SUBSET Adapters : \E arrays \in SUBSET in :
        \E claims \in [arrays -> SUBSET Devices], section \in DeviceLists :
            LoadProject(in, arrays, claims, section)

Next ==
    \/ \E a \in Adapters : Describe(a)
    \/ OpenDialog
    \/ AddTab
    \/ \E d \in Devices : CloseTab(d)
    \/ \E d \in Devices, a \in Adapters : ChooseAdapter(d, a)
    \/ AcceptDialog
    \/ CancelDialog
    \/ LoadSomeProject

Spec == Init /\ [][Next]_vars

-----------------------------------------------------------------------------
(***************************************************************************)
(* Properties.                                                             *)
(***************************************************************************)

(* What the user assigned in the settings dialog stays, however adapters   *)
(* describe themselves afterwards: no adapter that the dialog knew takes a *)
(* device it was not given, and a device given to one of these is lost only *)
(* to an adapter with an explicit config.  (A tab added in the dialog after *)
(* another adapter described can be given to that adapter, whose config the *)
(* page does not write: this one may go to somebody's defaults.)            *)
ChoiceIsKept ==
    \A d \in Ids(chosen) : devices[d] # chosen[d] =>
        /\ devices[d] \in Adapters \ known
        /\ chosen[d] \in known => devices[d] \in stored

(* A reconcile never passes a device from an adapter that described itself *)
(* and has it in its stored config to one that comes with it by default.   *)
DefaultsRobNobody ==
    [][OpenDialog \/ (\E b \in Adapters : Describe(b)) =>
        \A d \in Devices, a \in schema \cap listing :
            d \in lists[a] /\ devices[d] = a /\ devices'[d] # a => devices'[d] \in stored]_vars

(* However the two sections of a project file contradict each other, they  *)
(* name the same devices after they were aligned: nothing is polled that    *)
(* is not in the list, nothing is in the list of an adapter and not polled. *)
SectionsAreAligned ==
    \A a \in aligned :
        /\ lists[a] \subseteq Ids(devices)
        /\ \A d \in Devices : devices[d] = a => d \in lists[a]

(* The device list and the configs of a loaded project agree once the       *)
(* adapters with a config described themselves, until the user edits them.  *)
AgreeOnDevices ==
    \A a \in listing, d \in Devices : d \in lists[a] <=> devices[d] = a

FirstProjectAgrees == loaded = "first" /\ listing \subseteq schema => AgreeOnDevices

(* The same of every project, whatever was loaded or edited before.        *)
EveryProjectAgrees == loaded # "no" /\ listing \subseteq schema => AgreeOnDevices
=============================================================================
