------------------------ MODULE DeviceOwnership_proof ------------------------
(***************************************************************************)
(* Proofs about DeviceOwnership for any number of adapters and devices and *)
(* any default configurations.                                             *)
(***************************************************************************)
EXTENDS DeviceOwnership, OrderedSets_proof

-----------------------------------------------------------------------------
(* Facts about the reconciliation of devices.                              *)

(* Adapters are numbers, none of them is NoAdapter. *)
LEMMA AdaptersAreIds == Adapters \in SUBSET Nat /\ NoAdapter \notin Adapters /\ Modbus \in Adapters
BY ReconcileAssumption DEF Adapters, NoAdapter

(* The order of the claims has a first claimant: a stored config before    *)
(* any other, the "modbus" adapter before the rest.                        *)
LEMMA FirstClaimant ==
    ASSUME NEW claimants \in SUBSET Adapters, claimants # {}, NEW preferred
    PROVE  /\ FirstOf(claimants, preferred) \in claimants
           /\ \A b \in claimants : Precedes(FirstOf(claimants, preferred), b, preferred)
<1>. USE AdaptersAreIds
<1>1. \E a \in claimants : \A b \in claimants : Precedes(a, b, preferred)
  <2>1. CASE claimants \cap preferred # {}
    <3>1. PICK a \in claimants \cap preferred : \A b \in claimants \cap preferred : a <= b
      BY <2>1, LeastExists
    <3> QED BY <3>1 DEF Precedes
  <2>2. CASE claimants \cap preferred = {} /\ Modbus \in claimants
    BY <2>2 DEF Precedes
  <2>3. CASE claimants \cap preferred = {} /\ Modbus \notin claimants
    <3>1. PICK a \in claimants : \A b \in claimants : a <= b
      BY LeastExists
    <3> QED BY <3>1, <2>3 DEF Precedes
  <2> QED BY <2>1, <2>2, <2>3
<1> QED BY <1>1 DEF FirstOf

(* What a reconcile does to one device: nothing when no adapter that       *)
(* described itself declares it, or it goes to the first that does.        *)
LEMMA ReconciledOwner ==
    ASSUME NEW list, NEW claiming \in SUBSET Adapters, NEW preferred, NEW declared, NEW d \in Devices
    PROVE  LET owner == Reconciled(list, claiming, preferred, declared)[d]
           IN  \/ /\ owner = list[d]
                  /\ \A a \in claiming : d \notin declared[a]
               \/ /\ owner \in claiming /\ d \in declared[owner]
                  /\ \A a \in claiming : d \in declared[a] => Precedes(owner, a, preferred)
<1> DEFINE claimants == {a \in claiming : d \in declared[a]}
<1>1. Reconciled(list, claiming, preferred, declared)[d] =
        IF claimants = {} THEN list[d] ELSE FirstOf(claimants, preferred)
  BY DEF Reconciled
<1>2. claimants # {} => /\ FirstOf(claimants, preferred) \in claimants
                        /\ \A b \in claimants : Precedes(FirstOf(claimants, preferred), b, preferred)
  BY FirstClaimant
<1> QED BY <1>1, <1>2

(* A reconciled list is a list of devices and loses none of them. *)
LEMMA ReconciledType ==
    ASSUME NEW list \in DeviceLists, NEW claiming \in SUBSET Adapters, NEW preferred, NEW declared
    PROVE  /\ Reconciled(list, claiming, preferred, declared) \in DeviceLists
           /\ Ids(list) \subseteq Ids(Reconciled(list, claiming, preferred, declared))
<1>1. \A d \in Devices :
        Reconciled(list, claiming, preferred, declared)[d] \in {list[d]} \cup claiming
  BY ReconciledOwner
<1>2. Reconciled(list, claiming, preferred, declared) =
        [d \in Devices |-> Reconciled(list, claiming, preferred, declared)[d]]
  BY DEF Reconciled
<1> QED BY <1>1, <1>2, AdaptersAreIds DEF DeviceLists, Ids

(* A device of an adapter with a stored config never goes to one without.  *)
LEMMA StoredPrecedes ==
    ASSUME NEW a, NEW b, NEW preferred, Precedes(a, b, preferred), b \in preferred
    PROVE  a \in preferred
BY DEF Precedes

-----------------------------------------------------------------------------
(* What the runs' properties need besides.                                 *)

(* The declarations a reconcile sees when adapter a described itself. *)
DeclaredWhen(a) ==
    [b \in Adapters |-> IF b = a /\ a \notin listing THEN Defaults[a] ELSE Declared(b)]

(* An open dialog knows an adapter, and only adapters that described       *)
(* themselves.                                                             *)
DialogKnowsAdapters ==
    dialog.open => dialog.valid # {} /\ dialog.valid \subseteq schema

(* The adapters that a dialog configured declare what it assigned to them: *)
(* they keep their stored list of devices until a project is loaded.       *)
ConfigsFollowChoice ==
    /\ known \subseteq schema \cap listing
    /\ \A a \in known, d \in Devices : d \in lists[a] <=> chosen[d] = a

(* After a first project whose sections agree, the adapters with a config  *)
(* are those of the file.  They declare disjoint devices, have no other,   *)
(* and those that described themselves have all of theirs.                 *)
FirstProject ==
    loaded = "first" =>
        /\ listing = stored
        /\ \A a, b \in listing : a # b => lists[a] \cap lists[b] = {}
        /\ \A a \in listing, d \in Devices : devices[d] = a => d \in lists[a]
        /\ \A a \in listing \cap schema : \A d \in lists[a] : devices[d] = a

IInv == TypeOK /\ DialogKnowsAdapters /\ ConfigsFollowChoice /\ FirstProject

-----------------------------------------------------------------------------
(***************************************************************************)
(* Type correctness.                                                       *)
(***************************************************************************)

(* The first device is one, and nobody owns the devices of an empty list. *)
LEMMA FirstLists ==
    /\ FirstDevice \in Devices
    /\ Nobody \in DeviceLists
    /\ Closed \in Dialogs
BY ReconcileAssumption, AdaptersAreIds
   DEF FirstDevice, Devices, Nobody, DeviceLists, Closed, Dialogs

(* A change of one tab leaves a dialog that knows the same adapters. *)
LEMMA TabChange ==
    ASSUME NEW page \in Dialogs, NEW d \in Devices, NEW a \in Adapters \cup {NoAdapter},
           NEW boxed \in SUBSET Adapters
    PROVE  /\ [page EXCEPT !.tabs[d] = a, !.choices[d] = boxed] \in Dialogs
           /\ [page EXCEPT !.tabs[d] = a, !.choices[d] = boxed].open = page.open
           /\ [page EXCEPT !.tabs[d] = a, !.choices[d] = boxed].valid = page.valid
           /\ [page EXCEPT !.tabs[d] = a] \in Dialogs
           /\ [page EXCEPT !.tabs[d] = a].open = page.open
           /\ [page EXCEPT !.tabs[d] = a].valid = page.valid
<1>1. /\ [page.tabs EXCEPT ![d] = a] \in DeviceLists
      /\ [page.choices EXCEPT ![d] = boxed] \in [Devices -> SUBSET Adapters]
  BY DEF Dialogs, DeviceLists
<1> QED BY <1>1 DEF Dialogs

(* The list that a load aligns names adapters of the file. *)
LEMMA AlignedType ==
    ASSUME NEW arrays \in SUBSET Adapters, NEW claims \in [arrays -> SUBSET Devices],
           NEW section \in DeviceLists
    PROVE  /\ AlignedDevices(arrays, claims, section) \in DeviceLists
           /\ AlignedClaims(arrays, claims, section) \in [Adapters -> SUBSET Devices]
<1>1. \A d \in Devices : Claimants(d, arrays, claims) # {} =>
                             Min(Claimants(d, arrays, claims)) \in Adapters
  BY MinIsLeast, AdaptersAreIds DEF Claimants
<1> QED BY <1>1, AdaptersAreIds DEF AlignedDevices, AlignedClaims, DeviceLists

(* Each kind of step keeps the types. *)
LEMMA TypeStep ==
    ASSUME TypeOK, DialogKnowsAdapters, [Next]_vars
    PROVE  TypeOK'
<1>. USE AdaptersAreIds
<1>1. CASE \E a \in Adapters : Describe(a)
  <2>1. PICK a \in Adapters : Describe(a)
    BY <1>1
  <2>2. devices' \in DeviceLists
    BY <2>1, ReconciledType DEF Describe, TypeOK
  <2> QED BY <2>1, <2>2 DEF Describe, TypeOK
<1>2. CASE OpenDialog
  <2>1. devices' \in DeviceLists
    BY <1>2, ReconciledType DEF OpenDialog, TypeOK
  <2>2. dialog' \in Dialogs
    BY <1>2, <2>1 DEF OpenDialog, TypeOK, Dialogs, DeviceLists, Ids
  <2> QED BY <1>2, <2>1, <2>2 DEF OpenDialog, TypeOK
<1>3. CASE AddTab
  <2>1. dialog.valid \subseteq Adapters /\ dialog.valid # {} /\ dialog \in Dialogs
    BY <1>3 DEF AddTab, TypeOK, Dialogs, DialogKnowsAdapters
  <2>2. Min(dialog.valid) \in Adapters
    BY <2>1, MinIsLeast
  <2>3. PICK newId \in Devices, owner \in Adapters :
          dialog' = [dialog EXCEPT !.tabs[newId] = owner, !.choices[newId] = schema]
    BY <1>3, <2>2 DEF AddTab
  <2>4. dialog' \in Dialogs
    BY <2>1, <2>3, TabChange DEF TypeOK
  <2> QED BY <1>3, <2>4 DEF AddTab, TypeOK, modelVars
<1>4. CASE \E d \in Devices : CloseTab(d)
  <2>1. PICK d \in Devices : CloseTab(d)
    BY <1>4
  <2>2. [dialog EXCEPT !.tabs[d] = NoAdapter, !.choices[d] = {}] \in Dialogs
    BY TabChange DEF TypeOK
  <2>3. dialog' \in Dialogs
    BY <2>1, <2>2 DEF CloseTab
  <2> QED BY <2>1, <2>3 DEF CloseTab, TypeOK, modelVars
<1>5. CASE \E d \in Devices, a \in Adapters : ChooseAdapter(d, a)
  <2>1. PICK d \in Devices, a \in Adapters : ChooseAdapter(d, a)
    BY <1>5
  <2>2. dialog' \in Dialogs
    BY <2>1, TabChange DEF ChooseAdapter, TypeOK
  <2> QED BY <2>1, <2>2 DEF ChooseAdapter, TypeOK, modelVars
<1>6. CASE AcceptDialog
  <2>1. /\ dialog.valid \subseteq Adapters /\ dialog.tabs \in DeviceLists
        /\ devices \in DeviceLists
    BY DEF TypeOK, Dialogs
  <2>2. devices' \in DeviceLists
    BY <1>6, <2>1 DEF AcceptDialog, DeviceLists, Ids
  <2>3. lists' \in [Adapters -> SUBSET Devices]
    BY <1>6 DEF AcceptDialog, TypeOK, TabsOf
  <2> QED BY <1>6, <2>1, <2>2, <2>3, FirstLists DEF AcceptDialog, Configured, TypeOK
<1>7. CASE CancelDialog
  BY <1>7, FirstLists DEF CancelDialog, TypeOK, modelVars
<1>8. CASE LoadSomeProject
  <2>0. PICK in \in SUBSET Adapters : \E arrays \in SUBSET in :
               \E claims \in [arrays -> SUBSET Devices], section \in DeviceLists :
                   LoadProject(in, arrays, claims, section)
    BY <1>8 DEF LoadSomeProject
  <2>a. PICK arrays \in SUBSET in :
               \E claims \in [arrays -> SUBSET Devices], section \in DeviceLists :
                   LoadProject(in, arrays, claims, section)
    BY <2>0
  <2>1. PICK claims \in [arrays -> SUBSET Devices], section \in DeviceLists :
               LoadProject(in, arrays, claims, section)
    BY <2>a
  <2>2. /\ AlignedDevices(arrays, claims, section) \in DeviceLists
        /\ AlignedClaims(arrays, claims, section) \in [Adapters -> SUBSET Devices]
    BY AlignedType
  <2>3. loaded' \in {"no", "first", "again"}
    BY <2>1 DEF LoadProject
  <2> QED BY <2>1, <2>2, <2>3, FirstLists DEF LoadProject, TypeOK
<1>9. CASE UNCHANGED vars
  BY <1>9 DEF vars, modelVars, TypeOK
<1> QED BY <1>1, <1>2, <1>3, <1>4, <1>5, <1>6, <1>7, <1>8, <1>9 DEF Next

(* The dialog keeps the adapters it was built with.  Adapters never lose   *)
(* their schema.                                                           *)
LEMMA DialogStep ==
    ASSUME TypeOK, DialogKnowsAdapters, [Next]_vars
    PROVE  DialogKnowsAdapters'
<1>. USE DEF DialogKnowsAdapters
<1>1. CASE \E a \in Adapters : Describe(a)
  BY <1>1 DEF Describe
<1>2. CASE OpenDialog
  BY <1>2 DEF OpenDialog
<1>3. CASE AddTab \/ (\E d \in Devices : CloseTab(d))
  <2>1. dialog'.open = dialog.open /\ dialog'.valid = dialog.valid
    BY <1>3 DEF AddTab, CloseTab, TypeOK, Dialogs
  <2> QED BY <1>3, <2>1 DEF AddTab, CloseTab, modelVars
<1>4. CASE \E d \in Devices, a \in Adapters : ChooseAdapter(d, a)
  <2>1. dialog'.open = dialog.open /\ dialog'.valid = dialog.valid
    BY <1>4 DEF ChooseAdapter, TypeOK, Dialogs
  <2> QED BY <1>4, <2>1 DEF ChooseAdapter, modelVars
<1>5. CASE AcceptDialog \/ CancelDialog
  BY <1>5 DEF AcceptDialog, CancelDialog, Closed
<1>6. CASE LoadSomeProject
  BY <1>6 DEF LoadSomeProject, LoadProject
<1>7. CASE UNCHANGED vars
  BY <1>7 DEF vars, modelVars
<1> QED BY <1>1, <1>2, <1>3, <1>4, <1>5, <1>6, <1>7 DEF Next

-----------------------------------------------------------------------------
(***************************************************************************)
(* What a reconcile does, whichever handler calls it.                      *)
(***************************************************************************)

(* The declarations of an adapter whose stored config lists devices are    *)
(* that list, also for the adapter that is describing itself.              *)
LEMMA StoredDeclarations ==
    ASSUME NEW a \in listing, a \in Adapters, NEW b
    PROVE  DeclaredWhen(b)[a] = lists[a] /\ [c \in Adapters |-> Declared(c)][a] = lists[a]
BY DEF DeclaredWhen, Declared

(* Both calls of the reconcile: the adapters that describe may grow, and   *)
(* stored lists count as they are.                                         *)
Reconciles(describing, declared) ==
    /\ schema \subseteq describing /\ describing \subseteq Adapters
    /\ schema' = describing
    /\ \A a \in listing : declared[a] = lists[a]
    /\ devices' = Reconciled(devices, describing, stored, declared)
    /\ UNCHANGED <<stored, listing, lists, chosen, known, loaded>>

(* describeResult and the constructor of the Devices page reconcile. *)
LEMMA HandlersReconcile ==
    ASSUME TypeOK, OpenDialog \/ (\E b \in Adapters : Describe(b))
    PROVE  \E describing, declared : Reconciles(describing, declared)
<1>1. CASE OpenDialog
  <2>1. Reconciles(schema, [a \in Adapters |-> Declared(a)])
    BY <1>1, StoredDeclarations DEF OpenDialog, Reconciles, TypeOK
  <2> QED BY <2>1
<1>2. ASSUME NEW b \in Adapters, Describe(b)
      PROVE  \E describing, declared : Reconciles(describing, declared)
  <2>1. Reconciles(schema \cup {b}, DeclaredWhen(b))
    BY <1>2, StoredDeclarations DEF Describe, Reconciles, TypeOK, DeclaredWhen
  <2> QED BY <2>1
<1> QED BY <1>1, <1>2

(* A device in the stored list of an adapter that described itself goes to *)
(* the first adapter of its list's kind: one with a stored config.         *)
LEMMA ListedDevice ==
    ASSUME TypeOK, NEW describing, NEW declared, Reconciles(describing, declared),
           NEW a \in schema \cap listing, NEW d \in lists[a]
    PROVE  devices'[d] \in stored \cap describing /\ d \in declared[devices'[d]]
<1>1. a \in describing /\ d \in declared[a] /\ a \in stored /\ d \in Devices
  BY DEF Reconciles, TypeOK
<1>2. /\ devices'[d] \in describing /\ d \in declared[devices'[d]]
      /\ Precedes(devices'[d], a, stored)
  BY <1>1, ReconciledOwner DEF Reconciles
<1> QED BY <1>1, <1>2, StoredPrecedes

(* Any other device stays where it is or goes to an adapter that declares  *)
(* it.                                                                     *)
LEMMA AnyDevice ==
    ASSUME TypeOK, NEW describing, NEW declared, Reconciles(describing, declared),
           NEW d \in Devices
    PROVE  \/ devices'[d] = devices[d]
           \/ devices'[d] \in describing /\ d \in declared[devices'[d]]
BY ReconciledOwner DEF Reconciles

-----------------------------------------------------------------------------
(***************************************************************************)
(* The choices of the user.                                                *)
(***************************************************************************)

(* Nothing but an accepted dialog or a load changes the configs, and both  *)
(* leave configs that follow the choices.                                  *)
LEMMA ConfigsStep ==
    ASSUME TypeOK, DialogKnowsAdapters, ConfigsFollowChoice, [Next]_vars
    PROVE  ConfigsFollowChoice'
<1>. USE DEF ConfigsFollowChoice
<1>1. CASE OpenDialog \/ (\E b \in Adapters : Describe(b))
  BY <1>1, HandlersReconcile DEF Reconciles
<1>2. CASE AcceptDialog
  <2>1. known' = dialog.valid /\ dialog.valid \subseteq schema'
    BY <1>2 DEF AcceptDialog, DialogKnowsAdapters
  <2>2. dialog.valid \subseteq listing'
    BY <1>2 DEF AcceptDialog, Configured
  <2>3. \A a \in dialog.valid : lists'[a] = {d \in Devices : chosen'[d] = a}
    BY <1>2 DEF AcceptDialog, TabsOf, TypeOK, Dialogs
  <2> QED BY <2>1, <2>2, <2>3
<1>3. CASE LoadSomeProject
  BY <1>3 DEF LoadSomeProject, LoadProject
<1>4. CASE UNCHANGED <<modelVars, chosen, known, loaded>>
  BY <1>4 DEF modelVars
<1>5. CASE \/ AddTab \/ CancelDialog \/ (\E d \in Devices : CloseTab(d))
           \/ \E d \in Devices, a \in Adapters : ChooseAdapter(d, a)
  BY <1>5, <1>4 DEF AddTab, CancelDialog, CloseTab, ChooseAdapter
<1> QED BY <1>1, <1>2, <1>3, <1>4, <1>5 DEF Next, vars

(* A reconcile takes a device of the user's choice away only as the        *)
(* property allows.                                                        *)
LEMMA ChoiceStep ==
    ASSUME TypeOK, DialogKnowsAdapters, ConfigsFollowChoice, ChoiceIsKept, [Next]_vars
    PROVE  ChoiceIsKept'
<1>1. CASE OpenDialog \/ (\E b \in Adapters : Describe(b))
  <2>1. PICK describing, declared : Reconciles(describing, declared)
    BY <1>1, HandlersReconcile
  <2>2. UNCHANGED <<chosen, known, stored, lists, listing>>
    BY <2>1 DEF Reconciles
  <2>3. SUFFICES ASSUME NEW d \in Ids(chosen), devices'[d] # chosen[d]
                 PROVE  /\ devices'[d] \in Adapters \ known
                        /\ chosen[d] \in known => devices'[d] \in stored
    BY <2>2 DEF ChoiceIsKept
  <2>4. d \in Devices
    BY DEF Ids
  <2>5. CASE devices'[d] = devices[d]
    BY <2>3, <2>5 DEF ChoiceIsKept
  <2>6. CASE devices'[d] \in describing /\ d \in declared[devices'[d]]
    <3>1. devices'[d] \notin known
      BY <2>1, <2>3, <2>4, <2>6 DEF Reconciles, ConfigsFollowChoice
    <3>2. chosen[d] \in known => devices'[d] \in stored
      BY <2>1, <2>4, ListedDevice DEF ConfigsFollowChoice
    <3> QED BY <2>1, <2>6, <3>1, <3>2 DEF Reconciles
  <2> QED BY <2>1, <2>4, <2>5, <2>6, AnyDevice
<1>2. CASE AcceptDialog
  BY <1>2 DEF AcceptDialog, ChoiceIsKept, Ids
<1>3. CASE LoadSomeProject
  BY <1>3 DEF LoadSomeProject, LoadProject, ChoiceIsKept, Ids, Nobody
<1>4. CASE UNCHANGED <<modelVars, chosen, known, loaded>>
  BY <1>4 DEF modelVars, ChoiceIsKept
<1>5. CASE \/ AddTab \/ CancelDialog \/ (\E d \in Devices : CloseTab(d))
           \/ \E d \in Devices, a \in Adapters : ChooseAdapter(d, a)
  BY <1>5, <1>4 DEF AddTab, CancelDialog, CloseTab, ChooseAdapter
<1> QED BY <1>1, <1>2, <1>3, <1>4, <1>5 DEF Next, vars

-----------------------------------------------------------------------------
(***************************************************************************)
(* Projects.                                                               *)
(***************************************************************************)

(* After the load of a file the config of every adapter that lists devices *)
(* and the device list name the same ones.                                 *)
LEMMA LoadAligns ==
    ASSUME NEW arrays \in SUBSET Adapters, NEW claims \in [arrays -> SUBSET Devices],
           NEW section \in DeviceLists, NEW a \in arrays, NEW d \in Devices
    PROVE  /\ d \in AlignedClaims(arrays, claims, section)[a] =>
                  AlignedDevices(arrays, claims, section)[d] # NoAdapter
           /\ AlignedDevices(arrays, claims, section)[d] = a =>
                  d \in AlignedClaims(arrays, claims, section)[a]
<1> DEFINE claimants == Claimants(d, arrays, claims)
<1>. USE AdaptersAreIds
<1>1. claimants \in SUBSET Adapters /\ (a \in claimants <=> d \in claims[a])
  BY DEF Claimants
<1>2. claimants # {} => Min(claimants) \in claimants /\ Min(claimants) # NoAdapter
  BY <1>1, MinIsLeast
<1>3. AlignedDevices(arrays, claims, section)[d] =
        IF claimants # {} /\ (section[d] = NoAdapter \/ section[d] \in arrays \ claimants)
        THEN Min(claimants) ELSE section[d]
  BY DEF AlignedDevices
<1>4. d \in AlignedClaims(arrays, claims, section)[a] <=>
        d \in claims[a] \/ (section[d] = a /\ claimants = {})
  BY DEF AlignedClaims
<1>5. CASE claimants = {}
  BY <1>1, <1>3, <1>4, <1>5
<1>6. CASE claimants # {}
  BY <1>1, <1>2, <1>3, <1>4, <1>6
<1> QED BY <1>5, <1>6

(* A load whose two sections agree takes both as they are. *)
LEMMA LoadOfAgreement ==
    ASSUME NEW in \in SUBSET Adapters, NEW arrays \in SUBSET in,
           NEW claims \in [arrays -> SUBSET Devices], NEW section \in DeviceLists,
           Agrees(in, arrays, claims, section), NEW d \in Devices
    PROVE  /\ \A a \in in : d \in AlignedClaims(arrays, claims, section)[a] <=> section[d] = a
           /\ AlignedDevices(arrays, claims, section)[d] = section[d]
<1>. USE AdaptersAreIds
<1>1. arrays = in /\ \A a \in in : d \in claims[a] <=> section[d] = a
  BY DEF Agrees
<1>2. Claimants(d, arrays, claims) = {a \in in : section[d] = a}
  BY <1>1 DEF Claimants
<1>3. AlignedDevices(arrays, claims, section)[d] = section[d]
  BY <1>1, <1>2 DEF AlignedDevices
<1>4. \A a \in in : d \in AlignedClaims(arrays, claims, section)[a] <=> section[d] = a
  BY <1>1, <1>2 DEF AlignedClaims
<1> QED BY <1>3, <1>4

(* The adapters of a first project keep what they declare until they       *)
(* described themselves, and get it then.                                  *)
LEMMA FirstStep ==
    ASSUME TypeOK, FirstProject, [Next]_vars
    PROVE  FirstProject'
<1>. USE DEF FirstProject
<1>1. CASE OpenDialog \/ (\E b \in Adapters : Describe(b))
  <2>1. PICK describing, declared : Reconciles(describing, declared)
    BY <1>1, HandlersReconcile
  <2>2. /\ UNCHANGED <<stored, lists, listing, loaded>> /\ schema' = describing
        /\ listing \subseteq Adapters /\ lists \in [Adapters -> SUBSET Devices]
    BY <2>1 DEF Reconciles, TypeOK
  <2>3. SUFFICES ASSUME loaded = "first", NEW a \in listing, NEW d \in Devices
                 PROVE  /\ devices'[d] = a => d \in lists[a]
                        /\ a \in describing /\ d \in lists[a] => devices'[d] = a
    BY <2>2
  <2>4. devices'[d] \in listing /\ devices'[d] # devices[d] => d \in lists[devices'[d]]
    BY <2>1, AnyDevice DEF Reconciles
  <2>5. devices'[d] = a => d \in lists[a]
    BY <2>3, <2>4
  <2>6. ASSUME a \in describing, d \in lists[a]
        PROVE  devices'[d] = a
    <3>1. a \in describing /\ d \in declared[a] /\ a \in stored
      BY <2>1, <2>6 DEF Reconciles, TypeOK
    <3>2. /\ d \in declared[devices'[d]] /\ Precedes(devices'[d], a, stored)
      BY <2>1, <3>1, ReconciledOwner DEF Reconciles
    <3>3. devices'[d] \in listing
      BY <2>3, <3>1, <3>2, StoredPrecedes
    <3>4. d \in lists[devices'[d]]
      BY <2>1, <3>2, <3>3 DEF Reconciles
    <3> QED BY <2>3, <2>6, <3>3, <3>4
  <2> QED BY <2>5, <2>6
<1>2. CASE AcceptDialog
  BY <1>2 DEF AcceptDialog
<1>3. CASE LoadSomeProject
  <2>0. PICK in \in SUBSET Adapters : \E arrays \in SUBSET in :
               \E claims \in [arrays -> SUBSET Devices], section \in DeviceLists :
                   LoadProject(in, arrays, claims, section)
    BY <1>3 DEF LoadSomeProject
  <2>1. PICK arrays \in SUBSET in :
               \E claims \in [arrays -> SUBSET Devices], section \in DeviceLists :
                   LoadProject(in, arrays, claims, section)
    BY <2>0
  <2>2. PICK claims \in [arrays -> SUBSET Devices], section \in DeviceLists :
               LoadProject(in, arrays, claims, section)
    BY <2>1
  <2>3. SUFFICES ASSUME loaded' = "first" PROVE FirstProject'
    OBVIOUS
  <2>4. Agrees(in, arrays, claims, section) /\ stored = {} /\ listing = {}
    BY <2>2, <2>3 DEF LoadProject, TypeOK
  <2>5. listing' = in /\ stored' = in /\ in \subseteq Adapters
    BY <2>2, <2>4 DEF LoadProject, Agrees
  <2>6. \A a \in in : lists'[a] = AlignedClaims(arrays, claims, section)[a]
    BY <2>2, <2>5 DEF LoadProject
  <2>7. \A d \in Devices : /\ devices'[d] = section[d]
                           /\ \A a \in in : d \in lists'[a] <=> section[d] = a
    BY <2>2, <2>4, <2>6, LoadOfAgreement DEF LoadProject
  <2>8. \A a \in in : lists'[a] \subseteq Devices
    BY <2>6, <2>5, AlignedType
  <2> QED BY <2>5, <2>7, <2>8
<1>4. CASE UNCHANGED <<modelVars, chosen, known, loaded>>
  BY <1>4 DEF modelVars
<1>5. CASE \/ AddTab \/ CancelDialog \/ (\E d \in Devices : CloseTab(d))
           \/ \E d \in Devices, a \in Adapters : ChooseAdapter(d, a)
  BY <1>5, <1>4 DEF AddTab, CancelDialog, CloseTab, ChooseAdapter
<1> QED BY <1>1, <1>2, <1>3, <1>4, <1>5 DEF Next, vars

(* What a load aligned stays aligned until the model is changed. *)
LEMMA AlignedStep ==
    ASSUME TypeOK, SectionsAreAligned, [Next]_vars
    PROVE  SectionsAreAligned'
<1>. USE DEF SectionsAreAligned
<1>1. CASE OpenDialog \/ AcceptDialog \/ (\E b \in Adapters : Describe(b))
  BY <1>1 DEF OpenDialog, AcceptDialog, Describe
<1>2. CASE LoadSomeProject
  <2>0. PICK in \in SUBSET Adapters : \E arrays \in SUBSET in :
               \E claims \in [arrays -> SUBSET Devices], section \in DeviceLists :
                   LoadProject(in, arrays, claims, section)
    BY <1>2 DEF LoadSomeProject
  <2>1. PICK arrays \in SUBSET in :
               \E claims \in [arrays -> SUBSET Devices], section \in DeviceLists :
                   LoadProject(in, arrays, claims, section)
    BY <2>0
  <2>2. PICK claims \in [arrays -> SUBSET Devices], section \in DeviceLists :
               LoadProject(in, arrays, claims, section)
    BY <2>1
  <2>3. /\ aligned' = arrays /\ devices' = AlignedDevices(arrays, claims, section)
        /\ \A a \in arrays : lists'[a] = AlignedClaims(arrays, claims, section)[a]
        /\ \A a \in arrays : AlignedClaims(arrays, claims, section)[a] \subseteq Devices
    BY <2>2, AlignedType DEF LoadProject
  <2>4. \A a \in arrays, d \in Devices :
          /\ d \in lists'[a] => devices'[d] # NoAdapter
          /\ devices'[d] = a => d \in lists'[a]
    BY <2>3, LoadAligns
  <2> QED BY <2>3, <2>4 DEF Ids
<1>3. CASE UNCHANGED <<modelVars, aligned>>
  BY <1>3 DEF modelVars, Ids
<1>4. CASE \/ AddTab \/ CancelDialog \/ (\E d \in Devices : CloseTab(d))
           \/ \E d \in Devices, a \in Adapters : ChooseAdapter(d, a)
  BY <1>4, <1>3 DEF AddTab, CancelDialog, CloseTab, ChooseAdapter
<1> QED BY <1>1, <1>2, <1>3, <1>4 DEF Next, vars

-----------------------------------------------------------------------------
(***************************************************************************)
(* Theorems.                                                               *)
(***************************************************************************)

(* The named parts of the inductive invariant hold initially. *)
LEMMA InitialState ==
    ASSUME Init
    PROVE  IInv /\ ChoiceIsKept /\ SectionsAreAligned
<1>1. TypeOK
  BY FirstLists, AdaptersAreIds DEF Init, TypeOK, DeviceLists
<1> QED BY <1>1 DEF Init, IInv, DialogKnowsAdapters, Closed, ConfigsFollowChoice, FirstProject,
                    ChoiceIsKept, Ids, Nobody, SectionsAreAligned

(* Each step of the device list keeps its types and what it knows of the    *)
(* dialog and of the loaded project.                                       *)
THEOREM DevicesTyped == Spec => []IInv
<1>1. Init => IInv
  BY InitialState
<1>2. IInv /\ [Next]_vars => IInv'
  BY TypeStep, DialogStep, ConfigsStep, FirstStep DEF IInv
<1> QED BY <1>1, <1>2, PTL DEF Spec

(* No adapter the dialog knew takes a device from the one the user gave it  *)
(* to, and none with a raw default config does, however often adapters      *)
(* describe themselves (reconcileDevicesWithAdapters, acceptValues).        *)
THEOREM ChoicesKept == Spec => []ChoiceIsKept
<1>1. Init => ChoiceIsKept
  BY InitialState
<1>2. IInv /\ ChoiceIsKept /\ [Next]_vars => ChoiceIsKept'
  BY ChoiceStep DEF IInv
<1> QED BY <1>1, <1>2, DevicesTyped, PTL DEF Spec

(* Every load leaves the devices section and the configs of the file in    *)
(* agreement, whatever contradictions the file holds                       *)
(* (alignDevicesWithAdapterConfigs).                                       *)
THEOREM SectionsAligned == Spec => []SectionsAreAligned
<1>1. Init => SectionsAreAligned
  BY InitialState
<1>2. IInv /\ SectionsAreAligned /\ [Next]_vars => SectionsAreAligned'
  BY AlignedStep DEF IInv
<1> QED BY <1>1, <1>2, DevicesTyped, PTL DEF Spec

(* A first project, loaded before or while its adapters describe, has the  *)
(* devices it was saved with once they all did (updateProjectSetting,      *)
(* updateAdapterFromDescribe).                                             *)
THEOREM FirstProjectKept == Spec => []FirstProjectAgrees
<1>1. IInv => FirstProjectAgrees
  BY DEF IInv, FirstProject, FirstProjectAgrees, AgreeOnDevices, TypeOK
<1> QED BY <1>1, DevicesTyped, PTL

(* A reconcile takes a device from an adapter that described itself and    *)
(* lists it in its stored config only for another with a stored config.    *)
THEOREM NobodyRobbed == Spec => DefaultsRobNobody
<1>1. IInv /\ [Next]_vars =>
        (OpenDialog \/ (\E b \in Adapters : Describe(b)) =>
            \A d \in Devices, a \in schema \cap listing :
                d \in lists[a] /\ devices[d] = a /\ devices'[d] # a => devices'[d] \in stored)
  BY HandlersReconcile, ListedDevice DEF IInv
<1> QED BY <1>1, DevicesTyped, PTL DEF Spec, DefaultsRobNobody
=============================================================================
