------------------------- MODULE DataFileNotes_proof -------------------------
(***************************************************************************)
(* DataFileNotes for every set of files: its type, the notes that are not  *)
(* marked as changed, and, on a disk that takes every write, the data.     *)
(***************************************************************************)
EXTENDS DataFileNotes, TLAPS

(* The disk has a file, or none, for every name. *)
DiskOK == disk = [p \in Paths |-> disk[p]]

(* The strengthening for the notes: from the moment the copy is made until  *)
(* it has the name of the file, the notes in it are the ones shown.         *)
CopyHasTheNotes == stage # "idle" => disk[TmpOf[path]].notes = notes

NotesInv == TypeOK /\ DiskOK /\ CopyHasTheNotes /\ SavedNotesAreInTheFile

(* The strengthening for the data: no file holds the data of another one,   *)
(* and the copy exists before the file is removed.                          *)
NoneDamaged == \A p \in Paths : Exists(p) => disk[p].data = DataOf[p]
CopyIsThere == stage # "idle" => Exists(TmpOf[path])

DataInv == TypeOK /\ DiskOK /\ NoneDamaged /\ CopyIsThere /\ DataSurvives
-----------------------------------------------------------------------------
(* What a name's temporary copy is called. *)
LEMMA TmpOther ==
    ASSUME NEW p \in Openable
    PROVE  /\ p \in Paths /\ TmpOf[p] \in Paths /\ TmpOf[p] # p
           /\ DataOf[TmpOf[p]] = DataOf[p]
  BY FilesAssumption DEF FilesAssumption

(* The type invariant holds at first. *)
LEMMA TypeInit == Init => TypeOK /\ DiskOK
  <1> SUFFICES ASSUME Init
               PROVE  TypeOK /\ DiskOK
    OBVIOUS
  <1>1. DiskOK
    BY DEF Init, DiskOK
  <1>2. added \in 0 .. MaxNotes
    BY FilesAssumption DEF Init, FilesAssumption
  <1> QED
    BY <1>1, <1>2 DEF Init, TypeOK

(* A fresh application is of its type. *)
LEMMA FreshIsTyped == Fresh /\ added' = added /\ TypeOK => TypeOK'
  BY DEF Fresh, TypeOK

(* Every step keeps the type invariant. *)
LEMMA TypeStep == TypeOK /\ DiskOK /\ [Next]_vars => TypeOK' /\ DiskOK'
  <1> SUFFICES ASSUME TypeOK, DiskOK, [Next]_vars
               PROVE  TypeOK' /\ DiskOK'
    OBVIOUS
  <1>0. added \in Nat /\ MaxNotes \in Nat
    BY FilesAssumption DEF TypeOK, FilesAssumption
  <1>1. CASE Die
    BY <1>1, FreshIsTyped DEF Die, DiskOK
  <1>2. ASSUME NEW p \in Openable, NEW accepted \in BOOLEAN, OpenDataFile(p, accepted)
        PROVE  TypeOK' /\ DiskOK'
    BY <1>2 DEF OpenDataFile, Loaded, Idle, TypeOK, DiskOK
  <1>3. CASE DiscardData
    BY <1>3 DEF DiscardData, NotesCleared, LeaveDataFile, Idle, TypeOK, DiskOK
  <1>4. CASE RunSession
    BY <1>4 DEF RunSession, NotesCleared, LeaveDataFile, Idle, TypeOK, DiskOK
  <1>5. CASE OpenProject
    BY <1>5 DEF OpenProject, LeaveDataFile, Idle, TypeOK, DiskOK
  <1>6. CASE AddNote
    <2>1. added' \in 0 .. MaxNotes
      BY <1>0, <1>6 DEF AddNote, TypeOK
    <2> QED
      BY <2>1, <1>6 DEF AddNote, NotesChanged, Idle, TypeOK, DiskOK
  <1>7. ASSUME NEW note \in notes, EditNote(note)
        PROVE  TypeOK' /\ DiskOK'
    <2>1. added' \in 0 .. MaxNotes
      BY <1>0, <1>7 DEF EditNote, TypeOK
    <2> QED
      BY <2>1, <1>7 DEF EditNote, NotesChanged, Idle, TypeOK, DiskOK
  <1>8. ASSUME NEW note \in notes, RemoveNote(note)
        PROVE  TypeOK' /\ DiskOK'
    BY <1>8 DEF RemoveNote, NotesChanged, Idle, TypeOK, DiskOK
  <1>9. ASSUME NEW close \in BOOLEAN, NEW whole \in BOOLEAN, CopyFile(close, whole)
        PROVE  TypeOK' /\ DiskOK'
    BY <1>9 DEF CopyFile, Idle, TypeOK, DiskOK
  <1>10. ASSUME NEW ok \in BOOLEAN, RemoveFile(ok)
         PROVE  TypeOK' /\ DiskOK'
    BY <1>10 DEF RemoveFile, GiveUp, TypeOK, DiskOK
  <1>11. ASSUME NEW ok \in BOOLEAN, RenameCopy(ok)
         PROVE  TypeOK' /\ DiskOK'
    <2>1. CASE ~ok
      BY <2>1, <1>11 DEF RenameCopy, GiveUp, TypeOK, DiskOK
    <2>2. CASE ok /\ closing
      BY <2>2, <1>11, FreshIsTyped DEF RenameCopy, Renamed, DiskOK
    <2>3. CASE ok /\ ~closing
      BY <2>3, <1>11 DEF RenameCopy, Renamed, TypeOK, DiskOK
    <2> QED
      BY <2>1, <2>2, <2>3
  <1>12. CASE UNCHANGED vars
    BY <1>12 DEF vars, TypeOK, DiskOK
  <1> QED
    BY <1>1, <1>2, <1>3, <1>4, <1>5, <1>6, <1>7, <1>8, <1>9, <1>10, <1>11, <1>12 DEF Next

(* Every variable keeps its type, and a write is under way only while a     *)
(* data file is shown whose notes are marked as changed                     *)
(* (DataFileExporter::updateNoteLines and its two callers).                 *)
THEOREM TypeSafe == Spec => []TypeOK
  <1>1. TypeOK /\ DiskOK /\ [Next]_vars => (TypeOK /\ DiskOK)'
    BY TypeStep
  <1> QED
    BY <1>1, TypeInit, PTL DEF Spec
-----------------------------------------------------------------------------
(* NotesInv holds at first. *)
LEMMA NotesInit == Init => NotesInv
  BY TypeInit DEF Init, NotesInv, CopyHasTheNotes, SavedNotesAreInTheFile

(* Every step keeps NotesInv. *)
LEMMA NotesStep == NotesInv /\ [Next]_vars => NotesInv'
  <1> DEFINE Goal == CopyHasTheNotes' /\ SavedNotesAreInTheFile'
  <1> SUFFICES ASSUME NotesInv, [Next]_vars
               PROVE  Goal
    BY TypeStep DEF NotesInv
  <1> USE DEF NotesInv, CopyHasTheNotes, SavedNotesAreInTheFile
  <1>1. CASE Die
    BY <1>1 DEF Die, Fresh
  <1>2. ASSUME NEW p \in Openable, NEW accepted \in BOOLEAN, OpenDataFile(p, accepted)
        PROVE  Goal
    BY <1>2 DEF OpenDataFile, Loaded, Idle
  <1>3. CASE DiscardData
    BY <1>3 DEF DiscardData, LeaveDataFile, Idle
  <1>4. CASE RunSession
    BY <1>4 DEF RunSession, LeaveDataFile, Idle
  <1>5. CASE OpenProject
    BY <1>5 DEF OpenProject, LeaveDataFile, Idle
  <1>6. CASE AddNote
    BY <1>6 DEF AddNote, NotesChanged, Idle
  <1>7. ASSUME NEW note \in notes, EditNote(note)
        PROVE  Goal
    BY <1>7 DEF EditNote, NotesChanged, Idle
  <1>8. ASSUME NEW note \in notes, RemoveNote(note)
        PROVE  Goal
    BY <1>8 DEF RemoveNote, NotesChanged, Idle
  <1>9. ASSUME NEW close \in BOOLEAN, NEW whole \in BOOLEAN, CopyFile(close, whole)
        PROVE  Goal
    <2>1. path \in Openable
      BY <1>9 DEF CopyFile, TypeOK
    <2>2. disk'[TmpOf[path]].notes = notes
      BY <1>9, <2>1, TmpOther DEF CopyFile, DiskOK
    <2> QED
      BY <2>2, <1>9 DEF CopyFile, Idle
  <1>10. ASSUME NEW ok \in BOOLEAN, RemoveFile(ok)
         PROVE  Goal
    <2>1. path \in Openable /\ updated
      BY <1>10 DEF RemoveFile, TypeOK
    <2>2. CASE ok
      <3>1. disk'[TmpOf[path]] = disk[TmpOf[path]]
        BY <2>1, <2>2, <1>10, TmpOther DEF RemoveFile, DiskOK
      <3> QED
        BY <3>1, <2>2, <1>10 DEF RemoveFile, Idle
    <2>3. CASE ~ok
      BY <2>1, <2>3, <1>10 DEF RemoveFile, GiveUp
    <2> QED
      BY <2>2, <2>3
  <1>11. ASSUME NEW ok \in BOOLEAN, RenameCopy(ok)
         PROVE  Goal
    <2>1. path \in Openable /\ updated
      BY <1>11 DEF RenameCopy, TypeOK
    <2>2. CASE ~ok
      BY <2>1, <2>2, <1>11 DEF RenameCopy, GiveUp
    <2>3. CASE ok /\ closing
      BY <2>3, <1>11 DEF RenameCopy, Fresh
    <2>4. CASE ok /\ ~closing
      <3>1. disk'[path] = disk[TmpOf[path]]
        BY <2>1, <2>4, <1>11, TmpOther DEF RenameCopy, Renamed, DiskOK
      <3> QED
        BY <3>1, <2>4, <1>11 DEF RenameCopy
    <2> QED
      BY <2>2, <2>3, <2>4
  <1>12. CASE UNCHANGED vars
    BY <1>12 DEF vars, Idle
  <1> QED
    BY <1>1, <1>2, <1>3, <1>4, <1>5, <1>6, <1>7, <1>8, <1>9, <1>10, <1>11, <1>12 DEF Next

(* Notes that are not marked as changed are the ones in the file            *)
(* (NoteModel::notesDataUpdated, setNotesDataUpdated(false) after a write). *)
THEOREM NotesSafe == Spec => []SavedNotesAreInTheFile
  <1>1. NotesInv => SavedNotesAreInTheFile
    BY DEF NotesInv
  <1> QED
    BY <1>1, NotesInit, NotesStep, PTL DEF Spec
-----------------------------------------------------------------------------
(* DataInv holds at first. *)
LEMMA DataInit == Init => DataInv
  <1> SUFFICES ASSUME Init
               PROVE  NoneDamaged /\ CopyIsThere /\ DataSurvives
    BY TypeInit DEF DataInv
  <1>1. NoneDamaged
    BY DEF Init, NoneDamaged, Exists
  <1>2. DataSurvives
    BY FilesAssumption DEF Init, DataSurvives, FilesAssumption
  <1> QED
    BY <1>1, <1>2 DEF Init, CopyIsThere

(* Data that were on disk stay there when every file that changes leaves    *)
(* its data in a file made with the same data.                              *)
LEMMA Preserved ==
    ASSUME DataSurvives,
           \A p \in Paths : Exists(p) => \E q \in Paths : DataOf[q] = DataOf[p] /\ disk'[q].data = disk[p].data
    PROVE  DataSurvives'
  <1> SUFFICES ASSUME NEW f \in Files
               PROVE  \E q \in Paths : DataOf[q] = DataOf[f] /\ disk'[q].data = DataOf[f]
    BY DEF DataSurvives
  <1>1. PICK p \in Paths : DataOf[p] = DataOf[f] /\ disk[p].data = DataOf[f]
    BY DEF DataSurvives
  <1>2. Exists(p)
    BY <1>1, FilesAssumption DEF Exists, Absent, FilesAssumption
  <1> QED
    BY <1>1, <1>2

(* Every step keeps DataInv. *)
LEMMA DataStep ==
    ASSUME ~DiskMayFill
    PROVE  DataInv /\ [Next]_vars => DataInv'
  <1> DEFINE Goal == NoneDamaged' /\ CopyIsThere' /\ DataSurvives'
  <1> SUFFICES ASSUME DataInv, [Next]_vars
               PROVE  Goal
    BY TypeStep DEF DataInv
  <1> USE DEF DataInv
  <1>0. ASSUME UNCHANGED disk, stage' = "idle" \/ UNCHANGED <<stage, path>>
        PROVE  Goal
    BY <1>0 DEF NoneDamaged, CopyIsThere, DataSurvives, Exists
  <1>1. CASE Die
    BY <1>0, <1>1 DEF Die, Fresh
  <1>2. ASSUME NEW p \in Openable, NEW accepted \in BOOLEAN, OpenDataFile(p, accepted)
        PROVE  Goal
    BY <1>0, <1>2 DEF OpenDataFile, Idle
  <1>3. CASE DiscardData \/ RunSession \/ OpenProject
    BY <1>0, <1>3 DEF DiscardData, RunSession, OpenProject, LeaveDataFile, Idle
  <1>4. CASE AddNote
    BY <1>0, <1>4 DEF AddNote, NotesChanged
  <1>5. ASSUME NEW note \in notes, EditNote(note) \/ RemoveNote(note)
        PROVE  Goal
    BY <1>0, <1>5 DEF EditNote, RemoveNote, NotesChanged
  <1>6. ASSUME NEW close \in BOOLEAN, NEW whole \in BOOLEAN, CopyFile(close, whole)
        PROVE  Goal
    <2> DEFINE tmp == TmpOf[path]
    <2>1. path \in Openable /\ Exists(path) /\ whole
      BY <1>6 DEF CopyFile, TypeOK
    <2>2. path \in Paths /\ tmp \in Paths /\ tmp # path /\ DataOf[tmp] = DataOf[path]
      BY <2>1, TmpOther
    <2>3. disk'[tmp].data = DataOf[tmp]
      BY <1>6, <2>1, <2>2 DEF CopyFile, NoneDamaged, DiskOK
    <2>4. \A p \in Paths : p # tmp => disk'[p] = disk[p]
      BY <1>6 DEF CopyFile, DiskOK
    <2>5. NoneDamaged'
      BY <2>3, <2>4 DEF NoneDamaged, Exists
    <2>6. disk'[tmp] # Absent
      BY <2>2, <2>3, FilesAssumption DEF Absent, FilesAssumption
    <2>7. \A p \in Paths : Exists(p) => disk'[p].data = disk[p].data
      BY <2>3, <2>4 DEF NoneDamaged
    <2> QED
      BY <2>5, <2>6, <2>7, <1>6, Preserved DEF CopyFile, CopyIsThere, Exists
  <1>7. ASSUME NEW ok \in BOOLEAN, RemoveFile(ok)
        PROVE  Goal
    <2> DEFINE tmp == TmpOf[path]
    <2>1. CASE ~ok
      BY <1>0, <1>7, <2>1 DEF RemoveFile, GiveUp
    <2>2. CASE ok
      <3>1. path \in Openable /\ Exists(tmp)
        BY <1>7 DEF RemoveFile, TypeOK, CopyIsThere
      <3>2. path \in Paths /\ tmp \in Paths /\ tmp # path /\ DataOf[tmp] = DataOf[path]
        BY <3>1, TmpOther
      <3>3. \A p \in Paths : p # path => disk'[p] = disk[p]
        BY <1>7, <2>2 DEF RemoveFile, DiskOK
      <3>4. disk'[path] = Absent
        BY <1>7, <2>2, <3>2 DEF RemoveFile, DiskOK
      <3>5. NoneDamaged'
        BY <3>3, <3>4 DEF NoneDamaged, Exists
      <3>6. Exists(path) => disk'[tmp].data = disk[path].data
        BY <3>1, <3>2, <3>3 DEF NoneDamaged
      <3>7. CopyIsThere'
        BY <1>7, <2>2, <3>1, <3>2, <3>3 DEF RemoveFile, CopyIsThere, Exists
      <3> QED
        BY <3>2, <3>3, <3>5, <3>6, <3>7, Preserved
    <2> QED
      BY <2>1, <2>2
  <1>8. ASSUME NEW ok \in BOOLEAN, RenameCopy(ok)
        PROVE  Goal
    <2> DEFINE tmp == TmpOf[path]
    <2>1. CASE ~ok
      BY <1>0, <1>8, <2>1 DEF RenameCopy, GiveUp
    <2>2. CASE ok
      <3>1. path \in Openable /\ Exists(tmp)
        BY <1>8 DEF RenameCopy, TypeOK, CopyIsThere
      <3>2. path \in Paths /\ tmp \in Paths /\ tmp # path /\ DataOf[tmp] = DataOf[path]
        BY <3>1, TmpOther
      <3>3. disk' = Renamed(path) /\ stage' = "idle"
        BY <1>8, <2>2 DEF RenameCopy, Fresh
      <3>4. /\ \A p \in Paths : p \notin {path, tmp} => disk'[p] = disk[p]
            /\ disk'[path] = disk[tmp] /\ disk'[tmp] = Absent
        BY <3>2, <3>3 DEF Renamed, DiskOK
      <3>5. NoneDamaged'
        BY <3>2, <3>4 DEF NoneDamaged, Exists
      <3>6. \A p \in {path, tmp} : Exists(p) => disk'[path].data = disk[p].data
        BY <3>1, <3>2, <3>4 DEF NoneDamaged
      <3> QED
        BY <3>2, <3>3, <3>4, <3>5, <3>6, Preserved DEF CopyIsThere
    <2> QED
      BY <2>1, <2>2
  <1>9. CASE UNCHANGED vars
    BY <1>0, <1>9 DEF vars
  <1> QED
    BY <1>1, <1>2, <1>3, <1>4, <1>5, <1>6, <1>7, <1>8, <1>9 DEF Next

(* On a disk that takes what is written to it, the data of every file       *)
(* survive every order of writes, failures and deaths of the application.   *)
THEOREM DataSafe ==
    ASSUME ~DiskMayFill
    PROVE  Spec => []DataSurvives
  <1>1. DataInv /\ [Next]_vars => DataInv'
    BY DataStep
  <1>2. DataInv => DataSurvives
    BY DEF DataInv
  <1> QED
    BY <1>1, <1>2, DataInit, PTL DEF Spec
=============================================================================
