---------------------------- MODULE DataFileNotes ----------------------------
(***************************************************************************)
(* A data file that is opened to look at, and its notes (src/src):         *)
(* importexport/datafilehandler.cpp opens and parses it, models/           *)
(* notemodel.cpp keeps the notes and whether they were changed,            *)
(* importexport/datafileexporter.cpp writes them back, for the Notes dock  *)
(* (controllers/scopecontroller.cpp) or when the window is closed          *)
(* (dialogs/mainwindow.cpp).                                               *)
(*                                                                         *)
(* A file on disk is the data in it and the notes before them.  Writing    *)
(* the notes makes a copy of the file, removes the file and renames the    *)
(* copy: three steps, and the application can die between any two of them. *)
(***************************************************************************)
EXTENDS Naturals, FiniteSets

CONSTANTS
    Paths,        \* the names a file may have
    Files,        \* the data files there are at first
    Openable,     \* the names a user opens
    TmpOf,        \* TmpOf[p]: "tmp_" before the name in the same directory
    DataOf,       \* DataOf[p]: the data the file of that name was made with
    DiskMayFill,  \* whether a write to an open file may fall short
    MaxNotes      \* bound: notes ever added

Absent == [data |-> "absent", notes |-> {}]
Damaged == "damaged"

(* No data file has the name of another one's temporary copy. *)
ASSUME FilesAssumption ==
    /\ Files \subseteq Openable /\ Openable \subseteq Paths
    /\ TmpOf \in [Openable -> Paths]
    /\ \A p \in Openable : TmpOf[p] # p /\ DataOf[TmpOf[p]] = DataOf[p]
    /\ \A p \in Paths : DataOf[p] \notin {Absent.data, Damaged}
    /\ DiskMayFill \in BOOLEAN /\ MaxNotes \in Nat

VARIABLES
    disk,      \* the files, by name
    gui,       \* GuiModel::guiState(), without STARTED: a session runs at once
    shown,     \* the name of the file the plotted data came from
    notes,     \* NoteModel::_noteList
    updated,   \* NoteModel::_bNotesDataUpdated
    path,      \* DataParserModel::dataFilePath()
    stage,     \* how far updateNoteLines() has come
    closing,   \* it was called by closeEvent()
    astray,    \* notes were written to another file since this one was loaded
    added      \* notes added so far
vars == <<disk, gui, shown, notes, updated, path, stage, closing, astray, added>>

NoPath == "none"
Exists(p) == disk[p] # Absent

(* A note is told apart by its number and the data it was made for. *)
Note(n, data) == [number |-> n, for |-> data]

Init ==
    /\ disk = [p \in Paths |-> IF p \in Files THEN [data |-> DataOf[p], notes |-> {}] ELSE Absent]
    /\ gui = "INIT" /\ shown = NoPath /\ notes = {} /\ updated = FALSE /\ path = NoPath
    /\ stage = "idle" /\ closing = FALSE /\ astray = FALSE /\ added = 0

Idle == stage = "idle"

(* The application as it starts. *)
Fresh ==
    /\ gui' = "INIT" /\ shown' = NoPath /\ notes' = {} /\ updated' = FALSE /\ path' = NoPath
    /\ stage' = "idle" /\ closing' = FALSE /\ astray' = FALSE

(* It dies, at any point, or is closed without saving the notes. *)
Die == Fresh /\ UNCHANGED <<disk, added>>
-----------------------------------------------------------------------------
(* openDataFile() and parseDataFile().  An accepted file was parsed; if it  *)
(* was not, the dialog was cancelled or the parser found an error.          *)

(* Mutation of Loaded: the notes of the file shown before are not cleared. *)
LoadedOnTop(p) ==
    /\ shown' = p /\ notes' = (notes \cup disk[p].notes) /\ updated' = FALSE
    /\ gui' = "DATA_LOADED" /\ astray' = FALSE

Loaded(p) ==
    /\ shown' = p /\ notes' = disk[p].notes /\ updated' = FALSE
    /\ gui' = "DATA_LOADED" /\ astray' = FALSE

OpenDataFile(p, accepted) ==
    /\ Idle /\ Exists(p)
    /\ path' = p
    /\ IF accepted THEN Loaded(p) ELSE UNCHANGED <<shown, notes, updated, gui, astray>>
    /\ UNCHANGED <<disk, stage, closing, added>>

(* NoteModel::clear(): remove() of every note sets the flag. *)
NotesCleared == notes' = {} /\ updated' = (updated \/ notes # {})

(* guiState INIT or STOPPED: updateGuiState() resets the data parser. *)
LeaveDataFile(state) ==
    /\ gui' = state /\ shown' = NoPath /\ path' = NoPath
    /\ UNCHANGED <<disk, stage, closing, astray, added>>

(* start() or showSignalsDialog() while a data file is shown. *)
DiscardData == Idle /\ gui = "DATA_LOADED" /\ NotesCleared /\ LeaveDataFile("INIT")

(* A session is started and stopped: start() clears the notes. *)
RunSession == Idle /\ gui # "DATA_LOADED" /\ NotesCleared /\ LeaveDataFile("STOPPED")

(* openProjectFile(): the notes stay. *)
OpenProject == Idle /\ LeaveDataFile("STOPPED") /\ UNCHANGED <<notes, updated>>
-----------------------------------------------------------------------------
(* add(), remove(); setText(), setNotePosition() and setDraggable() change  *)
(* a note: one is taken away and another one is there.                      *)
NotesChanged(changed) ==
    /\ Idle
    /\ notes' = changed /\ updated' = TRUE
    /\ UNCHANGED <<disk, gui, shown, path, stage, closing, astray>>

NewNote == Note(added + 1, IF shown = NoPath THEN NoPath ELSE DataOf[shown])

AddNote ==
    /\ added < MaxNotes /\ added' = added + 1
    /\ NotesChanged(notes \cup {NewNote})

EditNote(note) ==
    /\ added < MaxNotes /\ added' = added + 1
    /\ NotesChanged((notes \ {note}) \cup {[NewNote EXCEPT !.for = note.for]})

RemoveNote(note) == NotesChanged(notes \ {note}) /\ UNCHANGED added
-----------------------------------------------------------------------------
(* updateNoteLines().  It is called from updateDataFileNotes() and from     *)
(* closeEvent(), both with a data file shown and the notes changed.  When   *)
(* the file or its copy cannot be opened nothing is changed.                *)

(* Mutation of CopyFile: the file is rewritten in place. *)
RewriteInPlace(close, whole) ==
    /\ Idle /\ gui = "DATA_LOADED" /\ updated
    /\ Exists(path)
    /\ disk' = [disk EXCEPT ![path] = Absent, ![TmpOf[path]] = Absent]
    /\ stage' = "copied" /\ closing' = close
    /\ UNCHANGED <<gui, shown, notes, updated, path, astray, added>>

CopyFile(close, whole) ==
    /\ Idle /\ gui = "DATA_LOADED" /\ updated
    /\ Exists(path)
    /\ whole \/ DiskMayFill
    /\ disk' = [disk EXCEPT ![TmpOf[path]] =
                    [data |-> IF whole THEN disk[path].data ELSE Damaged, notes |-> notes]]
    /\ stage' = "copied" /\ closing' = close
    /\ UNCHANGED <<gui, shown, notes, updated, path, astray, added>>

(* An error is shown; closeEvent() ignores the event. *)
GiveUp ==
    /\ stage' = "idle" /\ closing' = FALSE
    /\ UNCHANGED <<disk, gui, shown, notes, updated, path, astray, added>>

RemoveFile(ok) ==
    /\ stage = "copied"
    /\ IF ok
       THEN /\ disk' = [disk EXCEPT ![path] = Absent]
            /\ stage' = "removed"
            /\ UNCHANGED <<gui, shown, notes, updated, path, closing, astray, added>>
       ELSE GiveUp

Renamed(p) == [disk EXCEPT ![p] = disk[TmpOf[p]], ![TmpOf[p]] = Absent]

RenameCopy(ok) ==
    /\ stage = "removed"
    /\ IF ~ok THEN GiveUp
       ELSE /\ disk' = Renamed(path)
            /\ IF closing THEN Fresh
               ELSE /\ stage' = "idle" /\ updated' = FALSE
                    /\ astray' = (astray \/ path # shown)
                    /\ UNCHANGED <<gui, shown, notes, path, closing>>
            /\ UNCHANGED added

Next ==
    \/ Die
    \/ \E p \in Openable, accepted \in BOOLEAN : OpenDataFile(p, accepted)
    \/ DiscardData
    \/ RunSession
    \/ OpenProject
    \/ AddNote
    \/ \E note \in notes : EditNote(note) \/ RemoveNote(note)
    \/ \E close, whole \in BOOLEAN : CopyFile(close, whole)
    \/ \E ok \in BOOLEAN : RemoveFile(ok) \/ RenameCopy(ok)

Spec == Init /\ [][Next]_vars
-----------------------------------------------------------------------------
TypeOK ==
    /\ gui \in {"INIT", "STOPPED", "DATA_LOADED"}
    /\ {updated, closing, astray} \subseteq BOOLEAN
    /\ shown \in Openable \cup {NoPath} /\ path \in Openable \cup {NoPath}
    /\ stage \in {"idle", "copied", "removed"}
    /\ gui = "DATA_LOADED" => shown \in Openable /\ path \in Openable
    /\ stage # "idle" => gui = "DATA_LOADED" /\ updated
    /\ added \in 0 .. MaxNotes

(* However often the notes of data files are written and whichever step of  *)
(* it fails or is the last one before the application dies, the data of     *)
(* every file are on disk, under its name or the name of a copy             *)
(* (DataFileExporter::updateNoteLines removes the file before it renames    *)
(* the copy).                                                               *)
DataSurvives ==
    \A f \in Files : \E p \in Paths : DataOf[p] = DataOf[f] /\ disk[p].data = DataOf[f]

(* The dock and closeEvent() offer to save the notes only while they are    *)
(* marked as changed: notes that are not marked are the ones in the file.   *)
SavedNotesAreInTheFile ==
    (Idle /\ gui = "DATA_LOADED" /\ ~updated /\ ~astray) => disk[shown].notes = notes

(* "The notes are changed. Do you want discard the changes or update (save) *)
(* the data file?" (mainwindow.cpp:309): the data file is the one that the  *)
(* notes were made for.                                                     *)
NotesStayWithTheirData ==
    \A p \in Paths : \A note \in disk[p].notes : note.for = DataOf[p]
=============================================================================
