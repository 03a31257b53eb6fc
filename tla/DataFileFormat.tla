--------------------------- MODULE DataFileFormat ---------------------------
(***************************************************************************)
(* The text of a data file (src/src/importexport/): DataFileExporter       *)
(* writes it, SettingsAuto finds out from a sample of its lines how it was *)
(* written, DataFileParser reads it, and updateNoteLines() replaces the    *)
(* notes in it.  The separators come from the locale of the application    *)
(* that writes, which need not be the one of the application that reads.   *)
(*                                                                         *)
(* A line is a sequence of atoms: a separator, a run of digits, or a piece *)
(* of text nothing looks into.  A line is what was written, field after    *)
(* field; fields only exist again when the reader splits it.  The two      *)
(* locales are those with a comma and with a point for a decimal sign.     *)
(***************************************************************************)
EXTENDS Naturals, Sequences, FiniteSetsExt, SequencesExt

CONSTANTS
    Contents,      \* what a session leaves to be exported
    Texts,         \* the texts of the notes a user makes, as atoms
    Positions,     \* where they are put, as numbers
    MaxNotes,      \* bound: notes at a time
    SampleLength   \* DataFileHandler::_cSampleLineLength

VARIABLES
    locale,    \* QLocale() of the running application
    file,      \* the lines of the data file, none before it is written
    written,   \* history: what was exported to it, and under which locale
    notes,     \* NoteModel
    saved,     \* history: the notes last written to it, and under which locale
    shown      \* whether the file is loaded (GuiState DATA_LOADED)
vars == <<locale, file, written, notes, saved, shown>>

Locales == {"comma", "point"}

Atom(text) == [text |-> text, n |-> 0]
Digits(n) == [text |-> "digits", n |-> n]
Comma == Atom(",")
Semicolon == Atom(";")
Point == Atom(".")

DecimalPoint(l) == IF l = "comma" THEN Comma ELSE Point
SeparatorCharacter(l) == IF DecimalPoint(l) = Comma THEN Semicolon ELSE Comma

Join(fields, sep) == FoldLeft(LAMBDA line, field : line \o <<sep>> \o field, Head(fields), Tail(fields))
Split(line, sep) ==
    FoldLeft(LAMBDA fields, a : IF a = sep THEN Append(fields, <<>>)
                                ELSE Append(Front(fields), Append(Last(fields), a)),
             << <<>> >>, line)
-----------------------------------------------------------------------------
(* Numbers and qualities. *)
Number(v, l) ==
    IF v.frac = 0 THEN <<Digits(v.whole)>>
    ELSE <<Digits(v.whole), DecimalPoint(l), Digits(v.frac)>>

IsNumber(field, decimal) ==
    \/ Len(field) = 1 /\ field[1].text = "digits"
    \/ Len(field) = 3 /\ field[1].text = "digits" /\ field[2] = decimal /\ field[3].text = "digits"
ValueOf(field) ==
    [whole |-> field[1].n, frac |-> IF Len(field) = 3 THEN field[3].n ELSE 0]

(* parseDouble(): the decimal sign of the file is replaced by the one of    *)
(* the locale, which then has to make a number of it.                       *)
Localised(field, decimal, l) ==
    [k \in DOMAIN field |-> IF field[k] = decimal THEN DecimalPoint(l) ELSE field[k]]
Parses(field, decimal, l) == IsNumber(Localised(field, decimal, l), DecimalPoint(l))

StateCode == [Good |-> 0, Degraded |-> 1, Invalid |-> 2, NoValue |-> 3]
FlagCode == [Substituted |-> 1, Blocked |-> 2, Overflow |-> 4, OldData |-> 8]

(* Mutation of ToExportCode: the flags are not moved above the state. *)
FlagsOverState(q) == StateCode[q.state] + MapThenSumSet(LAMBDA f : FlagCode[f], q.flags)
ToExportCode(q) == StateCode[q.state] + 16 * MapThenSumSet(LAMBDA f : FlagCode[f], q.flags)

FromExportCode(code) ==
    LET known == {s \in DOMAIN StateCode : StateCode[s] = code % 16}
        state == IF known = {} THEN "Invalid" ELSE CHOOSE s \in known : TRUE
        flags == {f \in DOMAIN FlagCode : ((code \div 16) \div FlagCode[f]) % 2 = 1}
    IN  [state |-> IF state = "Good" /\ flags # {} THEN "Degraded" ELSE state, flags |-> flags]
-----------------------------------------------------------------------------
(* DataFileExporter. *)
Version == "//ModbusScope version"
NoteMark == <<Atom("//Note")>>
QualityLabel == Atom("(quality)")
Blank == <<Atom("//")>>
IsComment(line) == line[1].text \in {Version, "//Note", "//Quality", "//Color", "//Axis", "//"}

LabelRow(signals, sep) ==
    Join(<< <<Atom("Time (ms)")>> >>
         \o FlattenSeq([k \in DOMAIN signals |->
                <<signals[k].label, signals[k].label \o <<QualityLabel>> >>]), sep)
PropertyRow(name, values, sep) == Join(<< <<Atom(name)>> >> \o values, sep)

(* constructDataHeader(), with the lines the reader has a use for; the      *)
(* others are comments to it.                                               *)
DataHeader(signals, sep) ==
    << <<Atom(Version), sep, Atom("4.0")>>, Blank, <<Atom("//Quality"), sep, Digits(1)>>,
       PropertyRow("//Color", [k \in DOMAIN signals |-> <<Atom(signals[k].color)>>], sep),
       PropertyRow("//Axis", [k \in DOMAIN signals |-> <<Digits(signals[k].axis)>>], sep),
       Blank >>

NoteRows(list, l) ==
    [i \in DOMAIN list |->
        Join(<<NoteMark, Number(list[i].x, l), Number(list[i].y, l), list[i].text>>,
             SeparatorCharacter(l))]
NoteBlock(list, l) == IF list = <<>> THEN <<>> ELSE Append(NoteRows(list, l), Blank)

(* formatData() *)
FormatData(sample, absolute, l) ==
    Join(<<IF absolute THEN <<Atom("date"), DecimalPoint(l), Digits(sample.at)>>
                       ELSE <<Digits(sample.at)>> >>
         \o FlattenSeq([k \in DOMAIN sample.cells |->
                <<Number(sample.cells[k].value, l),
                  <<Digits(ToExportCode(sample.cells[k].quality))>> >>]), SeparatorCharacter(l))

(* exportDataFile() *)
ExportedLines(c, list, l) ==
    DataHeader(c.signals, SeparatorCharacter(l))
    \o NoteBlock(list, l)
    \o <<LabelRow(c.signals, SeparatorCharacter(l))>>
    \o [i \in DOMAIN c.samples |-> FormatData(c.samples[i], c.absolute, l)]

(* updateNoteLines(): the comments are copied without their notes and       *)
(* without a blank one after a blank one, then the new notes follow.        *)
Comments(lines) == SelectInSeq(lines, LAMBDA line : ~IsComment(line)) - 1

(* Mutation of KeptComment: notes are recognised by their fields. *)
KeptByField(kept, line) ==
    IF Split(line, Comma)[1] = NoteMark \/ (line = Blank /\ kept.afterBlank) THEN kept
    ELSE [lines |-> Append(kept.lines, line), afterBlank |-> line = Blank]
KeptComment(kept, line) ==
    IF line[1].text = "//Note" \/ (line = Blank /\ kept.afterBlank) THEN kept
    ELSE [lines |-> Append(kept.lines, line), afterBlank |-> line = Blank]

UpdatedLines(lines, list, l) ==
    FoldLeft(KeptComment, [lines |-> <<>>, afterBlank |-> FALSE],
             SubSeq(lines, 1, Comments(lines))).lines
    \o NoteBlock(list, l)
    \o SubSeq(lines, Comments(lines) + 1, Len(lines))
-----------------------------------------------------------------------------
(* SettingsAuto. *)
Sample(lines) == SubSeq(lines, 1, IF Len(lines) < SampleLength THEN Len(lines) ELSE SampleLength)

(* nextDataLine(): 0 when there is none. *)
NextDataLine(lines, from) ==
    SelectInSubSeq(lines, from, Len(lines), LAMBDA line : ~IsComment(line))

(* testLocale(): the label row and the first data row have as many fields,  *)
(* and every field of the data rows but the first is a number.              *)
TestLocale(lines, label, data, sep, decimal) ==
    /\ Len(Split(lines[label], sep)) = Len(Split(lines[data], sep))
    /\ Len(Split(lines[label], sep)) > 1
    /\ \A i \in data .. Len(lines) :
        LET fields == Split(lines[i], sep)
        IN  IsComment(lines[i]) \/ \A k \in 2 .. Len(fields) : IsNumber(fields[k], decimal)

(* updateSettings().  The French and the Italian locale differ in the       *)
(* grouping of digits only, which is never written.  The time unit is       *)
(* looked for in the row after the first data row.                          *)
(* Mutation of UpdateSettings: the separators are those of the running application. *)
LocaleOfReader(lines, l) ==
    LET label == NextDataLine(lines, 1)
        data == IF label = 0 THEN 0 ELSE NextDataLine(lines, label + 1)
        found == [outcome |-> IF data + 1 > Len(lines) THEN "out of range" ELSE "found",
                  labelRow |-> label, dataRow |-> data,
                  sep |-> SeparatorCharacter(l), decimal |-> DecimalPoint(l)]
    IN  IF data = 0 THEN [outcome |-> "unknown"]
        ELSE IF TestLocale(lines, label, data, found.sep, found.decimal) THEN found
        ELSE [outcome |-> "unknown"]

UpdateSettings(lines, l) ==
    LET label == NextDataLine(lines, 1)
        data == IF label = 0 THEN 0 ELSE NextDataLine(lines, label + 1)
        Found(sep, decimal) ==
            [outcome |-> IF data + 1 > Len(lines) THEN "out of range" ELSE "found",
             labelRow |-> label, dataRow |-> data, sep |-> sep, decimal |-> decimal]
    IN  IF data = 0 THEN [outcome |-> "unknown"]
        ELSE IF TestLocale(lines, label, data, Semicolon, Comma) THEN Found(Semicolon, Comma)
        ELSE IF TestLocale(lines, label, data, Comma, Point) THEN Found(Comma, Point)
        ELSE [outcome |-> "unknown"]
-----------------------------------------------------------------------------
(* DataFileParser. *)
EmptyNote == [x |-> [whole |-> 0, frac |-> 0], y |-> [whole |-> 0, frac |-> 0], text |-> <<>>]

(* parseNoteField(): fields of another number than four make an empty note. *)
NoteOf(fields) ==
    IF Len(fields) # 4 THEN EmptyNote
    ELSE [x |-> ValueOf(fields[2]), y |-> ValueOf(fields[3]), text |-> fields[4]]
NoteParses(fields, s, l) ==
    Len(fields) = 4 => Parses(fields[2], s.decimal, l) /\ Parses(fields[3], s.decimal, l)

Properties(lines, s, name) ==
    SelectSeq([i \in 1 .. s.labelRow |-> Split(lines[i], s.sep)],
              LAMBDA fields : fields[1] = <<Atom(name)>>)
PropertyOf(lines, s, name, k) == Properties(lines, s, name)[1][k + 1][1]
NotesOf(lines, s, l) ==
    LET rows == SelectSeq(Properties(lines, s, "//Note"), LAMBDA fields : NoteParses(fields, s, l))
    IN  [i \in DOMAIN rows |-> NoteOf(rows[i])]

(* Time is a number or a date. *)
TimeParses(field, s, l) ==
    \/ Parses(field, s.decimal, l)
    \/ Len(field) = 3 /\ field[1] = Atom("date") /\ field[2] \in {Comma, Point}

(* parseDataLines() accepts every row. *)
RowsParse(lines, s, l, expected) ==
    \A i \in s.dataRow .. Len(lines) :
        LET fields == Split(lines[i], s.sep)
        IN  IsComment(lines[i]) \/ (/\ Len(fields) = expected
                                    /\ TimeParses(fields[1], s, l)
                                    /\ \A k \in 2 .. expected : Parses(fields[k], s.decimal, l))

SampleOf(fields) ==
    [at |-> Last(fields[1]).n,
     cells |-> [k \in 1 .. ((Len(fields) - 1) \div 2) |->
                    [value |-> ValueOf(fields[2 * k]),
                     quality |-> FromExportCode(ValueOf(fields[2 * k + 1]).whole)]]]

HasQualityLabels(labels) ==
    \A k \in 2 .. Len(labels) : k % 2 = 1 => labels[k] # <<>> /\ Last(labels[k]) = QualityLabel

(* processDataFile() *)
ProcessDataFile(lines, s, l) ==
    LET labels == Split(lines[s.labelRow], s.sep)
        count == (Len(labels) - 1) \div 2
        rows == SelectSeq(SubSeq(lines, s.dataRow, Len(lines)), LAMBDA line : ~IsComment(line))
    IN  IF /\ Len(labels) > 1 /\ Len(labels) % 2 = 1
           /\ HasQualityLabels(labels)
           /\ RowsParse(lines, s, l, Len(labels))
        THEN [outcome |-> "loaded",
              signals |-> [k \in 1 .. count |->
                                [label |-> labels[2 * k],
                                 color |-> PropertyOf(lines, s, "//Color", k).text,
                                 axis |-> PropertyOf(lines, s, "//Axis", k).n]],
              samples |-> [i \in DOMAIN rows |-> SampleOf(Split(rows[i], s.sep))],
              notes |-> NotesOf(lines, s, l)]
        ELSE [outcome |-> "error"]

(* openDataFile(): a file that is not recognised needs the import dialog.   *)
(* "out of range" is the read of a line the sample does not have.           *)
Read(lines, l) ==
    LET s == UpdateSettings(Sample(lines), l)
    IN  IF s.outcome = "found" THEN ProcessDataFile(lines, s, l) ELSE s
-----------------------------------------------------------------------------
Init ==
    /\ locale \in Locales /\ file = <<>>
    /\ written = [content |-> [signals |-> <<>>, samples |-> <<>>, absolute |-> FALSE], in |-> locale]
    /\ notes = <<>> /\ saved = [notes |-> <<>>, in |-> locale] /\ shown = FALSE

(* The application is started, on this computer or on another one. *)
Restart(l) ==
    /\ locale' = l /\ notes' = <<>> /\ shown' = FALSE
    /\ UNCHANGED <<file, written, saved>>

(* exportDataFile() after a session, not while a data file is shown.  One   *)
(* file is followed; the next export makes another one.                     *)
Export(c) ==
    /\ ~shown /\ file = <<>>
    /\ file' = ExportedLines(c, notes, locale)
    /\ written' = [content |-> c, in |-> locale]
    /\ saved' = [notes |-> notes, in |-> locale]
    /\ UNCHANGED <<locale, notes, shown>>

(* openDataFile() *)
Open ==
    /\ file # <<>>
    /\ LET r == Read(file, locale)
       IN  \/ r.outcome = "loaded" /\ shown' = TRUE /\ notes' = r.notes
           \/ r.outcome = "out of range" /\ shown' = FALSE /\ notes' = <<>>
           \/ r.outcome \in {"unknown", "error"} /\ UNCHANGED <<shown, notes>>
    /\ UNCHANGED <<locale, file, written, saved>>

AddNote(x, y, text) ==
    /\ Len(notes) < MaxNotes
    /\ notes' = Append(notes, [x |-> x, y |-> y, text |-> text])
    /\ UNCHANGED <<locale, file, written, saved, shown>>
RemoveNote(i) ==
    /\ notes' = RemoveAt(notes, i)
    /\ UNCHANGED <<locale, file, written, saved, shown>>

(* updateNoteLines() on the file that is shown. *)
SaveNotes ==
    /\ shown
    /\ file' = UpdatedLines(file, notes, locale)
    /\ saved' = [notes |-> notes, in |-> locale]
    /\ UNCHANGED <<locale, written, notes, shown>>

Next ==
    \/ \E l \in Locales : Restart(l)
    \/ \E c \in Contents : Export(c)
    \/ Open
    \/ \E x \in Positions, y \in Positions, text \in Texts : AddNote(x, y, text)
    \/ \E i \in DOMAIN notes : RemoveNote(i)
    \/ SaveNotes

Spec == Init /\ [][Next]_vars
-----------------------------------------------------------------------------
HasSeparator(text, l) == Contains(text, SeparatorCharacter(l))
SampleShowsData == Comments(file) + 3 <= SampleLength
Legible ==
    /\ Len(written.content.samples) >= 2 /\ SampleShowsData
    /\ \A k \in DOMAIN written.content.signals :
        ~HasSeparator(written.content.signals[k].label, written.in)

(* "CSV files exported by ModbusScope open without any manual               *)
(* configuration" (docs/manual/how-to/open-csv-file.md:41), in any locale   *)
(* and after any updates of the notes in any locale - if they have two      *)
(* samples, labels without separators and their data within the lines       *)
(* SettingsAuto looks at.                                                   *)
ExportsOpen ==
    (file # <<>> /\ Legible) => \A l \in Locales : Read(file, l).outcome = "loaded"

(* A file that is loaded shows what was exported: "the value of every       *)
(* sample is read as written" (docs/manual/reference/csv-format.md:46).     *)
(* What a label or a note may contain makes a file unreadable, but never    *)
(* its data other data.                                                     *)
NothingMisread ==
    file # <<>> =>
        \A l \in Locales :
            LET r == Read(file, l)
            IN  r.outcome = "loaded" =>
                    r.signals = written.content.signals /\ r.samples = written.content.samples

(* Notes that were written under the locale of their file are read back, in *)
(* any locale, each that has no separator in its text                       *)
(* (DataFileExporter::createNoteRows, DataFileParser::parseNoteField).      *)
NotesAreReadBack ==
    (file # <<>> /\ saved.in = written.in) =>
        \A l \in Locales :
            LET r == Read(file, l)
            IN  r.outcome = "loaded" =>
                    /\ Len(r.notes) = Len(saved.notes)
                    /\ \A i \in DOMAIN r.notes :
                        ~HasSeparator(saved.notes[i].text, saved.in) => r.notes[i] = saved.notes[i]
=============================================================================
