---------------------------- MODULE FramingReader ----------------------------
(***************************************************************************)
(* The framing of the messages an adapter writes to its standard output    *)
(* (src/src/ProtocolAdapter/framingreader.cpp) and the process that writes *)
(* them (adapterprocess.cpp).  The pipe hands over whatever bytes it has,  *)
(* so a frame reaches feed() in pieces or together with others; a process  *)
(* may die in the middle of a frame, and the reader outlives the process.  *)
(*                                                                         *)
(* A byte string is a sequence of tokens: the header text with the length  *)
(* it announces, the separator "\r\n\r\n" and the bytes of a body, which   *)
(* hold no separator because JSON escapes line ends.                       *)
(***************************************************************************)
EXTENDS Naturals, FiniteSets, SequencesExt

CONSTANTS
    Messages,       \* bound: messages a process may write, each at most once
    Size,           \* Size[m]: number of body tokens of message m
    MaxBodySize,    \* cMaxBodySize
    MaxBufferSize,  \* cMaxBufferSize
    MaxRuns,        \* bound: how often the process is started
    MaxInPipe       \* bound: tokens written and not read yet

ASSUME FramingAssumption ==
    /\ Size \in [Messages -> Nat \ {0}]
    /\ {MaxBodySize, MaxRuns, MaxInPipe} \subseteq Nat
    /\ MaxBufferSize \in Nat \ {0}   \* a header may wait for its separator

VARIABLES
    running,    \* whether the process runs
    runs,       \* how often it was started
    pipe,       \* tokens written to the standard output and not read yet
    reader,     \* FramingReader: _buffer, _state and _pendingBodySize
    written,    \* messages the current process wrote, in order (the last one
                \* possibly in part); kept when it dies, for the properties
    got,        \* bodies messageReceived() emitted since it was started
    clean       \* whether the reader was empty when it was started
readerVars == <<running, runs, pipe, reader, written, got, clean>>

Header(n) == [kind |-> "header", len |-> n, of |-> 0]
Separator == [kind |-> "separator", len |-> 0, of |-> 0]
Body(m)   == [i \in 1 .. Size[m] |-> [kind |-> "body", len |-> i, of |-> m]]
Frame(m)  == <<Header(Size[m]), Separator>> \o Body(m)

Tokens == UNION {Range(Frame(m)) : m \in Messages}

(* writeFramed() and the adapters frame a message this way. *)
Stream(ms) == FlattenSeq([i \in DOMAIN ms |-> Frame(ms[i])])

EmptyReader == [buffer |-> <<>>, state |-> "HEADER", pending |-> 0]
-----------------------------------------------------------------------------
(* tryParse() *)

Before(s, i) == SubSeq(s, 1, i - 1)
After(s, i)  == SubSeq(s, i + 1, Len(s))

StartsWithHeader(text) == text # <<>> /\ text[1].kind = "header"
IsNumber(text) == Len(text) = 1 /\ text[1].len > 0

(* Mutation of Discard: a length that is too large is cut to the largest one. *)
LimitLength(r) ==
    [buffer |-> After(r.buffer, SelectInSeq(r.buffer, LAMBDA t : t = Separator)),
     state |-> "BODY", pending |-> MaxBodySize]
Discard(r) == [r EXCEPT !.buffer = <<>>]

(* Mutation of HasBody: waits for the first byte of the next message. *)
HasMoreThanBody(r) == Len(r.buffer) > r.pending
HasBody(r) == Len(r.buffer) >= r.pending

ExpectBody(r, pos, n) == [buffer |-> After(r.buffer, pos), state |-> "BODY", pending |-> n]

TakeBody(r) == [buffer |-> After(r.buffer, r.pending), state |-> "HEADER", pending |-> 0]

SeparatorPos(buffer) == SelectInSeq(buffer, LAMBDA t : t = Separator)

(* What the loop carries: the reader, the bodies it has emitted so far and  *)
(* whether it returned.                                                     *)
Parse(r) == [reader |-> r, bodies |-> <<>>, returned |-> FALSE]
Return(p, r) == [p EXCEPT !.reader = r, !.returned = TRUE]

(* One iteration in each state. *)
ParseHeader(p) ==
    LET r    == p.reader
        pos  == SeparatorPos(r.buffer)
        text == Before(r.buffer, pos)
    IN  IF pos = 0
        THEN Return(p, IF Len(r.buffer) > MaxBufferSize THEN Discard(r) ELSE r)
        ELSE IF StartsWithHeader(text) /\ IsNumber(text) /\ text[1].len <= MaxBodySize
        THEN [p EXCEPT !.reader = ExpectBody(r, pos, text[1].len)]
        ELSE Return(p, Discard(r))

ParseBody(p) ==
    LET r == p.reader
    IN  IF HasBody(r)
        THEN [p EXCEPT !.reader = TakeBody(r),
                       !.bodies = Append(@, SubSeq(r.buffer, 1, r.pending))]
        ELSE Return(p, r)

Iterate(p) ==
    IF p.returned THEN p ELSE IF p.reader.state = "HEADER" THEN ParseHeader(p) ELSE ParseBody(p)

(* The buffer gets shorter with every iteration that does not return. *)
TryParse(r) ==
    LET after[k \in 0 .. Len(r.buffer) + 1] ==
            IF k = 0 THEN Parse(r) ELSE Iterate(after[k - 1])
    IN  after[Len(r.buffer) + 1]

Feed(r, data) == TryParse([r EXCEPT !.buffer = @ \o data])
-----------------------------------------------------------------------------
ReaderInit ==
    /\ running = FALSE /\ runs = 0 /\ pipe = <<>> /\ reader = EmptyReader
    /\ written = <<>> /\ got = <<>> /\ clean = TRUE

(* AdapterProcess::start(): clears the pending requests and the ids of the *)
(* process, and leaves the reader as the last process left it.             *)
Start ==
    /\ ~running /\ pipe = <<>> /\ runs < MaxRuns
    /\ running' = TRUE /\ runs' = runs + 1
    /\ written' = <<>> /\ got' = <<>>
    /\ clean' = (reader = EmptyReader)
    /\ UNCHANGED <<pipe, reader>>

(* The adapter writes a message. *)
WriteMessage(m) ==
    /\ running
    /\ m \notin Range(written)
    /\ Len(pipe) + Len(Frame(m)) <= MaxInPipe
    /\ written' = Append(written, m)
    /\ pipe' = pipe \o Frame(m)
    /\ UNCHANGED <<running, runs, reader, got, clean>>

(* onReadyReadStdout(): readAllStandardOutput() returns the bytes that have *)
(* arrived so far.  QProcess delivers what is left when the process exits.  *)
ReadyRead(n) ==
    /\ n \in 1 .. Len(pipe)
    /\ LET fed == Feed(reader, SubSeq(pipe, 1, n))
       IN  reader' = fed.reader /\ got' = got \o fed.bodies
    /\ pipe' = SubSeq(pipe, n + 1, Len(pipe))
    /\ UNCHANGED <<running, runs, written, clean>>

(* The process exits, is killed or crashes: the bytes it had not handed to *)
(* the pipe are lost, so the last message may stop in the middle.          *)
Exit(lost) ==
    /\ running
    /\ lost \in 0 .. Len(pipe)
    /\ running' = FALSE
    /\ pipe' = SubSeq(pipe, 1, Len(pipe) - lost)
    /\ UNCHANGED <<runs, reader, written, got, clean>>

ReaderNext ==
    \/ Start
    \/ \E m \in Messages : WriteMessage(m)
    \/ \E n \in 1 .. MaxInPipe : ReadyRead(n)
    \/ \E lost \in 0 .. MaxInPipe : Exit(lost)

ReaderSpec == ReaderInit /\ [][ReaderNext]_readerVars
-----------------------------------------------------------------------------
ReaderTypeOK ==
    /\ running \in BOOLEAN /\ clean \in BOOLEAN
    /\ runs \in 0 .. MaxRuns
    /\ pipe \in Seq(Tokens)
    /\ reader \in [buffer : Seq(Tokens), state : {"HEADER", "BODY"},
                   pending : 0 .. MaxBodySize]
    /\ (reader.state = "BODY") <=> (reader.pending > 0)
    /\ written \in Seq(Messages)
    /\ \A i \in DOMAIN got : got[i] \in Seq(Tokens)

NoneRejected == \A i \in DOMAIN written : Size[written[i]] <= MaxBodySize

(* However the pipe cuts the stream, a process that found the reader empty *)
(* has its messages delivered whole and in order: the reader never glues   *)
(* two messages together, and nothing complete waits in its buffer for a   *)
(* byte that may never come (FramingReader::tryParse).                     *)
Announced == IF reader.state = "BODY" THEN <<Header(reader.pending), Separator>> ELSE <<>>

DeliversWhatWasRead ==
    clean /\ NoneRejected =>
        LET delivered == SubSeq(written, 1, Len(got))
            rest == Announced \o reader.buffer \o pipe
        IN  /\ got = [i \in DOMAIN delivered |-> Body(delivered[i])]
            /\ IsPrefix(Stream(delivered) \o rest, Stream(written))
            /\ running => Stream(delivered) \o rest = Stream(written)
            /\ \A m \in Messages : ~IsPrefix(Frame(m), Announced \o reader.buffer)

(* A message that is too large is dropped and may take others with it, but *)
(* what the reader still delivers is a whole message of this process, and  *)
(* never one twice or out of order: the bytes that follow a rejected       *)
(* header are not taken for a message (FramingReader::tryParse).           *)
DeliversOnlyMessages ==
    clean => \E place \in [DOMAIN got -> DOMAIN written] :
                /\ \A i, j \in DOMAIN got : i < j => place[i] < place[j]
                /\ \A i \in DOMAIN got : got[i] = Body(written[place[i]])

(* "Complete messages are emitted via messageReceived()" (framingreader.h): *)
(* a message the running process wrote and the reader was fed completely    *)
(* has been delivered.  Whatever the process before it left behind.         *)
CompleteMessagesAreDelivered ==
    running /\ pipe = <<>> /\ NoneRejected =>
        got = [i \in DOMAIN written |-> Body(written[i])]
=============================================================================
