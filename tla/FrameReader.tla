----------------------------- MODULE FrameReader -----------------------------
(***************************************************************************)
(* read_frame of src/src/protocol.rs, called in a loop by Server::serve.   *)
(*                                                                         *)
(* The input is a stream of `size` bytes of which only the positions of    *)
(* the newlines matter.  The pipe delivers it in chunks of any size, so    *)
(* fill_buf returns any non-empty part of what is left; at the end of the  *)
(* stream it returns nothing.                                              *)
(***************************************************************************)
EXTENDS Naturals

CONSTANTS
    MaxFrame,  \* MAX_FRAME: limit on a frame, its newline included
    MaxStream  \* bound on the length of the stream

ASSUME MaxFrameAssumption == MaxFrame \in Nat \ {0}
ASSUME MaxStreamAssumption == MaxStream \in Nat

VARIABLES
    size,      \* length of the stream
    newlines,  \* positions of its newlines
    pos,       \* bytes consumed so far
    start,     \* bytes consumed when the current call began
    buf,       \* length of the bytes the current call has collected
    frames,    \* frames returned: their first and last byte
    status     \* "reading", "eof" or "oversized"

stream == <<size, newlines>>
vars == <<stream, pos, start, buf, frames, status>>

\* Available bytes after a fill_buf that returned n of them.
NewlineIn(n) == {p \in newlines : pos < p /\ p <= pos + n}
FirstNewline(p, n) == p \in NewlineIn(n) /\ \A q \in NewlineIn(n) : p <= q

\* Mutant of FitsWithNewline: the newline is not counted.
FitsWithoutNewline(n) == buf + n <= MaxFrame

\* The frame and its newline, n bytes into the chunk, are within the limit.
FitsWithNewline(n) == buf + n + 1 <= MaxFrame

\* Mutant of FitsSoFar: room for the newline is not kept.
FitsExactly(n) == buf + n <= MaxFrame

\* What was collected leaves room for a newline.
FitsSoFar(n) == buf + n < MaxFrame

\* The chunk holds a newline: the frame is complete, its newline consumed.
TakeLine(n) ==
    /\ \E p \in newlines :
         LET len == p - pos - 1 IN
         /\ FirstNewline(p, n)
         /\ \/ /\ FitsWithNewline(len)
               /\ frames' = frames \cup {[first |-> start + 1, last |-> start + buf + len]}
               /\ pos' = p
               /\ start' = p
               /\ buf' = 0
               /\ UNCHANGED status
            \/ /\ ~FitsWithNewline(len)
               /\ status' = "oversized"
               /\ UNCHANGED <<pos, start, buf, frames>>
    /\ UNCHANGED stream

\* It does not: collect the whole chunk.
TakeChunk(n) ==
    /\ NewlineIn(n) = {}
    /\ \/ /\ FitsSoFar(n)
          /\ pos' = pos + n
          /\ buf' = buf + n
          /\ UNCHANGED status
       \/ /\ ~FitsSoFar(n)
          /\ status' = "oversized"
          /\ UNCHANGED <<pos, buf>>
    /\ UNCHANGED <<start, frames, stream>>

Fill(n) ==
    /\ status = "reading"
    /\ TakeLine(n) \/ TakeChunk(n)

\* Mutant of EndOfStream: an empty chunk is taken for one that is still to
\* come, so the call loops for ever.
EndOfStreamSpins ==
    /\ status = "reading"
    /\ pos = size
    /\ UNCHANGED vars

\* Mutant of EndOfStream: the partial frame is returned and kept in the
\* buffer of the next call.
EndOfStreamKeepsBuffer ==
    /\ status = "reading"
    /\ pos = size
    /\ IF buf = 0
       THEN status' = "eof" /\ UNCHANGED <<start, frames>>
       ELSE /\ frames' = frames \cup {[first |-> start + 1, last |-> start + buf]}
            /\ start' = pos
            /\ UNCHANGED status
    /\ UNCHANGED <<stream, pos, buf>>

\* End of the stream: a trailing partial frame is still a frame; the next
\* call finds nothing.
EndOfStream ==
    /\ status = "reading"
    /\ pos = size
    /\ IF buf = 0
       THEN status' = "eof" /\ UNCHANGED <<start, frames>>
       ELSE /\ frames' = frames \cup {[first |-> start + 1, last |-> start + buf]}
            /\ start' = pos
            /\ UNCHANGED status
    /\ buf' = 0
    /\ UNCHANGED <<stream, pos>>

Ended == status # "reading" /\ UNCHANGED vars

Init ==
    /\ size \in 0..MaxStream
    /\ newlines \in SUBSET (1..size)
    /\ pos = 0
    /\ start = 0
    /\ buf = 0
    /\ frames = {}
    /\ status = "reading"

Next ==
    \/ \E n \in 1..(size - pos) : Fill(n)
    \/ EndOfStream
    \/ Ended

Spec == Init /\ [][Next]_vars /\ WF_vars(Next)

-----------------------------------------------------------------------------
(* Properties                                                               *)

\* The lines of the stream: what lies between two newlines, and a last one
\* without a newline if it is not empty.
Lines ==
    {l \in [first: 1..(size + 1), last: 0..size] :
        /\ l.last + 1 >= l.first
        /\ l.first = 1 \/ l.first - 1 \in newlines
        /\ l.last + 1 \in newlines \/ (l.last = size /\ l.first <= size)
        /\ \A p \in newlines : ~(l.first <= p /\ p <= l.last)}

Length(l) == l.last + 1 - l.first
TooLong(l) == Length(l) + 1 > MaxFrame
Readable == {l \in Lines : \A m \in Lines : m.first <= l.first => ~TooLong(m)}

\* Positions and lengths keep their types, and the collected bytes are those
\* consumed since the call began.
TypeOK ==
    /\ size \in Nat /\ newlines \subseteq 1..size
    /\ pos \in 0..size /\ start \in 0..size /\ buf \in Nat
    /\ buf = pos - start /\ start <= pos
    /\ frames \subseteq [first: Nat, last: Nat]
    /\ status \in {"reading", "eof", "oversized"}

\* However the pipe cuts the stream, read_frame returns its lines up to the
\* first that does not fit in MAX_FRAME with its newline, and fails exactly
\* there.
ChunkingInvisible ==
    /\ frames \subseteq Readable
    /\ status = "eof" => frames = Lines
    /\ status = "oversized" => frames = Readable /\ Readable # Lines

\* The reader never holds a full limit's worth of bytes without having
\* failed, and returns no such frame.
BufferBounded ==
    /\ buf < MaxFrame
    /\ \A f \in frames : Length(f) < MaxFrame

\* Every stream is read to its end or refused.
ReaderEnds == <>(status # "reading")
=============================================================================
