-------------------------- MODULE FrameReaderProofs --------------------------
(***************************************************************************)
(* read_frame never collects, nor returns, as much as MAX_FRAME bytes, and *)
(* returns the lines of the stream up to the first that is too long: for   *)
(* every limit, stream and cut of the stream into chunks.                  *)
(***************************************************************************)
EXTENDS FrameReader, Induction

\* The bytes of a call are consecutive, and bounded: each of the two checks of
\* read_frame guards one way of extending the buffer.
ReaderInv == TypeOK /\ BufferBounded

\* An empty stream prefix has been read.
LEMMA ReaderInit == Init => ReaderInv
<1> SUFFICES ASSUME Init PROVE ReaderInv
  OBVIOUS
<1> QED BY MaxFrameAssumption, MaxStreamAssumption
        DEF Init, ReaderInv, TypeOK, BufferBounded

\* A complete line: the check counts the newline, so the frame is shorter than
\* the limit.
LEMMA TakeLineKeeps ==
  ASSUME ReaderInv, NEW n \in 1..(size - pos), TakeLine(n)
  PROVE  ReaderInv'
<1> USE MaxFrameAssumption
<1>1. TypeOK /\ BufferBounded
  BY DEF ReaderInv
<1>2. PICK p \in newlines :
        /\ FirstNewline(p, n)
        /\ \/ /\ FitsWithNewline(p - pos - 1)
              /\ frames' = frames \cup
                   {[first |-> start + 1, last |-> start + buf + (p - pos - 1)]}
              /\ pos' = p /\ start' = p /\ buf' = 0 /\ status' = status
           \/ /\ status' = "oversized"
              /\ UNCHANGED <<pos, start, buf, frames>>
  BY DEF TakeLine
<1>3. size' = size /\ newlines' = newlines
  BY DEF TakeLine, stream
<1>4. p \in 1..size /\ pos < p
  BY <1>1, <1>2 DEF TypeOK, FirstNewline, NewlineIn
<1>5. CASE UNCHANGED <<pos, start, buf, frames>> /\ status' = "oversized"
  BY <1>1, <1>3, <1>5 DEF ReaderInv, TypeOK, BufferBounded
<1>6. CASE /\ FitsWithNewline(p - pos - 1)
           /\ frames' = frames \cup
                {[first |-> start + 1, last |-> start + buf + (p - pos - 1)]}
           /\ pos' = p /\ start' = p /\ buf' = 0 /\ status' = status
  <2> DEFINE line == [first |-> start + 1, last |-> start + buf + (p - pos - 1)]
  <2>1. line \in [first: Nat, last: Nat] /\ Length(line) = buf + (p - pos - 1)
    BY <1>1, <1>4 DEF TypeOK, Length
  <2>2. Length(line) < MaxFrame
    BY <1>1, <1>4, <1>6, <2>1 DEF FitsWithNewline, TypeOK
  <2>3. TypeOK'
    BY <1>1, <1>3, <1>4, <1>6, <2>1 DEF TypeOK
  <2>4. \A f \in frames' : Length(f) < MaxFrame
    BY <1>1, <1>6, <2>2 DEF BufferBounded
  <2> QED BY <1>6, <2>3, <2>4 DEF ReaderInv, BufferBounded, Length
<1> QED BY <1>2, <1>5, <1>6

\* A chunk without a newline: the check leaves room for one.
LEMMA TakeChunkKeeps ==
  ASSUME ReaderInv, NEW n \in 1..(size - pos), TakeChunk(n)
  PROVE  ReaderInv'
<1>1. size \in Nat /\ pos \in Nat /\ buf \in Nat /\ start \in Nat /\ n \in Nat
      /\ pos + n <= size
  BY DEF ReaderInv, TypeOK
<1> QED BY <1>1, MaxFrameAssumption
        DEF TakeChunk, FitsSoFar, ReaderInv, TypeOK, BufferBounded, Length, stream

\* The end of the stream returns what was collected, already below the limit.
LEMMA EndOfStreamKeeps ==
  ASSUME ReaderInv, EndOfStream
  PROVE  ReaderInv'
<1> USE MaxFrameAssumption
<1>1. TypeOK /\ BufferBounded
  BY DEF ReaderInv
<1>2. CASE buf = 0
  BY <1>1, <1>2 DEF EndOfStream, ReaderInv, TypeOK, BufferBounded, Length, stream
<1>3. CASE buf # 0
  <2> DEFINE line == [first |-> start + 1, last |-> start + buf]
  <2>1. line \in [first: Nat, last: Nat] /\ Length(line) = buf
    BY <1>1 DEF TypeOK, Length
  <2>2. TypeOK'
    BY <1>1, <1>3, <2>1 DEF EndOfStream, TypeOK, stream
  <2>3. \A f \in frames' : Length(f) < MaxFrame
    BY <1>1, <1>3, <2>1 DEF EndOfStream, BufferBounded
  <2> QED BY <1>3, <2>2, <2>3 DEF EndOfStream, ReaderInv, BufferBounded, Length
<1> QED BY <1>2, <1>3

\* Every step keeps the reader's invariant.
LEMMA ReaderNext == ReaderInv /\ [Next]_vars => ReaderInv'
<1> SUFFICES ASSUME ReaderInv, [Next]_vars PROVE ReaderInv'
  OBVIOUS
<1>1. CASE UNCHANGED vars
  BY <1>1 DEF vars, stream, ReaderInv, TypeOK, BufferBounded, Length
<1> QED BY <1>1, TakeLineKeeps, TakeChunkKeeps, EndOfStreamKeeps DEF Next, Fill, Ended

\* The reader's variables keep their types: a frame begins where the last one
\* ended, and nothing is collected once the stream is over.
THEOREM ReaderTypes == Spec => []TypeOK
<1>1. ReaderInv => TypeOK
  BY DEF ReaderInv
<1> QED BY <1>1, ReaderInit, ReaderNext, PTL DEF Spec

\* read_frame holds, and returns, less than MAX_FRAME bytes at any time.
THEOREM ReaderBounded == Spec => []BufferBounded
<1>1. ReaderInv => BufferBounded
  BY DEF ReaderInv
<1> QED BY <1>1, ReaderInit, ReaderNext, PTL DEF Spec

-----------------------------------------------------------------------------
(* What is read is the lines of the stream                                  *)

\* The part of the stream that was read: the current call began behind a
\* newline (or has nothing left), has met none since, and the frames are the
\* lines that begin before it.  A refused line is the one it was reading.
ScanInv ==
    /\ start = 0 \/ start \in newlines \/ start = size
    /\ \A p \in newlines : ~(start < p /\ p <= pos)
    /\ frames = {l \in Lines : l.first <= start}
    /\ status = "eof" => start = size
    /\ status = "oversized" => \E l \in Lines : l.first = start + 1 /\ TooLong(l)

\* The line the call is reading, once its end e is known, is the only one that
\* begins behind start and not behind e's newline.
LEMMA NextLine ==
  ASSUME TypeOK, NEW e \in Nat, start <= e, e <= size,
         start = 0 \/ start \in newlines,
         \A p \in newlines : ~(start < p /\ p <= e),
         e + 1 \in newlines \/ (e = size /\ start < size)
  PROVE  LET line == [first |-> start + 1, last |-> e] IN
         /\ line \in Lines
         /\ \A l \in Lines : start < l.first /\ l.first <= e + 1 => l = line
<1> DEFINE line == [first |-> start + 1, last |-> e]
<1>1. size \in Nat /\ start \in Nat /\ newlines \subseteq 1..size
  BY DEF TypeOK
<1>2. line \in Lines
  <2>1. line \in [first: 1..(size + 1), last: 0..size]
    BY <1>1
  <2>2. line.first = start + 1 /\ line.last = e
    OBVIOUS
  <2>3. line.last + 1 >= line.first
    BY <1>1, <2>2
  <2>4. line.first = 1 \/ line.first - 1 \in newlines
    BY <1>1, <2>2
  <2>5. line.last + 1 \in newlines \/ (line.last = size /\ line.first <= size)
    BY <1>1, <2>2
  <2>6. \A p \in newlines : ~(line.first <= p /\ p <= line.last)
    BY <1>1, <2>2
  <2> QED BY <2>1, <2>3, <2>4, <2>5, <2>6 DEF Lines
<1>3. ASSUME NEW l \in Lines, start < l.first, l.first <= e + 1 PROVE l = line
  <2>1. /\ l \in [first: 1..(size + 1), last: 0..size]
        /\ l.last + 1 >= l.first
        /\ l.first = 1 \/ l.first - 1 \in newlines
        /\ l.last + 1 \in newlines \/ (l.last = size /\ l.first <= size)
        /\ \A p \in newlines : ~(l.first <= p /\ p <= l.last)
    BY DEF Lines
  <2>2. l.first \in Nat /\ l.last \in Nat /\ l.last <= size
        /\ l = [first |-> l.first, last |-> l.last]
    BY <1>1, <2>1
  <2>3. l.first = start + 1
    BY <1>1, <1>3, <2>1, <2>2
  <2>4. l.last = e
    BY <1>1, <2>1, <2>2, <2>3
  <2> QED BY <2>2, <2>3, <2>4
<1> QED BY <1>2, <1>3

\* The stream does not change, and its lines with it.
LEMMA LinesStay == UNCHANGED stream => Lines' = Lines
BY DEF stream, Lines

\* Nothing was read yet.
LEMMA ScanInit == Init => ScanInv
<1> SUFFICES ASSUME Init PROVE ScanInv
  OBVIOUS
<1>1. \A l \in Lines : l.first \in 1..(size + 1)
  BY DEF Lines
<1>2. {l \in Lines : l.first <= 0} = {}
  BY <1>1
<1>3. \A p \in newlines : ~(0 < p /\ p <= 0)
  BY DEF Init
<1> QED BY <1>2, <1>3 DEF Init, ScanInv

\* A line of the stream read to its end becomes a frame, or is refused.
LEMMA ScanTakeLine ==
  ASSUME ReaderInv, ScanInv, status = "reading",
         NEW n \in 1..(size - pos), TakeLine(n)
  PROVE  ScanInv'
<1> USE MaxFrameAssumption
<1>1. TypeOK
  BY DEF ReaderInv
<1>2. /\ size \in Nat /\ newlines \subseteq 1..size /\ pos \in Nat /\ start \in Nat
      /\ buf = pos - start /\ start <= pos /\ pos < size /\ n \in Nat
  BY <1>1 DEF TypeOK
<1>3. PICK p \in newlines :
        /\ FirstNewline(p, n)
        /\ \/ /\ FitsWithNewline(p - pos - 1)
              /\ frames' = frames \cup
                   {[first |-> start + 1, last |-> start + buf + (p - pos - 1)]}
              /\ pos' = p /\ start' = p /\ buf' = 0 /\ status' = status
           \/ /\ ~FitsWithNewline(p - pos - 1)
              /\ status' = "oversized"
              /\ UNCHANGED <<pos, start, buf, frames>>
  BY DEF TakeLine
<1>4. UNCHANGED stream /\ Lines' = Lines
  BY LinesStay DEF TakeLine
<1>5. p \in Nat /\ pos < p /\ p <= size /\ p <= pos + n
  BY <1>2, <1>3 DEF FirstNewline, NewlineIn
<1>6. \A q \in newlines : ~(start < q /\ q <= p - 1)
  <2> SUFFICES ASSUME NEW q \in newlines, start < q, q <= p - 1 PROVE FALSE
    OBVIOUS
  <2>1. q \in Nat /\ pos < q
    BY <1>2 DEF ScanInv
  <2>2. q \in NewlineIn(n)
    BY <1>2, <1>5, <2>1 DEF NewlineIn
  <2> QED BY <1>3, <1>5, <2>1, <2>2 DEF FirstNewline
<1> DEFINE line == [first |-> start + 1, last |-> p - 1]
<1>7. /\ line \in Lines
      /\ \A l \in Lines : start < l.first /\ l.first <= p => l = line
  <2>1. p - 1 \in Nat /\ start <= p - 1 /\ p - 1 <= size /\ (p - 1) + 1 = p
    BY <1>2, <1>5
  <2>2. start = 0 \/ start \in newlines
    BY <1>2 DEF ScanInv
  <2> QED BY <1>1, <1>6, <2>1, <2>2, NextLine
<1>8. \A l \in Lines : l.first \in Nat
  BY <1>2 DEF Lines
<1>9. CASE /\ frames' = frames \cup
                {[first |-> start + 1, last |-> start + buf + (p - pos - 1)]}
           /\ pos' = p /\ start' = p /\ buf' = 0 /\ status' = status
  <2>1. start + buf + (p - pos - 1) = p - 1
    BY <1>2, <1>5
  <2>2. frames' = {l \in Lines : l.first <= start} \cup {line}
    BY <1>9, <2>1 DEF ScanInv
  <2>3. \A l \in Lines : l.first <= p <=> l.first <= start \/ l = line
    BY <1>2, <1>5, <1>7, <1>8
  <2>4. frames' = {l \in Lines : l.first <= p}
    BY <1>7, <2>2, <2>3
  <2>5. newlines' = newlines /\ \A q \in newlines' : ~(start' < q /\ q <= pos')
    <3>1. \A q \in newlines : ~(p < q /\ q <= p)
      BY <1>2, <1>5
    <3> QED BY <1>4, <1>9, <3>1 DEF stream
  <2>6. frames' = {l \in Lines' : l.first <= start'}
    BY <1>4, <1>9, <2>4
  <2> QED BY <1>9, <2>5, <2>6 DEF ScanInv
<1>10. CASE /\ ~FitsWithNewline(p - pos - 1)
            /\ status' = "oversized"
            /\ UNCHANGED <<pos, start, buf, frames>>
  <2>1. line.first = start + 1 /\ TooLong(line)
    BY <1>2, <1>5, <1>10 DEF FitsWithNewline, TooLong, Length
  <2> QED BY <1>4, <1>7, <1>10, <2>1 DEF ScanInv, stream, TooLong, Length
<1> QED BY <1>3, <1>9, <1>10

\* A chunk without a newline is part of the line, which is refused as soon as
\* it cannot fit any more, wherever it ends.
LEMMA ScanTakeChunk ==
  ASSUME ReaderInv, ScanInv, status = "reading",
         NEW n \in 1..(size - pos), TakeChunk(n)
  PROVE  ScanInv'
<1> USE MaxFrameAssumption
<1>1. TypeOK
  BY DEF ReaderInv
<1>2. /\ size \in Nat /\ newlines \subseteq 1..size /\ pos \in Nat /\ start \in Nat
      /\ buf = pos - start /\ start <= pos /\ n \in Nat /\ 0 < n /\ pos + n <= size
  BY <1>1 DEF TypeOK
<1>3. UNCHANGED stream /\ Lines' = Lines
  BY LinesStay DEF TakeChunk
<1>4. \A q \in newlines : ~(start < q /\ q <= pos + n)
  BY <1>2 DEF ScanInv, TakeChunk, NewlineIn
<1>5. CASE FitsSoFar(n)
  BY <1>2, <1>3, <1>4, <1>5 DEF TakeChunk, ScanInv, stream
<1>6. CASE ~FitsSoFar(n)
  <2>1. PICK e \in Nat : /\ pos + n <= e /\ e <= size
                         /\ \A q \in newlines : ~(start < q /\ q <= e)
                         /\ e + 1 \in newlines \/ e = size
    <3> DEFINE T == {q \in newlines : pos + n < q}
    <3>1. CASE T = {}
      <4>1. \A q \in newlines : ~(start < q /\ q <= size)
        BY <1>2, <1>4, <3>1
      <4> QED BY <1>2, <4>1
    <3>2. CASE T # {}
      <4>1. T \subseteq Nat
        <5>1. \A q \in newlines : q \in Nat
          BY <1>2
        <5> QED BY <5>1
      <4> HIDE DEF T
      <4>2. PICK p \in T : \A q \in T : p <= q
        BY <3>2, <4>1, LeastNat
      <4> USE DEF T
      <4>3. p \in newlines /\ p \in Nat /\ pos + n < p /\ p <= size
        BY <1>2, <4>2
      <4>4. \A q \in newlines : ~(start < q /\ q <= p - 1)
        BY <1>2, <1>4, <4>2, <4>3
      <4>5. p - 1 \in Nat /\ pos + n <= p - 1 /\ p - 1 <= size /\ (p - 1) + 1 = p
        BY <1>2, <4>3
      <4> QED BY <4>3, <4>4, <4>5
    <3> QED BY <3>1, <3>2
  <2> DEFINE line == [first |-> start + 1, last |-> e]
  <2>2. line \in Lines
    <3>1. start <= e /\ start < size
      BY <1>2, <2>1
    <3>2. start = 0 \/ start \in newlines
      BY <3>1, <1>2 DEF ScanInv
    <3> QED BY <1>1, <2>1, <3>1, <3>2, NextLine
  <2>3. line.first = start + 1 /\ TooLong(line)
    BY <1>2, <1>6, <2>1 DEF FitsSoFar, TooLong, Length
  <2>4. status' = "oversized" /\ UNCHANGED <<pos, start, frames>>
    BY <1>6 DEF TakeChunk
  <2> QED BY <1>3, <2>2, <2>3, <2>4 DEF ScanInv, stream, TooLong, Length
<1> QED BY <1>5, <1>6

\* At the end of the stream what was collected is its last line.
LEMMA ScanEndOfStream ==
  ASSUME ReaderInv, ScanInv, EndOfStream
  PROVE  ScanInv'
<1>1. TypeOK
  BY DEF ReaderInv
<1>2. /\ size \in Nat /\ newlines \subseteq 1..size /\ start \in Nat
      /\ pos = size /\ buf = size - start /\ start <= size
  BY <1>1 DEF TypeOK, EndOfStream
<1>3. UNCHANGED stream /\ Lines' = Lines
  BY LinesStay DEF EndOfStream
<1>4. CASE buf = 0
  BY <1>2, <1>3, <1>4 DEF EndOfStream, ScanInv, stream
<1>5. CASE buf # 0
  <2> DEFINE line == [first |-> start + 1, last |-> size]
  <2>1. start < size /\ (start = 0 \/ start \in newlines)
    BY <1>2, <1>5 DEF ScanInv
  <2>2. /\ line \in Lines
        /\ \A l \in Lines : start < l.first /\ l.first <= size + 1 => l = line
    <3>1. \A p \in newlines : ~(start < p /\ p <= size)
      BY <1>2 DEF ScanInv
    <3> QED BY <1>1, <1>2, <2>1, <3>1, NextLine
  <2>3. \A l \in Lines : l.first \in Nat /\ l.first <= size + 1
    BY <1>2 DEF Lines
  <2>4. frames' = {l \in Lines : l.first <= start} \cup {line}
    BY <1>2, <1>5 DEF EndOfStream, ScanInv
  <2>5. \A l \in Lines : l.first <= size <=> l.first <= start \/ l = line
    BY <1>2, <2>1, <2>2, <2>3
  <2>6. frames' = {l \in Lines : l.first <= size}
    BY <2>2, <2>4, <2>5
  <2>7. start' = size /\ pos' = pos /\ status' = "reading"
    BY <1>2, <1>5 DEF EndOfStream
  <2> QED BY <1>2, <1>3, <2>6, <2>7 DEF ScanInv, stream
<1> QED BY <1>4, <1>5

\* Every step keeps what the frames say of the part that was read.
LEMMA ScanNext == ReaderInv /\ ScanInv /\ [Next]_vars => ScanInv'
<1> SUFFICES ASSUME ReaderInv, ScanInv, [Next]_vars PROVE ScanInv'
  OBVIOUS
<1>1. CASE UNCHANGED vars
  BY <1>1, LinesStay DEF vars, stream, ScanInv, TooLong, Length
<1> QED BY <1>1, ScanTakeLine, ScanTakeChunk, ScanEndOfStream DEF Next, Fill, Ended

\* The part that was read says all: the frames are the readable lines, all of
\* the lines at the end, and not all of them when one was refused.
LEMMA ScanMeans == ReaderInv /\ ScanInv => ChunkingInvisible
<1> SUFFICES ASSUME ReaderInv, ScanInv PROVE ChunkingInvisible
  OBVIOUS
<1> USE MaxFrameAssumption
<1>1. size \in Nat /\ start \in Nat
  BY DEF ReaderInv, TypeOK
<1>2. \A l \in Lines : l.first \in Nat /\ l.last \in Nat /\ l.first <= size
  BY <1>1 DEF Lines, ReaderInv, TypeOK
<1>3. \A l \in Lines : l \in frames <=> l.first <= start
  BY DEF ScanInv
<1>4. \A l \in frames : l \in Lines /\ ~TooLong(l)
  <2> TAKE l \in frames
  <2>1. l \in Lines
    BY DEF ScanInv
  <2>2. Length(l) < MaxFrame /\ Length(l) \in Int
    BY <1>2, <2>1 DEF ReaderInv, BufferBounded, Length
  <2> QED BY <2>1, <2>2 DEF TooLong
<1>5. frames \subseteq Readable
  BY <1>1, <1>2, <1>3, <1>4 DEF Readable
<1>6. status = "eof" => frames = Lines
  BY <1>2, <1>3, <1>4 DEF ScanInv
<1>7. ASSUME status = "oversized" PROVE frames = Readable /\ Readable # Lines
  <2>1. PICK m \in Lines : m.first = start + 1 /\ TooLong(m)
    BY <1>7 DEF ScanInv
  <2>2. m \notin Readable
    BY <1>2, <2>1 DEF Readable
  <2>3. \A l \in Readable : l \in frames
    BY <1>1, <1>2, <1>3, <2>1 DEF Readable
  <2> QED BY <1>5, <2>1, <2>2, <2>3
<1> QED BY <1>5, <1>6, <1>7 DEF ChunkingInvisible

\* However the pipe cuts the stream, read_frame returns its lines up to the
\* first that does not fit in MAX_FRAME, and fails exactly there.
THEOREM ReaderExact == Spec => []ChunkingInvisible
<1>1. Init => ReaderInv /\ ScanInv
  BY ReaderInit, ScanInit
<1>2. (ReaderInv /\ ScanInv) /\ [Next]_vars => (ReaderInv /\ ScanInv)'
  BY ReaderNext, ScanNext
<1> QED BY <1>1, <1>2, ScanMeans, PTL DEF Spec
=============================================================================
