----------------------------- MODULE RingBuffer -----------------------------
(***************************************************************************)
(* Base::RingBuffer and RingBufferWrapper (Base/Buffer): _read and _write  *)
(* are offsets into _buffer that wrap at _size, _readable tells full from  *)
(* empty.  Copies are made in two pieces where they cross the end.         *)
(* ByteTape is what it promises.                                           *)
(*                                                                         *)
(* Callers keep to the assertions of read_advance and its like.  The       *)
(* overloads for iovecs repeat the plain ones; reposition is left out:     *)
(* only resize calls it, for overlapping memory that RingBuffer never has. *)
(***************************************************************************)
EXTENDS Integers, Sequences

CONSTANTS
    Byte,        \* the bytes
    MaxSize      \* bound: the largest _size

ASSUME RingAssumption == MaxSize \in Nat /\ Byte # {}

VARIABLES
    buffer,      \* _buffer[0 .. _size - 1]
    size,        \* _size
    read,        \* _read - _buffer
    write,       \* _write - _buffer
    readable,    \* _readable
    done         \* history: the last operation, a number and the bytes it passed

ringVars == <<buffer, size, read, write, readable, done>>

readable_len == readable
writable_len == size - readable

Least(a, b) == IF a < b THEN a ELSE b

\* The bytes of the iovecs or of the plain area that callers pass.
Data == UNION {[1 .. n -> Byte] : n \in 0 .. MaxSize}

-----------------------------------------------------------------------------
(* Copies and pointers *)

MutWrapLate(p, n) == IF p > n THEN p - n ELSE p

\* if (p >= end()) p -= _size
Wrapped(p, n) == IF p >= n THEN p - n ELSE p

\* if (p < _buffer) p += _size
Unwrapped(p, n) == IF p < 0 THEN p + n ELSE p

\* memcpy out of and into _buffer
CopyOut(p, n) == [i \in 1 .. n |-> buffer[p + i - 1]]
CopyIn(b, p, t) ==
    [j \in DOMAIN b |-> IF j - p \in 0 .. Len(t) - 1 THEN t[j - p + 1] ELSE b[j]]

\* The two pieces of a copy at p: up to the end, and from the beginning.
TwoOut(p, n) ==
    IF size - p >= n THEN CopyOut(p, n)
    ELSE CopyOut(p, size - p) \o CopyOut(0, n - (size - p))

MutSamePiece(p, t) ==
    IF p + Len(t) <= size THEN CopyIn(buffer, p, t)
    ELSE LET k == size - p
         IN  CopyIn(CopyIn(buffer, p, SubSeq(t, 1, k)), 0, SubSeq(t, 1, Len(t) - k))

TwoIn(p, t) ==
    IF p + Len(t) <= size THEN CopyIn(buffer, p, t)
    ELSE LET k == size - p
         IN  CopyIn(CopyIn(buffer, p, SubSeq(t, 1, k)), 0, SubSeq(t, k + 1, Len(t)))

ReadAdvance(n) ==
    /\ read' = Wrapped(read + n, size)
    /\ readable' = readable - n
    /\ UNCHANGED write

WriteAdvance(n) ==
    /\ write' = Wrapped(write + n, size)
    /\ readable' = readable + n
    /\ UNCHANGED read

-----------------------------------------------------------------------------
(* Segments: a BufferArray<2> is <<offset, length>> twice *)

continuously_readable == Least(size - read, readable)

continuously_writable ==
    IF read > write THEN read - write
    ELSE IF read = write /\ readable # 0 THEN 0 ELSE size - write

\* operator+= of BufferArray<2>
Skip(a, step) ==
    IF a[1][2] < step
    THEN LET s == step - a[1][2]
         IN  <<<<a[1][1] + a[1][2], 0>>, <<a[2][1] + s, a[2][2] - s>>>>
    ELSE <<<<a[1][1] + step, a[1][2] - step>>, a[2]>>

Segments(p, run, n, offset) ==
    LET k == Least(run, n + offset)
    IN  Skip(<<<<p, k>>, <<0, n + offset - k>>>>, offset)

Nothing == <<<<0, 0>>, <<0, 0>>>>

read_array(n, offset) ==
    IF offset >= readable_len THEN Nothing
    ELSE Segments(read, continuously_readable, Least(n, readable_len - offset), offset)

write_array(n, offset) ==
    IF offset >= writable_len THEN Nothing
    ELSE Segments(write, continuously_writable,
                  IF n > writable_len THEN writable_len - offset ELSE n, offset)

\* What a gathering write sends, and a scattering read of t leaves behind.
Gather(a) == CopyOut(a[1][1], a[1][2]) \o CopyOut(a[2][1], a[2][2])

Scatter(a, t) ==
    LET k == Least(Len(t), a[1][2])
    IN  CopyIn(CopyIn(buffer, a[1][1], SubSeq(t, 1, k)), a[2][1], SubSeq(t, k + 1, Len(t)))

Length(a) == a[1][2] + a[2][2]

-----------------------------------------------------------------------------
(* Operations *)

Did(op, n, t) == done' = [op |-> op, n |-> n, bytes |-> t]

\* read
ReadOut(op, n) ==
    LET k == Least(n, readable_len)
    IN  /\ Did(op, n, TwoOut(read, k))
        /\ ReadAdvance(k)
        /\ UNCHANGED <<buffer, size>>

Read(n) == ReadOut("read", n)

\* fix_read
FixRead(n) ==
    IF readable_len < n
    THEN Did("fix_read", n, <<>>) /\ UNCHANGED <<buffer, size, read, write, readable>>
    ELSE ReadOut("fix_read", n)

\* read into another buffer, which has room for k bytes
ReadTo(n, k) ==
    LET t == Gather(read_array(Least(n, readable_len), 0))
        w == Least(k, Len(t))
    IN  /\ Did("read", Least(n, k), SubSeq(t, 1, w))
        /\ ReadAdvance(w)
        /\ UNCHANGED <<buffer, size>>

\* try_read
TryRead(n, offset) ==
    /\ Did("peek", offset, IF offset >= readable_len THEN <<>>
                           ELSE TwoOut(Wrapped(read + offset, size), Least(n, readable_len - offset)))
    /\ UNCHANGED <<buffer, size, read, write, readable>>

\* write
WriteIn(op, t) ==
    LET u == SubSeq(t, 1, Least(Len(t), writable_len))
    IN  /\ buffer' = TwoIn(write, u)
        /\ WriteAdvance(Len(u))
        /\ Did(op, Len(t), t)
        /\ UNCHANGED size

Write(t) == WriteIn("write", t)

\* fix_write
FixWrite(t) ==
    IF writable_len < Len(t)
    THEN Did("fix_write", Len(t), t) /\ UNCHANGED <<buffer, size, read, write, readable>>
    ELSE WriteIn("fix_write", t)

\* write out of another buffer, which holds t, n bytes at most
WriteFrom(t, n) ==
    LET a == write_array(Least(n, writable_len), 0)
        k == Least(Len(t), Length(a))
        m == Least(Len(t), n)
    IN  /\ buffer' = Scatter(a, SubSeq(t, 1, k))
        /\ WriteAdvance(k)
        /\ Did("write", m, SubSeq(t, 1, m))
        /\ UNCHANGED size

\* try_write: no step forward
TryWrite(t, offset) ==
    LET n == Least(Len(t), writable_len - offset)
        c == continuously_writable
        k == Least(size - write - offset, n)
    IN  /\ buffer' = IF offset >= writable_len THEN buffer
                     ELSE IF offset >= c THEN CopyIn(buffer, offset - c, SubSeq(t, 1, n))
                     ELSE CopyIn(CopyIn(buffer, write + offset, SubSeq(t, 1, k)),
                                 0, SubSeq(t, k + 1, n))
        /\ Did("ahead", offset, t)
        /\ UNCHANGED <<size, read, write, readable>>

\* change_written
ChangeWritten(offset, t) ==
    LET n == Least(Len(t), readable_len - offset)
    IN  /\ buffer' = IF offset > readable_len THEN buffer
                     ELSE TwoIn(Wrapped(read + offset, size), SubSeq(t, 1, n))
        /\ Did("change", offset, t)
        /\ UNCHANGED <<size, read, write, readable>>

\* readv of at most n bytes into write_array, before a write_advance; callers that
\* give an offset stay within what is writable (querying_a_log).
FillAhead(t, n, offset) ==
    /\ offset = 0 \/ n + offset <= writable_len
    /\ Len(t) <= n
    /\ LET a == write_array(n, offset)
       IN  buffer' = Scatter(a, SubSeq(t, 1, Least(Len(t), Length(a))))
    /\ Did("ahead", offset, t)
    /\ UNCHANGED <<size, read, write, readable>>

\* writev of read_array
SendSegments(n, offset) ==
    /\ Did("peek", offset, Gather(read_array(n, offset)))
    /\ UNCHANGED <<buffer, size, read, write, readable>>

\* read_advance, clear_input and clear_output
Advance(n) ==
    /\ n <= readable_len
    /\ ReadAdvance(n)
    /\ Did("read_advance", n, <<>>)
    /\ UNCHANGED <<buffer, size>>

ReadBack(n) ==
    /\ n <= writable_len
    /\ read' = Unwrapped(read - n, size)
    /\ readable' = readable + n
    /\ Did("read_back", n, <<>>)
    /\ UNCHANGED <<buffer, size, write>>

Publish(n) ==
    /\ n <= writable_len
    /\ WriteAdvance(n)
    /\ Did("write_advance", n, <<>>)
    /\ UNCHANGED <<buffer, size>>

WriteBack(n) ==
    /\ n <= readable_len
    /\ write' = Unwrapped(write - n, size)
    /\ readable' = readable - n
    /\ Did("write_back", n, <<>>)
    /\ UNCHANGED <<buffer, size, read>>

\* RingBuffer::resize: read into new memory, whose other bytes are not set.
Resize(n) ==
    /\ readable_len <= n
    /\ \E junk \in [0 .. n - 1 -> Byte] : buffer' = CopyIn(junk, 0, TwoOut(read, readable))
    /\ read' = 0
    /\ write' = Wrapped(readable, n)
    /\ size' = n
    /\ Did("resize", n, <<>>)
    /\ UNCHANGED readable

-----------------------------------------------------------------------------
RingInit ==
    /\ size \in 0 .. MaxSize
    /\ buffer \in [0 .. size - 1 -> Byte]
    /\ read = 0 /\ write = 0 /\ readable = 0
    /\ done = [op |-> "init", n |-> 0, bytes |-> <<>>]

RingNext ==
    \/ \E n \in 0 .. MaxSize + 1 :
          \/ Read(n) \/ FixRead(n) \/ Advance(n) \/ ReadBack(n) \/ Publish(n) \/ WriteBack(n)
          \/ \E o \in 0 .. MaxSize : ReadTo(n, o) \/ TryRead(n, o) \/ SendSegments(n, o)
    \/ \E n \in 0 .. MaxSize : Resize(n)
    \/ \E t \in Data :
          \/ Write(t) \/ FixWrite(t)
          \/ \E n \in 0 .. MaxSize :
                \/ WriteFrom(t, n) \/ TryWrite(t, n) \/ ChangeWritten(n, t)
                \/ \E o \in 0 .. MaxSize : FillAhead(t, n, o)

RingSpec == RingInit /\ [][RingNext]_ringVars

-----------------------------------------------------------------------------
\* The pointers and the counter agree, full and empty included, and stay inside
\* the memory: what continuously_writable and the two-piece copies rely on.
PointersAgree ==
    /\ size \in Nat
    /\ readable \in 0 .. size
    /\ read \in 0 .. size - 1 \/ read = 0
    /\ write = IF read + readable < size THEN read + readable ELSE read + readable - size

\* The bytes from p on, n of them, around the end.
Around(p, n) == [i \in 1 .. n |-> buffer[(p + i - 1) % size]]

Tape == INSTANCE ByteTape WITH queue <- Around(read, readable),
                               spare <- Around(read + readable, size - readable)

\* Every operation does to the queue of readable bytes, and to the bytes around
\* it, what its name says, wherever the pointers stand: read and write in one or
\* two pieces, segments for readv and writev, steps back and writes ahead.
KeepsTape == Tape!Spec

=============================================================================
