------------------------------ MODULE ByteTape ------------------------------
(***************************************************************************)
(* What Base::RingBuffer promises (Base/Buffer): the readable bytes are a  *)
(* queue, and the writable ones are kept in order behind it, so that a     *)
(* step back gives again what was read last, and a step forward publishes  *)
(* what was written ahead.                                                 *)
(***************************************************************************)
EXTENDS Integers, Sequences

CONSTANTS Byte, MaxSize

VARIABLES
    queue,       \* the readable bytes
    spare,       \* the writable ones
    done         \* the last operation: its name, a number and the bytes it passed

vars == <<queue, spare, done>>

First(s, n) == SubSeq(s, 1, n)
Rest(s, n)  == SubSeq(s, n + 1, Len(s))
Smaller(a, b) == IF a < b THEN a ELSE b
AtMost(s, n) == First(s, Smaller(n, Len(s)))

\* s with the bytes t from the offset o on.
Over(s, o, t) ==
    [i \in 1 .. Len(s) |-> IF i - o \in 1 .. Len(t) THEN t[i - o] ELSE s[i]]

Op(op, n) == done'.op = op /\ done'.n = n
Gives(t) == done'.bytes = t

Init ==
    /\ queue = <<>>
    /\ \E n \in 0 .. MaxSize : spare \in [1 .. n -> Byte]
    /\ done.op = "init"

\* The first n bytes leave the queue and become spare.
Pop(n) ==
    /\ queue' = Rest(queue, n)
    /\ spare' = spare \o First(queue, n)

\* A chunk takes the place of the first spare bytes.
Push(t) ==
    /\ queue' = queue \o t
    /\ spare' = Rest(spare, Len(t))

Read(n) ==
    /\ Op("read", n)
    /\ Gives(AtMost(queue, n))
    /\ Pop(Smaller(n, Len(queue)))

\* All or nothing.
FixRead(n) ==
    /\ Op("fix_read", n)
    /\ \/ n <= Len(queue) /\ Gives(First(queue, n)) /\ Pop(n)
       \/ n > Len(queue) /\ Gives(<<>>) /\ UNCHANGED <<queue, spare>>

Peek(n, o) ==
    /\ Op("peek", o)
    /\ Gives(AtMost(Rest(queue, o), n))
    /\ UNCHANGED <<queue, spare>>

Write(t) == Op("write", Len(t)) /\ Gives(t) /\ Push(AtMost(t, Len(spare)))

FixWrite(t) ==
    /\ Op("fix_write", Len(t)) /\ Gives(t)
    /\ \/ Len(t) <= Len(spare) /\ Push(t)
       \/ Len(t) > Len(spare) /\ UNCHANGED <<queue, spare>>

\* Bytes are changed in place, in the queue or ahead of it, as far as it reaches.
Change(o, t) == Op("change", o) /\ Gives(t) /\ queue' = Over(queue, o, t) /\ UNCHANGED spare
Ahead(o, t)  == Op("ahead", o) /\ Gives(t) /\ spare' = Over(spare, o, t) /\ UNCHANGED queue

\* Steps forward and back of the reader and of the writer.
ReadAdvance(n)  == Op("read_advance", n) /\ n <= Len(queue) /\ Pop(n)
WriteAdvance(n) == Op("write_advance", n) /\ n <= Len(spare) /\ Push(First(spare, n))

ReadBack(n) ==
    /\ Op("read_back", n)
    /\ n <= Len(spare)
    /\ queue' = Rest(spare, Len(spare) - n) \o queue
    /\ spare' = First(spare, Len(spare) - n)

WriteBack(n) ==
    /\ Op("write_back", n)
    /\ n <= Len(queue)
    /\ queue' = First(queue, Len(queue) - n)
    /\ spare' = Rest(queue, Len(queue) - n) \o spare

\* The size changes, the queue does not.
Resize(n) ==
    /\ Op("resize", n)
    /\ \E s \in [1 .. n - Len(queue) -> Byte] : spare' = s
    /\ UNCHANGED queue

\* The operation that done names, with its arguments.
Next ==
    LET n == done'.n
        t == done'.bytes
    IN  \/ Read(n) \/ FixRead(n) \/ Resize(n)
        \/ ReadAdvance(n) \/ WriteAdvance(n) \/ ReadBack(n) \/ WriteBack(n)
        \/ \E k \in 0 .. MaxSize + 1 : Peek(k, n)
        \/ Write(t) \/ FixWrite(t) \/ Change(n, t) \/ Ahead(n, t)

Spec == Init /\ [][Next]_vars

=============================================================================
