------------------------------ MODULE BufferOps ------------------------------
(***************************************************************************)
(* The member functions of spiderweb::io::Buffer as operators on one       *)
(* buffer value: the vector `b` is its size `cap` and its contents `mem`,  *)
(* indexed from 0 as in the source, `ridx` and `widx` are the two cursors. *)
(* A byte is a number that says which byte of a stream it is; Zero is the  *)
(* value std::vector gives to the elements it adds.                        *)
(***************************************************************************)
EXTENDS Integers, Sequences

Zero == 0

\* The cursors are in order and inside the vector.
BufferOK(b) == /\ b \in [cap : Nat, ridx : Nat, widx : Nat,
                          mem : [0..b.cap-1 -> Nat]]
               /\ b.ridx <= b.widx
               /\ b.widx <= b.cap

\* Below the write cursor lies the newest stretch of the first `total` bytes.
Holds(b, total) ==
  /\ b.widx <= total
  /\ \A i \in 0..b.widx-1 : b.mem[i] = total - b.widx + i + 1

\* A buffer whose vector has `size` elements (the constructor uses 8192).
NewBuffer(size) ==
  [cap |-> size, ridx |-> 0, widx |-> 0, mem |-> [i \in 0..size-1 |-> Zero]]

Unread(b) == b.widx - b.ridx

LeftSpace(b) == b.cap - b.widx

\* Mutant: no clamping.
Clamped_Unchecked(b, n) == n

\* How much a call that asks for n bytes gets: never more than is unread.
Clamped(b, n) == IF n > Unread(b) THEN Unread(b) ELSE n

\* Mutant: leaves the read cursor where it was.
Optimization_KeepRidx(b) ==
  [b EXCEPT !.widx = Unread(b),
            !.mem = [i \in 0..b.cap-1 |-> IF i < Unread(b) THEN b.mem[b.ridx + i]
                                                           ELSE b.mem[i]]]

\* Moves the unread bytes to the front of the same vector.
Optimization(b) ==
  IF b.ridx = 0 THEN b
  ELSE [cap  |-> b.cap, ridx |-> 0, widx |-> Unread(b),
        mem  |-> [i \in 0..b.cap-1 |->
                    IF i < Unread(b) THEN b.mem[b.ridx + i] ELSE b.mem[i]]]

\* Mutant: a new vector, without the old elements.
GrowSpace_Fresh(b, len) ==
  [b EXCEPT !.cap = b.widx + len, !.mem = [i \in 0..b.widx+len-1 |-> Zero]]

\* vector::resize(widx + len): the elements move to a larger allocation.
GrowSpace(b, len) ==
  LET size == b.widx + len
  IN  [cap |-> size, ridx |-> b.ridx, widx |-> b.widx,
       mem |-> [i \in 0..size-1 |-> IF i < b.cap THEN b.mem[i] ELSE Zero]]

PrepareWrite(b, n) ==
  LET c == IF LeftSpace(b) < n THEN Optimization(b) ELSE b
  IN  IF LeftSpace(c) < n THEN GrowSpace(c, c.cap + 2 * n) ELSE c

\* The vector's memory after `data` is stored from index `at` on, whoever
\* stores it: std::copy in Write, or the kernel in an asynchronous read.
Store(b, at, data) ==
  [b EXCEPT !.mem = [i \in 0..b.cap-1 |->
                       IF i \in at..at+Len(data)-1 THEN data[i-at+1]
                                                   ELSE b.mem[i]]]

CommitWrite(b, n) == [b EXCEPT !.widx = b.widx + n]

Write(b, data) ==
  LET c == PrepareWrite(b, Len(data))
  IN  CommitWrite(Store(c, c.widx, data), Len(data))

\* What is in memory from index `at` on. Indices past the vector are not
\* the buffer's memory and read as Zero.
BytesAt(b, at, n) ==
  [i \in 1..n |-> IF at+i-1 \in 0..b.cap-1 THEN b.mem[at+i-1] ELSE Zero]

HasReaded(b, n) == [b EXCEPT !.ridx = b.ridx + n]

\* ReadBytes, Read, ZeroCopyRead and Skip take up to n bytes alike.
ZeroCopyRead(b, n) == HasReaded(b, Clamped(b, n))

UnReadBytes(b, n) == [b EXCEPT !.ridx = b.ridx - n]

Reset(b) == [b EXCEPT !.ridx = 0, !.widx = 0]

\* Mutant: one byte too many.
InRange_Loose(b, index, size) ==
  index < Unread(b) /\ size > 0 /\ size <= b.widx - (b.ridx + index) + 1

\* The check PointerAt and PeekAt make before they touch memory.
InRange(b, index, size) ==
  index < Unread(b) /\ size > 0 /\ size <= b.widx - (b.ridx + index)

=============================================================================
