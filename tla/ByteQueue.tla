------------------------------ MODULE ByteQueue ------------------------------
(***************************************************************************)
(* What io::Buffer promises, with no vector and no cursors: a stream of    *)
(* bytes numbered 1, 2, ... of which `next` have been read and `written`   *)
(* written. A read may be taken back as far as `floor`, and storing bytes  *)
(* may raise `floor`: the buffer may reuse the memory of bytes that were   *)
(* read.                                                                   *)
(***************************************************************************)
EXTENDS Integers, Sequences

CONSTANT Sizes  \* the sizes a call may ask for, natural numbers

VARIABLES
  written,  \* how many bytes were ever written
  next,     \* how many of them are no longer to be read
  floor,    \* how far back reads can be undone
  out       \* the bytes the last call handed out

vars == <<written, next, floor, out>>

Available == written - next

Least(a, b) == IF a < b THEN a ELSE b

\* The bytes numbered from+1 .. from+n.
Span(from, n) == [i \in 1..n |-> from + i]

Init == written = 0 /\ next = 0 /\ floor = 0 /\ out = <<>>

Put(n) == /\ written' = written + n
          /\ floor' \in {floor, next}
          /\ out' = <<>>
          /\ UNCHANGED next

Reclaim == floor' = next /\ out' = <<>> /\ UNCHANGED <<written, next>>

Get(n) == /\ next' = next + Least(n, Available)
          /\ out' = Span(next, Least(n, Available))
          /\ UNCHANGED <<written, floor>>

GiveBack(n) == /\ n <= next - floor
               /\ next' = next - n
               /\ out' = <<>>
               /\ UNCHANGED <<written, floor>>

Clear == /\ next' = written
         /\ floor' = written
         /\ out' = <<>>
         /\ UNCHANGED written

\* A look ahead succeeds only when everything it asks for is there.
Look(index, size) ==
  /\ out' = IF size > 0 /\ index + size <= Available
            THEN Span(next + index, size) ELSE <<>>
  /\ UNCHANGED <<written, next, floor>>

Next == \/ \E n \in Sizes : Put(n) \/ Get(n) \/ GiveBack(n)
        \/ \E index \in Sizes, size \in Sizes : Look(index, size)
        \/ Get(Available)
        \/ Reclaim
        \/ Clear

Spec == Init /\ [][Next]_vars

=============================================================================
