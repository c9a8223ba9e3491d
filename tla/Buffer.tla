-------------------------------- MODULE Buffer --------------------------------
(***************************************************************************)
(* spiderweb::io::Buffer as a state machine: any caller calls any public   *)
(* member function in any order, with the preconditions its assertions     *)
(* state. PrepareWrite and CommitWrite are separate calls, as the receive  *)
(* path uses them.                                                         *)
(***************************************************************************)
EXTENDS BufferOps

CONSTANTS
  InitCap,     \* size of the vector at construction (8192)
  MaxWritten,  \* bound: how many bytes are ever written
  MaxCall      \* bound: the largest size a call asks for

ASSUME BufferAssumption ==
  /\ InitCap \in Nat \ {0}
  /\ MaxWritten \in Nat
  /\ MaxCall \in Nat \ {0}

VARIABLES
  buf,      \* the buffer
  written,  \* how many bytes callers wrote; the k-th of them is the byte k
  out       \* the bytes the last call handed out

vars == <<buf, written, out>>

Sizes == 0..MaxCall

\* The n bytes that follow the ones already written.
Fresh(n) == [i \in 1..n |-> written + i]

Init == /\ buf = NewBuffer(InitCap)
        /\ written = 0
        /\ out = <<>>

WriteBytes(n) == /\ written + n <= MaxWritten
                 /\ buf' = Write(buf, Fresh(n))
                 /\ written' = written + n
                 /\ out' = <<>>

Prepare(n) == /\ buf' = PrepareWrite(buf, n)
              /\ out' = <<>>
              /\ UNCHANGED written

Compact == /\ buf' = Optimization(buf)
           /\ out' = <<>>
           /\ UNCHANGED written

\* The caller stores n bytes at beginWrite() and commits them.
Commit(n) == /\ n <= LeftSpace(buf)
             /\ written + n <= MaxWritten
             /\ buf' = CommitWrite(Store(buf, buf.widx, Fresh(n)), n)
             /\ written' = written + n
             /\ out' = <<>>

ReadBytes(n) == /\ out' = BytesAt(buf, buf.ridx, Clamped(buf, n))
                /\ buf' = ZeroCopyRead(buf, n)
                /\ UNCHANGED written

ReadAll == ReadBytes(Unread(buf))

\* ReadByte has no check of its own: its callers see Len() > 0 first.
ReadByte == /\ Unread(buf) > 0
            /\ out' = BytesAt(buf, buf.ridx, 1)
            /\ buf' = HasReaded(buf, 1)
            /\ UNCHANGED written

UnRead(n) == /\ buf.ridx >= n
             /\ buf' = UnReadBytes(buf, n)
             /\ out' = <<>>
             /\ UNCHANGED written

ResetAll == /\ buf' = Reset(buf)
            /\ out' = <<>>
            /\ UNCHANGED written

PeekAt(index, size) ==
  /\ out' = IF InRange(buf, index, size)
            THEN BytesAt(buf, buf.ridx + index, size) ELSE <<>>
  /\ UNCHANGED <<buf, written>>

\* Growing is bounded so that the state space is finite.
Next == \/ \E n \in Sizes : \/ WriteBytes(n) \/ Commit(n)
                            \/ ReadBytes(n)  \/ UnRead(n)
        \/ \E n \in Sizes : buf.cap <= MaxWritten /\ Prepare(n)
        \/ \E index \in Sizes, size \in Sizes : PeekAt(index, size)
        \/ Compact
        \/ ReadAll
        \/ ReadByte
        \/ ResetAll

Spec == Init /\ [][Next]_vars

-----------------------------------------------------------------------------

\* Type invariant: the cursors stay in order and inside the vector, the
\* condition every unchecked pointer expression of spiderweb_buffer.cc needs.
TypeOK == BufferOK(buf) /\ written \in Nat

\* Everything below the write cursor, the part already read included, is
\* the newest stretch of what was written, in order: no compaction, growth
\* or commit loses, repeats or overwrites a byte a read or UnRead can reach.
BytesIntact == Holds(buf, written)

\* The buffer implements the byte queue: `next` bytes are gone because the
\* rest is unread, and reads can be undone down to the front of the vector.
Queue == INSTANCE ByteQueue WITH next  <- written - Unread(buf),
                                 floor <- written - buf.widx

\* Every call is the queue's call: reads return the bytes written, in order
\* and once, whatever Optimization and growSpace do to the vector.
QueueSpec == Queue!Spec

=============================================================================
