------------------------------ MODULE ObjectPool ------------------------------
(***************************************************************************)
(* ObjectPool<T, BlockSize>: a block of free objects for each thread and a *)
(* shared queue of blocks under a mutex.  An empty block is filled from    *)
(* the queue, or with new objects that are made outside the lock; a block  *)
(* of two is given away.  Objects are alike: only their number counts.     *)
(***************************************************************************)
EXTENDS Naturals, FiniteSets, Sequences

CONSTANTS
  Threads,
  BlockSize,
  MaxOut     \* bound: objects in use at a time

VARIABLES
  pri,      \* thread_local pri_: the free objects of each thread
  making,   \* threads that found the queue empty and make a block
  shared,   \* shared_: the sizes of its blocks
  out,      \* objects in use
  made,     \* objects that exist
  peak      \* history: the most objects ever in use at a time

vars == <<pri, making, shared, out, made, peak>>

Uses(n) == out' = out + n /\ peak' = IF out + n > peak THEN out + n ELSE peak

\* Get from the thread's own block.
GetOwn(t) ==
  /\ t \notin making /\ pri[t] > 0 /\ out < MaxOut
  /\ pri' = [pri EXCEPT ![t] = @ - 1]
  /\ Uses(1)
  /\ UNCHANGED <<making, shared, made>>

\* Mutant: the queue is not looked at.
GetBlock_Blind(t) ==
  /\ t \notin making /\ pri[t] = 0 /\ out < MaxOut
  /\ making' = making \cup {t}
  /\ UNCHANGED <<pri, shared, out, made, peak>>

\* Get takes a whole block from the queue, or leaves the lock to make one.
GetBlock(t) ==
  /\ t \notin making /\ pri[t] = 0 /\ out < MaxOut
  /\ IF shared = <<>>
     THEN making' = making \cup {t} /\ UNCHANGED <<pri, shared, out, peak>>
     ELSE /\ pri' = [pri EXCEPT ![t] = Head(shared) - 1]
          /\ shared' = Tail(shared)
          /\ Uses(1)
          /\ UNCHANGED making
  /\ UNCHANGED made

CreateFreeBlock(t) ==
  /\ t \in making /\ out < MaxOut
  /\ making' = making \ {t}
  /\ made' = made + BlockSize
  /\ pri' = [pri EXCEPT ![t] = BlockSize - 1]
  /\ Uses(1)
  /\ UNCHANGED shared

Put(t) ==
  /\ t \notin making /\ out > 0
  /\ out' = out - 1
  /\ IF pri[t] + 1 >= 2 * BlockSize
     THEN pri' = [pri EXCEPT ![t] = 0] /\ shared' = Append(shared, pri[t] + 1)
     ELSE pri' = [pri EXCEPT ![t] = @ + 1] /\ UNCHANGED shared
  /\ UNCHANGED <<making, made, peak>>

\* The thread ends, and its block with it. Another takes its place.
ThreadEnds(t) ==
  /\ t \notin making /\ pri[t] > 0
  /\ made' = made - pri[t]
  /\ pri' = [pri EXCEPT ![t] = 0]
  /\ UNCHANGED <<making, shared, out, peak>>

Init == /\ pri = [t \in Threads |-> 0] /\ making = {} /\ shared = <<>>
        /\ out = 0 /\ made = 0 /\ peak = 0

Next == \E t \in Threads : \/ GetOwn(t) \/ GetBlock(t) \/ CreateFreeBlock(t)
                           \/ Put(t) \/ ThreadEnds(t)

Spec == Init /\ [][Next]_vars

\* The places of the free objects in the threads' own blocks.
Held == {place \in Threads \X (1..(2 * BlockSize - 1)) : place[2] <= pri[place[1]]}

\* Type invariant, and the pool does not grow without need: no object is lost
\* or in two places, the shared blocks are full ones, and what exists exceeds
\* the most that was ever in use by what the threads' own blocks can hold
\* back, whichever threads get and whichever put.
PoolBounded ==
  /\ \A t \in Threads : pri[t] \in 0..(2 * BlockSize - 1)
  /\ making \subseteq {t \in Threads : pri[t] = 0}
  /\ \A i \in DOMAIN shared : shared[i] = 2 * BlockSize
  /\ made = out + Cardinality(Held) + Len(shared) * 2 * BlockSize
  /\ made <= peak + (Cardinality(Threads) - 1) * (2 * BlockSize - 1) + BlockSize

=============================================================================
