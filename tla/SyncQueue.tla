------------------------------- MODULE SyncQueue -------------------------------
(***************************************************************************)
(* SyncUnboundedQueue<T> and the SynchronizedLocker of Synchronized<T>: a  *)
(* queue behind a mutex that is not recursive.  PushBack, PopFront, Swap   *)
(* and the copy are one step each; FrontDo, BackDo and WithLock run the    *)
(* user's function while they hold the mutex.                              *)
(***************************************************************************)
EXTENDS Naturals, SequencesExt

CONSTANTS
  Threads,
  MaxPushes   \* bound: elements each thread pushes

VARIABLES
  queue,    \* queue_: its elements, known by who pushed them and how many before
  holder,   \* the thread that holds mutex_, <<>> when it is free
  stuck,    \* threads that wait for a mutex they hold
  pushed,   \* elements each thread pushed
  local,    \* the queue each thread passes to Swap, and what it still holds
  taken,    \* history: elements taken, in order, by PopFront and Swap
  broken    \* the rules of use that were broken

vars == <<queue, holder, stuck, pushed, local, taken, broken>>

\* "quietFunction": the function of FrontDo, BackDo and WithLock does not use
\* the queue.
\* "emptySwap": the queue passed to Swap is empty.
CanLock(t) == holder = <<>> /\ t \notin stuck

\* Mutant: pushes at the front.
Pushed_Front(e) == <<e>> \o queue

Pushed(e) == Append(queue, e)

PushBack(t) ==
  /\ CanLock(t) /\ pushed[t] < MaxPushes
  /\ queue' = Pushed([by |-> t, n |-> pushed[t] + 1])
  /\ pushed' = [pushed EXCEPT ![t] = @ + 1]
  /\ UNCHANGED <<holder, stuck, local, taken, broken>>

\* Elements that were put back may be taken for ever; taken stops then.
Took(elements) ==
  taken' = IF "emptySwap" \in broken' THEN taken ELSE taken \o elements

\* FALSE when the queue is empty, which changes nothing.
PopFront(t) ==
  /\ CanLock(t) /\ queue # <<>>
  /\ queue' = Tail(queue)
  /\ UNCHANGED <<holder, stuck, pushed, local, broken>>
  /\ Took(<<Head(queue)>>)

\* What the queue passed in still held goes into the shared one.
Swap(t) ==
  /\ CanLock(t)
  /\ queue' = local[t]
  /\ local' = [local EXCEPT ![t] = queue]
  /\ broken' = broken \cup (IF local[t] = <<>> THEN {} ELSE {"emptySwap"})
  /\ Took(queue)
  /\ UNCHANGED <<holder, stuck, pushed>>

\* The thread is through with what it took.
DropLocal(t) ==
  /\ t \notin stuck /\ local[t] # <<>>
  /\ local' = [local EXCEPT ![t] = <<>>]
  /\ UNCHANGED <<queue, holder, stuck, pushed, taken, broken>>

\* FrontDo and BackDo call the function when there is an element.
Do(t) ==
  /\ CanLock(t) /\ queue # <<>>
  /\ holder' = <<t>>
  /\ UNCHANGED <<queue, stuck, pushed, local, taken, broken>>

FunctionUsesQueue(t) ==
  /\ holder = <<t>> /\ t \notin stuck
  /\ stuck' = stuck \cup {t}
  /\ broken' = broken \cup {"quietFunction"}
  /\ UNCHANGED <<queue, holder, pushed, local, taken>>

\* The function returns, or the locker goes: only one that was not moved from.
Unlock(t) ==
  /\ holder = <<t>> /\ t \notin stuck
  /\ holder' = <<>>
  /\ UNCHANGED <<queue, stuck, pushed, local, taken, broken>>

Init == /\ queue = <<>> /\ holder = <<>> /\ stuck = {} /\ taken = <<>>
        /\ pushed = [t \in Threads |-> 0] /\ broken = {}
        /\ local = [t \in Threads |-> <<>>]

Next == \E t \in Threads : \/ PushBack(t) \/ PopFront(t) \/ Swap(t)
                           \/ DropLocal(t) \/ Do(t) \/ FunctionUsesQueue(t)
                           \/ Unlock(t)

Spec == Init /\ [][Next]_vars

\* Every element ever pushed, in the order in which they leave the queue.
All == taken \o queue

\* Type invariant, and what each thread pushed leaves the queue once and in
\* its order, through PopFront and Swap in any mix; a thread waits for ever
\* only when its own function used the queue.
LeavesInOrder ==
  /\ holder \in {<<>>} \cup {<<t>> : t \in Threads}
  /\ \A t \in stuck : holder = <<t>> /\ "quietFunction" \in broken
  /\ "emptySwap" \notin broken =>
       /\ \A i \in DOMAIN All : All[i].n \in 1..pushed[All[i].by]
       /\ \A t \in Threads : \A n \in 1..pushed[t] :
            \E i \in DOMAIN All : All[i] = [by |-> t, n |-> n]
       /\ \A i, j \in DOMAIN All :
            All[i].by = All[j].by => (i < j <=> All[i].n < All[j].n)

=============================================================================
