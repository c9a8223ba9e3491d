------------------------------- MODULE MCShared -------------------------------
(***************************************************************************)
(* What threads share: futures, wait groups, the object pool and the       *)
(* locked queue.  They do not use each other; `part` says which of them    *)
(* the threads of a behaviour use.                                         *)
(***************************************************************************)
EXTENDS Future

CONSTANTS
  t1, t2, val,                                     \* model values
  Home, Total, Modulus, MaxDones, MaxAsyncDones,   \* WaitGroup, AsyncWaitGroup
  MaxTotal, MaxAdds, CountModulus,                 \* CountGroup
  BlockSize, MaxOut,                               \* ObjectPool
  MaxPushes                                        \* SyncQueue

VARIABLES
  part,
  size, waiter, dones, hurried,                              \* WaitGroup
  remaining, at, posted, doneCalls, finished, gone, meddled, fault, \* AsyncWaitGroup
  count, batch, left, stale, adds, allDone, belated,         \* CountGroup
  pri, making, shared, out, made_, peak,                     \* ObjectPool
  queue, holder, stuck, pushed, local, taken, misused        \* SyncQueue

waitVars  == <<size, waiter, dones, hurried>>
asyncVars == <<remaining, at, posted, doneCalls, finished, gone, meddled, fault>>
countVars == <<count, batch, left, stale, adds, allDone, belated>>
poolVars  == <<pri, making, shared, out, made_, peak>>
queueVars == <<queue, holder, stuck, pushed, local, taken, misused>>

allVars == <<part, vars, waitVars, asyncVars, countVars, poolVars, queueVars>>

TwoThreads == {t1, t2}
OneValue   == {val}
RulesAll   == AllRules

Wait  == INSTANCE WaitGroup WITH broken <- hurried
Async == INSTANCE AsyncWaitGroup WITH MaxDones <- MaxAsyncDones,
           size <- remaining, dones <- doneCalls, broken <- meddled
Count == INSTANCE CountGroup WITH Modulus <- CountModulus, broken <- belated
Pool  == INSTANCE ObjectPool WITH made <- made_
Queue == INSTANCE SyncQueue WITH broken <- misused

MCInit ==
  /\ part \in {"future", "wait", "async", "count", "pool", "queue"}
  /\ Init /\ Wait!Init /\ Async!Init /\ Count!Init /\ Pool!Init /\ Queue!Init

MCNext ==
  /\ UNCHANGED part
  /\ \/ /\ part = "future" /\ Next
        /\ UNCHANGED <<waitVars, asyncVars, countVars, poolVars, queueVars>>
     \/ /\ part = "wait" /\ Wait!Next
        /\ UNCHANGED <<vars, asyncVars, countVars, poolVars, queueVars>>
     \/ /\ part = "async" /\ Async!Next
        /\ UNCHANGED <<vars, waitVars, countVars, poolVars, queueVars>>
     \/ /\ part = "count" /\ Count!Next
        /\ UNCHANGED <<vars, waitVars, asyncVars, poolVars, queueVars>>
     \/ /\ part = "pool" /\ Pool!Next
        /\ UNCHANGED <<vars, waitVars, asyncVars, countVars, queueVars>>
     \/ /\ part = "queue" /\ Queue!Next
        /\ UNCHANGED <<vars, waitVars, asyncVars, countVars, poolVars>>

\* Of the parts that a behaviour does not use, no step is ever enabled.
MCSpec == /\ MCInit /\ [][MCNext]_allVars
          /\ \A t \in Threads : WF_vars(Step(t))
          /\ Wait!Fairness /\ Async!Fairness

-----------------------------------------------------------------------------

\* A wait group is passed when it is done, and reports it once.
Groups == Wait!PassedWhenDone /\ Async!FinishedOnce /\ Count!AllDoneInTime

\* Who waits for a group, or reports to it, returns.
GroupsEnd == Wait!WaitReturns /\ Async!DoneReturns

\* An object of the pool has one user, what was pushed into the queue is
\* popped once, in order, and neither grows beyond its use.
HandedOutOnce == Pool!PoolBounded /\ Queue!LeavesInOrder

=============================================================================
