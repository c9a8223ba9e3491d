------------------------------ MODULE WaitGroup ------------------------------
(***************************************************************************)
(* WaitGroup: a counter under a mutex and a condition variable.  Done and  *)
(* the two looks at the counter in Wait hold the mutex from end to end, so *)
(* each of them is one step; a sleeper gives the mutex back.               *)
(***************************************************************************)
EXTENDS Naturals, FiniteSets

CONSTANTS
  Threads,
  Total,     \* the size the group was made with
  Modulus,   \* 2^32: the counter is unsigned
  MaxDones   \* bound: calls of Done

VARIABLES
  size,    \* Private::size
  waiter,  \* what each thread's Wait is at
  dones,   \* calls of Done
  broken   \* the rules of use that were broken

vars == <<size, waiter, dones, broken>>

\* "oneWaiter": at most one thread is in Wait at a time.
\* "noExtra":   Done is called Total times at most.
InWait == {t \in Threads : waiter[t] \in {"sleeping", "woken"}}

Sleepers == {t \in Threads : waiter[t] = "sleeping"}

\* Mutant: wakes nobody.
NotifyOne_Nobody == waiter' = waiter

\* notify_one wakes one sleeper, whichever, if there is any.
NotifyOne ==
  IF Sleepers = {} THEN waiter' = waiter
  ELSE \E t \in Sleepers : waiter' = [waiter EXCEPT ![t] = "woken"]

Done ==
  /\ dones < MaxDones
  /\ size' = (size + Modulus - 1) % Modulus
  /\ dones' = dones + 1
  /\ NotifyOne
  /\ broken' = broken \cup (IF size = 0 THEN {"noExtra"} ELSE {})

\* Mutant: a wake-up is taken for the end.
Look_Once(t) ==
  waiter' = [waiter EXCEPT ![t] = IF waiter[t] = "idle" /\ size > 0
                                  THEN "sleeping" ELSE "returned"]

\* The loop of Wait: sleep again while anything is left.
Look(t) ==
  waiter' = [waiter EXCEPT ![t] = IF size > 0 THEN "sleeping"
                                              ELSE "returned"]

Wait(t) ==
  /\ waiter[t] = "idle"
  /\ Look(t)
  /\ broken' = broken \cup (IF InWait # {} THEN {"oneWaiter"} ELSE {})
  /\ UNCHANGED <<size, dones>>

Resume(t) ==
  /\ waiter[t] = "woken"
  /\ Look(t)
  /\ UNCHANGED <<size, dones, broken>>

\* A condition variable may wake a thread that nobody notified.
WakesByItself(t) ==
  /\ waiter[t] = "sleeping"
  /\ waiter' = [waiter EXCEPT ![t] = "woken"]
  /\ UNCHANGED <<size, dones, broken>>

Init == /\ size = Total
        /\ waiter = [t \in Threads |-> "idle"]
        /\ dones = 0
        /\ broken = {}

Next == \/ Done
        \/ \E t \in Threads : Wait(t) \/ Resume(t) \/ WakesByItself(t)

\* A woken thread runs on; nobody has to call Done, and no thread wakes by
\* itself.
Fairness == \A t \in Threads : WF_vars(Resume(t))

Spec == Init /\ [][Next]_vars /\ Fairness

\* Type invariant, and nobody passes the group early: Wait returns only when
\* Done was called Total times, whatever woke the waiter.
PassedWhenDone ==
  /\ size \in 0..(Modulus - 1) /\ dones \in 0..MaxDones
  /\ waiter \in [Threads -> {"idle", "sleeping", "woken", "returned"}]
  /\ \A t \in Threads : waiter[t] = "returned" => dones >= Total

\* A thread that waits alone for a group that is done does not sleep on.
WaitReturns ==
  \A t \in Threads : t \in InWait /\ size = 0 /\ broken = {}
                       ~> waiter[t] = "returned" \/ broken # {}

=============================================================================
