---------------------------- MODULE AsyncWaitGroup ----------------------------
(***************************************************************************)
(* The AsyncWaitGroup of spiderweb_waiter.h: the Done that brings the      *)
(* counter to zero emits Finished while it still holds the mutex.  The     *)
(* slot runs inside that Done when the thread is the receiver's, and is    *)
(* posted to the receiver's loop otherwise.                                *)
(***************************************************************************)
EXTENDS Naturals, FiniteSets

CONSTANTS
  Threads,
  Home,      \* the thread of the receiver of Finished
  Total, Modulus, MaxDones

VARIABLES
  size,     \* Private::size
  at,       \* where each thread is: "out", "slot" or "unlock" with the mutex
            \* held, "slotFree" without it, "stuck" on a mutex it holds
  posted,   \* Finished slots queued at Home
  dones,    \* calls of Done
  finished, \* emissions of Finished
  gone,     \* the group was deleted
  broken,   \* the rules of use that were broken
  fault     \* a freed mutex was used

vars == <<size, at, posted, dones, finished, gone, broken, fault>>

\* "quietSlot": the slot of Finished neither calls Done nor deletes the group.
\* "noExtra":   Done is called Total times at most.
Free == \A t \in Threads : at[t] \in {"out", "slotFree"}

Idle(t) == at[t] = "out"

\* Mutant: emits at every Done.
Emits_Always(n) == TRUE

Emits(n) == n = 0

\* Lock, count down, and emit when nothing is left.
Done(t) ==
  /\ Idle(t) /\ Free /\ ~gone /\ dones < MaxDones
  /\ dones' = dones + 1
  /\ size' = (size + Modulus - 1) % Modulus
  /\ broken' = broken \cup (IF size = 0 THEN {"noExtra"} ELSE {})
  /\ IF Emits(size') THEN
          /\ finished' = finished + 1
          /\ at' = [at EXCEPT ![t] = IF t = Home THEN "slot" ELSE "unlock"]
          /\ posted' = posted + (IF t = Home THEN 0 ELSE 1)
     ELSE /\ at' = [at EXCEPT ![t] = "unlock"]
          /\ UNCHANGED <<finished, posted>>
  /\ UNCHANGED <<gone, fault>>

\* Mutant: the mutex is kept when Done returns.
Unlock_Never(t) ==
  /\ at[t] = "unlock" /\ ~gone
  /\ UNCHANGED vars

\* The end of Done. The mutex may have been deleted by a posted slot.
Unlock(t) ==
  /\ at[t] = "unlock"
  /\ at' = [at EXCEPT ![t] = "out"]
  /\ fault' = gone
  /\ UNCHANGED <<size, posted, dones, finished, gone, broken>>

\* The loop of Home runs a posted slot.
RunPosted ==
  /\ Idle(Home) /\ posted > 0
  /\ posted' = posted - 1
  /\ at' = [at EXCEPT ![Home] = "slotFree"]
  /\ UNCHANGED <<size, dones, finished, gone, broken, fault>>

SlotReturns ==
  /\ at[Home] \in {"slot", "slotFree"}
  /\ at' = [at EXCEPT ![Home] = IF at[Home] = "slot" THEN "unlock" ELSE "out"]
  /\ UNCHANGED <<size, posted, dones, finished, gone, broken, fault>>

\* Done inside a slot that runs inside Done never gets the mutex.
SlotDone ==
  /\ at[Home] = "slot" /\ ~gone
  /\ at' = [at EXCEPT ![Home] = "stuck"]
  /\ broken' = broken \cup {"quietSlot"}
  /\ UNCHANGED <<size, posted, dones, finished, gone, fault>>

SlotDeletes ==
  /\ at[Home] \in {"slot", "slotFree"} /\ ~gone
  /\ gone' = TRUE
  /\ broken' = broken \cup {"quietSlot"}
  /\ UNCHANGED <<size, at, posted, dones, finished, fault>>

Init == /\ size = Total /\ at = [t \in Threads |-> "out"] /\ posted = 0
        /\ dones = 0 /\ finished = 0 /\ gone = FALSE /\ broken = {}
        /\ fault = FALSE

Next == \/ \E t \in Threads : Done(t) \/ Unlock(t)
        \/ RunPosted \/ SlotReturns \/ SlotDone \/ SlotDeletes

\* Threads leave Done, and the loop and the slots go on.
Fairness == /\ \A t \in Threads : WF_vars(Unlock(t))
            /\ WF_vars(RunPosted) /\ WF_vars(SlotReturns)

Spec == Init /\ [][Next]_vars /\ Fairness

\* Type invariant. Finished comes once, with the last Done and not before,
\* on whichever thread that is; no deleted mutex is unlocked - for slots that
\* leave the group alone.
FinishedOnce ==
  /\ size \in 0..(Modulus - 1) /\ dones \in 0..MaxDones
  /\ at \in [Threads -> {"out", "slot", "slotFree", "unlock", "stuck"}]
  /\ posted \in Nat /\ finished \in Nat /\ gone \in BOOLEAN
  /\ broken = {} => ~fault /\ finished = (IF dones >= Total THEN 1 ELSE 0)

\* Whoever calls Done gets out of it again.
DoneReturns ==
  \A t \in Threads : at[t] \in {"slot", "unlock"}
                       ~> at[t] = "out" \/ broken # {}

=============================================================================
