------------------------------ MODULE CountGroup ------------------------------
(***************************************************************************)
(* The AsyncWaitGroup of spiderweb_async_wait_group.h: a counter that one  *)
(* thread sets, clears and counts down.  The tasks that call Done belong   *)
(* to the Add that counted them; tasks of an earlier Add, or of one that   *)
(* was cleared, may still be on their way.                                 *)
(***************************************************************************)
EXTENDS Naturals

CONSTANTS
  MaxTotal,  \* bound: tasks of one Add
  MaxAdds,   \* bound: calls of Add
  Modulus    \* 2^32: the counter is unsigned

VARIABLES
  count,   \* count_
  batch,   \* tasks of the last Add, none after Clear
  left,    \* those that have not called Done
  stale,   \* tasks of earlier Adds that have not
  adds,    \* calls of Add
  allDone, \* emissions of AllDone since the last Add or Clear
  broken   \* the rules of use that were broken

vars == <<count, batch, left, stale, adds, allDone, broken>>

\* "noStale": a task of an earlier Add does not call Done after the next one.
Add(total) ==
  /\ adds < MaxAdds
  /\ count' = total
  /\ batch' = total
  /\ left' = total
  /\ stale' = stale + left
  /\ adds' = adds + 1
  /\ allDone' = 0
  /\ UNCHANGED broken

Clear ==
  /\ count' = 0
  /\ batch' = 0
  /\ left' = 0
  /\ stale' = stale + left
  /\ allDone' = 0
  /\ UNCHANGED <<adds, broken>>

\* Mutant: counts down after it looked.
Counted_Late == count

\* The counter wraps below zero: the assertion that it does not cannot fail.
Counted == (count + Modulus - 1) % Modulus

Done ==
  /\ count' = Counted
  /\ allDone' = allDone + (IF Counted = 0 THEN 1 ELSE 0)

TaskDone ==
  /\ left > 0
  /\ Done
  /\ left' = left - 1
  /\ UNCHANGED <<batch, stale, adds, broken>>

StaleDone ==
  /\ stale > 0
  /\ Done
  /\ stale' = stale - 1
  /\ broken' = broken \cup (IF left > 0 THEN {"noStale"} ELSE {})
  /\ UNCHANGED <<batch, left, adds>>

Init == /\ count = 0 /\ batch = 0 /\ left = 0 /\ stale = 0 /\ adds = 0 /\ allDone = 0
        /\ broken = {}

Next == \/ \E total \in 0..MaxTotal : Add(total)
        \/ Clear \/ TaskDone \/ StaleDone

Spec == Init /\ [][Next]_vars

\* Type invariant. AllDone comes when the last task of the last Add is done,
\* once and not before, and never for a batch that was cleared, whatever the
\* late tasks of cleared batches do to the counter, which they wrap.
AllDoneInTime ==
  /\ count \in 0..(Modulus - 1) /\ left \in Nat /\ stale \in Nat
  /\ left \in 0..batch
  /\ broken = {} => /\ left > 0 => count = left
                    /\ allDone = (IF batch > 0 /\ left = 0 THEN 1 ELSE 0)

=============================================================================
