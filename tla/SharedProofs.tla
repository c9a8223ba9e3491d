----------------------------- MODULE SharedProofs -----------------------------
(***************************************************************************)
(* Proofs about what threads share, for any threads, any sizes of groups   *)
(* and pools and any width of the counters.                                *)
(***************************************************************************)
EXTENDS MCShared, FiniteSetTheorems, TLAPS

-----------------------------------------------------------------------------
\* The wait group.

\* What the types of the code give: the size fits into the counter.
Sizes == Total \in Nat /\ Modulus \in Nat /\ Total < Modulus /\ MaxDones \in Nat

\* The counter of an unsigned type goes down by one, unless it is zero.
LEMMA CountsDown ==
  ASSUME NEW m \in Nat, m > 0, NEW n \in 0..(m - 1)
  PROVE  /\ (n + m - 1) % m \in 0..(m - 1)
         /\ n > 0 => (n + m - 1) % m = n - 1
<1>1. (n + m - 1) % m \in 0..(m - 1)
  OBVIOUS
<1>2. ASSUME n > 0 PROVE (n + m - 1) % m = n - 1
  BY <1>2
<1> QED BY <1>1, <1>2

WaiterStates == {"idle", "sleeping", "woken", "returned"}

\* The safety half of WaitReturns: no thread that waits alone is asleep when
\* the count is down to zero, so none misses the wake-up between its look at
\* the counter and its sleep.
NoMissedWake == hurried = {} /\ size = 0 => Wait!Sleepers = {}

\* Until it was counted down Total times the counter is what is left, and a
\* thread that keeps to the rules waits alone.
WaitInv ==
  /\ Wait!PassedWhenDone
  /\ dones <= Total => size = Total - dones
  /\ NoMissedWake
  /\ hurried = {} => \A t, u \in Wait!InWait : t = u

LEMMA WaitInit ==
  ASSUME Sizes, Wait!Init PROVE WaitInv
BY DEF Sizes, Wait!Init, WaitInv, Wait!PassedWhenDone, NoMissedWake, Wait!Sleepers, Wait!InWait

LEMMA WaitDoneStep ==
  ASSUME Sizes, WaitInv, Wait!Done PROVE WaitInv'
<1>1. /\ dones < MaxDones /\ dones' = dones + 1 /\ Wait!NotifyOne
      /\ size' = (size + Modulus - 1) % Modulus
      /\ hurried' = hurried \cup (IF size = 0 THEN {"noExtra"} ELSE {})
  BY DEF Wait!Done
<1>2. /\ size \in 0..(Modulus - 1) /\ dones \in Nat /\ Modulus > 0
      /\ Total \in Nat /\ Modulus \in Nat /\ Total < Modulus
      /\ MaxDones \in Nat /\ waiter \in [Threads -> WaiterStates]
  BY DEF WaitInv, Wait!PassedWhenDone, Sizes, WaiterStates
<1>3. size' \in 0..(Modulus - 1) /\ (size > 0 => size' = size - 1)
  BY <1>1, <1>2, CountsDown
<1>4. dones' <= Total => size' = Total - dones'
  BY <1>1, <1>2, <1>3 DEF WaitInv
<1>5. /\ waiter' \in [Threads -> WaiterStates]
      /\ \A t \in Threads : \/ waiter'[t] = waiter[t]
                            \/ waiter[t] = "sleeping" /\ waiter'[t] = "woken"
      /\ Wait!Sleepers # {} => \E t \in Wait!Sleepers : waiter'[t] = "woken"
  BY <1>1, <1>2 DEF Wait!NotifyOne, WaiterStates, Wait!Sleepers
<1>6. Wait!PassedWhenDone'
  <2>1. \A t \in Threads : waiter'[t] = "returned" => dones' >= Total
    BY <1>1, <1>2, <1>5 DEF WaitInv, Wait!PassedWhenDone
  <2> QED BY <1>1, <1>2, <1>3, <1>5, <2>1 DEF Wait!PassedWhenDone, WaiterStates
<1>7. hurried' = {} => hurried = {} /\ size > 0
  BY <1>1, <1>2
<1>8. Wait!InWait' = Wait!InWait /\ Wait!Sleepers \subseteq Wait!InWait /\ Wait!Sleepers' \subseteq Wait!Sleepers
  BY <1>5 DEF Wait!InWait, Wait!Sleepers
<1>9. ASSUME hurried' = {} PROVE \A t, u \in Wait!InWait' : t = u
  BY <1>7, <1>8, <1>9 DEF WaitInv
<1>10. ASSUME hurried' = {} PROVE Wait!Sleepers' = {}
  <2>1. \A t, u \in Wait!Sleepers : t = u
    BY <1>7, <1>8, <1>10 DEF WaitInv
  <2>2. \A t \in Wait!Sleepers : waiter'[t] = "woken"
    BY <1>5, <2>1
  <2> QED BY <1>8, <2>2 DEF Wait!Sleepers
<1> QED BY <1>4, <1>6, <1>9, <1>10 DEF WaitInv, NoMissedWake

\* A thread looks at the counter, in Wait or when it is woken.
LEMMA LookStep ==
  ASSUME Sizes, WaitInv, NEW t \in Threads, Wait!Look(t), UNCHANGED <<size, dones>>,
         hurried' = {} => hurried = {} /\ \A u \in Wait!InWait : u = t
  PROVE  WaitInv'
<1>1. /\ waiter \in [Threads -> WaiterStates] /\ waiter' \in [Threads -> WaiterStates]
      /\ \A u \in Threads : u # t => waiter'[u] = waiter[u]
      /\ waiter'[t] = IF size > 0 THEN "sleeping" ELSE "returned"
  BY DEF WaitInv, Wait!PassedWhenDone, Wait!Look, WaiterStates
<1>2. size \in Nat /\ dones \in Nat /\ Total \in Nat
  BY DEF WaitInv, Wait!PassedWhenDone, Sizes
<1>3. Wait!PassedWhenDone'
  <2>1. ASSUME NEW u \in Threads, waiter'[u] = "returned" PROVE dones >= Total
    <3>1. CASE u # t
      BY <1>1, <2>1, <3>1 DEF WaitInv, Wait!PassedWhenDone
    <3>2. CASE u = t
      <4>1. size = 0
        BY <1>1, <1>2, <2>1, <3>2
      <4> QED BY <1>2, <4>1 DEF WaitInv
    <3> QED BY <3>1, <3>2
  <2> QED BY <1>1, <2>1 DEF WaitInv, Wait!PassedWhenDone, WaiterStates
<1>4. Wait!InWait' \subseteq Wait!InWait \cup {t}
  BY <1>1 DEF Wait!InWait
<1>5. ASSUME hurried' = {}, size = 0 PROVE Wait!Sleepers' = {}
  BY <1>1, <1>5 DEF WaitInv, NoMissedWake, Wait!Sleepers
<1> QED BY <1>3, <1>4, <1>5 DEF WaitInv, NoMissedWake

LEMMA WakesByItselfStep ==
  ASSUME WaitInv, NEW t \in Threads, Wait!WakesByItself(t) PROVE WaitInv'
<1>1. /\ waiter[t] = "sleeping" /\ waiter' = [waiter EXCEPT ![t] = "woken"]
      /\ UNCHANGED <<size, dones, hurried>>
      /\ waiter \in [Threads -> WaiterStates]
  BY DEF Wait!WakesByItself, WaitInv, Wait!PassedWhenDone, WaiterStates
<1>2. Wait!InWait' = Wait!InWait /\ Wait!Sleepers' \subseteq Wait!Sleepers
  BY <1>1 DEF Wait!InWait, Wait!Sleepers
<1>3. Wait!PassedWhenDone'
  BY <1>1 DEF WaitInv, Wait!PassedWhenDone, WaiterStates
<1> QED BY <1>1, <1>2, <1>3 DEF WaitInv, NoMissedWake

LEMMA WaitNext ==
  ASSUME Sizes, WaitInv, [Wait!Next]_(Wait!vars) PROVE WaitInv'
<1>1. ASSUME NEW t \in Threads, Wait!Wait(t) PROVE WaitInv'
  <2>1. hurried' = {} => hurried = {} /\ Wait!InWait = {}
    BY <1>1 DEF Wait!Wait
  <2> QED BY <1>1, <2>1, LookStep DEF Wait!Wait
<1>2. ASSUME NEW t \in Threads, Wait!Resume(t) PROVE WaitInv'
  <2>1. t \in Wait!InWait
    BY <1>2 DEF Wait!Resume, Wait!InWait
  <2>2. hurried' = {} => hurried = {} /\ \A u \in Wait!InWait : u = t
    BY <1>2, <2>1 DEF Wait!Resume, WaitInv
  <2> QED BY <1>2, <2>2, LookStep DEF Wait!Resume
<1>3. CASE UNCHANGED Wait!vars
  BY <1>3 DEF Wait!vars, WaitInv, Wait!PassedWhenDone, NoMissedWake, Wait!Sleepers, Wait!InWait
<1> QED BY <1>1, <1>2, <1>3, WaitDoneStep, WakesByItselfStep DEF Wait!Next

LEMMA WaitInductive ==
  ASSUME Sizes PROVE Wait!Spec => []WaitInv
<1>1. Wait!Init => WaitInv
  BY WaitInit
<1>2. WaitInv /\ [Wait!Next]_(Wait!vars) => WaitInv'
  BY WaitNext
<1> QED BY <1>1, <1>2, PTL DEF Wait!Spec

\* Wait lets nobody pass before Done was called Total times, whatever wakes
\* the threads, and however many of them wait.
THEOREM PassSafety ==
  ASSUME Sizes PROVE Wait!Spec => []Wait!PassedWhenDone
<1>1. WaitInv => Wait!PassedWhenDone
  BY DEF WaitInv
<1> QED BY <1>1, WaitInductive, PTL

\* A thread that waits alone is not asleep when the count reaches zero: the
\* mutex leaves no gap between its look at the counter and its sleep.
THEOREM WakeSafety ==
  ASSUME Sizes PROVE Wait!Spec => []NoMissedWake
<1>1. WaitInv => NoMissedWake
  BY DEF WaitInv
<1> QED BY <1>1, WaitInductive, PTL

-----------------------------------------------------------------------------
\* The wait group that emits Finished.

AsyncTypes ==
  /\ remaining \in 0..(Modulus - 1) /\ doneCalls \in 0..MaxAsyncDones
  /\ at \in [Threads -> {"out", "slot", "slotFree", "unlock", "stuck"}]
  /\ posted \in Nat /\ finished \in Nat /\ gone \in BOOLEAN

\* As long as the rules are kept the counter is what is left, and the group
\* is there to be unlocked.
AsyncCounts ==
  /\ ~gone /\ ~fault
  /\ doneCalls <= Total /\ remaining = Total - doneCalls
  /\ finished = IF doneCalls >= Total THEN 1 ELSE 0

AsyncInv == AsyncTypes /\ (meddled = {} => AsyncCounts)

\* What the types of the code give, for a group that was made for some task.
AsyncSizes ==
  Total \in Nat \ {0} /\ Modulus \in Nat /\ Total < Modulus /\ MaxAsyncDones \in Nat

LEMMA AsyncDoneStep ==
  ASSUME AsyncSizes, AsyncInv, NEW t \in Threads, Async!Done(t) PROVE AsyncInv'
<1>1. /\ doneCalls < MaxAsyncDones /\ doneCalls' = doneCalls + 1
      /\ remaining' = (remaining + Modulus - 1) % Modulus
      /\ meddled' = meddled \cup (IF remaining = 0 THEN {"noExtra"} ELSE {})
      /\ UNCHANGED <<gone, fault>>
  BY DEF Async!Done
<1>2. /\ remaining \in 0..(Modulus - 1) /\ doneCalls \in Nat /\ Modulus > 0
      /\ Total \in Nat /\ Total > 0 /\ Modulus \in Nat /\ Total < Modulus
      /\ MaxAsyncDones \in Nat
  BY DEF AsyncInv, AsyncTypes, AsyncSizes
<1>3. remaining' \in 0..(Modulus - 1) /\ (remaining > 0 => remaining' = remaining - 1)
  BY <1>1, <1>2, CountsDown
<1>4. \/ /\ remaining' = 0 /\ finished' = finished + 1
         /\ at' = [at EXCEPT ![t] = IF t = Home THEN "slot" ELSE "unlock"]
         /\ posted' = posted + (IF t = Home THEN 0 ELSE 1)
      \/ /\ remaining' # 0 /\ at' = [at EXCEPT ![t] = "unlock"]
         /\ UNCHANGED <<finished, posted>>
  BY DEF Async!Done, Async!Emits
<1>5. AsyncTypes'
  BY <1>1, <1>2, <1>3, <1>4 DEF AsyncInv, AsyncTypes
<1>6. ASSUME meddled' = {} PROVE AsyncCounts'
  <2>1. meddled = {} /\ remaining > 0
    BY <1>1, <1>2, <1>6
  <2>2. AsyncCounts /\ remaining' = remaining - 1
    BY <1>3, <2>1 DEF AsyncInv
  <2>3. doneCalls' <= Total /\ remaining' = Total - doneCalls' /\ finished = 0
    BY <1>1, <1>2, <2>1, <2>2 DEF AsyncCounts
  <2>4. finished' = IF doneCalls' >= Total THEN 1 ELSE 0
    BY <1>1, <1>2, <1>4, <2>3
  <2> QED BY <1>1, <2>2, <2>3, <2>4 DEF AsyncCounts
<1> QED BY <1>5, <1>6 DEF AsyncInv

LEMMA AsyncNext ==
  ASSUME AsyncSizes, AsyncInv, [Async!Next]_(Async!vars) PROVE AsyncInv'
<1>1. ASSUME NEW t \in Threads, Async!Unlock(t) PROVE AsyncInv'
  BY <1>1 DEF Async!Unlock, AsyncInv, AsyncTypes, AsyncCounts
<1>2. CASE Async!RunPosted
  <2>1. /\ posted > 0 /\ posted' = posted - 1
        /\ at' = [at EXCEPT ![Home] = "slotFree"]
        /\ UNCHANGED <<remaining, doneCalls, finished, gone, meddled, fault>>
    BY <1>2 DEF Async!RunPosted
  <2>2. posted \in Nat => posted' \in Nat
    BY <2>1
  <2> QED BY <2>1, <2>2 DEF AsyncInv, AsyncTypes, AsyncCounts
<1>3. CASE Async!SlotReturns
  <2>1. /\ \E where \in {"unlock", "out"} : at' = [at EXCEPT ![Home] = where]
        /\ UNCHANGED <<remaining, posted, doneCalls, finished, gone, meddled, fault>>
    BY <1>3 DEF Async!SlotReturns
  <2> QED BY <2>1 DEF AsyncInv, AsyncTypes, AsyncCounts
<1>4. CASE Async!SlotDone \/ Async!SlotDeletes
  <2>1. meddled' # {}
    BY <1>4 DEF Async!SlotDone, Async!SlotDeletes
  <2> QED BY <1>4, <2>1 DEF Async!SlotDone, Async!SlotDeletes, AsyncInv, AsyncTypes
<1>5. CASE UNCHANGED Async!vars
  BY <1>5 DEF Async!vars, AsyncInv, AsyncTypes, AsyncCounts
<1> QED BY <1>1, <1>2, <1>3, <1>4, <1>5, AsyncDoneStep DEF Async!Next

\* Finished comes once, with the last Done and not before, and no deleted
\* mutex is unlocked, for slots that leave the group alone.
LEMMA FinishedSafety ==
  ASSUME AsyncSizes PROVE Async!Spec => []Async!FinishedOnce
<1>1. Async!Init => AsyncInv
  <2> SUFFICES ASSUME Async!Init PROVE AsyncTypes /\ AsyncCounts
    BY DEF AsyncInv
  <2>1. AsyncTypes
    <3>1. /\ remaining \in 0..(Modulus - 1) /\ doneCalls \in 0..MaxAsyncDones
          /\ posted \in Nat /\ finished \in Nat
      BY DEF AsyncSizes, Async!Init
    <3>2. /\ at \in [Threads -> {"out", "slot", "slotFree", "unlock", "stuck"}]
          /\ gone \in BOOLEAN
      BY DEF Async!Init
    <3> QED BY <3>1, <3>2 DEF AsyncTypes
  <2>2. AsyncCounts
    BY DEF AsyncSizes, Async!Init, AsyncCounts
  <2> QED BY <2>1, <2>2
<1>2. AsyncInv /\ [Async!Next]_(Async!vars) => AsyncInv'
  BY AsyncNext
<1>3. AsyncInv => Async!FinishedOnce
  BY DEF AsyncInv, AsyncTypes, AsyncCounts, Async!FinishedOnce
<1> QED BY <1>1, <1>2, <1>3, PTL DEF Async!Spec

-----------------------------------------------------------------------------
\* The group of Adds.

\* All tasks that are ever made are fewer than the counter has values.
CountSizes ==
  /\ MaxTotal \in Nat /\ MaxAdds \in Nat /\ CountModulus \in Nat
  /\ MaxTotal * MaxAdds < CountModulus

CountTypes ==
  /\ count \in 0..(CountModulus - 1) /\ left \in Nat /\ stale \in Nat /\ batch \in Nat
  /\ left <= batch /\ adds \in 0..MaxAdds
  /\ stale + left <= MaxTotal * adds

\* While tasks of the last Add are left the counter is theirs. After them it
\* is zero or has wrapped, too far up for the late tasks to bring it down.
Countdown ==
  /\ left > 0 => count = left
  /\ left = 0 => count = 0 \/ count > stale
  /\ allDone = IF batch > 0 /\ left = 0 THEN 1 ELSE 0

CountInv == CountTypes /\ (belated = {} => Countdown)

LEMMA FewerThanCounter ==
  ASSUME CountSizes, CountTypes PROVE stale + left < CountModulus /\ CountModulus > 0
<1>1. /\ MaxTotal \in Nat /\ MaxAdds \in Nat /\ CountModulus \in Nat
      /\ MaxTotal * MaxAdds < CountModulus
      /\ adds \in Nat /\ adds <= MaxAdds /\ left \in Nat /\ stale \in Nat
      /\ stale + left <= MaxTotal * adds
  BY DEF CountSizes, CountTypes
<1>2. PICK d \in Nat : MaxAdds = adds + d
  <2>1. MaxAdds - adds \in Nat /\ MaxAdds = adds + (MaxAdds - adds)
    BY <1>1
  <2> QED BY <2>1
<1>3. MaxTotal * (adds + d) = MaxTotal * adds + MaxTotal * d /\ MaxTotal * d >= 0
  BY <1>1
<1>4. MaxTotal * adds \in Nat /\ MaxTotal * MaxAdds \in Nat /\ MaxTotal * d \in Nat
  BY <1>1
<1> QED BY <1>1, <1>2, <1>3, <1>4

LEMMA AddStep ==
  ASSUME CountSizes, CountInv, NEW total \in 0..MaxTotal, Count!Add(total)
  PROVE  CountInv'
<1>1. /\ adds < MaxAdds /\ adds' = adds + 1 /\ allDone' = 0
      /\ count' = total /\ batch' = total /\ left' = total
      /\ stale' = stale + left /\ total \in Nat /\ total <= MaxTotal
  BY DEF Count!Add, CountSizes
<1>2. /\ left \in Nat /\ stale \in Nat /\ adds \in Nat /\ MaxTotal \in Nat
      /\ MaxAdds \in Nat /\ stale + left <= MaxTotal * adds /\ CountModulus \in Nat
  BY DEF CountInv, CountTypes, CountSizes
<1>3. MaxTotal * (adds + 1) = MaxTotal * adds + MaxTotal /\ MaxTotal * adds \in Nat
  BY <1>2
<1>4. stale' + left' <= MaxTotal * adds'
  BY <1>1, <1>2, <1>3
<1>5. total < CountModulus
  <2>1. PICK d \in Nat : MaxAdds = 1 + d
    <3>1. MaxAdds - 1 \in Nat /\ MaxAdds = 1 + (MaxAdds - 1)
      BY <1>1, <1>2
    <3> QED BY <3>1
  <2>2. MaxTotal * (1 + d) = MaxTotal + MaxTotal * d /\ MaxTotal * d \in Nat
    BY <1>2
  <2> QED BY <1>1, <1>2, <2>1, <2>2 DEF CountSizes
<1>6. CountTypes'
  BY <1>1, <1>2, <1>4, <1>5 DEF CountTypes
<1>7. Countdown'
  BY <1>1 DEF Countdown
<1> QED BY <1>6, <1>7 DEF CountInv

LEMMA CountNext ==
  ASSUME CountSizes, CountInv, [Count!Next]_(Count!vars) PROVE CountInv'
<1>1. /\ left \in Nat /\ stale \in Nat /\ batch \in Nat /\ left <= batch
      /\ count \in 0..(CountModulus - 1) /\ CountModulus \in Nat
      /\ adds \in 0..MaxAdds /\ stale + left <= MaxTotal * adds
      /\ MaxTotal * adds \in Nat
      /\ stale + left < CountModulus /\ CountModulus > 0
  BY FewerThanCounter DEF CountInv, CountTypes, CountSizes
<1>2. Count!Done => /\ count' \in 0..(CountModulus - 1)
                    /\ count > 0 => count' = count - 1
                    /\ count = 0 => count' = CountModulus - 1
                    /\ allDone' = allDone + (IF count' = 0 THEN 1 ELSE 0)
  <2>1. (count + CountModulus - 1) % CountModulus \in 0..(CountModulus - 1)
    BY <1>1, CountsDown
  <2>2. count > 0 => (count + CountModulus - 1) % CountModulus = count - 1
    BY <1>1, CountsDown
  <2>3. count = 0 => (count + CountModulus - 1) % CountModulus = CountModulus - 1
    BY <1>1
  <2> QED BY <2>1, <2>2, <2>3 DEF Count!Done, Count!Counted
<1>3. CASE Count!Clear
  BY <1>1, <1>3 DEF Count!Clear, CountInv, CountTypes, Countdown
<1>4. CASE Count!TaskDone
  <2>1. /\ left > 0 /\ left' = left - 1 /\ Count!Done
        /\ UNCHANGED <<batch, stale, adds, belated>>
    BY <1>4 DEF Count!TaskDone
  <2>2. CountTypes'
    BY <1>1, <1>2, <2>1 DEF CountTypes
  <2>3. ASSUME belated = {} PROVE Countdown'
    <3>1. count = left /\ allDone = 0
      BY <1>1, <2>1, <2>3 DEF CountInv, Countdown
    <3> QED BY <1>1, <1>2, <2>1, <3>1 DEF Countdown
  <2> QED BY <2>1, <2>2, <2>3 DEF CountInv
<1>5. CASE Count!StaleDone
  <2>1. /\ stale > 0 /\ stale' = stale - 1 /\ Count!Done
        /\ belated' = belated \cup (IF left > 0 THEN {"noStale"} ELSE {})
        /\ UNCHANGED <<batch, left, adds>>
    BY <1>5 DEF Count!StaleDone
  <2>2. CountTypes'
    BY <1>1, <1>2, <2>1 DEF CountTypes
  <2>3. ASSUME belated' = {} PROVE Countdown'
    <3>1. belated = {} /\ left = 0
      BY <1>1, <2>1, <2>3
    <3>2. count = 0 \/ count > stale
      BY <3>1 DEF CountInv, Countdown
    <3>3. count' > stale' /\ count' # 0
      BY <1>1, <1>2, <2>1, <3>1, <3>2
    <3>4. allDone = IF batch > 0 /\ left = 0 THEN 1 ELSE 0
      BY <3>1 DEF CountInv, Countdown
    <3>5. allDone' = allDone
      BY <1>2, <2>1, <3>3, <3>4
    <3> QED BY <2>1, <3>1, <3>3, <3>4, <3>5 DEF Countdown
  <2> QED BY <2>2, <2>3 DEF CountInv
<1>6. CASE UNCHANGED Count!vars
  BY <1>6 DEF Count!vars, CountInv, CountTypes, Countdown
<1> QED BY <1>3, <1>4, <1>5, <1>6, AddStep DEF Count!Next

\* AllDone comes with the last task of the last Add, once, whatever the late
\* tasks of cleared batches do to the counter.
LEMMA AllDoneSafety ==
  ASSUME CountSizes PROVE Count!Spec => []Count!AllDoneInTime
<1>1. Count!Init => CountInv
  <2> SUFFICES ASSUME Count!Init PROVE CountInv
    OBVIOUS
  <2>1. MaxTotal * 0 = 0 /\ MaxTotal * MaxAdds \in Nat
    BY DEF CountSizes
  <2> QED BY <2>1 DEF CountSizes, Count!Init, CountInv, CountTypes, Countdown
<1>2. CountInv /\ [Count!Next]_(Count!vars) => CountInv'
  BY CountNext
<1>3. CountInv => Count!AllDoneInTime
  BY DEF CountInv, CountTypes, Countdown, Count!AllDoneInTime
<1> QED BY <1>1, <1>2, <1>3, PTL DEF Count!Spec

\* The three groups together: nobody passes Wait early, Finished comes once
\* and AllDone with the last task, for all threads and sizes.
THEOREM GroupsSafety ==
  ASSUME Sizes, AsyncSizes, CountSizes
  PROVE  Wait!Spec /\ Async!Spec /\ Count!Spec => []Groups
<1>1. Wait!PassedWhenDone /\ Async!FinishedOnce /\ Count!AllDoneInTime => Groups
  BY DEF Groups
<1> QED BY <1>1, PassSafety, FinishedSafety, AllDoneSafety, PTL

-----------------------------------------------------------------------------
\* Futures: the frames of the threads' stacks, and the continuations in them.

Conts    == [kind : Kinds, next : Ids \cup {0}, to : Ids \cup {0}]
TokenOps == {"attach", "late", "deliver"}
FrameSet == [op : {"resolve"}, f : Ids, r : Results]
              \cup [op : TokenOps, f : Ids, c : Conts] \cup [op : {"user"}, c : Conts]
Stacks   == [Threads -> Seq(FrameSet)]

\* Two frames hold a continuation of the same future, or run the same one.
Same(a, b) ==
  \/ a.op \in TokenOps /\ b.op \in TokenOps /\ a.f = b.f
  \/ a.op = "user" /\ b.op = "user" /\ a.c.next = b.c.next

In(S, a) == \E t \in Threads : \E i \in 1..Len(S[t]) : S[t][i] = a

Unique(S) ==
  \A t, w \in Threads : \A i \in 1..Len(S[t]), j \in 1..Len(S[w]) :
    Same(S[t][i], S[w][j]) => t = w /\ i = j

\* A stack without its innermost frame, or with one more.
Popped(S, t)    == [S EXCEPT ![t] = Tail(@)]
Pushed(S, t, a) == [S EXCEPT ![t] = <<a>> \o @]
Replaced(S, t, frames) == [S EXCEPT ![t] = frames \o Tail(@)]
Cleared(S, t)   == [S EXCEPT ![t] = <<>>]

LEMMA SameSymmetric == \A a, b : Same(a, b) => Same(b, a)
BY DEF Same

\* A thread is through with its innermost frame.
LEMMA PopFrame ==
  ASSUME NEW S \in Stacks, Unique(S), NEW t \in Threads, S[t] # <<>>
  PROVE  /\ Popped(S, t) \in Stacks /\ Unique(Popped(S, t)) /\ Head(S[t]) \in FrameSet
         /\ \A a : In(S, a) <=> (a = Head(S[t]) \/ In(Popped(S, t), a))
         /\ \A a : In(Popped(S, t), a) => ~Same(a, Head(S[t])) /\ a \in FrameSet
<1> DEFINE B == Popped(S, t)
<1>0. B = [S EXCEPT ![t] = Tail(@)]
  BY DEF Popped
<1> HIDE DEF B
<1> DEFINE s == S[t]
<1>1. /\ s \in Seq(FrameSet) /\ Tail(s) \in Seq(FrameSet) /\ Len(s) \in Nat
      /\ Len(s) >= 1 /\ Len(Tail(s)) = Len(s) - 1
      /\ Head(s) = s[1] /\ Head(s) \in FrameSet
      /\ \A i \in 1..Len(Tail(s)) : Tail(s)[i] = s[i + 1]
  BY DEF Stacks
<1>2. /\ B \in Stacks /\ B[t] = Tail(s)
      /\ \A w \in Threads : w # t => B[w] = S[w]
  BY <1>0, <1>1 DEF Stacks
<1>3. /\ \A i \in 1..Len(B[t]) : /\ i + 1 \in 1..Len(S[t]) /\ S[t][i + 1] = B[t][i]
                                 /\ i + 1 # 1 /\ i \in Nat
      /\ \A i \in 1..Len(S[t]) : i # 1 => i - 1 \in 1..Len(B[t]) /\ B[t][i - 1] = S[t][i]
      /\ 1 \in 1..Len(S[t]) /\ S[t][1] = Head(S[t])
  <2>1. \A i \in 1..Len(Tail(s)) : i + 1 \in 1..Len(s) /\ i + 1 # 1 /\ i \in Nat
    BY <1>1
  <2>2. \A i \in 1..Len(s) : i # 1 => i - 1 \in 1..Len(Tail(s)) /\ (i - 1) + 1 = i
    BY <1>1
  <2>3. 1 \in 1..Len(s)
    BY <1>1
  <2> QED BY <1>1, <1>2, <2>1, <2>2, <2>3
<1> HIDE DEF s
<1>4. \A a : In(S, a) <=> (a = Head(S[t]) \/ In(B, a))
  <2>1. ASSUME NEW a, In(S, a) PROVE a = Head(S[t]) \/ In(B, a)
    <3>1. PICK w \in Threads : \E i \in 1..Len(S[w]) : S[w][i] = a
      BY <2>1 DEF In
    <3>2. CASE w # t
      BY <1>2, <3>1, <3>2 DEF In
    <3>3. CASE w = t
      BY <1>3, <3>1, <3>3 DEF In
    <3> QED BY <3>2, <3>3
  <2>2. ASSUME NEW a, In(B, a) PROVE In(S, a)
    <3>1. PICK w \in Threads : \E i \in 1..Len(B[w]) : B[w][i] = a
      BY <2>2 DEF In
    <3>2. CASE w # t
      BY <1>2, <3>1, <3>2 DEF In
    <3>3. CASE w = t
      <4>1. PICK i \in 1..Len(B[t]) : B[t][i] = a
        BY <3>1, <3>3
      <4>2. i + 1 \in 1..Len(S[t]) /\ S[t][i + 1] = a
        BY <1>3, <4>1
      <4> QED BY <4>2 DEF In
    <3> QED BY <3>2, <3>3
  <2>3. In(S, Head(S[t]))
    BY <1>3 DEF In
  <2> QED BY <2>1, <2>2, <2>3
<1>5. Unique(B)
  <2> SUFFICES ASSUME NEW v \in Threads, NEW w \in Threads,
                      NEW i \in 1..Len(B[v]), NEW j \in 1..Len(B[w]),
                      Same(B[v][i], B[w][j])
               PROVE  v = w /\ i = j
    BY DEF Unique
  <2> DEFINE Place(x, k) == IF x = t THEN k + 1 ELSE k
  <2>1. Place(v, i) \in 1..Len(S[v]) /\ S[v][Place(v, i)] = B[v][i]
    BY <1>2, <1>3
  <2>2. Place(w, j) \in 1..Len(S[w]) /\ S[w][Place(w, j)] = B[w][j]
    BY <1>2, <1>3
  <2>3. v = w /\ Place(v, i) = Place(w, j)
    BY <2>1, <2>2 DEF Unique
  <2>4. i \in Int /\ j \in Int
    OBVIOUS
  <2> QED BY <2>3, <2>4
<1>6. ASSUME NEW a, In(B, a) PROVE ~Same(a, Head(S[t])) /\ a \in FrameSet
  <2>1. PICK w \in Threads : \E i \in 1..Len(B[w]) : B[w][i] = a
    BY <1>6 DEF In
  <2>2. PICK i \in 1..Len(B[w]) : B[w][i] = a
    BY <2>1
  <2>3. a \in FrameSet
    BY <1>2, <2>2 DEF Stacks
  <2>4. CASE w # t
    <3>1. i \in 1..Len(S[w]) /\ S[w][i] = a
      BY <1>2, <2>2, <2>4
    <3> QED BY <1>3, <2>3, <2>4, <3>1 DEF Unique
  <2>5. CASE w = t
    <3>1. i + 1 \in 1..Len(S[t]) /\ S[t][i + 1] = a /\ i + 1 # 1
      BY <1>3, <2>2, <2>5
    <3> QED BY <1>3, <2>3, <3>1 DEF Unique
  <2> QED BY <2>4, <2>5
<1> QED BY <1>1, <1>2, <1>4, <1>5, <1>6 DEF s, B

\* A thread calls, with a frame that no other is the same as.
LEMMA PushFrame ==
  ASSUME NEW B \in Stacks, Unique(B), NEW t \in Threads, NEW a \in FrameSet,
         \A b : In(B, b) => ~Same(b, a)
  PROVE  /\ Pushed(B, t, a) \in Stacks /\ Unique(Pushed(B, t, a))
         /\ \A b : In(Pushed(B, t, a), b) <=> (b = a \/ In(B, b))
<1> DEFINE A == Pushed(B, t, a)
<1>0. A = [B EXCEPT ![t] = <<a>> \o @]
  BY DEF Pushed
<1> HIDE DEF A
<1> DEFINE s == B[t]
<1> DEFINE r == <<a>> \o s
<1>1. /\ s \in Seq(FrameSet) /\ r \in Seq(FrameSet) /\ Len(s) \in Nat
      /\ Len(r) = Len(s) + 1 /\ r[1] = a
      /\ \A i \in 1..Len(s) : r[i + 1] = s[i]
  <2>1. s \in Seq(FrameSet) /\ <<a>> \in Seq(FrameSet) /\ Len(<<a>>) = 1
    BY DEF Stacks
  <2> HIDE DEF s
  <2> QED BY <2>1
<1>2. /\ A \in Stacks /\ A[t] = r
      /\ \A w \in Threads : w # t => A[w] = B[w]
  BY <1>0, <1>1 DEF Stacks
<1>3. /\ \A i \in 1..Len(B[t]) : i + 1 \in 1..Len(A[t]) /\ A[t][i + 1] = B[t][i]
      /\ \A i \in 1..Len(A[t]) : i # 1 => /\ i - 1 \in 1..Len(B[t])
                                          /\ B[t][i - 1] = A[t][i]
      /\ 1 \in 1..Len(A[t]) /\ A[t][1] = a
  <2>1. \A i \in 1..Len(s) : i + 1 \in 1..Len(r)
    BY <1>1
  <2>2. \A i \in 1..Len(r) : i # 1 => i - 1 \in 1..Len(s) /\ (i - 1) + 1 = i
    BY <1>1
  <2>3. 1 \in 1..Len(r)
    BY <1>1
  <2> HIDE DEF r
  <2>4. \A i \in 1..Len(r) : i # 1 => i - 1 \in 1..Len(s) /\ s[i - 1] = r[i]
    BY <1>1, <2>2
  <2> QED BY <1>1, <1>2, <2>1, <2>3, <2>4
<1> HIDE DEF r, s
<1>4. \A b : In(A, b) <=> (b = a \/ In(B, b))
  <2>1. ASSUME NEW b, In(A, b) PROVE b = a \/ In(B, b)
    <3>1. PICK w \in Threads : \E i \in 1..Len(A[w]) : A[w][i] = b
      BY <2>1 DEF In
    <3>2. CASE w # t
      BY <1>2, <3>1, <3>2 DEF In
    <3>3. CASE w = t
      BY <1>3, <3>1, <3>3 DEF In
    <3> QED BY <3>2, <3>3
  <2>2. ASSUME NEW b, In(B, b) PROVE In(A, b)
    <3>1. PICK w \in Threads : \E i \in 1..Len(B[w]) : B[w][i] = b
      BY <2>2 DEF In
    <3>2. CASE w # t
      BY <1>2, <3>1, <3>2 DEF In
    <3>3. CASE w = t
      BY <1>3, <3>1, <3>3 DEF In
    <3> QED BY <3>2, <3>3
  <2>3. In(A, a)
    BY <1>3 DEF In
  <2> QED BY <2>1, <2>2, <2>3
<1>5. Unique(A)
  <2> SUFFICES ASSUME NEW v \in Threads, NEW w \in Threads,
                      NEW i \in 1..Len(A[v]), NEW j \in 1..Len(A[w]),
                      Same(A[v][i], A[w][j])
               PROVE  v = w /\ i = j
    BY DEF Unique
  <2> DEFINE New(x, k) == x = t /\ k = 1
  <2> DEFINE Place(x, k) == IF x = t THEN k - 1 ELSE k
  <2>1. ASSUME NEW x \in Threads, NEW k \in 1..Len(A[x]), ~New(x, k)
        PROVE  /\ Place(x, k) \in 1..Len(B[x]) /\ B[x][Place(x, k)] = A[x][k]
               /\ In(B, A[x][k])
    <3>1. Place(x, k) \in 1..Len(B[x]) /\ B[x][Place(x, k)] = A[x][k]
      BY <1>2, <1>3, <2>1
    <3> HIDE DEF Place
    <3> QED BY <3>1 DEF In
  <2>2. \A x, k : New(x, k) => A[x][k] = a
    BY <1>3
  <2>3. CASE New(v, i) /\ New(w, j)
    BY <2>3
  <2>4. CASE New(v, i) /\ ~New(w, j)
    BY <2>1, <2>2, <2>4, SameSymmetric
  <2>5. CASE ~New(v, i) /\ New(w, j)
    BY <2>1, <2>2, <2>5
  <2>6. CASE ~New(v, i) /\ ~New(w, j)
    <3>1. Place(v, i) \in 1..Len(B[v]) /\ B[v][Place(v, i)] = A[v][i]
      BY <2>1, <2>6
    <3>2. Place(w, j) \in 1..Len(B[w]) /\ B[w][Place(w, j)] = A[w][j]
      BY <2>1, <2>6
    <3>3. v = w /\ Place(v, i) = Place(w, j)
      <4> DEFINE p == Place(v, i)
      <4> DEFINE q == Place(w, j)
      <4>1. p \in 1..Len(B[v]) /\ q \in 1..Len(B[w])
        BY <3>1, <3>2
      <4>2. Same(B[v][p], B[w][q])
        BY <3>1, <3>2
      <4> HIDE DEF p, q
      <4>3. v = w /\ p = q
        BY <4>1, <4>2 DEF Unique
      <4> QED BY <4>3 DEF p, q
    <3>4. i \in Int /\ j \in Int
      OBVIOUS
    <3> QED BY <3>3, <3>4
  <2> QED BY <2>3, <2>4, <2>5, <2>6
<1> QED BY <1>2, <1>4, <1>5 DEF A

\* A thread is unwound.
LEMMA ClearFrames ==
  ASSUME NEW S \in Stacks, Unique(S), NEW t \in Threads
  PROVE  /\ Cleared(S, t) \in Stacks /\ Unique(Cleared(S, t))
         /\ \A a : In(Cleared(S, t), a) => In(Popped(S, t), a)
<1> DEFINE A == Cleared(S, t)
<1> DEFINE B == Popped(S, t)
<1>1. /\ A \in Stacks
      /\ \A w \in Threads : \/ A[w] = S[w] /\ B[w] = S[w]
                            \/ A[w] = <<>>
  BY DEF Stacks, Cleared, Popped
<1> HIDE DEF A, B
<1>2. \A w \in Threads : \A i \in 1..Len(A[w]) :
        i \in 1..Len(S[w]) /\ A[w] = S[w] /\ B[w] = S[w]
  BY <1>1
<1>3. Unique(A) /\ \A a : In(A, a) => In(B, a)
  BY <1>1, <1>2 DEF Unique, In
<1> QED BY <1>1, <1>3 DEF A, B

\* The three ways in which a frame is replaced.
LEMMA BecomesFrames ==
  ASSUME NEW S \in Stacks, NEW t \in Threads, S[t] # <<>>,
         NEW a \in FrameSet, NEW b \in FrameSet
  PROVE  /\ Replaced(S, t, <<>>) = Popped(S, t)
         /\ Replaced(S, t, <<a>>) = Pushed(Popped(S, t), t, a)
         /\ Replaced(S, t, <<a, b>>) = Pushed(Pushed(Popped(S, t), t, b), t, a)
<1> DEFINE B == [S EXCEPT ![t] = Tail(@)]
<1> DEFINE s == Tail(S[t])
<1>1. s \in Seq(FrameSet)
  BY DEF Stacks
<1>2. <<>> \o s = s
  <2> HIDE DEF s
  <2> QED BY <1>1
<1>3. <<a, b>> \o s = <<a>> \o (<<b>> \o s)
  <2> HIDE DEF s
  <2> DEFINE q == <<a, b>> \o s
  <2> DEFINE r == <<b>> \o s
  <2> DEFINE p == <<a>> \o r
  <2>1. /\ r \in Seq(FrameSet) /\ Len(r) = Len(s) + 1 /\ Len(s) \in Nat
        /\ \A i \in 1..Len(r) : r[i] = IF i = 1 THEN b ELSE s[i - 1]
    BY <1>1
  <2>2. /\ q \in Seq(FrameSet) /\ Len(q) = Len(s) + 2
        /\ \A i \in 1..Len(q) : q[i] = IF i = 1 THEN a ELSE IF i = 2 THEN b ELSE s[i - 2]
    BY <1>1
  <2> HIDE DEF q, r
  <2>3. /\ p \in Seq(FrameSet) /\ Len(p) = Len(r) + 1
        /\ \A i \in 1..Len(p) : p[i] = IF i = 1 THEN a ELSE r[i - 1]
    BY <2>1
  <2> HIDE DEF p
  <2>4. \A i \in 1..Len(p) : p[i] = q[i]
    <3> TAKE i \in 1..Len(p)
    <3>1. i \in Int /\ (i # 1 => i - 1 \in 1..Len(r)) /\ i \in 1..Len(q)
          /\ (i # 2 => i - 1 # 1) /\ (i - 1) - 1 = i - 2
      BY <2>1, <2>2, <2>3
    <3>2. CASE i = 1
      BY <2>2, <2>3, <3>1, <3>2
    <3>3. CASE i = 2
      <4>1. p[i] = r[1] /\ 1 \in 1..Len(r)
        BY <2>1, <2>3, <3>1, <3>3
      <4> QED BY <2>1, <2>2, <3>1, <3>3, <4>1
    <3>4. CASE i # 1 /\ i # 2
      <4>1. p[i] = r[i - 1]
        BY <2>3, <3>4
      <4>2. r[i - 1] = s[i - 2]
        BY <2>1, <3>1, <3>4
      <4> QED BY <2>2, <3>1, <3>4, <4>1, <4>2
    <3> QED BY <3>2, <3>3, <3>4
  <2>5. Len(p) = Len(q)
    BY <2>1, <2>2, <2>3
  <2>6. p = q
    BY <2>2, <2>3, <2>4, <2>5
  <2> QED BY <2>6 DEF p, q, r
<1>4. B[t] = s /\ B = [S EXCEPT ![t] = s]
  BY DEF Stacks
<1> HIDE DEF s
<1>5. [S EXCEPT ![t] = <<a>> \o s] = [B EXCEPT ![t] = <<a>> \o B[t]]
  BY <1>4
<1>6. [S EXCEPT ![t] = <<>> \o s] = B
  BY <1>2, <1>4
<1>7. [S EXCEPT ![t] = <<a, b>> \o s]
        = [[B EXCEPT ![t] = <<b>> \o @] EXCEPT ![t] = <<a>> \o @]
  BY <1>3, <1>4 DEF Stacks
<1> QED BY <1>5, <1>6, <1>7 DEF s, Popped, Pushed, Replaced

LEMMA BecomesFrame ==
  ASSUME NEW S \in Stacks, NEW t \in Threads, S[t] # <<>>, NEW a \in FrameSet
  PROVE  Replaced(S, t, <<a>>) = Pushed(Popped(S, t), t, a)
BY BecomesFrames

\* The futures' invariant.

\* What Then set aside for a callback that returns a future is untouched.
Spare(m) ==
  /\ m + 2 \in 1..made
  /\ origin[m+1].kind = "lazy" /\ origin[m+2] = From("forward", 0)
  /\ given[m+2] = <<>>
  /\ \A n \in Ids : origin[n].of # m + 1 /\ origin[n].of # m + 2

\* A continuation of f that was not given anything.
ValidToken(f, c) ==
  /\ f \in 1..made /\ c \in Conts
  /\ c.kind = "forwardError" => /\ c.next = 0
                                /\ origin[f].kind = "forward" /\ origin[f].of # 0
  /\ c.kind # "forwardError" => /\ c.next \in 1..made
                                /\ origin[c.next] = From(c.kind, f)
                                /\ given[c.next] = <<>>
  /\ c.kind = "forward" => c.to \in 1..made
  /\ c.kind = "thenFuture" => Spare(c.next)

ValidCallback(c) ==
  /\ c \in Conts /\ c.kind \in {"then", "onError", "thenFuture"}
  /\ c.next \in 1..made /\ given[c.next] # <<>>
  /\ c.kind = "thenFuture" => Spare(c.next)

Valid(a) ==
  /\ a.op = "resolve" => a.f \in 1..made /\ a.r \in Results
  /\ a.op \in TokenOps => ValidToken(a.f, a.c)
  /\ a.op \in {"late", "deliver"} => state[a.f] = "finished"
  /\ a.op = "user" => ValidCallback(a.c)

\* Then or OnError was called on f.
Attached(f) == \/ \E n \in Ids : origin[n].of = f
               \/ origin[f].kind = "forward" /\ origin[f].of # 0

\* No thread holds a continuation of f; one holds that of the future n.
NoToken(f) == \A a \in FrameSet : In(stack, a) /\ a.op \in TokenOps => a.f # f
Carried(n) == \E a \in FrameSet : In(stack, a) /\ a.op \in TokenOps /\ a.c.next = n

Origins == [kind : Kinds \cup {"made", "lazy"}, of : Ids \cup {0}]

FutureTypes ==
  /\ made \in 0..MaxFutures
  /\ origin \in [Ids -> Origins]
  /\ state \in [Ids -> {"pending", "finished"}]
  /\ resolved \in [Ids -> Results]
  /\ then \in [Ids -> Seq(Conts)]
  /\ stack \in Stacks
  /\ first \in [Ids -> Seq(Results)]
  /\ given \in [Ids \cup {0} -> Seq(Results)]

Numbered ==
  \A f \in Ids : /\ origin[f].of <= made
                 /\ f > made => given[f] = <<>> /\ origin[f].of = 0

\* A context has its result from when it is finished, and no continuation.
Settled ==
  \A f \in Ids : /\ state[f] = "finished" <=> first[f] # <<>>
                 /\ first[f] = <<>> \/ \E r \in Results : first[f] = <<r>>
                 /\ state[f] = "finished" => then[f] = <<>>

\* Its continuation is in the context or with one thread, never in both.
Waiting ==
  \A f \in Ids : then[f] # <<>> =>
    /\ NoToken(f)
    /\ \E c \in Conts : then[f] = <<c>> /\ ValidToken(f, c)

\* The result stays until the only continuation was given it.
Unmoved ==
  \A f \in Ids : state[f] = "finished" /\ first[f] # <<resolved[f]>> =>
    Attached(f) /\ NoToken(f)

GivenFirst ==
  \A n \in Ids : given[n] # <<>> =>
    origin[n].of # 0 /\ given[n] = first[origin[n].of]

Reached ==
  \A n \in Ids : origin[n].of # 0 /\ ~thrown =>
    \/ given[n] # <<>> \/ Carried(n)
    \/ then[origin[n].of] # <<>> /\ then[origin[n].of][1].next = n

FramesValid == \A a \in FrameSet : In(stack, a) => Valid(a)

FutureInv ==
  /\ FutureTypes /\ Numbered /\ Settled /\ Waiting /\ Unmoved /\ GivenFirst
  /\ Reached /\ FramesValid /\ Unique(stack)

\* The frames that steps make.
LEMMA FrameForms ==
  /\ \A f \in Ids, r \in Results :
       /\ Resolving(f, r) \in FrameSet /\ Resolving(f, r).op = "resolve"
       /\ Resolving(f, r).f = f /\ Resolving(f, r).r = r
       /\ \A b : ~Same(b, Resolving(f, r))
  /\ \A f \in Ids, c \in Conts :
       /\ Delivering(f, c) \in FrameSet /\ Delivering(f, c).op = "deliver"
       /\ Delivering(f, c).f = f /\ Delivering(f, c).c = c
       /\ Attaching(f, c) \in FrameSet /\ Attaching(f, c).op = "attach"
       /\ Attaching(f, c).f = f /\ Attaching(f, c).c = c
       /\ Late(f, c) \in FrameSet /\ Late(f, c).op = "late"
       /\ Late(f, c).f = f /\ Late(f, c).c = c
  /\ \A c \in Conts :
       InCallback(c) \in FrameSet /\ InCallback(c).op = "user" /\ InCallback(c).c = c
<1>1. ASSUME NEW f \in Ids, NEW r \in Results
      PROVE  /\ Resolving(f, r) \in FrameSet /\ Resolving(f, r).op = "resolve"
             /\ Resolving(f, r).f = f /\ Resolving(f, r).r = r
             /\ \A b : ~Same(b, Resolving(f, r))
  <2>1. /\ Resolving(f, r) \in FrameSet /\ Resolving(f, r).op = "resolve"
        /\ Resolving(f, r).f = f /\ Resolving(f, r).r = r
    BY DEF Resolving, FrameSet
  <2> QED BY <2>1 DEF Same, TokenOps
<1>2. ASSUME NEW f \in Ids, NEW c \in Conts
      PROVE  /\ Delivering(f, c) \in FrameSet /\ Delivering(f, c).op = "deliver"
             /\ Delivering(f, c).f = f /\ Delivering(f, c).c = c
             /\ Attaching(f, c) \in FrameSet /\ Attaching(f, c).op = "attach"
             /\ Attaching(f, c).f = f /\ Attaching(f, c).c = c
             /\ Late(f, c) \in FrameSet /\ Late(f, c).op = "late"
             /\ Late(f, c).f = f /\ Late(f, c).c = c
  BY DEF Delivering, Attaching, Late, FrameSet, TokenOps
<1>3. ASSUME NEW c \in Conts
      PROVE  InCallback(c) \in FrameSet /\ InCallback(c).op = "user" /\ InCallback(c).c = c
  BY DEF InCallback, FrameSet
<1> QED BY <1>1, <1>2, <1>3

\* Every frame is of one of the three kinds.
LEMMA FrameKinds ==
  \A a \in FrameSet :
    /\ a.op \in {"resolve", "user"} \cup TokenOps
    /\ a.op = "resolve" => a.f \in Ids /\ a.r \in Results
    /\ a.op \in TokenOps => a.f \in Ids /\ a.c \in Conts
    /\ a.op = "user" => a.c \in Conts
BY DEF FrameSet, TokenOps

\* Who holds a continuation of f has attached it.
LEMMA HeldIsAttached ==
  ASSUME FutureAssumption, FutureInv
  PROVE  /\ \A a \in FrameSet : In(stack, a) /\ a.op \in TokenOps => Attached(a.f)
         /\ \A f \in Ids : then[f] # <<>> => Attached(f)
<1>1. \A f, c : ValidToken(f, c) => Attached(f)
  <2> SUFFICES ASSUME NEW f, NEW c, ValidToken(f, c) PROVE Attached(f)
    OBVIOUS
  <2>1. CASE c.kind = "forwardError"
    BY <2>1 DEF ValidToken, Attached
  <2>2. CASE c.kind # "forwardError"
    <3>1. c.next \in 1..made /\ origin[c.next] = From(c.kind, f)
      BY <2>2 DEF ValidToken
    <3>2. c.next \in Ids
      BY <3>1 DEF FutureAssumption, FutureInv, FutureTypes, Ids
    <3>3. From(c.kind, f).of = f
      BY DEF From
    <3> QED BY <3>1, <3>2, <3>3 DEF Attached
  <2> QED BY <2>1, <2>2
<1> QED BY <1>1 DEF FutureInv, FramesValid, Valid, Waiting

\* So nothing is known of a future that nothing was called on but its result.
LEMMA NotAttached ==
  ASSUME FutureAssumption, FutureInv, NEW f \in Ids, ~Attached(f)
  PROVE  /\ NoToken(f) /\ then[f] = <<>>
         /\ state[f] = "finished" => first[f] = <<resolved[f]>>
BY HeldIsAttached DEF NoToken, FutureInv, Unmoved

LEMMA FutureInit == ASSUME FutureAssumption, Init PROVE FutureInv
<1>1. \A a : ~In(stack, a)
  BY DEF Init, In
<1>2. FutureTypes
  <2>1. Err(Gone) \in Results /\ From("made", 0) \in Origins
    BY DEF Err, Results, From, Origins
  <2>2. stack \in Stacks
    BY DEF Init, Stacks
  <2>3. made \in 0..MaxFutures
    BY DEF Init, FutureAssumption
  <2> QED BY <2>1, <2>2, <2>3 DEF Init, FutureTypes
<1>3. Numbered /\ Settled /\ Waiting /\ Unmoved /\ GivenFirst /\ Reached
  BY DEF Init, Numbered, Settled, Waiting, Unmoved, GivenFirst, Reached, From
<1>4. Unique(stack)
  BY DEF Init, Unique
<1> QED BY <1>1, <1>2, <1>3, <1>4 DEF FutureInv, FramesValid

\* What the step of a thread finds.
LEMMA Innermost ==
  ASSUME FutureInv, NEW t \in Threads, stack[t] # <<>>
  PROVE  Head(stack[t]) \in FrameSet /\ In(stack, Head(stack[t])) /\ Valid(Head(stack[t]))
<1>1. stack[t] \in Seq(FrameSet) /\ Head(stack[t]) \in FrameSet
  BY DEF FutureInv, FutureTypes, Stacks
<1>2. 1 \in 1..Len(stack[t]) /\ stack[t][1] = Head(stack[t])
  BY <1>1
<1> QED BY <1>1, <1>2 DEF In, FutureInv, FramesValid

\* What no step takes back.
Onward ==
  /\ made' \in Nat /\ made <= made'
  /\ \A n \in Ids : origin[n].of # 0 => origin'[n] = origin[n]
  /\ \A n \in 1..made : origin'[n].kind = origin[n].kind
  /\ \A f \in Ids : state[f] = "finished" => state'[f] = "finished"
  /\ \A n \in Ids : given[n] # <<>> => given'[n] # <<>>

\* What a frame or a waiting continuation needs of the step besides.
TokenKept(c) ==
  /\ c.kind # "forwardError" => given'[c.next] = given[c.next]
  /\ c.kind = "thenFuture" => Spare(c.next)'

\* So a continuation stays valid, and so does a frame.
LEMMA OnwardKeeps ==
  ASSUME FutureAssumption, FutureInv, Onward
  PROVE  /\ \A f \in Ids : Attached(f) => Attached(f)'
         /\ \A f, c : ValidToken(f, c) /\ TokenKept(c) => ValidToken(f, c)'
         /\ \A a \in FrameSet :
              /\ Valid(a)
              /\ a.op \in TokenOps => TokenKept(a.c)
              /\ a.op = "user" /\ a.c.kind = "thenFuture" => Spare(a.c.next)'
              => Valid(a)'
<1>0. /\ made \in Nat /\ made' \in Nat /\ made <= made'
      /\ \A n \in 1..made : n \in Ids /\ n \in 1..made' /\ n # 0
  BY DEF FutureInv, FutureTypes, FutureAssumption, Onward, Ids
<1>1. \A f \in Ids : Attached(f) => Attached(f)'
  <2> TAKE f \in Ids
  <2>1. f # 0
    BY DEF Ids
  <2>2. ASSUME NEW n \in Ids, origin[n].of = f PROVE origin'[n].of = f
    BY <2>1, <2>2 DEF Onward
  <2>3. ASSUME origin[f].kind = "forward", origin[f].of # 0
        PROVE  origin'[f].kind = "forward" /\ origin'[f].of # 0
    BY <2>3 DEF Onward
  <2> QED BY <2>2, <2>3 DEF Attached
<1>2. ASSUME NEW f, NEW c, ValidToken(f, c), TokenKept(c)
      PROVE  ValidToken(f, c)'
  <2>1. f \in 1..made /\ c \in Conts /\ f \in 1..made' /\ f \in Ids /\ f # 0
    BY <1>0, <1>2 DEF ValidToken
  <2>2. c.kind = "forwardError" =>
          c.next = 0 /\ origin'[f].kind = "forward" /\ origin'[f].of # 0
    <3>1. c.kind = "forwardError" =>
            c.next = 0 /\ origin[f].kind = "forward" /\ origin[f].of # 0
      BY <1>2 DEF ValidToken
    <3> QED BY <2>1, <3>1 DEF Onward
  <2>3. ASSUME c.kind # "forwardError"
        PROVE  c.next \in 1..made' /\ origin'[c.next] = From(c.kind, f)
               /\ given'[c.next] = <<>>
    <3>1. c.next \in 1..made /\ origin[c.next] = From(c.kind, f) /\ given[c.next] = <<>>
      BY <1>2, <2>3 DEF ValidToken
    <3>2. From(c.kind, f).of = f
      BY DEF From
    <3>3. origin'[c.next] = From(c.kind, f)
      BY <1>0, <2>1, <3>1, <3>2 DEF Onward
    <3>4. given'[c.next] = <<>>
      BY <1>2, <2>3, <3>1 DEF TokenKept
    <3> QED BY <1>0, <3>1, <3>3, <3>4
  <2>4. c.kind = "forward" => c.to \in 1..made'
    BY <1>0, <1>2 DEF ValidToken
  <2>5. c.kind = "thenFuture" => Spare(c.next)'
    BY <1>2 DEF TokenKept
  <2> QED BY <2>1, <2>2, <2>3, <2>4, <2>5 DEF ValidToken
<1>3. ASSUME NEW a \in FrameSet, Valid(a),
             a.op \in TokenOps => TokenKept(a.c),
             a.op = "user" /\ a.c.kind = "thenFuture" => Spare(a.c.next)'
      PROVE  Valid(a)'
  <2>1. a.op = "resolve" => a.f \in 1..made' /\ a.r \in Results
    BY <1>0, <1>3 DEF Valid
  <2>2. a.op \in TokenOps => ValidToken(a.f, a.c)'
    BY <1>2, <1>3 DEF Valid
  <2>3. a.op \in {"late", "deliver"} => state'[a.f] = "finished"
    <3>1. a.op \in {"late", "deliver"} => a.f \in Ids
      BY FrameKinds DEF TokenOps
    <3> QED BY <1>3, <3>1 DEF Valid, Onward
  <2>4. a.op = "user" => ValidCallback(a.c)'
    <3> HAVE a.op = "user"
    <3>1. ValidCallback(a.c)
      BY <1>3 DEF Valid
    <3>2. a.c.next \in 1..made' /\ given'[a.c.next] # <<>>
      BY <1>0, <3>1 DEF ValidCallback, Onward
    <3> QED BY <1>3, <3>1, <3>2 DEF ValidCallback
  <2> QED BY <2>1, <2>2, <2>3, <2>4 DEF Valid
<1> QED BY <1>1, <1>2, <1>3

\* What was set aside stays so, if the step uses none of it.
LEMMA SpareKept ==
  ASSUME FutureAssumption, FutureInv, Onward, NEW m, Spare(m), m \in Ids,
         origin'[m+2] = origin[m+2], given'[m+2] = given[m+2],
         \A n \in Ids : \/ origin'[n].of = origin[n].of
                        \/ origin'[n].of # m + 1 /\ origin'[n].of # m + 2
  PROVE  Spare(m)'
<1>1. m + 2 \in 1..made' /\ m + 1 \in 1..made
  BY DEF Spare, Onward, Ids, FutureInv, FutureTypes
<1>2. origin'[m+1].kind = "lazy"
  BY <1>1 DEF Spare, Onward
<1>3. \A n \in Ids : origin'[n].of # m + 1 /\ origin'[n].of # m + 2
  BY DEF Spare
<1> QED BY <1>1, <1>2, <1>3 DEF Spare

\* A step that makes no Then keeps all of it.
LEMMA StillKept ==
  ASSUME FutureAssumption, FutureInv, Onward, origin' = origin, given' = given
  PROVE  /\ \A f \in Ids : Attached(f) => Attached(f)'
         /\ \A f, c : ValidToken(f, c) => ValidToken(f, c)'
         /\ \A a \in FrameSet : Valid(a) => Valid(a)'
<1>1. \A m \in Ids : Spare(m) => Spare(m)'
  BY SpareKept
<1>2. /\ \A f, c : ValidToken(f, c) => TokenKept(c)
  <2> SUFFICES ASSUME NEW f, NEW c, ValidToken(f, c), c.kind = "thenFuture"
               PROVE  Spare(c.next)'
    BY DEF TokenKept
  <2>1. c.next \in Ids
    BY DEF ValidToken, FutureInv, FutureTypes, FutureAssumption, Ids
  <2> QED BY <1>1, <2>1 DEF ValidToken
<1>3. ASSUME NEW a \in FrameSet, Valid(a), a.op = "user", a.c.kind = "thenFuture"
      PROVE  Spare(a.c.next)'
  <2>1. ValidCallback(a.c)
    BY <1>3 DEF Valid
  <2>2. a.c.next \in Ids
    BY <2>1 DEF ValidCallback, FutureInv, FutureTypes, FutureAssumption, Ids
  <2> QED BY <1>1, <1>3, <2>1, <2>2 DEF ValidCallback
<1>4. \A a \in FrameSet : Valid(a) /\ a.op \in TokenOps => TokenKept(a.c)
  BY <1>2 DEF Valid
<1> QED BY <1>2, <1>3, <1>4, OnwardKeeps

\* A step that changes no context and no continuation but the stacks.
LEMMA StackStep ==
  ASSUME FutureAssumption, FutureInv, made' \in 0..MaxFutures, made <= made',
         UNCHANGED <<origin, state, resolved, then, thrown, first, given>>,
         stack' \in Stacks, Unique(stack'),
         \A f : NoToken(f) => NoToken(f)',
         \A n : Carried(n) => Carried(n)',
         \A a \in FrameSet : In(stack', a) => In(stack, a) \/ Valid(a)'
  PROVE  FutureInv'
<1>1. Onward
  BY DEF Onward, FutureAssumption
<1>2. /\ \A f \in Ids : Attached(f) => Attached(f)'
      /\ \A f, c : ValidToken(f, c) => ValidToken(f, c)'
      /\ \A a \in FrameSet : Valid(a) => Valid(a)'
  BY <1>1, StillKept
<1>3. FutureTypes'
  BY DEF FutureInv, FutureTypes
<1>4. Numbered'
  <2>1. made \in Int /\ made' \in Int /\ \A f \in Ids : f \in Int /\ origin[f].of \in Int
    BY DEF FutureInv, FutureTypes, FutureAssumption, Ids, Origins
  <2> QED BY <2>1 DEF FutureInv, Numbered
<1>5. Settled' /\ GivenFirst'
  BY DEF FutureInv, Settled, GivenFirst
<1>6. Waiting'
  BY <1>2 DEF FutureInv, Waiting
<1>7. Unmoved'
  BY <1>2 DEF FutureInv, Unmoved
<1>8. Reached'
  BY DEF FutureInv, Reached
<1>9. FramesValid'
  BY <1>2 DEF FutureInv, FramesValid
<1> QED BY <1>3, <1>4, <1>5, <1>6, <1>7, <1>8, <1>9 DEF FutureInv

LEMMA MakeKeeps ==
  ASSUME FutureAssumption, FutureInv, NEW t \in Threads, Make(t)
  PROVE  FutureInv'
<1>1. made' \in 0..MaxFutures /\ made <= made'
  BY DEF Make, FutureInv, FutureTypes, FutureAssumption
<1>2. UNCHANGED <<origin, state, resolved, then, stack, thrown, first, given>>
  BY DEF Make, history
<1>3. stack' \in Stacks /\ Unique(stack')
  BY <1>2 DEF FutureInv, FutureTypes
<1>4. /\ \A f : NoToken(f) => NoToken(f)'
      /\ \A n : Carried(n) => Carried(n)'
      /\ \A a \in FrameSet : In(stack', a) => In(stack, a)
  BY <1>2 DEF NoToken, Carried
<1> QED BY <1>1, <1>2, <1>3, <1>4, StackStep

LEMMA UserResolvesKeeps ==
  ASSUME FutureAssumption, FutureInv, NEW t \in Threads, NEW f \in Visible,
         NEW r \in Results, UserResolves(t, f, r)
  PROVE  FutureInv'
<1> DEFINE a == Resolving(f, r)
<1>1. UNCHANGED <<made, origin, state, resolved, then, thrown, first, given>>
  BY DEF UserResolves, history, contexts
<1>2. f \in 1..made /\ f \in Ids
  BY DEF Visible, Futures, Ids, FutureInv, FutureTypes, FutureAssumption
<1>3. a \in FrameSet /\ a.op = "resolve" /\ a.f = f /\ a.r = r /\ \A b : ~Same(b, a)
  BY <1>2, FrameForms
<1>4. stack' = Pushed(stack, t, a) /\ stack \in Stacks /\ Unique(stack)
  BY DEF UserResolves, Calls, Pushed, FutureInv, FutureTypes
<1> HIDE DEF a
<1>5. /\ stack' \in Stacks /\ Unique(stack')
      /\ \A b : In(stack', b) <=> (b = a \/ In(stack, b))
  BY <1>3, <1>4, PushFrame
<1>6. a.op \notin TokenOps
  BY <1>3 DEF TokenOps
<1>7. Valid(a)'
  BY <1>1, <1>2, <1>3, <1>6 DEF Valid
<1>8. \A n : NoToken(n) => NoToken(n)'
  BY <1>5, <1>6 DEF NoToken
<1>9. \A n : Carried(n) => Carried(n)'
  BY <1>5 DEF Carried
<1>10. made' \in 0..MaxFutures /\ made <= made'
  BY <1>1 DEF FutureInv, FutureTypes, FutureAssumption
<1> QED BY <1>1, <1>5, <1>7, <1>8, <1>9, <1>10, StackStep

\* A frame that is no continuation's gives way to one or none like it.
LEMMA QuietStep ==
  ASSUME FutureAssumption, FutureInv, NEW t \in Threads, stack[t] # <<>>,
         Head(stack[t]).op \notin TokenOps,
         UNCHANGED <<made, origin, state, resolved, then, thrown, first, given>>,
         \/ Becomes(t, <<>>)
         \/ \E f \in 1..made, r \in Results : Becomes(t, <<Resolving(f, r)>>)
  PROVE  FutureInv'
<1> DEFINE h == Head(stack[t])
<1> DEFINE B == Popped(stack, t)
<1>1. stack \in Stacks /\ Unique(stack)
  BY DEF FutureInv, FutureTypes
<1>2. /\ B \in Stacks /\ Unique(B) /\ h \in FrameSet
      /\ \A a : In(stack, a) <=> (a = h \/ In(B, a))
  BY <1>1, PopFrame
<1>3. made' \in 0..MaxFutures /\ made <= made'
  BY DEF FutureInv, FutureTypes, FutureAssumption
<1>4. h.op \notin TokenOps
  OBVIOUS
<1>5. CASE Becomes(t, <<>>)
  <2>1. stack' = B
    BY <1>1, <1>2, <1>5, BecomesFrames DEF Becomes, Replaced
  <2> HIDE DEF B, h
  <2>2. \A n : NoToken(n) => NoToken(n)'
    BY <1>2, <2>1 DEF NoToken
  <2>3. \A n : Carried(n) => Carried(n)'
    BY <1>2, <1>4, <2>1 DEF Carried
  <2> QED BY <1>2, <1>3, <2>1, <2>2, <2>3, StackStep
<1>6. ASSUME NEW f \in 1..made, NEW r \in Results, Becomes(t, <<Resolving(f, r)>>)
      PROVE  FutureInv'
  <2> DEFINE a == Resolving(f, r)
  <2>1. f \in Ids
    BY DEF Ids, FutureInv, FutureTypes, FutureAssumption
  <2>2. a \in FrameSet /\ a.op = "resolve" /\ a.f = f /\ a.r = r /\ \A b : ~Same(b, a)
    BY <2>1, FrameForms
  <2>3. stack' = Pushed(B, t, a)
    <3>1. stack' = Replaced(stack, t, <<a>>)
      BY <1>6 DEF Becomes, Replaced
    <3>2. Replaced(stack, t, <<a>>) = Pushed(B, t, a)
      BY <1>1, <2>2, BecomesFrame
    <3> QED BY <3>1, <3>2
  <2> HIDE DEF B, h, a
  <2>4. /\ stack' \in Stacks /\ Unique(stack')
        /\ \A b : In(stack', b) <=> (b = a \/ In(B, b))
    BY <1>2, <2>2, <2>3, PushFrame
  <2>5. a.op \notin TokenOps
    BY <2>2 DEF TokenOps
  <2>6. Valid(a)'
    BY <2>2, <2>5 DEF Valid
  <2>7. \A n : NoToken(n) => NoToken(n)'
    BY <1>2, <2>4, <2>5 DEF NoToken
  <2>8. \A n : Carried(n) => Carried(n)'
    BY <1>2, <1>4, <2>4 DEF Carried
  <2> QED BY <1>2, <1>3, <2>4, <2>6, <2>7, <2>8, StackStep
<1> QED BY <1>5, <1>6

LEMMA ReturnValueKeeps ==
  ASSUME FutureAssumption, FutureInv, NEW t \in Threads, NEW v \in Values, ReturnValue(t, v)
  PROVE  FutureInv'
<1> DEFINE c == Head(stack[t]).c
<1> DEFINE r == IF c.kind = "then" THEN Ok(v) ELSE Err(v)
<1>1. stack[t] # <<>> /\ Head(stack[t]).op = "user"
  BY DEF ReturnValue, Runs
<1>2. c.next \in 1..made
  BY <1>1, Innermost DEF Valid, ValidCallback
<1>3. r \in Results
  BY DEF Ok, Err, Results
<1>4. Becomes(t, <<Resolving(c.next, r)>>)
  BY DEF ReturnValue
<1>5. UNCHANGED <<made, origin, state, resolved, then, thrown, first, given>>
  BY DEF ReturnValue, contexts, history
<1>6. Head(stack[t]).op \notin TokenOps
  BY <1>1 DEF TokenOps
<1> QED BY <1>1, <1>2, <1>3, <1>4, <1>5, <1>6, QuietStep

LEMMA ResolveAgainKeeps ==
  ASSUME FutureAssumption, FutureInv, NEW t \in Threads, Resolve(t),
         state[Head(stack[t]).f] = "finished"
  PROVE  FutureInv'
<1>1. stack[t] # <<>> /\ Head(stack[t]).op = "resolve"
  BY DEF Resolve, Runs
<1>2. Becomes(t, <<>>) /\ UNCHANGED <<made, origin, state, resolved, then, thrown, first, given>>
  BY DEF Resolve
<1>3. Head(stack[t]).op \notin TokenOps
  BY <1>1 DEF TokenOps
<1> QED BY <1>1, <1>2, <1>3, QuietStep

LEMMA AttachLateKeeps ==
  ASSUME FutureAssumption, FutureInv, NEW t \in Threads, Attach(t),
         NEW h, h = Head(stack[t]), state[h.f] = "finished"
  PROVE  FutureInv'
<1> DEFINE B == Popped(stack, t)
<1> DEFINE a == Late(h.f, h.c)
<1>1. stack[t] # <<>> /\ h.op = "attach"
  BY DEF Attach, Runs
<1>2. /\ Becomes(t, <<a>>)
      /\ UNCHANGED <<made, origin, state, resolved, then, thrown, first, given>>
  BY DEF Attach, history
<1>3. stack \in Stacks /\ Unique(stack)
  BY DEF FutureInv, FutureTypes
<1>4. /\ B \in Stacks /\ Unique(B) /\ h \in FrameSet
      /\ \A b : In(stack, b) <=> (b = h \/ In(B, b))
      /\ \A b : In(B, b) => ~Same(b, h) /\ b \in FrameSet
  BY <1>1, <1>3, PopFrame
<1>5. h \in FrameSet /\ Valid(h)
  BY <1>1, Innermost
<1>6. h.f \in Ids /\ h.c \in Conts /\ h.op \in TokenOps
  BY <1>1, <1>5, FrameKinds DEF TokenOps
<1>7. a \in FrameSet /\ a.op = "late" /\ a.f = h.f /\ a.c = h.c
  BY <1>6, FrameForms
<1>8. stack' = Pushed(B, t, a)
  <2>1. stack' = Replaced(stack, t, <<a>>)
    BY <1>2 DEF Becomes, Replaced
  <2>2. Replaced(stack, t, <<a>>) = Pushed(B, t, a)
    BY <1>1, <1>3, <1>7, BecomesFrame
  <2> QED BY <2>1, <2>2
<1>9. state[h.f] = "finished"
  OBVIOUS
<1> HIDE DEF a, B
<1>10. \A b : Same(b, a) <=> Same(b, h)
  BY <1>1, <1>7 DEF Same, TokenOps
<1>11. /\ stack' \in Stacks /\ Unique(stack')
       /\ \A b : In(stack', b) <=> (b = a \/ In(B, b))
  BY <1>4, <1>7, <1>8, <1>10, PushFrame
<1>12. a.op \in TokenOps
  BY <1>7 DEF TokenOps
<1>13. made' \in 0..MaxFutures /\ made <= made' /\ Onward
  BY <1>2 DEF FutureInv, FutureTypes, FutureAssumption, Onward
<1>14. Valid(a)'
  <2>1. ValidToken(h.f, h.c)'
    <3>1. ValidToken(h.f, h.c)
      BY <1>5, <1>6 DEF Valid
    <3> QED BY <1>2, <1>13, <3>1, StillKept
  <2>2. state'[h.f] = "finished"
    BY <1>2, <1>9
  <2> QED BY <1>7, <2>1, <2>2 DEF Valid
<1>15. \A n : NoToken(n) => NoToken(n)'
  BY <1>4, <1>6, <1>7, <1>11 DEF NoToken
<1>16. \A n : Carried(n) => Carried(n)'
  BY <1>4, <1>7, <1>11, <1>12 DEF Carried
<1>17. \A b \in FrameSet : In(stack', b) => In(stack, b) \/ Valid(b)'
  BY <1>4, <1>11, <1>14
<1> QED BY <1>2, <1>11, <1>13, <1>15, <1>16, <1>17, StackStep

\* What a future that nobody awaits is known by.
LEMMA NotAwaited ==
  ASSUME FutureAssumption, FutureInv, NEW f \in Visible, ~Awaited(f)
  PROVE  /\ f \in 1..made /\ f \in Ids /\ ~Attached(f)
         /\ origin[f].kind # "lazy" /\ origin[f].kind # "forward"
<1>1. f \in 1..made /\ origin[f].kind # "forward" /\ origin[f].kind # "lazy"
  BY DEF Visible, Futures, Awaited
<1>2. f \in Ids /\ f # 0
  BY <1>1 DEF Ids, FutureInv, FutureTypes, FutureAssumption
<1>3. ASSUME NEW n \in Ids, origin[n].of = f PROVE FALSE
  <2>1. n \notin 1..made
    BY <1>3 DEF Awaited, Futures
  <2>2. n > made
    BY <2>1 DEF Ids, FutureInv, FutureTypes, FutureAssumption
  <2> QED BY <1>2, <1>3, <2>2 DEF FutureInv, Numbered
<1> QED BY <1>1, <1>2, <1>3 DEF Attached

\* Then or OnError is called on f, and what it returns is made.
LEMMA NewContinuation ==
  ASSUME FutureAssumption, FutureInv, NEW t \in Threads,
         NEW f \in Visible, ~Awaited(f), NEW n \in Nat, n = made + 1, NEW c \in Conts,
         c.kind \in {"then", "thenFuture", "onError"}, c.next = n,
         made' \in 0..MaxFutures, n <= made',
         origin' \in [Ids -> Origins], origin'[n] = From(c.kind, f),
         \A m \in 1..made : origin'[m] = origin[m],
         \A m \in Ids : m # n => origin'[m].of = origin[m].of,
         c.kind = "thenFuture" => Spare(n)',
         UNCHANGED <<state, resolved, then, thrown, first, given>>,
         stack' = Pushed(stack, t, Attaching(f, c))
  PROVE  FutureInv'
<1> DEFINE a == Attaching(f, c)
<1>1. /\ f \in 1..made /\ f \in Ids /\ ~Attached(f)
      /\ origin[f].kind # "lazy" /\ origin[f].kind # "forward"
  BY NotAwaited
<1>2. /\ NoToken(f) /\ then[f] = <<>>
      /\ state[f] = "finished" => first[f] = <<resolved[f]>>
  BY <1>1, NotAttached
<1>3. a \in FrameSet /\ a.op = "attach" /\ a.f = f /\ a.c = c
  BY <1>1, FrameForms
<1>4. a.op \in TokenOps /\ a.op # "user" /\ a.op # "resolve" /\ a.op \notin {"late", "deliver"}
  BY <1>3 DEF TokenOps
<1>5. stack \in Stacks /\ Unique(stack) /\ stack' = Pushed(stack, t, a)
  BY DEF FutureInv, FutureTypes
<1> HIDE DEF a
<1>6. \A b : In(stack, b) => ~Same(b, a)
  <2>1. ASSUME NEW b, In(stack, b) PROVE b \in FrameSet
    BY <1>5, <2>1 DEF In, Stacks
  <2> QED BY <1>2, <1>3, <1>4, <2>1 DEF Same, NoToken
<1>7. /\ stack' \in Stacks /\ Unique(stack')
      /\ \A b : In(stack', b) <=> (b = a \/ In(stack, b))
  BY <1>3, <1>5, <1>6, PushFrame
<1>8. /\ made \in Nat /\ made' \in Nat /\ made <= made' /\ n \in Ids /\ n # 0
      /\ n \in 1..made' /\ f <= made'
      /\ \A m \in Ids : m \in Int /\ m # 0 /\ origin[m].of \in Int
      /\ \A m \in Ids : m <= made => m \in 1..made
      /\ \A m \in 1..made : m \in Ids /\ m # n
  <2>1. made \in Nat /\ MaxFutures \in Nat /\ made <= MaxFutures
    BY DEF FutureInv, FutureTypes, FutureAssumption
  <2>2. \A m \in Ids : origin[m].of \in Int
    BY DEF FutureInv, FutureTypes, Ids, Origins
  <2> QED BY <1>1, <2>1, <2>2 DEF Ids
<1>9. From(c.kind, f).of = f /\ f # 0
  BY <1>1, <1>8 DEF From
<1>10. given[n] = <<>> /\ origin[n].of = 0
  BY <1>8 DEF FutureInv, Numbered
<1>11. Onward
  <2>1. \A m \in Ids : origin[m].of # 0 => origin'[m] = origin[m]
    <3> TAKE m \in Ids
    <3>1. origin[m].of # 0 => m <= made
      BY <1>8 DEF FutureInv, Numbered
    <3> QED BY <1>8, <3>1
  <2>2. \A m \in Ids : given[m] # <<>> => given'[m] # <<>>
    OBVIOUS
  <2> QED BY <1>8, <2>1, <2>2 DEF Onward
<1>12. \A m \in Ids : Spare(m) => Spare(m)'
  <2> SUFFICES ASSUME NEW m \in Ids, Spare(m) PROVE Spare(m)'
    OBVIOUS
  <2>1. m + 2 \in 1..made /\ m + 1 \in 1..made
    BY <1>8 DEF Spare
  <2>2. origin[m+1].kind = "lazy" /\ origin[m+2].kind = "forward"
    BY DEF Spare, From
  <2>3. f # m + 1 /\ f # m + 2
    BY <1>1, <2>2
  <2>4. \A k \in Ids : \/ origin'[k].of = origin[k].of
                       \/ origin'[k].of # m + 1 /\ origin'[k].of # m + 2
    BY <1>9, <2>3
  <2> QED BY <1>11, <2>1, <2>4, SpareKept
<1>13. \A g, d : ValidToken(g, d) => TokenKept(d)
  <2> SUFFICES ASSUME NEW g, NEW d, ValidToken(g, d) PROVE TokenKept(d)
    OBVIOUS
  <2>1. d.kind = "thenFuture" => d.next \in Ids /\ Spare(d.next)
    BY <1>8 DEF ValidToken
  <2> QED BY <1>12, <2>1 DEF TokenKept
<1>14. /\ \A g \in Ids : Attached(g) => Attached(g)'
       /\ \A g, d : ValidToken(g, d) => ValidToken(g, d)'
       /\ \A b \in FrameSet : Valid(b) => Valid(b)'
  <2>1. \A b \in FrameSet : Valid(b) /\ b.op = "user" /\ b.c.kind = "thenFuture" =>
          Spare(b.c.next)'
    <3> SUFFICES ASSUME NEW b \in FrameSet, Valid(b), b.op = "user",
                        b.c.kind = "thenFuture"
                 PROVE  Spare(b.c.next)'
      OBVIOUS
    <3>1. b.c.next \in Ids /\ Spare(b.c.next)
      BY <1>8 DEF Valid, ValidCallback
    <3> QED BY <1>12, <3>1
  <2>2. \A b \in FrameSet : Valid(b) /\ b.op \in TokenOps => TokenKept(b.c)
    BY <1>13 DEF Valid
  <2> QED BY <1>11, <1>13, <2>1, <2>2, OnwardKeeps
<1>15. FutureTypes'
  BY <1>7 DEF FutureInv, FutureTypes
<1>16. Numbered'
  <2> SUFFICES ASSUME NEW m \in Ids
               PROVE  /\ origin'[m].of <= made'
                      /\ m > made' => given'[m] = <<>> /\ origin'[m].of = 0
    BY DEF Numbered
  <2>1. CASE m = n
    BY <1>8, <1>9, <2>1
  <2>2. CASE m # n
    <3>1. origin'[m].of = origin[m].of /\ origin[m].of <= made /\ origin[m].of \in Int
          /\ (m > made => given[m] = <<>> /\ origin[m].of = 0)
      BY <1>8, <2>2 DEF FutureInv, Numbered
    <3>2. m > made' => m > made
      BY <1>8
    <3>3. origin'[m].of <= made'
      BY <1>8, <3>1
    <3> QED BY <3>1, <3>2, <3>3
  <2> QED BY <2>1, <2>2
<1>17. Settled'
  BY DEF FutureInv, Settled
<1>18. \A g \in Ids : g # f /\ NoToken(g) => NoToken(g)'
  BY <1>3, <1>7 DEF NoToken
<1>19. Waiting'
  BY <1>2, <1>14, <1>18 DEF FutureInv, Waiting
<1>20. Unmoved'
  BY <1>2, <1>14, <1>18 DEF FutureInv, Unmoved
<1>21. GivenFirst'
  <2> SUFFICES ASSUME NEW m \in Ids, given[m] # <<>>
               PROVE  origin'[m].of # 0 /\ given[m] = first[origin'[m].of]
    BY DEF GivenFirst
  <2>1. m # n
    BY <1>10
  <2> QED BY <2>1 DEF FutureInv, GivenFirst
<1>22. Carried(n)' /\ \A m : Carried(m) => Carried(m)'
  BY <1>3, <1>4, <1>7 DEF Carried
<1>23. Reached'
  <2> SUFFICES ASSUME NEW m \in Ids, origin'[m].of # 0, ~thrown
               PROVE  \/ given[m] # <<>> \/ Carried(m)'
                      \/ then[origin'[m].of] # <<>> /\ then[origin'[m].of][1].next = m
    BY DEF Reached
  <2>1. CASE m = n
    BY <1>22, <2>1
  <2>2. CASE m # n
    BY <1>22, <2>2 DEF FutureInv, Reached
  <2> QED BY <2>1, <2>2
<1>24. Valid(a)'
  <2>1. ValidToken(f, c)'
    <3>1. f \in 1..made' /\ c.next \in 1..made' /\ origin'[c.next] = From(c.kind, f)
      BY <1>1, <1>8
    <3>2. given'[c.next] = <<>>
      BY <1>10
    <3>3. c.kind = "thenFuture" => Spare(c.next)'
      OBVIOUS
    <3> QED BY <3>1, <3>2, <3>3 DEF ValidToken
  <2> QED BY <1>3, <1>4, <2>1 DEF Valid, a
<1>25. FramesValid'
  BY <1>7, <1>14, <1>24 DEF FutureInv, FramesValid
<1> QED BY <1>7, <1>15, <1>16, <1>17, <1>19, <1>20, <1>21, <1>23, <1>25 DEF FutureInv

LEMMA UserAttachesKeeps ==
  ASSUME FutureAssumption, FutureInv, "oneContinuation" \in Rules, NEW t \in Threads,
         NEW f \in Visible, NEW kind \in {"then", "onError"}, UserAttaches(t, f, kind)
  PROVE  FutureInv'
<1>1. ~Awaited(f)
  BY DEF UserAttaches
<1>2. f \in Ids
  BY <1>1, NotAwaited
<1>3. PICK n \in Nat : n = made + 1
  BY DEF FutureInv, FutureTypes
<1>4. n \in Ids /\ made' \in 0..MaxFutures /\ n <= made' /\ \A m \in 1..made : m \in Ids /\ m # n
  BY <1>3 DEF UserAttaches, FutureInv, FutureTypes, FutureAssumption, Ids
<1> DEFINE c == Continuation(kind, n, 0)
<1>5. c \in Conts /\ c.kind = kind /\ c.next = n
  BY <1>4 DEF Continuation, Conts, Kinds
<1>6. From(kind, f) \in Origins
  BY <1>2 DEF From, Origins, Kinds
<1>7. origin' = [origin EXCEPT ![n] = From(kind, f)] /\ origin \in [Ids -> Origins]
  BY <1>3 DEF UserAttaches, FutureInv, FutureTypes
<1>8. /\ origin' \in [Ids -> Origins] /\ origin'[n] = From(c.kind, f)
      /\ \A m \in 1..made : origin'[m] = origin[m]
      /\ \A m \in Ids : m # n => origin'[m].of = origin[m].of
  <2> HIDE DEF c
  <2> QED BY <1>4, <1>5, <1>6, <1>7
<1>9. stack' = Pushed(stack, t, Attaching(f, c))
  BY <1>3 DEF UserAttaches, Calls, Pushed
<1>10. UNCHANGED <<state, resolved, then, thrown, first, given>>
  BY DEF UserAttaches, history
<1>11. c.kind \in {"then", "thenFuture", "onError"} /\ c.kind # "thenFuture"
  BY <1>5
<1> HIDE DEF c
<1> QED BY <1>1, <1>3, <1>4, <1>5, <1>8, <1>9, <1>10, <1>11, NewContinuation

LEMMA UserAttachesFutureKeeps ==
  ASSUME FutureAssumption, FutureInv, "oneContinuation" \in Rules, NEW t \in Threads,
         NEW f \in Visible, UserAttachesFuture(t, f)
  PROVE  FutureInv'
<1>1. ~Awaited(f)
  BY DEF UserAttachesFuture
<1>2. f \in Ids /\ f \in 1..made
  BY <1>1, NotAwaited
<1>3. PICK n \in Nat : n = made + 1
  BY DEF FutureInv, FutureTypes
<1>4. /\ made \in Nat /\ made' = n + 2
      /\ n \in Ids /\ n + 1 \in Ids /\ n + 2 \in Ids /\ n # n + 1 /\ n # n + 2 /\ n + 1 # n + 2
      /\ made' \in 0..MaxFutures /\ n <= made' /\ n + 2 \in 1..made'
      /\ \A m \in 1..made : m \in Ids /\ m # n /\ m # n + 1 /\ m # n + 2
      /\ f # n + 1 /\ f # n + 2 /\ n + 1 # 0 /\ n + 2 # 0
  BY <1>2, <1>3 DEF UserAttachesFuture, FutureInv, FutureTypes, FutureAssumption, Ids
<1> DEFINE c == Continuation("thenFuture", n, 0)
<1> DEFINE o == From("thenFuture", f)
<1> DEFINE lazy == From("lazy", 0)
<1> DEFINE fwd == From("forward", 0)
<1>5. c \in Conts /\ c.kind = "thenFuture" /\ c.next = n
  BY <1>4 DEF Continuation, Conts, Kinds
<1>6. /\ o \in Origins /\ lazy \in Origins /\ fwd \in Origins
      /\ o.of = f /\ lazy.kind = "lazy" /\ lazy.of = 0 /\ fwd.of = 0
  BY <1>2 DEF From, Origins, Kinds
<1>7. /\ origin' = [origin EXCEPT ![n] = o, ![n+1] = lazy, ![n+2] = fwd]
      /\ origin \in [Ids -> Origins]
  <2>1. made + 1 = n /\ made + 2 = n + 1 /\ made + 3 = n + 2
    BY <1>3, <1>4
  <2> QED BY <2>1 DEF UserAttachesFuture, FutureInv, FutureTypes
<1> HIDE DEF c, o, lazy
<1>8. /\ origin' \in [Ids -> Origins] /\ origin'[n] = o
      /\ origin'[n+1] = lazy /\ origin'[n+2] = fwd
      /\ \A m \in Ids : m # n /\ m # n + 1 /\ m # n + 2 => origin'[m] = origin[m]
  BY <1>4, <1>6, <1>7
<1>9. /\ \A m \in Ids : m > made => given[m] = <<>> /\ origin[m].of = 0
      /\ \A m \in Ids : origin[m].of <= made /\ origin[m].of \in Int
  BY DEF FutureInv, Numbered, FutureTypes, Origins, Ids
<1>10. n + 1 > made /\ n + 2 > made
  BY <1>3, <1>4
<1>11. \A m \in Ids : m # n => origin'[m].of = origin[m].of
  BY <1>4, <1>6, <1>8, <1>9, <1>10
<1>12. UNCHANGED <<state, resolved, then, thrown, first, given>>
  BY DEF UserAttachesFuture, history
<1>13. Spare(n)'
  <2>1. \A m \in Ids : origin'[m].of # n + 1 /\ origin'[m].of # n + 2
    <3> TAKE m \in Ids
    <3>1. CASE m = n
      BY <1>4, <1>6, <1>8, <3>1
    <3>2. CASE m # n
      <4>1. origin'[m].of <= made /\ origin'[m].of \in Int
        BY <1>9, <1>11, <3>2
      <4> QED BY <1>4, <1>10, <4>1
    <3> QED BY <3>1, <3>2
  <2>2. given'[n+2] = <<>>
    BY <1>4, <1>9, <1>10, <1>12
  <2>3. origin'[n+1].kind = "lazy"
    BY <1>6, <1>8
  <2> QED BY <1>4, <1>8, <2>1, <2>2, <2>3 DEF Spare
<1>14. stack' = Pushed(stack, t, Attaching(f, c))
  BY <1>3 DEF UserAttachesFuture, Calls, Pushed, c
<1>15. c.kind \in {"then", "thenFuture", "onError"} /\ origin'[n] = From(c.kind, f)
  BY <1>5, <1>8 DEF o
<1>16. \A m \in 1..made : origin'[m] = origin[m]
  BY <1>4, <1>8
<1> QED BY <1>1, <1>3, <1>4, <1>5, <1>8, <1>11, <1>12, <1>13, <1>14, <1>15, <1>16,
           NewContinuation

\* A pending future gets its continuation.
LEMMA AttachWaitsKeeps ==
  ASSUME FutureAssumption, FutureInv, NEW t \in Threads, Attach(t),
         NEW h, h = Head(stack[t]), state[h.f] # "finished"
  PROVE  FutureInv'
<1> DEFINE B == Popped(stack, t)
<1>1. stack[t] # <<>> /\ h.op = "attach"
  BY DEF Attach, Runs
<1>2. /\ then' = [then EXCEPT ![h.f] = <<h.c>>] /\ Becomes(t, <<>>)
      /\ UNCHANGED <<made, origin, state, resolved, thrown, first, given>>
  BY DEF Attach, history
<1>3. stack \in Stacks /\ Unique(stack)
  BY DEF FutureInv, FutureTypes
<1>4. h \in FrameSet /\ Valid(h) /\ In(stack, h)
  BY <1>1, Innermost
<1>5. stack' = B
  BY <1>1, <1>2, <1>3, <1>4, BecomesFrames DEF Becomes, Replaced
<1>6. /\ B \in Stacks /\ Unique(B)
      /\ \A b : In(stack, b) <=> (b = h \/ In(B, b))
      /\ \A b : In(B, b) => ~Same(b, h) /\ b \in FrameSet
  BY <1>1, <1>3, PopFrame
<1> HIDE DEF B
<1>7. h.f \in Ids /\ h.c \in Conts /\ h.op \in TokenOps /\ ValidToken(h.f, h.c)
  BY <1>1, <1>4, FrameKinds DEF TokenOps, Valid
<1>8. Onward
  <2>1. made' \in Nat /\ made <= made'
    BY <1>2 DEF FutureInv, FutureTypes
  <2> QED BY <1>2, <2>1 DEF Onward
<1>9. /\ \A f \in Ids : Attached(f) => Attached(f)'
      /\ \A f, c : ValidToken(f, c) => ValidToken(f, c)'
      /\ \A a \in FrameSet : Valid(a) => Valid(a)'
  BY <1>2, <1>8, StillKept
<1>10. then[h.f] = <<>>
  BY <1>4, <1>7 DEF FutureInv, Waiting, NoToken
<1>11. /\ then' \in [Ids -> Seq(Conts)] /\ then'[h.f] = <<h.c>>
       /\ \A g \in Ids : g # h.f => then'[g] = then[g]
  <2>1. <<h.c>> \in Seq(Conts) /\ then \in [Ids -> Seq(Conts)]
    BY <1>7 DEF FutureInv, FutureTypes
  <2> QED BY <1>2, <1>7, <2>1
<1>12. FutureTypes'
  BY <1>2, <1>5, <1>6, <1>11 DEF FutureInv, FutureTypes
<1>13. Numbered' /\ GivenFirst'
  BY <1>2 DEF FutureInv, Numbered, GivenFirst
<1>14. Settled'
  <2> SUFFICES ASSUME NEW g \in Ids, state[g] = "finished" PROVE then'[g] = <<>>
    BY <1>2 DEF FutureInv, Settled
  <2>1. g # h.f
    OBVIOUS
  <2> QED BY <1>11, <2>1 DEF FutureInv, Settled
<1>15. /\ \A g : NoToken(g) => NoToken(g)'
       /\ NoToken(h.f)'
  <2>1. \A g : NoToken(g) => NoToken(g)'
    BY <1>5, <1>6 DEF NoToken
  <2>2. NoToken(h.f)'
    BY <1>5, <1>6, <1>7 DEF NoToken, Same
  <2> QED BY <2>1, <2>2
<1>16. Waiting'
  <2> SUFFICES ASSUME NEW g \in Ids, then'[g] # <<>>
               PROVE  /\ NoToken(g)'
                      /\ \E c \in Conts : then'[g] = <<c>> /\ ValidToken(g, c)'
    BY DEF Waiting
  <2>1. CASE g = h.f
    <3>1. then'[g] = <<h.c>> /\ ValidToken(g, h.c)' /\ NoToken(g)'
      BY <1>7, <1>9, <1>11, <1>15, <2>1
    <3> QED BY <1>7, <3>1
  <2>2. CASE g # h.f
    <3>1. then'[g] = then[g]
      BY <1>11, <2>2
    <3> QED BY <1>9, <1>15, <3>1 DEF FutureInv, Waiting
  <2> QED BY <2>1, <2>2
<1>17. Unmoved'
  BY <1>2, <1>9, <1>15 DEF FutureInv, Unmoved
<1>18. Reached'
  <2> SUFFICES ASSUME NEW n \in Ids, origin[n].of # 0, ~thrown, given[n] = <<>>
               PROVE  \/ Carried(n)'
                      \/ then'[origin[n].of] # <<>> /\ then'[origin[n].of][1].next = n
    BY <1>2 DEF Reached
  <2>1. origin[n].of \in Ids
    BY DEF FutureInv, FutureTypes, Origins
  <2>2. CASE Carried(n)
    <3>1. PICK b \in FrameSet : In(stack, b) /\ b.op \in TokenOps /\ b.c.next = n
      BY <2>2 DEF Carried
    <3>2. CASE b = h
      <4>1. n # 0
        BY DEF Ids
      <4>2. origin[n] = From(h.c.kind, h.f)
        BY <1>7, <3>1, <3>2, <4>1 DEF ValidToken
      <4>3. origin[n].of = h.f
        BY <4>2 DEF From
      <4>4. <<h.c>> # <<>> /\ <<h.c>>[1] = h.c
        OBVIOUS
      <4> QED BY <1>11, <3>1, <3>2, <4>3, <4>4
    <3>3. CASE b # h
      <4>1. In(stack', b)
        BY <1>5, <1>6, <3>1, <3>3
      <4> QED BY <3>1, <4>1 DEF Carried
    <3> QED BY <3>2, <3>3
  <2>3. CASE then[origin[n].of] # <<>> /\ then[origin[n].of][1].next = n
    <3>1. origin[n].of # h.f
      BY <1>10, <2>3
    <3> QED BY <1>11, <2>1, <2>3, <3>1
  <2> QED BY <2>2, <2>3 DEF FutureInv, Reached
<1>19. FramesValid'
  BY <1>5, <1>6, <1>9 DEF FutureInv, FramesValid
<1> QED BY <1>5, <1>6, <1>12, <1>13, <1>14, <1>16, <1>17, <1>18, <1>19 DEF FutureInv

\* A pending future is resolved: its continuation moves to the thread.
LEMMA ResolveFirstKeeps ==
  ASSUME FutureAssumption, FutureInv, NEW t \in Threads, Resolve(t),
         NEW h, h = Head(stack[t]), state[h.f] # "finished"
  PROVE  FutureInv'
<1> DEFINE B == Popped(stack, t)
<1>1. stack[t] # <<>> /\ h.op = "resolve"
  BY DEF Resolve, Runs
<1>2. /\ state' = [state EXCEPT ![h.f] = "finished"]
      /\ resolved' = [resolved EXCEPT ![h.f] = h.r]
      /\ first' = [first EXCEPT ![h.f] = <<h.r>>]
      /\ then' = [then EXCEPT ![h.f] = <<>>]
      /\ Becomes(t, [i \in 1..Len(then[h.f]) |-> Delivering(h.f, then[h.f][i])])
      /\ UNCHANGED <<made, origin, thrown, given>>
  BY DEF Resolve
<1>3. stack \in Stacks /\ Unique(stack)
  BY DEF FutureInv, FutureTypes
<1>4. h \in FrameSet /\ Valid(h)
  BY <1>1, Innermost
<1>5. /\ B \in Stacks /\ Unique(B)
      /\ \A b : In(stack, b) <=> (b = h \/ In(B, b))
      /\ \A b : In(B, b) => b \in FrameSet
  BY <1>1, <1>3, PopFrame
<1>6. h.f \in Ids /\ h.r \in Results /\ h.op \notin TokenOps
  BY <1>1, <1>4, FrameKinds DEF TokenOps
<1>7. /\ \A g \in Ids : g # h.f => /\ state'[g] = state[g] /\ resolved'[g] = resolved[g]
                                   /\ first'[g] = first[g] /\ then'[g] = then[g]
      /\ state'[h.f] = "finished" /\ resolved'[h.f] = h.r
      /\ first'[h.f] = <<h.r>> /\ then'[h.f] = <<>>
  BY <1>2, <1>6 DEF FutureInv, FutureTypes
<1>8. first[h.f] = <<>>
  BY <1>6 DEF FutureInv, Settled
<1>9. Onward
  <2>1. \A g \in Ids : state[g] = "finished" => state'[g] = "finished"
    BY <1>7
  <2>2. made' \in Nat /\ made <= made'
    BY <1>2 DEF FutureInv, FutureTypes
  <2> QED BY <1>2, <2>1, <2>2 DEF Onward
<1>10. /\ \A g \in Ids : Attached(g) => Attached(g)'
       /\ \A g, c : ValidToken(g, c) => ValidToken(g, c)'
       /\ \A a \in FrameSet : Valid(a) => Valid(a)'
  BY <1>2, <1>9, StillKept
\* The frames.
<1>11. /\ stack' \in Stacks /\ Unique(stack')
       /\ \A b \in FrameSet : In(stack', b) /\ ~In(stack, b) => b.f = h.f /\ Valid(b)'
       /\ \A b : In(stack', b) => b \in FrameSet
       /\ \A n : Carried(n) => Carried(n)'
       /\ \A c \in Conts : then[h.f] = <<c>> => Carried(c.next)'
  <2>1. CASE then[h.f] = <<>>
    <3>1. Len(then[h.f]) = 0
      BY <2>1
    <3>2. [i \in 1..Len(then[h.f]) |-> Delivering(h.f, then[h.f][i])] = <<>>
      BY <3>1
    <3>3. stack' = B
      BY <1>1, <1>2, <1>3, <1>4, <3>2, BecomesFrames DEF Becomes, Replaced
    <3> HIDE DEF B
    <3>4. \A n : Carried(n) => Carried(n)'
      BY <1>5, <1>6, <3>3 DEF Carried
    <3> QED BY <1>5, <2>1, <3>3, <3>4
  <2>2. ASSUME NEW c \in Conts, then[h.f] = <<c>>, ValidToken(h.f, c), NoToken(h.f)
        PROVE  /\ stack' \in Stacks /\ Unique(stack')
               /\ \A b \in FrameSet : In(stack', b) /\ ~In(stack, b) => b.f = h.f /\ Valid(b)'
               /\ \A b : In(stack', b) => b \in FrameSet
               /\ \A n : Carried(n) => Carried(n)'
               /\ \A d \in Conts : then[h.f] = <<d>> => Carried(d.next)'
    <3> DEFINE a == Delivering(h.f, c)
    <3>1. a \in FrameSet /\ a.op = "deliver" /\ a.f = h.f /\ a.c = c
      BY <1>6, FrameForms
    <3>2. [i \in 1..Len(then[h.f]) |-> Delivering(h.f, then[h.f][i])] = <<a>>
      BY <2>2
    <3>a. Becomes(t, <<a>>)
      BY <1>2, <3>2
    <3>3. stack' = Pushed(B, t, a)
      BY <1>1, <1>3, <3>1, <3>a, BecomesFrames DEF Becomes, Replaced
    <3>4. a.op \in TokenOps /\ a.op # "user" /\ a.op # "resolve"
      BY <3>1 DEF TokenOps
    <3> HIDE DEF a, B
    <3>5. \A b : In(B, b) => ~Same(b, a)
      BY <1>5, <2>2, <3>1, <3>4 DEF NoToken, Same
    <3>6. /\ stack' \in Stacks /\ Unique(stack')
          /\ \A b : In(stack', b) <=> (b = a \/ In(B, b))
      BY <1>5, <3>1, <3>3, <3>5, PushFrame
    <3>7. Valid(a)'
      <4>1. ValidToken(h.f, c)' /\ state'[h.f] = "finished"
        BY <1>7, <1>10, <2>2
      <4> QED BY <3>1, <3>4, <4>1 DEF Valid, a
    <3>8. \A n : Carried(n) => Carried(n)'
      BY <1>5, <1>6, <3>6 DEF Carried
    <3>9. Carried(c.next)'
      BY <3>1, <3>4, <3>6 DEF Carried
    <3>10. \A d : then[h.f] = <<d>> => d = c
      BY <2>2
    <3> QED BY <1>5, <3>1, <3>6, <3>7, <3>8, <3>9, <3>10
  <2> QED BY <1>6, <2>1, <2>2 DEF FutureInv, Waiting
<1>12. \A g \in Ids : g # h.f /\ NoToken(g) => NoToken(g)'
  BY <1>11 DEF NoToken
<1>13. FutureTypes'
  <2>1. <<>> \in Seq(Conts) /\ <<h.r>> \in Seq(Results)
    BY <1>6
  <2> QED BY <1>2, <1>6, <1>11, <2>1 DEF FutureInv, FutureTypes
<1>14. Numbered'
  BY <1>2 DEF FutureInv, Numbered
<1>15. Settled'
  <2> SUFFICES ASSUME NEW g \in Ids
               PROVE  /\ state'[g] = "finished" <=> first'[g] # <<>>
                      /\ first'[g] = <<>> \/ \E r \in Results : first'[g] = <<r>>
                      /\ state'[g] = "finished" => then'[g] = <<>>
    BY DEF Settled
  <2>1. CASE g = h.f
    <3>1. <<h.r>> # <<>>
      OBVIOUS
    <3> QED BY <1>6, <1>7, <2>1, <3>1
  <2>2. CASE g # h.f
    BY <1>7, <2>2 DEF FutureInv, Settled
  <2> QED BY <2>1, <2>2
<1>16. Waiting'
  <2> SUFFICES ASSUME NEW g \in Ids, then'[g] # <<>>
               PROVE  /\ NoToken(g)'
                      /\ \E c \in Conts : then'[g] = <<c>> /\ ValidToken(g, c)'
    BY DEF Waiting
  <2>1. g # h.f
    BY <1>7
  <2>2. then'[g] = then[g]
    BY <1>7, <2>1
  <2> QED BY <1>10, <1>12, <2>1, <2>2 DEF FutureInv, Waiting
<1>17. Unmoved'
  <2> SUFFICES ASSUME NEW g \in Ids, state'[g] = "finished", first'[g] # <<resolved'[g]>>
               PROVE  Attached(g)' /\ NoToken(g)'
    BY DEF Unmoved
  <2>1. g # h.f
    BY <1>7
  <2> QED BY <1>7, <1>10, <1>12, <2>1 DEF FutureInv, Unmoved
<1>18. GivenFirst'
  <2> SUFFICES ASSUME NEW n \in Ids, given[n] # <<>>
               PROVE  origin[n].of # 0 /\ given[n] = first'[origin[n].of]
    BY <1>2 DEF GivenFirst
  <2>1. origin[n].of # 0 /\ given[n] = first[origin[n].of]
    BY DEF FutureInv, GivenFirst
  <2>2. origin[n].of \in Ids /\ origin[n].of # h.f
    BY <1>8, <2>1 DEF FutureInv, FutureTypes, Origins
  <2> QED BY <1>7, <2>1, <2>2
<1>19. Reached'
  <2> SUFFICES ASSUME NEW n \in Ids, origin[n].of # 0, ~thrown, given[n] = <<>>
               PROVE  \/ Carried(n)'
                      \/ then'[origin[n].of] # <<>> /\ then'[origin[n].of][1].next = n
    BY <1>2 DEF Reached
  <2>1. origin[n].of \in Ids
    BY DEF FutureInv, FutureTypes, Origins
  <2>2. CASE origin[n].of = h.f
    <3>1. \/ Carried(n)
          \/ then[h.f] # <<>> /\ then[h.f][1].next = n
      <4>1. \/ Carried(n)
            \/ then[origin[n].of] # <<>> /\ then[origin[n].of][1].next = n
        BY DEF FutureInv, Reached
      <4> QED BY <2>2, <4>1
    <3>2. ASSUME then[h.f] # <<>>, then[h.f][1].next = n PROVE Carried(n)'
      <4>1. PICK c \in Conts : then[h.f] = <<c>>
        BY <1>6, <3>2 DEF FutureInv, Waiting
      <4>2. c.next = n
        BY <3>2, <4>1
      <4> QED BY <1>11, <4>1, <4>2
    <3> QED BY <1>11, <3>1, <3>2
  <2>3. CASE origin[n].of # h.f
    BY <1>7, <1>11, <2>1, <2>3 DEF FutureInv, Reached
  <2> QED BY <2>2, <2>3
<1>20. FramesValid'
  BY <1>10, <1>11 DEF FutureInv, FramesValid
<1> QED BY <1>11, <1>13, <1>14, <1>15, <1>16, <1>17, <1>18, <1>19, <1>20 DEF FutureInv

\* A callback returns the future g.
LEMMA ReturnFutureKeeps ==
  ASSUME FutureAssumption, FutureInv, "oneContinuation" \in Rules, NEW t \in Threads,
         NEW g \in Visible, ReturnFuture(t, g),
         NEW h, h = Head(stack[t]), NEW m, m = h.c.next
  PROVE  FutureInv'
<1> DEFINE B == Popped(stack, t)
<1> DEFINE n == m + 2
<1> DEFINE c == Continuation("forward", n, m)
<1> DEFINE d == Continuation("forwardError", 0, m)
<1> DEFINE a == Attaching(g, c)
<1> DEFINE e == Attaching(n, d)
<1>1. stack[t] # <<>> /\ h.op = "user" /\ h.c.kind = "thenFuture"
  BY DEF ReturnFuture, Runs
<1>2. /\ origin' = [origin EXCEPT ![n].of = g]
      /\ g = m + 1 \/ ~Awaited(g)
      /\ Becomes(t, <<a, e>>)
      /\ UNCHANGED <<made, state, resolved, then, thrown, first, given>>
  BY DEF ReturnFuture, history
<1>3. stack \in Stacks /\ Unique(stack) /\ origin \in [Ids -> Origins]
  BY DEF FutureInv, FutureTypes
<1>4. h \in FrameSet /\ Valid(h) /\ In(stack, h)
  BY <1>1, Innermost
<1>5. /\ B \in Stacks /\ Unique(B)
      /\ \A b : In(stack, b) <=> (b = h \/ In(B, b))
      /\ \A b : In(B, b) => ~Same(b, h) /\ b \in FrameSet
  BY <1>1, <1>3, PopFrame
<1>6. m \in 1..made /\ given[m] # <<>> /\ Spare(m) /\ h.op \notin TokenOps
  BY <1>1, <1>4 DEF Valid, ValidCallback, TokenOps
<1>7. /\ made \in Nat /\ MaxFutures \in Nat /\ made <= MaxFutures
      /\ g \in 1..made /\ origin[g].kind # "forward"
  BY DEF FutureInv, FutureTypes, FutureAssumption, Visible, Futures
<1>8. /\ n \in 1..made /\ n \in Ids /\ n # 0 /\ m + 1 \in Ids /\ g \in Ids /\ g # 0
      /\ m \in Int /\ m \in Ids /\ m + 1 # n
      /\ \A x \in 1..made : x \in Ids
  <2>1. n \in 1..made
    BY <1>6 DEF Spare
  <2>2. m \in Int /\ n \in Int /\ m >= 1 /\ n = m + 2
    BY <1>6
  <2> HIDE DEF n
  <2> QED BY <1>7, <2>1, <2>2 DEF Ids
<1>9. /\ origin[n] = From("forward", 0) /\ origin[m+1].kind = "lazy" /\ given[n] = <<>>
      /\ \A x \in Ids : origin[x].of # m + 1 /\ origin[x].of # n
  BY <1>6 DEF Spare
<1>10. origin[n].kind = "forward" /\ origin[n].of = 0
  BY <1>9 DEF From
<1>11. ~Attached(n)
  BY <1>9, <1>10 DEF Attached
<1>12. ~Attached(g)
  <2>1. CASE g = m + 1
    BY <1>7, <1>9, <2>1 DEF Attached
  <2>2. CASE ~Awaited(g)
    BY <2>2, NotAwaited
  <2> QED BY <1>2, <2>1, <2>2
<1>13. NoToken(g) /\ then[g] = <<>> /\ NoToken(n) /\ then[n] = <<>> /\ g # n
  BY <1>7, <1>8, <1>10, <1>11, <1>12, NotAttached
<1>14. c \in Conts /\ c.kind = "forward" /\ c.next = n /\ c.to = m
  BY <1>8 DEF Continuation, Conts, Kinds
<1>15. d \in Conts /\ d.kind = "forwardError" /\ d.next = 0
  BY <1>8 DEF Continuation, Conts, Kinds
<1> HIDE DEF c, d
<1>16. /\ a \in FrameSet /\ a.op = "attach" /\ a.f = g /\ a.c = c
       /\ e \in FrameSet /\ e.op = "attach" /\ e.f = n /\ e.c = d
  BY <1>8, <1>14, <1>15, FrameForms
<1> HIDE DEF a, e, n
<1>17. stack' = Pushed(Pushed(B, t, e), t, a)
  <2>1. stack' = Replaced(stack, t, <<a, e>>)
    BY <1>2 DEF Becomes, Replaced
  <2>2. Replaced(stack, t, <<a, e>>) = Pushed(Pushed(B, t, e), t, a)
    BY <1>1, <1>3, <1>16, BecomesFrames
  <2> QED BY <2>1, <2>2
<1>18. /\ a.op \in TokenOps /\ a.op # "user" /\ a.op # "resolve" /\ a.op \notin {"late", "deliver"}
       /\ e.op \in TokenOps /\ e.op # "user" /\ e.op # "resolve" /\ e.op \notin {"late", "deliver"}
  BY <1>16 DEF TokenOps
<1> HIDE DEF B
<1>19. \A b : In(B, b) => ~Same(b, a) /\ ~Same(b, e)
  BY <1>5, <1>13, <1>16, <1>18 DEF NoToken, Same
<1>20. ~Same(e, a)
  BY <1>13, <1>16, <1>18 DEF Same
<1>21. /\ stack' \in Stacks /\ Unique(stack')
       /\ \A b : In(stack', b) <=> (b = a \/ b = e \/ In(B, b))
  <2> DEFINE A == Pushed(B, t, e)
  <2>1. A \in Stacks /\ Unique(A) /\ \A b : In(A, b) <=> (b = e \/ In(B, b))
    BY <1>5, <1>16, <1>19, PushFrame
  <2> HIDE DEF A
  <2>2. \A b : In(A, b) => ~Same(b, a)
    BY <1>19, <1>20, <2>1
  <2>3. /\ Pushed(A, t, a) \in Stacks /\ Unique(Pushed(A, t, a))
        /\ \A b : In(Pushed(A, t, a), b) <=> (b = a \/ In(A, b))
    BY <1>16, <2>1, <2>2, PushFrame
  <2> QED BY <1>17, <2>1, <2>3 DEF A
<1>22. /\ origin' \in [Ids -> Origins]
       /\ origin'[n] = From("forward", g)
       /\ \A x \in Ids : x # n => origin'[x] = origin[x]
  <2>1. [origin[n] EXCEPT !.of = g] = From("forward", g)
    BY <1>9 DEF From
  <2>2. From("forward", g) \in Origins
    BY <1>8 DEF From, Origins, Kinds
  <2> QED BY <1>2, <1>3, <1>8, <2>1, <2>2
<1>23. From("forward", g).kind = "forward" /\ From("forward", g).of = g
  BY DEF From
<1>24. Onward
  <2>1. \A x \in Ids : origin[x].of # 0 => origin'[x] = origin[x]
    BY <1>10, <1>22
  <2>2. \A x \in 1..made : origin'[x].kind = origin[x].kind
    BY <1>8, <1>10, <1>22, <1>23
  <2>3. made' \in Nat /\ made <= made'
    BY <1>2, <1>7
  <2>4. \A x \in Ids : state[x] = "finished" => state'[x] = "finished"
    BY <1>2
  <2>5. \A x \in Ids : given[x] # <<>> => given'[x] # <<>>
    BY <1>2
  <2> QED BY <2>1, <2>2, <2>3, <2>4, <2>5 DEF Onward
<1>25. \A k \in Ids : Spare(k) /\ k # m => Spare(k)'
  <2> SUFFICES ASSUME NEW k \in Ids, Spare(k), k # m PROVE Spare(k)'
    OBVIOUS
  <2>1. k \in Int /\ k + 1 \in Ids /\ k + 2 \in Ids /\ k + 2 # n /\ k + 1 # m + 1
    <3>1. k + 2 \in 1..made /\ k \in Int /\ k >= 1
      BY DEF Spare, Ids
    <3>2. n = m + 2
      BY DEF n
    <3> QED BY <1>7, <1>8, <3>1, <3>2 DEF Ids
  <2>2. origin[k+1].kind = "lazy" /\ origin[k+2].kind = "forward"
    BY DEF Spare, From
  <2>3. g # k + 2
    BY <1>7, <2>2
  <2>4. g # k + 1
    <3>1. CASE g = m + 1
      BY <2>1, <3>1
    <3>2. CASE ~Awaited(g)
      BY <2>2, <3>2 DEF Awaited
    <3> QED BY <1>2, <3>1, <3>2
  <2>5. \A x \in Ids : \/ origin'[x].of = origin[x].of
                       \/ origin'[x].of # k + 1 /\ origin'[x].of # k + 2
    BY <1>22, <1>23, <2>3, <2>4
  <2>6. origin'[k+2] = origin[k+2] /\ given'[k+2] = given[k+2]
    BY <1>2, <1>22, <2>1
  <2> QED BY <1>24, <2>5, <2>6, SpareKept
<1>26. \A f, k : ValidToken(f, k) => TokenKept(k)
  <2> SUFFICES ASSUME NEW f, NEW k, ValidToken(f, k) PROVE TokenKept(k)
    OBVIOUS
  <2>1. ASSUME k.kind = "thenFuture" PROVE Spare(k.next)'
    <3>1. k.next \in 1..made /\ Spare(k.next) /\ given[k.next] = <<>>
      BY <2>1 DEF ValidToken
    <3>2. k.next \in Ids /\ k.next # m
      BY <1>6, <1>8, <3>1
    <3> QED BY <1>25, <3>1, <3>2
  <2> QED BY <1>2, <2>1 DEF TokenKept
<1>27. /\ \A f \in Ids : Attached(f) => Attached(f)'
       /\ \A f, k : ValidToken(f, k) => ValidToken(f, k)'
       /\ \A b \in FrameSet : Valid(b) /\ ~Same(b, h) => Valid(b)'
  <2>1. \A b \in FrameSet :
          Valid(b) /\ ~Same(b, h) /\ b.op = "user" /\ b.c.kind = "thenFuture" => Spare(b.c.next)'
    <3> SUFFICES ASSUME NEW b \in FrameSet, Valid(b), ~Same(b, h), b.op = "user",
                        b.c.kind = "thenFuture"
                 PROVE  Spare(b.c.next)'
      OBVIOUS
    <3>1. b.c.next \in 1..made /\ Spare(b.c.next)
      BY DEF Valid, ValidCallback
    <3>2. b.c.next # m
      BY <1>1 DEF Same
    <3> QED BY <1>8, <1>25, <3>1, <3>2
  <2>2. \A b \in FrameSet : Valid(b) /\ b.op \in TokenOps => TokenKept(b.c)
    BY <1>26 DEF Valid
  <2> QED BY <1>24, <1>26, <2>1, <2>2, OnwardKeeps
<1>28. FutureTypes'
  BY <1>2, <1>21, <1>22 DEF FutureInv, FutureTypes
<1>29. Numbered'
  <2> SUFFICES ASSUME NEW x \in Ids
               PROVE  /\ origin'[x].of <= made
                      /\ x > made => given[x] = <<>> /\ origin'[x].of = 0
    BY <1>2 DEF Numbered
  <2>1. CASE x = n
    BY <1>7, <1>8, <1>22, <1>23, <2>1
  <2>2. CASE x # n
    BY <1>22, <2>2 DEF FutureInv, Numbered
  <2> QED BY <2>1, <2>2
<1>30. Settled'
  BY <1>2 DEF FutureInv, Settled
<1>31. \A x \in Ids : x # g /\ x # n /\ NoToken(x) => NoToken(x)'
  BY <1>5, <1>16, <1>21 DEF NoToken
<1>32. Waiting'
  BY <1>2, <1>13, <1>27, <1>31 DEF FutureInv, Waiting
<1>33. Unmoved'
  BY <1>2, <1>11, <1>12, <1>27, <1>31 DEF FutureInv, Unmoved
<1>34. GivenFirst'
  <2> SUFFICES ASSUME NEW x \in Ids, given[x] # <<>>
               PROVE  origin'[x].of # 0 /\ given[x] = first[origin'[x].of]
    BY <1>2 DEF GivenFirst
  <2>1. x # n
    BY <1>9
  <2> QED BY <1>22, <2>1 DEF FutureInv, GivenFirst
<1>35. \A k : Carried(k) => Carried(k)'
  BY <1>5, <1>6, <1>21 DEF Carried
<1>36. \A k : k = n => Carried(k)'
  BY <1>14, <1>16, <1>18, <1>21 DEF Carried
<1>37. Reached'
  <2> SUFFICES ASSUME NEW x \in Ids, origin'[x].of # 0, ~thrown, given[x] = <<>>
               PROVE  \/ Carried(x)'
                      \/ then[origin'[x].of] # <<>> /\ then[origin'[x].of][1].next = x
    BY <1>2 DEF Reached
  <2>1. CASE x = n
    BY <1>36, <2>1
  <2>2. CASE x # n
    BY <1>22, <1>35, <2>2 DEF FutureInv, Reached
  <2> QED BY <2>1, <2>2
<1>38. \A b : b = a \/ b = e => Valid(b)'
  <2>1. \A f, k : f = g /\ k = c => ValidToken(f, k)'
    <3> TAKE f, k
    <3> HAVE f = g /\ k = c
    <3>1. f \in 1..made' /\ k \in Conts /\ k.kind = "forward" /\ k.next \in 1..made'
          /\ k.to \in 1..made'
      BY <1>2, <1>6, <1>7, <1>8, <1>14
    <3>2. origin'[k.next] = From(k.kind, f) /\ given'[k.next] = <<>>
      BY <1>2, <1>9, <1>14, <1>22
    <3> QED BY <3>1, <3>2 DEF ValidToken
  <2>2. \A f, k : f = n /\ k = d => ValidToken(f, k)'
    <3> TAKE f, k
    <3> HAVE f = n /\ k = d
    <3>1. f \in 1..made' /\ k \in Conts /\ k.kind = "forwardError" /\ k.next = 0
      BY <1>2, <1>8, <1>15
    <3>2. origin'[f].kind = "forward" /\ origin'[f].of # 0
      BY <1>8, <1>22, <1>23
    <3> QED BY <3>1, <3>2 DEF ValidToken
  <2>3. \A b : b = a \/ b = e => ValidToken(b.f, b.c)'
    BY <1>16, <2>1, <2>2
  <2> QED BY <1>18, <2>3 DEF Valid
<1>39. FramesValid'
  <2> SUFFICES ASSUME NEW b \in FrameSet, In(stack', b) PROVE Valid(b)'
    BY DEF FramesValid
  <2>1. CASE b = a \/ b = e
    BY <1>38, <2>1
  <2>2. CASE In(B, b)
    BY <1>5, <1>27, <2>2 DEF FutureInv, FramesValid
  <2> QED BY <1>21, <2>1, <2>2
<1> QED BY <1>21, <1>28, <1>29, <1>30, <1>32, <1>33, <1>34, <1>37, <1>39 DEF FutureInv

\* What a continuation leaves to be done.
LEMMA AfterForms ==
  ASSUME NEW c, NEW x, x.ok \in BOOLEAN, c.kind \in Kinds, ~Throws(c, x)
  PROVE  \/ After(c, x) = <<>>
         \/ c.kind # "forwardError" /\ After(c, x) = <<Resolving(c.next, x)>>
         \/ c.kind = "forward" /\ After(c, x) = <<Resolving(c.to, x), Resolving(c.next, x)>>
         \/ c.kind \in {"then", "thenFuture", "onError"} /\ After(c, x) = <<InCallback(c)>>
<1>1. CASE c.kind = "forward"
  BY <1>1 DEF After
<1>2. CASE c.kind = "forwardError"
  BY <1>2 DEF After, Throws
<1>3. CASE c.kind \in {"then", "thenFuture", "onError"}
  BY <1>3 DEF After
<1> QED BY <1>1, <1>2, <1>3 DEF Kinds

\* The stacks after a continuation ran.
LEMMA ContinueFrames ==
  ASSUME FutureAssumption, FutureInv, NEW t \in Threads, stack[t] # <<>>,
         NEW h, h = Head(stack[t]), h.op \in {"deliver", "late"},
         NEW x \in Results, Continue(t, h.c, x)
  PROVE  /\ stack' \in Stacks /\ Unique(stack')
         /\ \A b : In(stack', b) =>
              /\ b \in FrameSet
              /\ \/ In(Popped(stack, t), b)
                 \/ b.op = "resolve" /\ b.f \in 1..made /\ b.r \in Results
                 \/ /\ b.op = "user" /\ b.c = h.c
                    /\ h.c.kind \in {"then", "thenFuture", "onError"}
         /\ ~thrown' => ~thrown /\ \A b : In(Popped(stack, t), b) => In(stack', b)
<1> DEFINE B == Popped(stack, t)
<1> DEFINE c == h.c
<1>1. stack \in Stacks /\ Unique(stack) /\ h \in FrameSet /\ Valid(h) /\ In(stack, h)
  BY Innermost DEF FutureInv, FutureTypes
<1>2. /\ B \in Stacks /\ Unique(B)
      /\ \A b : In(stack, b) <=> (b = h \/ In(B, b))
      /\ \A b : In(B, b) => ~Same(b, h) /\ b \in FrameSet
  BY <1>1, PopFrame
<1>3. h.f \in Ids /\ c \in Conts /\ h.op \in TokenOps /\ ValidToken(h.f, c)
  BY <1>1, FrameKinds DEF TokenOps, Valid
<1>4. /\ c.kind # "forwardError" => c.next \in 1..made /\ given[c.next] = <<>>
      /\ c.kind = "forward" => c.to \in 1..made
  BY <1>3 DEF ValidToken
<1>5. \A g \in 1..made : g \in Ids
  BY DEF FutureInv, FutureTypes, FutureAssumption, Ids
<1>6. x.ok \in BOOLEAN /\ c.kind \in Kinds
  BY <1>3 DEF Results, Conts
<1> HIDE DEF c
<1>7. CASE Throws(c, x)
  <2>1. thrown' = TRUE /\ stack' = Cleared(stack, t)
    BY <1>7 DEF Continue, Cleared, c
  <2> HIDE DEF B
  <2>2. /\ Cleared(stack, t) \in Stacks /\ Unique(Cleared(stack, t))
        /\ \A b : In(Cleared(stack, t), b) => In(B, b)
    BY <1>1, ClearFrames DEF B
  <2> QED BY <1>2, <2>1, <2>2 DEF B
<1>8. CASE ~Throws(c, x)
  <2>1. thrown' = thrown /\ stack' = Replaced(stack, t, After(c, x))
    BY <1>8 DEF Continue, Becomes, Replaced, c
  <2>2. \/ After(c, x) = <<>>
        \/ c.kind # "forwardError" /\ After(c, x) = <<Resolving(c.next, x)>>
        \/ c.kind = "forward" /\ After(c, x) = <<Resolving(c.to, x), Resolving(c.next, x)>>
        \/ c.kind \in {"then", "thenFuture", "onError"} /\ After(c, x) = <<InCallback(c)>>
    BY <1>6, <1>8, AfterForms
  <2>3. CASE After(c, x) = <<>>
    <3>1. stack' = B
      BY <1>1, <2>1, <2>3, BecomesFrames
    <3> HIDE DEF B
    <3> QED BY <1>2, <2>1, <3>1 DEF B
  <2>4. CASE c.kind # "forwardError" /\ After(c, x) = <<Resolving(c.next, x)>>
    <3> DEFINE a == Resolving(c.next, x)
    <3>1. /\ a \in FrameSet /\ a.op = "resolve" /\ a.f = c.next /\ a.r = x
          /\ \A b : ~Same(b, a)
      BY <1>4, <1>5, <2>4, FrameForms
    <3> HIDE DEF a
    <3>2. stack' = Pushed(B, t, a)
      <4>1. stack' = Replaced(stack, t, <<a>>)
        BY <2>1, <2>4 DEF a
      <4>2. Replaced(stack, t, <<a>>) = Pushed(B, t, a)
        BY <1>1, <3>1, BecomesFrame
      <4> QED BY <4>1, <4>2
    <3> HIDE DEF B
    <3>3. /\ stack' \in Stacks /\ Unique(stack')
          /\ \A b : In(stack', b) <=> (b = a \/ In(B, b))
      BY <1>2, <3>1, <3>2, PushFrame
    <3> QED BY <1>2, <1>4, <2>1, <2>4, <3>1, <3>3 DEF B
  <2>5. CASE /\ c.kind = "forward"
             /\ After(c, x) = <<Resolving(c.to, x), Resolving(c.next, x)>>
    <3> DEFINE a == Resolving(c.to, x)
    <3> DEFINE e == Resolving(c.next, x)
    <3>0. c.next \in 1..made /\ c.to \in 1..made /\ c.next \in Ids /\ c.to \in Ids
      BY <1>4, <1>5, <2>5
    <3>1. /\ a \in FrameSet /\ a.op = "resolve" /\ a.f = c.to /\ a.r = x
          /\ \A b : ~Same(b, a)
          /\ e \in FrameSet /\ e.op = "resolve" /\ e.f = c.next /\ e.r = x
          /\ \A b : ~Same(b, e)
      BY <3>0, FrameForms
    <3> HIDE DEF a, e
    <3>2. stack' = Pushed(Pushed(B, t, e), t, a)
      <4>1. After(c, x) = <<a, e>>
        BY <2>5 DEF a, e
      <4>2. Replaced(stack, t, <<a, e>>) = Pushed(Pushed(B, t, e), t, a)
        BY <1>1, <3>1, BecomesFrames
      <4> QED BY <2>1, <4>1, <4>2
    <3> DEFINE A == Pushed(B, t, e)
    <3> HIDE DEF B
    <3>3. A \in Stacks /\ Unique(A) /\ \A b : In(A, b) <=> (b = e \/ In(B, b))
      BY <1>2, <3>1, PushFrame
    <3> HIDE DEF A
    <3>4. /\ Pushed(A, t, a) \in Stacks /\ Unique(Pushed(A, t, a))
          /\ \A b : In(Pushed(A, t, a), b) <=> (b = a \/ In(A, b))
      BY <3>1, <3>3, PushFrame
    <3>5. stack' = Pushed(A, t, a)
      BY <3>2 DEF A
    <3>6. /\ stack' \in Stacks /\ Unique(stack')
          /\ \A b : In(stack', b) <=> (b = a \/ b = e \/ In(B, b))
      BY <3>3, <3>4, <3>5
    <3> QED BY <1>2, <2>1, <3>0, <3>1, <3>6 DEF B
  <2>6. CASE c.kind \in {"then", "thenFuture", "onError"} /\ After(c, x) = <<InCallback(c)>>
    <3> DEFINE a == InCallback(c)
    <3>1. a \in FrameSet /\ a.op = "user" /\ a.c = c
      BY <1>3, FrameForms
    <3> HIDE DEF a
    <3>2. stack' = Pushed(B, t, a)
      <4>1. stack' = Replaced(stack, t, <<a>>)
        BY <2>1, <2>6 DEF a
      <4>2. Replaced(stack, t, <<a>>) = Pushed(B, t, a)
        BY <1>1, <3>1, BecomesFrame
      <4> QED BY <4>1, <4>2
    <3> HIDE DEF B
    <3>3. ASSUME NEW b, In(B, b) PROVE ~Same(b, a)
      <4>1. b \in FrameSet /\ Valid(b)
        BY <1>2, <3>3 DEF FutureInv, FramesValid
      <4>2. b.op = "user" => given[b.c.next] # <<>>
        BY <4>1 DEF Valid, ValidCallback
      <4>3. given[c.next] = <<>>
        BY <1>4, <2>6
      <4> QED BY <3>1, <4>2, <4>3 DEF Same, TokenOps
    <3>4. /\ stack' \in Stacks /\ Unique(stack')
          /\ \A b : In(stack', b) <=> (b = a \/ In(B, b))
      BY <1>2, <3>1, <3>2, <3>3, PushFrame
    <3> QED BY <1>2, <2>1, <2>6, <3>1, <3>4 DEF B, c
  <2> QED BY <2>2, <2>3, <2>4, <2>5, <2>6
<1> QED BY <1>7, <1>8

\* A thread runs a continuation, late or not.
LEMMA ContinueKeeps ==
  ASSUME FutureAssumption, FutureInv, NEW t \in Threads, stack[t] # <<>>,
         NEW h, h = Head(stack[t]), h.op \in {"deliver", "late"},
         NEW x, x = resolved[h.f], Continue(t, h.c, x),
         resolved' \in [Ids -> Results],
         \A g \in Ids : g # h.f => resolved'[g] = resolved[g],
         UNCHANGED <<made, origin, state, then, first>>
  PROVE  FutureInv'
<1> DEFINE B == Popped(stack, t)
<1>1. stack \in Stacks /\ Unique(stack) /\ h \in FrameSet /\ Valid(h) /\ In(stack, h)
  BY Innermost DEF FutureInv, FutureTypes
<1>2. /\ \A b : In(stack, b) <=> (b = h \/ In(B, b))
      /\ \A b : In(B, b) => ~Same(b, h) /\ b \in FrameSet
  BY <1>1, PopFrame
<1>3. /\ h.f \in Ids /\ h.c \in Conts /\ h.op \in TokenOps /\ ValidToken(h.f, h.c)
      /\ state[h.f] = "finished" /\ h.f # 0
  BY <1>1, FrameKinds DEF TokenOps, Valid, Ids
<1>4. x \in Results /\ first[h.f] = <<x>> /\ Attached(h.f) /\ then[h.f] = <<>>
  <2>1. x \in Results
    BY <1>3 DEF FutureInv, FutureTypes
  <2>2. ~NoToken(h.f)
    BY <1>1, <1>3 DEF NoToken
  <2>3. first[h.f] = <<x>> /\ then[h.f] = <<>>
    BY <1>3, <2>2 DEF FutureInv, Unmoved, Settled
  <2>4. Attached(h.f)
    BY <1>1, <1>3, HeldIsAttached
  <2> QED BY <2>1, <2>3, <2>4
<1>5. /\ stack' \in Stacks /\ Unique(stack')
      /\ \A b : In(stack', b) =>
           /\ b \in FrameSet
           /\ \/ In(B, b)
              \/ b.op = "resolve" /\ b.f \in 1..made /\ b.r \in Results
              \/ /\ b.op = "user" /\ b.c = h.c
                 /\ h.c.kind \in {"then", "thenFuture", "onError"}
      /\ ~thrown' => ~thrown /\ \A b : In(B, b) => In(stack', b)
  BY <1>4, ContinueFrames
<1> HIDE DEF B
<1>6. /\ made \in Nat /\ \A n \in 1..made : n \in Ids /\ n # 0
      /\ \A n \in Ids : n \in Int /\ n > 0 /\ n # 0
  BY DEF FutureInv, FutureTypes, FutureAssumption, Ids
<1>7. /\ h.c.kind = "forwardError" => h.c.next = 0
      /\ h.c.kind # "forwardError" => /\ h.c.next \in 1..made
                                      /\ origin[h.c.next].of = h.f
                                      /\ given[h.c.next] = <<>>
      /\ h.c.kind = "thenFuture" => Spare(h.c.next)
      /\ h.c.next \in Ids \cup {0}
  <2>1. h.c.kind # "forwardError" => origin[h.c.next] = From(h.c.kind, h.f)
    BY <1>3 DEF ValidToken
  <2>2. From(h.c.kind, h.f).of = h.f
    BY DEF From
  <2> QED BY <1>3, <1>6, <2>1, <2>2 DEF ValidToken
<1>8. /\ given' \in [Ids \cup {0} -> Seq(Results)]
      /\ given'[h.c.next] # <<>>
      /\ given[h.c.next] = <<>> => given'[h.c.next] = <<x>>
      /\ \A n \in Ids \cup {0} : n # h.c.next => given'[n] = given[n]
  <2> DEFINE q == given[h.c.next]
  <2>1. q \in Seq(Results) /\ given \in [Ids \cup {0} -> Seq(Results)]
    BY <1>7 DEF FutureInv, FutureTypes
  <2>2. given' = [given EXCEPT ![h.c.next] = Append(q, x)]
    BY DEF Continue
  <2> HIDE DEF q
  <2>3. Append(q, x) \in Seq(Results) /\ Append(q, x) # <<>>
    BY <1>4, <2>1
  <2>4. q = <<>> => Append(q, x) = <<x>>
    BY <1>4
  <2> QED BY <1>7, <2>1, <2>2, <2>3, <2>4 DEF q
<1>9. Onward
  <2>1. \A n \in Ids : given[n] # <<>> => given'[n] # <<>>
    BY <1>8
  <2> QED BY <1>6, <2>1 DEF Onward
<1>10. \A k \in Ids : Spare(k) => Spare(k)'
  <2> SUFFICES ASSUME NEW k \in Ids, Spare(k) PROVE Spare(k)'
    OBVIOUS
  <2>1. k + 2 \in Ids /\ origin[k+2].of = 0
    BY <1>6 DEF Spare, From
  <2>2. k + 2 # h.c.next
    BY <1>3, <1>6, <1>7, <2>1
  <2>3. given'[k+2] = given[k+2]
    BY <1>8, <2>1, <2>2
  <2> QED BY <1>9, <2>3, SpareKept
<1>11. \A g, k : ValidToken(g, k) /\ g # h.f => TokenKept(k)
  <2> SUFFICES ASSUME NEW g, NEW k, ValidToken(g, k), g # h.f PROVE TokenKept(k)
    OBVIOUS
  <2>1. ASSUME k.kind # "forwardError" PROVE given'[k.next] = given[k.next]
    <3>1. k.next \in 1..made /\ origin[k.next] = From(k.kind, g)
      BY <2>1 DEF ValidToken
    <3>2. origin[k.next].of = g
      BY <3>1 DEF From
    <3>3. k.next # h.c.next
      BY <1>6, <1>7, <3>1, <3>2
    <3> QED BY <1>6, <1>8, <3>1, <3>3
  <2>2. ASSUME k.kind = "thenFuture" PROVE Spare(k.next)'
    BY <1>6, <1>10, <2>2 DEF ValidToken
  <2> QED BY <2>1, <2>2 DEF TokenKept
<1>12. /\ \A g \in Ids : Attached(g) => Attached(g)'
       /\ \A g, k : ValidToken(g, k) /\ g # h.f => ValidToken(g, k)'
       /\ \A b \in FrameSet : Valid(b) /\ ~Same(b, h) => Valid(b)'
  <2>1. \A b \in FrameSet :
          Valid(b) /\ b.op = "user" /\ b.c.kind = "thenFuture" => Spare(b.c.next)'
    BY <1>6, <1>10 DEF Valid, ValidCallback
  <2>2. \A b \in FrameSet : Valid(b) /\ ~Same(b, h) /\ b.op \in TokenOps => TokenKept(b.c)
    BY <1>3, <1>11 DEF Valid, Same
  <2> QED BY <1>9, <1>11, <2>1, <2>2, OnwardKeeps
<1>13. thrown' \in {thrown, TRUE}
  BY DEF Continue
<1>14. FutureTypes'
  BY <1>5, <1>8 DEF FutureInv, FutureTypes
<1>15. Numbered'
  <2> SUFFICES ASSUME NEW n \in Ids, n > made
               PROVE  given'[n] = <<>>
    BY DEF FutureInv, Numbered
  <2>1. n # h.c.next
    BY <1>6, <1>7
  <2> QED BY <1>8, <2>1 DEF FutureInv, Numbered
<1>16. Settled'
  BY DEF FutureInv, Settled
<1>17. /\ \A g : NoToken(g) => NoToken(g)'
       /\ \A g : g = h.f => NoToken(g)'
  <2>1. \A b : In(stack', b) /\ b.op \in TokenOps => In(B, b)
    BY <1>5 DEF TokenOps
  <2>2. \A b : In(B, b) /\ b.op \in TokenOps => b.f # h.f
    BY <1>2, <1>3 DEF Same
  <2> QED BY <1>2, <2>1, <2>2 DEF NoToken
<1>18. Waiting'
  BY <1>4, <1>12, <1>17 DEF FutureInv, Waiting
<1>19. Unmoved'
  <2> SUFFICES ASSUME NEW g \in Ids, state[g] = "finished", first[g] # <<resolved'[g]>>
               PROVE  Attached(g)' /\ NoToken(g)'
    BY DEF Unmoved
  <2>1. CASE g = h.f
    BY <1>3, <1>4, <1>12, <1>17, <2>1
  <2>2. CASE g # h.f
    BY <1>12, <1>17, <2>2 DEF FutureInv, Unmoved
  <2> QED BY <2>1, <2>2
<1>20. GivenFirst'
  <2> SUFFICES ASSUME NEW n \in Ids, given'[n] # <<>>
               PROVE  origin[n].of # 0 /\ given'[n] = first[origin[n].of]
    BY DEF GivenFirst
  <2>1. CASE n = h.c.next
    BY <1>3, <1>4, <1>6, <1>7, <1>8, <2>1
  <2>2. CASE n # h.c.next
    BY <1>8, <2>2 DEF FutureInv, GivenFirst
  <2> QED BY <2>1, <2>2
<1>21. Reached'
  <2> SUFFICES ASSUME NEW n \in Ids, origin[n].of # 0, ~thrown', given'[n] = <<>>
               PROVE  \/ Carried(n)'
                      \/ then[origin[n].of] # <<>> /\ then[origin[n].of][1].next = n
    BY DEF Reached
  <2>1. n # h.c.next /\ given[n] = <<>> /\ ~thrown
    BY <1>5, <1>8
  <2>2. Carried(n) => Carried(n)'
    BY <1>2, <1>5, <2>1 DEF Carried
  <2> QED BY <2>1, <2>2 DEF FutureInv, Reached
<1>22. FramesValid'
  <2> SUFFICES ASSUME NEW b \in FrameSet, In(stack', b) PROVE Valid(b)'
    BY DEF FramesValid
  <2>1. CASE In(B, b)
    BY <1>2, <1>12, <2>1 DEF FutureInv, FramesValid
  <2>2. CASE b.op = "resolve" /\ b.f \in 1..made /\ b.r \in Results
    BY <2>2 DEF Valid, TokenOps
  <2>3. CASE /\ b.op = "user" /\ b.c = h.c
             /\ h.c.kind \in {"then", "thenFuture", "onError"}
    <3>1. ValidCallback(b.c)'
      BY <1>3, <1>6, <1>7, <1>8, <1>10, <2>3 DEF ValidCallback
    <3> QED BY <2>3, <3>1 DEF Valid, TokenOps
  <2> QED BY <1>5, <2>1, <2>2, <2>3
<1> QED BY <1>5, <1>14, <1>15, <1>16, <1>18, <1>19, <1>20, <1>21, <1>22 DEF FutureInv

LEMMA DeliverKeeps ==
  ASSUME FutureAssumption, FutureInv, NEW t \in Threads, Deliver(t) \/ RunLate(t)
  PROVE  FutureInv'
<1> DEFINE h == Head(stack[t])
<1>1. stack[t] # <<>> /\ h.op \in {"deliver", "late"}
  BY DEF Deliver, RunLate, Runs
<1>2. h.f \in Ids
  BY <1>1, Innermost, FrameKinds DEF TokenOps
<1>3. /\ Continue(t, h.c, resolved[h.f])
      /\ resolved' = [resolved EXCEPT ![h.f].v = Gone] \/ resolved' = resolved
      /\ UNCHANGED <<made, origin, state, then, first>>
  BY DEF Deliver, RunLate
<1>4. resolved \in [Ids -> Results] /\ [resolved[h.f] EXCEPT !.v = Gone] \in Results
  BY <1>2 DEF FutureInv, FutureTypes, Results
<1> HIDE DEF h
<1>5. /\ resolved' \in [Ids -> Results]
      /\ \A g \in Ids : g # h.f => resolved'[g] = resolved[g]
  BY <1>2, <1>3, <1>4
<1> QED BY <1>1, <1>3, <1>5, ContinueKeeps DEF h

LEMMA FutureNext ==
  ASSUME FutureAssumption, "oneContinuation" \in Rules, FutureInv, [Next]_vars
  PROVE  FutureInv'
<1>1. ASSUME NEW t \in Threads, User(t) PROVE FutureInv'
  <2>1. CASE Make(t)
    BY <2>1, MakeKeeps
  <2>2. ASSUME NEW f \in Visible, NEW v \in Values,
               UserResolves(t, f, Ok(v)) \/ UserResolves(t, f, Err(v))
        PROVE  FutureInv'
    <3>1. Ok(v) \in Results /\ Err(v) \in Results
      BY DEF Ok, Err, Results
    <3> QED BY <2>2, <3>1, UserResolvesKeeps
  <2>3. ASSUME NEW f \in Visible, NEW kind \in {"then", "onError"}, UserAttaches(t, f, kind)
        PROVE  FutureInv'
    BY <2>3, UserAttachesKeeps
  <2>4. ASSUME NEW f \in Visible, UserAttachesFuture(t, f) PROVE FutureInv'
    BY <2>4, UserAttachesFutureKeeps
  <2> QED BY <1>1, <2>1, <2>2, <2>3, <2>4 DEF User
<1>2. ASSUME NEW t \in Threads, Step(t) PROVE FutureInv'
  <2>1. CASE Resolve(t)
    BY <2>1, ResolveAgainKeeps, ResolveFirstKeeps
  <2>2. CASE Attach(t)
    BY <2>2, AttachLateKeeps, AttachWaitsKeeps
  <2>3. CASE Deliver(t) \/ RunLate(t)
    BY <2>3, DeliverKeeps
  <2>4. ASSUME NEW v \in Values, ReturnValue(t, v) PROVE FutureInv'
    BY <2>4, ReturnValueKeeps
  <2>5. ASSUME NEW g \in Visible, ReturnFuture(t, g) PROVE FutureInv'
    BY <2>5, ReturnFutureKeeps
  <2> QED BY <1>2, <2>1, <2>2, <2>3, <2>4, <2>5 DEF Step
<1>3. ASSUME UNCHANGED vars PROVE FutureInv'
  <2>1. UNCHANGED <<made, origin, state, resolved, then, stack, thrown, first, given>>
    BY <1>3 DEF vars, contexts, history
  <2>2. made' \in 0..MaxFutures /\ made <= made' /\ stack' \in Stacks /\ Unique(stack')
    BY <2>1 DEF FutureInv, FutureTypes, FutureAssumption
  <2>3. /\ \A f : NoToken(f) => NoToken(f)'
        /\ \A n : Carried(n) => Carried(n)'
        /\ \A a \in FrameSet : In(stack', a) => In(stack, a)
    BY <2>1 DEF NoToken, Carried
  <2> QED BY <2>1, <2>2, <2>3, StackStep
<1> QED BY <1>1, <1>2, <1>3 DEF Next

\* The frames of a thread, and those of its stack.
LEMMA FramesIn ==
  ASSUME FutureInv
  PROVE  /\ \A t \in Threads : \A a \in Frames(t) : a \in FrameSet /\ In(stack, a)
         /\ \A a : In(stack, a) => \E t \in Threads : a \in Frames(t)
<1>1. \A t \in Threads : stack[t] \in Seq(FrameSet) /\ DOMAIN stack[t] = 1..Len(stack[t])
  BY DEF FutureInv, FutureTypes, Stacks
<1>2. ASSUME NEW t \in Threads, NEW a \in Frames(t) PROVE a \in FrameSet /\ In(stack, a)
  <2>1. PICK i \in DOMAIN stack[t] : a = stack[t][i]
    BY <1>2 DEF Frames
  <2>2. i \in 1..Len(stack[t]) /\ stack[t][i] \in FrameSet
    BY <1>1
  <2> QED BY <2>1, <2>2 DEF In
<1>3. ASSUME NEW a, In(stack, a) PROVE \E t \in Threads : a \in Frames(t)
  <2>1. PICK t \in Threads : \E i \in 1..Len(stack[t]) : stack[t][i] = a
    BY <1>3 DEF In
  <2>2. a \in Frames(t)
    BY <1>1, <2>1 DEF Frames
  <2> QED BY <2>2
<1> QED BY <1>2, <1>3

LEMMA InvContinuations ==
  ASSUME FutureAssumption, FutureInv PROVE Continuations
<1>1. TypeOK
  <2>1. made \in 0..MaxFutures
    BY DEF FutureInv, FutureTypes
  <2>2. ASSUME NEW f \in Ids
        PROVE  /\ origin[f].kind \in Kinds \cup {"made", "lazy"}
               /\ origin[f].of \in 0..made
               /\ state[f] \in {"pending", "finished"}
               /\ resolved[f] \in Results
    <3>1. origin[f] \in Origins /\ state[f] \in {"pending", "finished"} /\ resolved[f] \in Results
      BY DEF FutureInv, FutureTypes
    <3>2. origin[f].of <= made /\ made \in Nat
      BY DEF FutureInv, Numbered, FutureTypes, FutureAssumption
    <3>3. origin[f].kind \in Kinds \cup {"made", "lazy"} /\ origin[f].of \in Nat
      BY <3>1 DEF Origins, Ids
    <3> QED BY <3>1, <3>2, <3>3
  <2>3. ASSUME NEW f \in Ids
        PROVE  /\ (state[f] = "finished") = (first[f] # <<>>)
               /\ state[f] = "pending" \/ then[f] = <<>>
    BY <2>2 DEF FutureInv, Settled
  <2>4. \A t \in Threads : \A frame \in Frames(t) :
          frame.op \in {"deliver", "late"} => state[frame.f] = "finished"
    BY FramesIn DEF FutureInv, FramesValid, Valid
  <2> QED BY <2>1, <2>2, <2>3, <2>4 DEF TypeOK
<1>2. Futures \subseteq Ids
  BY DEF Futures, Ids, FutureInv, FutureTypes, FutureAssumption
<1>3. RunsOnce
  BY <1>1, <1>2 DEF RunsOnce, FutureInv, GivenFirst
<1>4. NoneLost
  <2> SUFFICES ASSUME NEW n \in Futures, Finished(origin[n].of), ~thrown, given[n] = <<>>
               PROVE  \E t \in Threads : \E frame \in Frames(t) :
                        frame.op \in {"attach", "late", "deliver"} /\ frame.c.next = n
    BY DEF NoneLost
  <2>1. n \in Ids /\ origin[n].of # 0 /\ state[origin[n].of] = "finished"
    BY <1>2 DEF Finished
  <2>2. origin[n].of \in Ids
    BY <2>1 DEF FutureInv, FutureTypes, Origins
  <2>3. then[origin[n].of] = <<>>
    BY <2>1, <2>2 DEF FutureInv, Settled
  <2>4. Carried(n)
    BY <2>1, <2>3 DEF FutureInv, Reached
  <2> QED BY <2>4, FramesIn DEF Carried, TokenOps
<1> QED BY <1>1, <1>3, <1>4 DEF Continuations

\* While a thread is about to read or move the value of a context, no other
\* thread changes it.
LEMMA NoRaceStep ==
  ASSUME FutureAssumption, FutureInv, [Next]_vars,
         NEW f \in Ids, resolved'[f] # resolved[f],
         NEW t \in Threads, Runs(t, "deliver") \/ Runs(t, "late"), Head(stack[t]).f = f
  PROVE  stack'[t] # stack[t]
<1> DEFINE h == Head(stack[t])
<1>1. stack[t] # <<>> /\ h.op \in {"deliver", "late"} /\ h.op \in TokenOps
  BY DEF Runs, TokenOps
<1>2. stack[t] \in Seq(FrameSet) /\ Unique(stack)
  BY DEF FutureInv, FutureTypes, Stacks
<1>3. h = stack[t][1] /\ 1 \in 1..Len(stack[t])
  BY <1>1, <1>2
<1>4. h \in FrameSet /\ Valid(h) /\ state[f] = "finished"
  BY <1>1, Innermost DEF Valid
<1>5. PICK w \in Threads : Resolve(w) \/ Deliver(w) \/ RunLate(w)
  BY DEF Next, User, Step, Make, UserResolves, UserAttaches, UserAttachesFuture, Attach,
         ReturnValue, ReturnFuture, vars, contexts, history
<1> DEFINE k == Head(stack[w])
<1>6. CASE Resolve(w)
  <2>1. stack[w] # <<>> /\ k.op = "resolve" /\ k.f \in Ids
    <3>1. stack[w] # <<>> /\ k.op = "resolve"
      BY <1>6 DEF Resolve, Runs
    <3> QED BY <3>1, Innermost, FrameKinds
  <2>2. resolved' = [resolved EXCEPT ![k.f] = k.r] /\ state[k.f] # "finished"
    BY <1>6 DEF Resolve
  <2>3. resolved'[f] = resolved[f]
    BY <1>4, <2>1, <2>2 DEF FutureInv, FutureTypes
  <2> QED BY <2>3
<1>7. CASE Deliver(w) \/ RunLate(w)
  <2>1. stack[w] # <<>> /\ k.op \in {"deliver", "late"} /\ k.op \in TokenOps
    BY <1>7 DEF Deliver, RunLate, Runs, TokenOps
  <2>2. k \in FrameSet /\ k.f \in Ids /\ stack[w] \in Seq(FrameSet)
    BY <2>1, Innermost, FrameKinds DEF FutureInv, FutureTypes, Stacks
  <2>3. k = stack[w][1] /\ 1 \in 1..Len(stack[w])
    BY <2>1, <2>2
  <2>4. k.f = f
    BY <1>7, <2>2 DEF Deliver, RunLate, FutureInv, FutureTypes
  <2>5. Same(h, k)
    BY <1>1, <2>1, <2>4 DEF Same
  <2>6. t = w
    BY <1>2, <1>3, <2>3, <2>5 DEF Unique
  <2>7. Continue(t, h.c, resolved[f]) /\ resolved[f] \in Results
    BY <1>7, <2>6 DEF Deliver, RunLate, FutureInv, FutureTypes
  <2>8. \A b : In(Popped(stack, t), b) => ~Same(b, h)
    BY <1>1, PopFrame DEF FutureInv, FutureTypes
  <2>9. ~In(stack', h)
    <3>1. In(stack', h) => \/ In(Popped(stack, t), h)
                           \/ h.op = "resolve" \/ h.op = "user"
      BY <1>1, <2>7, ContinueFrames
    <3>2. Same(h, h)
      BY <1>1 DEF Same
    <3> QED BY <1>1, <2>8, <3>1, <3>2
  <2>10. ASSUME stack'[t] = stack[t] PROVE FALSE
    <3>1. stack'[t][1] = h /\ 1 \in 1..Len(stack'[t])
      BY <1>3, <2>10
    <3> HIDE DEF h
    <3> QED BY <2>9, <3>1 DEF In
  <2> QED BY <2>10
<1> QED BY <1>5, <1>6, <1>7

\* A user who calls Then or OnError once at most on each future has each
\* continuation called once at most, with the first result, and none lost:
\* for any number of threads, futures and results.
THEOREM ContinuationsSafety ==
  ASSUME "oneContinuation" \in Rules PROVE Spec => []Continuations
<1>1. FutureAssumption
  BY FutureAssumption
<1>2. Init => FutureInv
  BY <1>1, FutureInit
<1>3. FutureInv /\ [Next]_vars => FutureInv'
  BY <1>1, FutureNext
<1>4. FutureInv => Continuations
  BY <1>1, InvContinuations
<1> QED BY <1>2, <1>3, <1>4, PTL DEF Spec

\* And no thread changes a context's value while another is about to read or
\* move it, although no mutex is held then.
THEOREM RaceSafety ==
  ASSUME "oneContinuation" \in Rules PROVE Spec => NoRace
<1>1. FutureAssumption
  BY FutureAssumption
<1>2. Init => FutureInv
  BY <1>1, FutureInit
<1>3. FutureInv /\ [Next]_vars => FutureInv'
  BY <1>1, FutureNext
<1>4. FutureInv /\ [Next]_vars =>
        [\A f \in Ids : resolved'[f] # resolved[f] =>
           \A t \in Threads :
             (Runs(t, "deliver") \/ Runs(t, "late")) /\ Head(stack[t]).f = f
               => stack'[t] # stack[t]]_vars
  BY <1>1, NoRaceStep
<1> QED BY <1>2, <1>3, <1>4, PTL DEF Spec, NoRace

-----------------------------------------------------------------------------
\* The locked queue.

Elements == [by : Threads, n : Nat]

\* What was pushed so far stands in the sequence a, in order.
Ordered(a, p) ==
  /\ \A i \in DOMAIN a : a[i].n \in 1..p[a[i].by]
  /\ \A t \in Threads : \A n \in 1..p[t] : \E i \in DOMAIN a : a[i] = [by |-> t, n |-> n]
  /\ \A i, j \in DOMAIN a : a[i].by = a[j].by => (i < j <=> a[i].n < a[j].n)

QueueTypes ==
  /\ queue \in Seq(Elements) /\ taken \in Seq(Elements)
  /\ pushed \in [Threads -> Nat]
  /\ local \in [Threads -> Seq(Elements)]
  /\ stuck \subseteq Threads

QueueInv == QueueTypes /\ Queue!LeavesInOrder

LEMMA OrderedInQueue ==
  Queue!LeavesInOrder <=>
    /\ holder \in {<<>>} \cup {<<t>> : t \in Threads}
    /\ \A t \in stuck : holder = <<t>> /\ "quietFunction" \in misused
    /\ "emptySwap" \notin misused => Ordered(taken \o queue, pushed)
BY DEF Queue!LeavesInOrder, Queue!All, Ordered

\* The next element of a thread goes to the end.
LEMMA OrderedPush ==
  ASSUME NEW a \in Seq(Elements), NEW p \in [Threads -> Nat], Ordered(a, p),
         NEW t \in Threads, NEW e, e = [by |-> t, n |-> p[t] + 1],
         NEW q, q = [p EXCEPT ![t] = @ + 1]
  PROVE  Ordered(Append(a, e), q)
<1> DEFINE b == Append(a, e)
<1>1. /\ e \in Elements /\ e.by = t /\ e.n = p[t] + 1 /\ p[t] \in Nat
  BY DEF Elements
<1>2. /\ q \in [Threads -> Nat] /\ q[t] = p[t] + 1
      /\ \A w \in Threads : w # t => q[w] = p[w]
      /\ \A w \in Threads : q[w] \in Nat /\ p[w] \in Nat /\ p[w] <= q[w]
  BY <1>1
<1>3. /\ Len(a) \in Nat /\ DOMAIN a = 1..Len(a) /\ DOMAIN b = 1..(Len(a) + 1)
      /\ b[Len(a) + 1] = e /\ \A i \in 1..Len(a) : b[i] = a[i] /\ a[i] \in Elements
  BY <1>1
<1> HIDE DEF b
<1>4. /\ Len(a) + 1 \in DOMAIN b /\ \A i \in DOMAIN a : i \in DOMAIN b
      /\ \A i \in DOMAIN b : i \in Int /\ (i # Len(a) + 1 => i \in DOMAIN a /\ i < Len(a) + 1)
  BY <1>3
<1>5. \A i \in DOMAIN a : /\ a[i].by \in Threads /\ a[i].n \in Int
                          /\ a[i].n \in 1..p[a[i].by] /\ b[i] = a[i]
                          /\ a[i].by = t => a[i].n < p[t] + 1
  <2> SUFFICES ASSUME NEW i \in DOMAIN a
               PROVE  /\ a[i].by \in Threads /\ a[i].n \in Int
                      /\ a[i].n \in 1..p[a[i].by] /\ b[i] = a[i]
                      /\ a[i].by = t => a[i].n < p[t] + 1
    OBVIOUS
  <2>1. a[i].by \in Threads /\ a[i].n \in Int /\ b[i] = a[i]
    BY <1>3 DEF Elements
  <2>2. a[i].n \in 1..p[a[i].by]
    BY DEF Ordered
  <2> QED BY <1>1, <2>1, <2>2
<1>6. \A i \in DOMAIN b : b[i].n \in 1..q[b[i].by]
  <2> TAKE i \in DOMAIN b
  <2>1. CASE i = Len(a) + 1
    BY <1>1, <1>2, <1>3, <2>1
  <2>2. CASE i # Len(a) + 1
    <3>1. i \in DOMAIN a
      BY <1>4, <2>2
    <3>2. /\ b[i] = a[i] /\ a[i].n \in 1..p[a[i].by]
          /\ p[a[i].by] <= q[a[i].by] /\ p[a[i].by] \in Nat /\ q[a[i].by] \in Nat
      BY <1>2, <1>5, <3>1
    <3> QED BY <3>2
  <2> QED BY <2>1, <2>2
<1>7. \A w \in Threads : \A n \in 1..q[w] : \E i \in DOMAIN b : b[i] = [by |-> w, n |-> n]
  <2> TAKE w \in Threads
  <2> TAKE n \in 1..q[w]
  <2>1. CASE w = t /\ n = q[t]
    BY <1>2, <1>3, <1>4, <2>1
  <2>2. CASE ~(w = t /\ n = q[t])
    <3>1. n \in 1..p[w]
      BY <1>1, <1>2, <2>2
    <3>2. PICK i \in DOMAIN a : a[i] = [by |-> w, n |-> n]
      BY <3>1 DEF Ordered
    <3> QED BY <1>4, <1>5, <3>2
  <2> QED BY <2>1, <2>2
<1>8. \A i, j \in DOMAIN b : b[i].by = b[j].by => (i < j <=> b[i].n < b[j].n)
  <2> SUFFICES ASSUME NEW i \in DOMAIN b, NEW j \in DOMAIN b, b[i].by = b[j].by
               PROVE  i < j <=> b[i].n < b[j].n
    OBVIOUS
  <2>1. CASE i # Len(a) + 1 /\ j # Len(a) + 1
    <3>1. i \in DOMAIN a /\ j \in DOMAIN a /\ b[i] = a[i] /\ b[j] = a[j]
      BY <1>4, <1>5, <2>1
    <3> QED BY <3>1 DEF Ordered
  <2>2. CASE i = Len(a) + 1 /\ j # Len(a) + 1
    <3>1. /\ j \in DOMAIN a /\ j < i /\ b[j] = a[j] /\ b[i] = e /\ i \in Int /\ j \in Int
          /\ a[j].n \in Int
      BY <1>3, <1>4, <1>5, <2>2
    <3>2. a[j].n < b[i].n
      BY <1>1, <1>5, <3>1
    <3> QED BY <1>1, <3>1, <3>2
  <2>3. CASE i # Len(a) + 1 /\ j = Len(a) + 1
    <3>1. i \in DOMAIN a /\ i < j /\ b[i] = a[i] /\ b[j] = e
      BY <1>3, <1>4, <1>5, <2>3
    <3>2. b[i].n < b[j].n
      BY <1>1, <1>5, <3>1
    <3> QED BY <3>1, <3>2
  <2>4. CASE i = Len(a) + 1 /\ j = Len(a) + 1
    BY <1>1, <1>3, <2>4
  <2> QED BY <2>1, <2>2, <2>3, <2>4
<1> QED BY <1>6, <1>7, <1>8 DEF Ordered, b

\* What the steps do to the sequence of all elements.
LEMMA QueueMoves ==
  ASSUME NEW T, NEW a \in Seq(T), NEW b \in Seq(T)
  PROVE  /\ a \o b \in Seq(T)
         /\ (a \o b) \o <<>> = a \o b
         /\ \A e \in T : a \o Append(b, e) = Append(a \o b, e)
         /\ b # <<>> => (a \o <<Head(b)>>) \o Tail(b) = a \o b
<1> DEFINE c == a \o b
<1>1. /\ c \in Seq(T) /\ Len(c) = Len(a) + Len(b) /\ Len(a) \in Nat /\ Len(b) \in Nat
      /\ \A i \in 1..Len(c) : c[i] = IF i <= Len(a) THEN a[i] ELSE b[i - Len(a)]
  OBVIOUS
<1>2. c \o <<>> = c
  <2> HIDE DEF c
  <2> QED BY <1>1
<1>3. ASSUME NEW e \in T PROVE a \o Append(b, e) = Append(c, e)
  OBVIOUS
<1>4. ASSUME b # <<>> PROVE (a \o <<Head(b)>>) \o Tail(b) = c
  <2> DEFINE h == a \o <<Head(b)>>
  <2> DEFINE r == Tail(b)
  <2> DEFINE d == h \o r
  <2>1. /\ h \in Seq(T) /\ Len(h) = Len(a) + 1
        /\ \A i \in 1..Len(h) : h[i] = IF i <= Len(a) THEN a[i] ELSE b[1]
    BY <1>4
  <2>2. /\ r \in Seq(T) /\ Len(r) = Len(b) - 1 /\ Len(b) >= 1
        /\ \A i \in 1..Len(r) : r[i] = b[i + 1]
    BY <1>4
  <2> HIDE DEF h, r, c
  <2>3. /\ d \in Seq(T) /\ Len(d) = Len(h) + Len(r)
        /\ \A i \in 1..Len(d) : d[i] = IF i <= Len(h) THEN h[i] ELSE r[i - Len(h)]
    <3>1. h \in Seq(T) /\ r \in Seq(T)
      BY <2>1, <2>2
    <3> QED BY <3>1
  <2> HIDE DEF d
  <2>4. Len(d) = Len(c)
    BY <1>1, <2>1, <2>2, <2>3
  <2>5. \A i \in 1..Len(d) : d[i] = c[i]
    <3> TAKE i \in 1..Len(d)
    <3>1. CASE i <= Len(a)
      BY <1>1, <2>1, <2>3, <2>4, <3>1
    <3>2. CASE i = Len(a) + 1
      BY <1>1, <2>1, <2>2, <2>3, <2>4, <3>2
    <3>3. CASE i > Len(a) + 1
      <4>1. i - Len(h) \in 1..Len(r) /\ (i - Len(h)) + 1 = i - Len(a)
        BY <1>1, <2>1, <2>2, <2>3, <3>3
      <4>2. d[i] = r[i - Len(h)]
        BY <1>1, <2>1, <2>3, <3>3
      <4>3. r[i - Len(h)] = b[i - Len(a)]
        BY <2>2, <4>1
      <4> QED BY <1>1, <2>4, <3>3, <4>2, <4>3
    <3> QED BY <1>1, <3>1, <3>2, <3>3
  <2>6. d = c
    BY <1>1, <2>3, <2>4, <2>5
  <2> QED BY <2>6 DEF d, h, r
<1> QED BY <1>1, <1>2, <1>3, <1>4 DEF c
LEMMA QueueNext ==
  ASSUME QueueInv, [Queue!Next]_(Queue!vars) PROVE QueueInv'
<1>1. /\ QueueTypes
      /\ holder \in {<<>>} \cup {<<t>> : t \in Threads}
      /\ \A t \in stuck : holder = <<t>> /\ "quietFunction" \in misused
      /\ "emptySwap" \notin misused => Ordered(taken \o queue, pushed)
  BY OrderedInQueue DEF QueueInv
<1>2. /\ queue \in Seq(Elements) /\ taken \in Seq(Elements) /\ taken \o queue \in Seq(Elements)
      /\ pushed \in [Threads -> Nat] /\ local \in [Threads -> Seq(Elements)]
      /\ stuck \subseteq Threads
  BY <1>1 DEF QueueTypes
<1> DEFINE Locks == /\ holder' \in {<<>>} \cup {<<t>> : t \in Threads}
                    /\ \A t \in stuck' : holder' = <<t>> /\ "quietFunction" \in misused'
<1> DEFINE Order == "emptySwap" \notin misused' => Ordered(taken' \o queue', pushed')
<1>3. QueueTypes' /\ Locks /\ Order => QueueInv'
  BY DEF QueueInv, Queue!LeavesInOrder, Queue!All, Ordered
<1>4. ASSUME NEW t \in Threads, Queue!PushBack(t) PROVE QueueInv'
  <2> DEFINE e == [by |-> t, n |-> pushed[t] + 1]
  <2>1. /\ queue' = Append(queue, e) /\ pushed' = [pushed EXCEPT ![t] = @ + 1]
        /\ UNCHANGED <<holder, stuck, local, taken, misused>>
    BY <1>4 DEF Queue!PushBack, Queue!Pushed
  <2>2. e \in Elements
    BY <1>2 DEF Elements
  <2>3. QueueTypes'
    <3> HIDE DEF e
    <3>1. queue' \in Seq(Elements) /\ pushed' \in [Threads -> Nat]
      BY <1>2, <2>1, <2>2
    <3> QED BY <1>2, <2>1, <3>1 DEF QueueTypes
  <2>4. Locks
    BY <1>1, <2>1
  <2>5. Order
    <3> HAVE "emptySwap" \notin misused'
    <3>1. Ordered(Append(taken \o queue, e), pushed')
      BY <1>1, <1>2, <2>1, OrderedPush
    <3> HIDE DEF e
    <3>2. taken' \o queue' = Append(taken \o queue, e)
      BY <1>2, <2>1, <2>2, QueueMoves
    <3> QED BY <3>1, <3>2
  <2> HIDE DEF Locks, Order
  <2> QED BY <1>3, <2>3, <2>4, <2>5
<1>5. ASSUME NEW t \in Threads, Queue!PopFront(t) PROVE QueueInv'
  <2>1. /\ queue # <<>> /\ queue' = Tail(queue)
        /\ UNCHANGED <<holder, stuck, pushed, local, misused>>
        /\ taken' = IF "emptySwap" \in misused' THEN taken ELSE taken \o <<Head(queue)>>
    BY <1>5 DEF Queue!PopFront, Queue!Took
  <2>2. QueueTypes'
    <3>1. queue' \in Seq(Elements) /\ taken' \in Seq(Elements)
      BY <1>2, <2>1
    <3> QED BY <1>2, <2>1, <3>1 DEF QueueTypes
  <2>3. Locks
    BY <1>1, <2>1
  <2>4. Order
    <3> HAVE "emptySwap" \notin misused'
    <3>1. taken' = taken \o <<Head(queue)>>
      BY <2>1
    <3>2. taken' \o queue' = taken \o queue
      BY <1>2, <2>1, <3>1, QueueMoves
    <3> QED BY <1>1, <2>1, <3>2
  <2> HIDE DEF Locks, Order
  <2> QED BY <1>3, <2>2, <2>3, <2>4
<1>6. ASSUME NEW t \in Threads, Queue!Swap(t) PROVE QueueInv'
  <2>1. /\ queue' = local[t] /\ local' = [local EXCEPT ![t] = queue]
        /\ misused' = misused \cup (IF local[t] = <<>> THEN {} ELSE {"emptySwap"})
        /\ taken' = IF "emptySwap" \in misused' THEN taken ELSE taken \o queue
        /\ UNCHANGED <<holder, stuck, pushed>>
    BY <1>6 DEF Queue!Swap, Queue!Took
  <2>2. QueueTypes'
    <3>1. queue' \in Seq(Elements) /\ local' \in [Threads -> Seq(Elements)]
      BY <1>2, <2>1
    <3>2. taken' \in Seq(Elements)
      BY <1>2, <2>1
    <3> QED BY <1>2, <2>1, <3>1, <3>2 DEF QueueTypes
  <2>3. Locks
    BY <1>1, <2>1
  <2>4. Order
    <3> HAVE "emptySwap" \notin misused'
    <3>1. taken' = taken \o queue /\ queue' = <<>> /\ "emptySwap" \notin misused
      BY <2>1
    <3>2. taken' \o queue' = taken \o queue
      BY <1>2, <3>1, QueueMoves
    <3> QED BY <1>1, <2>1, <3>1, <3>2
  <2> HIDE DEF Locks, Order
  <2> QED BY <1>3, <2>2, <2>3, <2>4
<1>7. ASSUME NEW t \in Threads, Queue!DropLocal(t) PROVE QueueInv'
  <2>1. /\ local' = [local EXCEPT ![t] = <<>>]
        /\ UNCHANGED <<queue, holder, stuck, pushed, taken, misused>>
    BY <1>7 DEF Queue!DropLocal
  <2>2. QueueTypes' /\ Locks /\ Order
    BY <1>1, <1>2, <2>1 DEF QueueTypes
  <2> HIDE DEF Locks, Order
  <2> QED BY <1>3, <2>2
\* Who holds the mutex and is not stuck is the only one that could be.
<1>8. ASSUME NEW t \in Threads, Queue!Do(t) \/ Queue!FunctionUsesQueue(t) \/ Queue!Unlock(t)
      PROVE  QueueInv'
  <2>1. UNCHANGED <<queue, pushed, local, taken>>
    BY <1>8 DEF Queue!Do, Queue!FunctionUsesQueue, Queue!Unlock
  <2>2. \A w \in stuck : holder = <<t>> => w = t
    BY <1>1
  <2>3. Locks /\ stuck' \subseteq Threads
    <3>1. CASE Queue!Do(t)
      BY <1>1, <1>2, <3>1 DEF Queue!Do, Queue!CanLock
    <3>2. CASE Queue!FunctionUsesQueue(t)
      BY <1>1, <1>2, <2>2, <3>2 DEF Queue!FunctionUsesQueue
    <3>3. CASE Queue!Unlock(t)
      BY <1>1, <1>2, <2>2, <3>3 DEF Queue!Unlock
    <3> QED BY <1>8, <3>1, <3>2, <3>3
  <2>4. QueueTypes'
    BY <1>2, <2>1, <2>3 DEF QueueTypes
  <2>5. "emptySwap" \notin misused' => "emptySwap" \notin misused
    BY <1>8 DEF Queue!Do, Queue!FunctionUsesQueue, Queue!Unlock
  <2>6. Order
    BY <1>1, <2>1, <2>5
  <2> HIDE DEF Locks, Order
  <2> QED BY <1>3, <2>3, <2>4, <2>6
<1>9. CASE UNCHANGED Queue!vars
  BY <1>1, <1>2, <1>3, <1>9 DEF Queue!vars, QueueTypes
<1> QED BY <1>4, <1>5, <1>6, <1>7, <1>8, <1>9 DEF Queue!Next

\* Through PushBack, PopFront and Swap of any threads every element leaves
\* once, and those of a thread in its order.
LEMMA QueueSafety == Queue!Spec => []Queue!LeavesInOrder
<1>1. Queue!Init => QueueInv
  <2> SUFFICES ASSUME Queue!Init PROVE QueueInv
    OBVIOUS
  <2>1. QueueTypes
    BY DEF Queue!Init, QueueTypes
  <2>2. taken \o queue = <<>> /\ Ordered(<<>>, pushed)
    BY DEF Queue!Init, Ordered
  <2>3. Queue!LeavesInOrder
    BY <2>2, OrderedInQueue DEF Queue!Init
  <2> QED BY <2>1, <2>3 DEF QueueInv
<1>2. QueueInv /\ [Queue!Next]_(Queue!vars) => QueueInv'
  BY QueueNext
<1>3. QueueInv => Queue!LeavesInOrder
  BY DEF QueueInv
<1> QED BY <1>1, <1>2, <1>3, PTL DEF Queue!Spec

-----------------------------------------------------------------------------
\* The object pool.

PoolSizes == IsFiniteSet(Threads) /\ Threads # {} /\ BlockSize \in Nat \ {0}

\* As many objects as a thread's own block can hold.
Full == 2 * BlockSize - 1

Blocks == [Threads -> 0..Full]

HeldBy(p) == {place \in Threads \X (1..Full) : place[2] <= p[place[1]]}

LEMMA CardinalityOfPool == \A S : Pool!Cardinality(S) = Cardinality(S)
BY DEF Pool!Cardinality, Cardinality

LEMMA HeldIsHeldBy == Pool!Held = HeldBy(pri)
BY DEF Pool!Held, HeldBy, Full

\* The objects in the own blocks are those of the others and those of t.
LEMMA HeldSplits ==
  ASSUME PoolSizes, NEW p \in Blocks, NEW t \in Threads, NEW R,
         R = {place \in HeldBy(p) : place[1] # t}
  PROVE  /\ IsFiniteSet(R) /\ IsFiniteSet(HeldBy(p))
         /\ Cardinality(R) \in Nat
         /\ Cardinality(HeldBy(p)) = Cardinality(R) + p[t]
<1> DEFINE I == 1..p[t]
<1> DEFINE T == {t} \X I
<1> DEFINE H == HeldBy(p)
<1>1. /\ Full \in Nat /\ p[t] \in 0..Full /\ p[t] \in Nat
      /\ \A i \in I : i \in 1..Full /\ i <= p[t]
      /\ \A i \in 1..Full : i <= p[t] => i \in I
  BY DEF PoolSizes, Full, Blocks
<1>2. IsFiniteSet(1..Full) /\ IsFiniteSet(I) /\ Cardinality(I) = p[t]
  <2>1. IsFiniteSet(1..Full)
    BY <1>1, FS_Interval
  <2>2. \A n \in Nat : IsFiniteSet(1..n) /\ Cardinality(1..n) = n
    BY FS_Interval
  <2> QED BY <1>1, <2>1, <2>2
<1>3. IsFiniteSet(Threads \X (1..Full))
  BY <1>2, FS_Product DEF PoolSizes
<1>4. IsFiniteSet(H)
  <2>1. H \in SUBSET (Threads \X (1..Full))
    BY DEF HeldBy
  <2> QED BY <1>3, <2>1, FS_Subset
<1>5. IsFiniteSet(R)
  <2>1. R \in SUBSET H
    OBVIOUS
  <2> HIDE DEF H
  <2> QED BY <1>4, <2>1, FS_Subset
<1>6. IsFiniteSet(T) /\ Cardinality(T) = p[t]
  <2>1. IsFiniteSet({t}) /\ Cardinality({t}) = 1
    BY FS_Singleton
  <2> HIDE DEF I
  <2>2. IsFiniteSet(T) /\ Cardinality(T) = Cardinality({t}) * Cardinality(I)
    BY <1>2, <2>1, FS_Product
  <2> HIDE DEF T
  <2> QED BY <1>1, <1>2, <2>1, <2>2
<1>7. H = R \cup T
  <2>1. ASSUME NEW x \in H PROVE x \in R \cup T
    <3>1. x \in Threads \X (1..Full) /\ x[2] <= p[x[1]]
      BY DEF HeldBy
    <3>2. x[1] = t => x[2] \in I /\ x = <<t, x[2]>>
      BY <1>1, <3>1
    <3> QED BY <3>2
  <2>2. ASSUME NEW x \in T PROVE x \in H
    <3>1. x[1] = t /\ x[2] \in I /\ x = <<t, x[2]>>
      OBVIOUS
    <3> QED BY <1>1, <3>1 DEF HeldBy
  <2> QED BY <2>1, <2>2
<1>8. R \cap T = {}
  <2>1. \A x \in T : x[1] = t
    OBVIOUS
  <2> QED BY <2>1
<1> HIDE DEF T, H
<1>9. Cardinality(H) = Cardinality(R) + p[t]
  <2>1. Cardinality(R \cup T) = Cardinality(R) + Cardinality(T) - Cardinality(R \cap T)
    BY <1>5, <1>6, FS_Union
  <2>2. Cardinality(R \cap T) = 0
    BY <1>8, FS_EmptySet
  <2>3. Cardinality(R) \in Nat
    BY <1>5, FS_CardinalityType
  <2> QED BY <1>1, <1>6, <1>7, <2>1, <2>2, <2>3
<1>10. Cardinality(R) \in Nat
  BY <1>5, FS_CardinalityType
<1> QED BY <1>4, <1>5, <1>9, <1>10 DEF H

\* One thread's block changes.
LEMMA HeldChanges ==
  ASSUME PoolSizes, NEW p \in Blocks, NEW t \in Threads, NEW n \in 0..Full,
         NEW q, q = [p EXCEPT ![t] = n]
  PROVE  /\ q \in Blocks
         /\ Cardinality(HeldBy(p)) \in Nat
         /\ Cardinality(HeldBy(q)) = Cardinality(HeldBy(p)) - p[t] + n
<1> DEFINE P == {place \in HeldBy(p) : place[1] # t}
<1> DEFINE Q == {place \in HeldBy(q) : place[1] # t}
<1>1. q \in Blocks /\ q[t] = n /\ \A w \in Threads : w # t => q[w] = p[w]
  BY DEF Blocks
<1>2. P = Q
  <2>1. \A x \in Threads \X (1..Full) : x[1] \in Threads
    OBVIOUS
  <2> QED BY <1>1, <2>1 DEF HeldBy
<1> HIDE DEF P, Q
<1>3. /\ Cardinality(P) \in Nat /\ Cardinality(HeldBy(p)) = Cardinality(P) + p[t]
      /\ Cardinality(HeldBy(q)) = Cardinality(Q) + n
  BY <1>1, HeldSplits DEF P, Q
<1>4. p[t] \in Nat /\ n \in Nat
  BY DEF Blocks, Full, PoolSizes
<1> QED BY <1>1, <1>2, <1>3, <1>4

\* Threads with empty blocks hold nothing back.
LEMMA HeldBound ==
  ASSUME PoolSizes, NEW p \in Blocks, NEW K \in SUBSET Threads, \A t \in K : p[t] = 0
  PROVE  /\ Cardinality(K) \in Nat /\ Cardinality(K) <= Cardinality(Threads)
         /\ Cardinality(Threads) \in Nat
         /\ Cardinality(HeldBy(p)) <= (Cardinality(Threads) - Cardinality(K)) * Full
<1> DEFINE O == Threads \ K
<1> DEFINE I == 1..Full
<1> DEFINE S == O \X I
<1>1. Full \in Nat /\ IsFiniteSet(Threads)
  BY DEF PoolSizes, Full
<1>2. /\ IsFiniteSet(K) /\ Cardinality(K) <= Cardinality(Threads)
      /\ Cardinality(K) \in Nat /\ Cardinality(Threads) \in Nat
  BY <1>1, FS_Subset, FS_CardinalityType
<1>3. IsFiniteSet(O) /\ Cardinality(O) = Cardinality(Threads) - Cardinality(K)
  <2>1. Threads \cap K = K
    OBVIOUS
  <2> QED BY <1>1, <2>1, FS_Difference
<1>4. IsFiniteSet(I) /\ Cardinality(I) = Full
  BY <1>1, FS_Interval
<1>5. HeldBy(p) \in SUBSET S
  <2> SUFFICES ASSUME NEW x \in HeldBy(p) PROVE x \in S
    OBVIOUS
  <2>1. x \in Threads \X I /\ x[2] <= p[x[1]]
    BY DEF HeldBy
  <2>2. x[1] \in Threads /\ x[2] \in I /\ x = <<x[1], x[2]>> /\ ~(x[2] <= 0)
    BY <1>1, <2>1
  <2>3. x[1] \notin K
    BY <2>1, <2>2
  <2> QED BY <2>2, <2>3
<1> HIDE DEF O, I
<1>6. IsFiniteSet(S) /\ Cardinality(S) = Cardinality(O) * Cardinality(I)
  BY <1>3, <1>4, FS_Product
<1> HIDE DEF S
<1>7. Cardinality(HeldBy(p)) <= Cardinality(S)
  BY <1>5, <1>6, FS_Subset
<1> QED BY <1>2, <1>3, <1>4, <1>6, <1>7

PoolTypes ==
  /\ pri \in Blocks
  /\ making \subseteq {t \in Threads : pri[t] = 0}
  /\ shared \in Seq({2 * BlockSize})
  /\ out \in Nat /\ peak \in Nat /\ out <= peak /\ made_ \in Nat

\* Where the objects are that are not in use, and how many the threads that
\* make a block are going to add.
InBlocks == Cardinality(HeldBy(pri))
InShared == Len(shared) * 2 * BlockSize
InMaking == Cardinality(making) * BlockSize
Slack    == (Cardinality(Threads) - 1) * Full + BlockSize

\* Every block that is being made was asked for when the queue was empty, when
\* all that was free was in the other threads' blocks.
PoolInv ==
  /\ PoolTypes
  /\ made_ = out + InBlocks + InShared
  /\ made_ + InMaking <= peak + Slack

LEMMA PoolNumbers ==
  ASSUME PoolSizes, PoolTypes
  PROVE  /\ BlockSize \in Nat /\ BlockSize >= 1 /\ Full \in Nat /\ Full = 2 * BlockSize - 1
         /\ Cardinality(Threads) \in Nat /\ Cardinality(making) \in Nat
         /\ IsFiniteSet(making) /\ Len(shared) \in Nat
         /\ \A t \in Threads : pri[t] \in Nat /\ pri[t] <= Full
         /\ InBlocks \in Nat /\ InShared \in Nat /\ InMaking \in Nat /\ Slack \in Int
<1>1. BlockSize \in Nat /\ BlockSize >= 1 /\ Full \in Nat /\ Full = 2 * BlockSize - 1
  BY DEF PoolSizes, Full
<1>2. \A t \in Threads : pri[t] \in Nat /\ pri[t] <= Full
  BY <1>1 DEF PoolTypes, Blocks
<1>3. making \in SUBSET Threads /\ IsFiniteSet(Threads)
  BY DEF PoolTypes, PoolSizes
<1>4. IsFiniteSet(making)
  BY <1>3, FS_Subset
<1>5. Cardinality(Threads) \in Nat /\ Cardinality(making) \in Nat
  BY <1>3, <1>4, FS_CardinalityType
<1>6. InBlocks \in Nat
  <2>1. PICK t \in Threads : TRUE
    BY DEF PoolSizes
  <2>2. 0 \in 0..Full /\ pri \in Blocks
    BY <1>1 DEF PoolTypes
  <2> QED BY <2>1, <2>2, HeldChanges DEF InBlocks
<1>7. Len(shared) \in Nat
  BY DEF PoolTypes
<1>8. InShared \in Nat /\ InMaking \in Nat
  BY <1>1, <1>5, <1>7 DEF InShared, InMaking
<1>9. Slack \in Int
  BY <1>1, <1>5 DEF Slack
<1> QED BY <1>1, <1>2, <1>4, <1>5, <1>6, <1>7, <1>8, <1>9

LEMMA MoreInUse ==
  ASSUME out \in Nat, peak \in Nat, out <= peak, Pool!Uses(1)
  PROVE  out' = out + 1 /\ peak' \in Nat /\ out' <= peak' /\ peak <= peak'
BY DEF Pool!Uses

LEMMA PoolNext ==
  ASSUME PoolSizes, PoolInv, [Pool!Next]_(Pool!vars) PROVE PoolInv'
<1>1. /\ pri \in Blocks /\ making \subseteq {t \in Threads : pri[t] = 0}
      /\ shared \in Seq({2 * BlockSize})
      /\ out \in Nat /\ peak \in Nat /\ out <= peak /\ made_ \in Nat
  BY DEF PoolInv, PoolTypes
<1>2. /\ BlockSize \in Nat /\ BlockSize >= 1 /\ Full \in Nat /\ Full = 2 * BlockSize - 1
      /\ Cardinality(Threads) \in Nat /\ Cardinality(making) \in Nat
      /\ IsFiniteSet(making) /\ Len(shared) \in Nat
      /\ \A t \in Threads : pri[t] \in Nat /\ pri[t] <= Full
      /\ InBlocks \in Nat /\ InShared \in Nat /\ InMaking \in Nat /\ Slack \in Int
  BY PoolNumbers DEF PoolInv
<1>3. made_ = out + InBlocks + InShared /\ made_ + InMaking <= peak + Slack
  BY DEF PoolInv
\* A thread's own block grows or shrinks, and with it what is in use.
<1>4. ASSUME NEW t \in Threads, NEW n \in 0..Full, pri' = [pri EXCEPT ![t] = n]
      PROVE  pri' \in Blocks /\ InBlocks' = InBlocks - pri[t] + n
  <2>1. /\ pri' \in Blocks
        /\ Cardinality(HeldBy(pri')) = Cardinality(HeldBy(pri)) - pri[t] + n
    BY <1>1, <1>4, HeldChanges
  <2> QED BY <2>1 DEF InBlocks
<1>5. ASSUME NEW t \in Threads, NEW n \in 0..Full,
             pri' = [pri EXCEPT ![t] = n], t \notin making, making' = making,
             shared' \in Seq({2 * BlockSize}), out' \in Nat, peak' \in Nat,
             out' <= peak', peak <= peak', made_' \in Nat, made_' <= made_,
             made_' = out' + (InBlocks - pri[t] + n) + InShared'
      PROVE  PoolInv'
  <2>1. pri' \in Blocks /\ InBlocks' = InBlocks - pri[t] + n
    BY <1>4, <1>5
  <2>2. making' \subseteq {w \in Threads : pri'[w] = 0}
    BY <1>1, <1>5, <2>1 DEF Blocks
  <2>3. made_' = out' + InBlocks' + InShared'
    BY <1>5, <2>1
  <2>4. Slack' = Slack /\ InMaking' = InMaking
    BY <1>5 DEF Slack, InMaking
  <2>5. made_' + InMaking <= peak' + Slack
    <3>1. /\ made_' \in Nat /\ made_ \in Nat /\ made_' <= made_
          /\ peak \in Nat /\ peak' \in Nat /\ peak <= peak'
      BY <1>1, <1>5
    <3>2. InMaking \in Int /\ Slack \in Int /\ made_ + InMaking <= peak + Slack
      BY <1>2, <1>3
    <3>3. PICK l, m, p, q, i, s : /\ l = made_' /\ m = made_ /\ p = peak
                                  /\ q = peak' /\ i = InMaking /\ s = Slack
      OBVIOUS
    <3>4. /\ l \in Int /\ m \in Int /\ p \in Int /\ q \in Int /\ i \in Int /\ s \in Int
          /\ l <= m /\ p <= q /\ m + i <= p + s
      BY <3>1, <3>2, <3>3
    <3>5. l + i <= q + s
      BY <3>4
    <3> QED BY <3>3, <3>5
  <2> QED BY <1>5, <2>1, <2>2, <2>3, <2>4, <2>5 DEF PoolInv, PoolTypes
<1>6. ASSUME NEW t \in Threads, Pool!GetOwn(t) PROVE PoolInv'
  <2>1. /\ t \notin making /\ pri[t] > 0 /\ pri' = [pri EXCEPT ![t] = @ - 1] /\ Pool!Uses(1)
        /\ making' = making /\ shared' = shared /\ made_' = made_
    BY <1>6 DEF Pool!GetOwn
  <2>2. out' = out + 1 /\ peak' \in Nat /\ out' <= peak' /\ peak <= peak'
    BY <1>1, <2>1, MoreInUse
  <2>3. pri[t] - 1 \in 0..Full /\ InShared' = InShared
    BY <1>2, <2>1 DEF InShared
  <2>4. made_' = out' + (InBlocks - pri[t] + (pri[t] - 1)) + InShared'
    <3>1. pri[t] \in Nat /\ InBlocks \in Nat /\ InShared \in Nat /\ out \in Nat
      BY <1>1, <1>2
    <3>2. made_' = (out + 1 - 1) + InBlocks + InShared
      BY <1>3, <2>1, <3>1
    <3>3. made_' = out' - 1 + InBlocks + InShared'
      BY <2>2, <2>3, <3>1, <3>2
    <3>4. out' \in Nat /\ InShared' \in Nat
      BY <2>2, <2>3, <3>1
    <3> QED BY <3>1, <3>3, <3>4
  <2>5. shared' \in Seq({2 * BlockSize}) /\ out' \in Nat /\ made_' \in Nat /\ made_' <= made_
    BY <1>1, <2>1, <2>2
  <2>6. pri' = [pri EXCEPT ![t] = pri[t] - 1]
    BY <2>1
  <2> QED BY <1>5, <2>1, <2>2, <2>3, <2>4, <2>5, <2>6
<1>7. ASSUME NEW t \in Threads, Pool!GetBlock(t) PROVE PoolInv'
  <2>1. t \notin making /\ pri[t] = 0 /\ made_' = made_
    BY <1>7 DEF Pool!GetBlock
  <2>2. CASE shared = <<>>
    <3>1. making' = making \cup {t} /\ UNCHANGED <<pri, shared, out, peak>>
      BY <1>7, <2>2 DEF Pool!GetBlock
    <3>2. making' \in SUBSET Threads /\ \A w \in making' : pri[w] = 0
      BY <1>1, <2>1, <3>1
    <3> DEFINE N == Cardinality(Threads)
    <3> DEFINE k == Cardinality(making)
    <3> DEFINE z == (N - (k + 1)) * Full
    <3>3. Cardinality(making') = k + 1
      BY <1>2, <2>1, <3>1, FS_AddElement
    <3>4. N \in Nat /\ k \in Nat /\ k + 1 <= N /\ InBlocks <= z
      BY <1>1, <1>2, <3>2, <3>3, HeldBound DEF InBlocks
    <3> HIDE DEF N, k
    <3>5. z + (k + 1) * BlockSize <= (N - 1) * Full + BlockSize
      <4>1. z = (N - 1) * Full - k * Full
        BY <1>2, <3>4
      <4>2. (k + 1) * BlockSize = k * BlockSize + BlockSize
        BY <1>2, <3>4
      <4>3. k * BlockSize <= k * Full
        <5>1. BlockSize <= Full /\ Full - BlockSize \in Nat
          BY <1>2
        <5>2. k * (Full - BlockSize) \in Nat
          BY <3>4, <5>1
        <5>3. k * Full = k * BlockSize + k * (Full - BlockSize)
          BY <1>2, <3>4
        <5> DEFINE a == k * (Full - BlockSize)
        <5> DEFINE b == k * BlockSize
        <5>4. b \in Nat
          BY <1>2, <3>4
        <5> HIDE DEF a, b
        <5>5. b <= b + a
          BY <5>2, <5>4 DEF a
        <5> QED BY <5>3, <5>5 DEF a, b
      <4> DEFINE u == (N - 1) * Full
      <4> DEFINE v == k * Full
      <4> DEFINE w == k * BlockSize
      <4>4. u \in Int /\ v \in Int /\ w \in Int
        BY <1>2, <3>4
      <4>5. w <= v
        BY <4>3
      <4> HIDE DEF u, v, w
      <4>6. (u - v) + (w + BlockSize) <= u + BlockSize
        BY <1>2, <4>4, <4>5
      <4> QED BY <4>1, <4>2, <4>6 DEF u, v, w
    <3>6. z \in Int /\ InMaking' = (k + 1) * BlockSize /\ InMaking' \in Int
      BY <1>2, <3>3, <3>4 DEF InMaking
    <3>7. Slack = (N - 1) * Full + BlockSize /\ Slack' = Slack
      BY DEF Slack, N
    <3>8. z + InMaking' <= Slack
      BY <3>5, <3>6, <3>7
    <3>9. InShared = 0 /\ InShared' = InShared /\ InBlocks' = InBlocks
      BY <1>2, <2>2, <3>1 DEF InShared, InBlocks
    <3> HIDE DEF z
    <3>10. made_' + InMaking' <= peak' + Slack'
      BY <1>1, <1>2, <1>3, <2>1, <3>1, <3>4, <3>6, <3>7, <3>8, <3>9
    <3>11. PoolTypes'
      BY <1>1, <2>1, <3>1, <3>2 DEF PoolTypes
    <3> QED BY <1>3, <2>1, <3>1, <3>9, <3>10, <3>11 DEF PoolInv
  <2>3. CASE shared # <<>>
    <3>1. /\ pri' = [pri EXCEPT ![t] = Head(shared) - 1] /\ shared' = Tail(shared)
          /\ Pool!Uses(1) /\ making' = making
      BY <1>7, <2>3 DEF Pool!GetBlock
    <3>2. /\ Head(shared) = 2 * BlockSize /\ Tail(shared) \in Seq({2 * BlockSize})
          /\ Len(Tail(shared)) = Len(shared) - 1
      BY <1>1, <2>3
    <3>3. out' = out + 1 /\ peak' \in Nat /\ out' <= peak' /\ peak <= peak'
      BY <1>1, <3>1, MoreInUse
    <3>4. Full \in 0..Full /\ Head(shared) - 1 = Full
      BY <1>2, <3>2
    <3>5. pri' = [pri EXCEPT ![t] = Full]
      BY <3>1, <3>4
    <3>6. InShared' = InShared - 2 * BlockSize
      BY <1>2, <3>1, <3>2 DEF InShared
    <3>7. made_' = out' + (InBlocks - pri[t] + Full) + InShared'
      BY <1>1, <1>2, <1>3, <2>1, <3>3, <3>6
    <3>8. shared' \in Seq({2 * BlockSize}) /\ out' \in Nat /\ made_' \in Nat /\ made_' <= made_
      BY <1>1, <2>1, <3>1, <3>2, <3>3
    <3> QED BY <1>5, <2>1, <3>1, <3>3, <3>4, <3>5, <3>7, <3>8
  <2> QED BY <2>2, <2>3
<1>8. ASSUME NEW t \in Threads, Pool!CreateFreeBlock(t) PROVE PoolInv'
  <2>1. /\ t \in making /\ making' = making \ {t} /\ made_' = made_ + BlockSize
        /\ pri' = [pri EXCEPT ![t] = BlockSize - 1] /\ Pool!Uses(1) /\ shared' = shared
    BY <1>8 DEF Pool!CreateFreeBlock
  <2>2. out' = out + 1 /\ peak' \in Nat /\ out' <= peak' /\ peak <= peak'
    BY <1>1, <2>1, MoreInUse
  <2>3. BlockSize - 1 \in 0..Full /\ pri[t] = 0
    BY <1>1, <1>2, <2>1
  <2>4. pri' \in Blocks /\ InBlocks' = InBlocks - pri[t] + (BlockSize - 1)
    BY <1>4, <2>1, <2>3
  <2>5. making' \subseteq {w \in Threads : pri'[w] = 0}
    BY <1>1, <2>1 DEF Blocks
  <2>6. Cardinality(making') = Cardinality(making) - 1
    BY <1>2, <2>1, FS_RemoveElement
  <2>7. InMaking' = InMaking - BlockSize /\ InShared' = InShared /\ Slack' = Slack
    BY <1>2, <2>1, <2>6 DEF InMaking, InShared, Slack
  <2>8. PoolTypes'
    <3>1. out' \in Nat /\ made_' \in Nat
      BY <1>1, <1>2, <2>1, <2>2
    <3> QED BY <1>1, <2>1, <2>2, <2>4, <2>5, <3>1 DEF PoolTypes
  <2>9. made_' = out' + InBlocks' + InShared'
    BY <1>1, <1>2, <1>3, <2>1, <2>2, <2>3, <2>4, <2>7
  <2>10. made_' + InMaking' <= peak' + Slack'
    <3>1. /\ BlockSize \in Nat /\ made_ \in Nat /\ peak \in Nat /\ InMaking \in Nat
          /\ Slack \in Int
      BY <1>1, <1>2
    <3>2. made_' + InMaking' = made_ + InMaking
      <4>1. made_' = made_ + BlockSize /\ InMaking' = InMaking - BlockSize
        BY <2>1, <2>7
      <4> QED BY <3>1, <4>1
    <3>3. made_ + InMaking <= peak' + Slack
      BY <1>3, <2>2, <3>1
    <3> QED BY <2>7, <3>2, <3>3
  <2> QED BY <2>8, <2>9, <2>10 DEF PoolInv
<1>9. ASSUME NEW t \in Threads, Pool!Put(t) PROVE PoolInv'
  <2>1. t \notin making /\ out > 0 /\ out' = out - 1 /\ UNCHANGED <<making, made_, peak>>
    BY <1>9 DEF Pool!Put
  <2>2. /\ out' \in Nat /\ peak' \in Nat /\ out' <= peak' /\ peak <= peak'
        /\ made_' \in Nat /\ made_' <= made_
    BY <1>1, <2>1
  <2>3. CASE pri[t] + 1 >= 2 * BlockSize
    <3>1. pri' = [pri EXCEPT ![t] = 0] /\ shared' = Append(shared, pri[t] + 1)
      BY <1>9, <2>3 DEF Pool!Put
    <3>2. pri[t] + 1 = 2 * BlockSize /\ 0 \in 0..Full
      BY <1>2, <2>3
    <3>3. shared' \in Seq({2 * BlockSize}) /\ Len(shared') = Len(shared) + 1
      BY <1>1, <3>1, <3>2
    <3>4. InShared' = InShared + 2 * BlockSize
      BY <1>2, <3>3 DEF InShared
    <3>5. made_' = out' + (InBlocks - pri[t] + 0) + InShared'
      BY <1>1, <1>2, <1>3, <2>1, <3>2, <3>4
    <3> QED BY <1>5, <2>1, <2>2, <3>1, <3>2, <3>3, <3>5
  <2>4. CASE ~(pri[t] + 1 >= 2 * BlockSize)
    <3>1. pri' = [pri EXCEPT ![t] = pri[t] + 1] /\ shared' = shared
      BY <1>9, <2>4 DEF Pool!Put
    <3>2. pri[t] + 1 \in 0..Full /\ InShared' = InShared
      BY <1>2, <2>4, <3>1 DEF InShared
    <3>3. made_' = out' + (InBlocks - pri[t] + (pri[t] + 1)) + InShared'
      BY <1>1, <1>2, <1>3, <2>1, <3>2
    <3>4. shared' \in Seq({2 * BlockSize})
      BY <1>1, <3>1
    <3> QED BY <1>5, <2>1, <2>2, <3>1, <3>2, <3>3, <3>4
  <2> QED BY <2>3, <2>4
<1>10. ASSUME NEW t \in Threads, Pool!ThreadEnds(t) PROVE PoolInv'
  <2>1. /\ t \notin making /\ pri[t] > 0 /\ made_' = made_ - pri[t]
        /\ pri' = [pri EXCEPT ![t] = 0] /\ UNCHANGED <<making, shared, out, peak>>
    BY <1>10 DEF Pool!ThreadEnds
  <2>2. 0 \in 0..Full /\ InBlocks >= pri[t] /\ InShared' = InShared
    <3>1. PICK R : R = {place \in HeldBy(pri) : place[1] # t}
      OBVIOUS
    <3>2. Cardinality(R) \in Nat /\ Cardinality(HeldBy(pri)) = Cardinality(R) + pri[t]
      BY <1>1, <3>1, HeldSplits
    <3>3. pri[t] \in Nat /\ 0 \in 0..Full
      BY <1>2
    <3>4. InBlocks >= pri[t]
      BY <3>2, <3>3 DEF InBlocks
    <3>5. InShared' = InShared
      BY <2>1 DEF InShared
    <3> QED BY <3>3, <3>4, <3>5
  <2>3. /\ made_' = out' + (InBlocks - pri[t] + 0) + InShared'
        /\ made_' \in Nat /\ made_' <= made_
    BY <1>1, <1>2, <1>3, <2>1, <2>2
  <2>4. /\ out' \in Nat /\ peak' \in Nat /\ out' <= peak' /\ peak <= peak'
        /\ shared' \in Seq({2 * BlockSize})
    BY <1>1, <2>1
  <2> QED BY <1>5, <2>1, <2>2, <2>3, <2>4
<1>11. CASE UNCHANGED Pool!vars
  BY <1>11 DEF Pool!vars, PoolInv, PoolTypes, InBlocks, InShared, InMaking, Slack
<1> QED BY <1>6, <1>7, <1>8, <1>9, <1>10, <1>11 DEF Pool!Next

\* No object of the pool is lost, and what exists exceeds the most ever in use
\* by less than a double block for each thread, for any number of threads.
LEMMA PoolSafety ==
  ASSUME PoolSizes PROVE Pool!Spec => []Pool!PoolBounded
<1>1. Pool!Init => PoolInv
  <2> SUFFICES ASSUME Pool!Init PROVE PoolInv
    OBVIOUS
  <2>1. pri = [t \in Threads |-> 0] /\ making = {} /\ shared = <<>> /\ out = 0 /\ made_ = 0
        /\ peak = 0
    BY DEF Pool!Init
  <2>2. BlockSize \in Nat /\ Full \in Nat /\ IsFiniteSet(Threads)
    BY DEF PoolSizes, Full
  <2>3. pri \in Blocks
    BY <2>1, <2>2 DEF Blocks
  <2>4. PoolTypes
    BY <2>1, <2>3 DEF PoolTypes
  <2>5. HeldBy(pri) = {}
    BY <2>1, <2>2 DEF HeldBy
  <2>6. Cardinality({}) = 0
    BY FS_EmptySet
  <2>7. InBlocks = 0 /\ InMaking = 0
    <3>1. InBlocks = 0
      BY <2>5, <2>6 DEF InBlocks
    <3>2. Cardinality(making) = 0
      BY <2>1, <2>6
    <3>3. 0 * BlockSize = 0
      BY <2>2
    <3> QED BY <3>1, <3>2, <3>3 DEF InMaking
  <2>8. InShared = 0
    BY <2>1, <2>2 DEF InShared
  <2>9. Slack \in Nat
    <3>1. Cardinality(Threads) \in Nat /\ Cardinality(Threads) # 0
      BY <2>2, FS_CardinalityType, FS_EmptySet DEF PoolSizes
    <3>2. Cardinality(Threads) - 1 \in Nat
      BY <3>1
    <3>3. (Cardinality(Threads) - 1) * Full \in Nat
      BY <2>2, <3>2
    <3> QED BY <2>2, <3>3 DEF Slack
  <2> QED BY <2>1, <2>4, <2>7, <2>8, <2>9 DEF PoolInv
<1>2. PoolInv /\ [Pool!Next]_(Pool!vars) => PoolInv'
  BY PoolNext
<1>3. PoolInv => Pool!PoolBounded
  <2> SUFFICES ASSUME PoolInv PROVE Pool!PoolBounded
    OBVIOUS
  <2>1. /\ BlockSize \in Nat /\ Full = 2 * BlockSize - 1 /\ InMaking \in Nat /\ Slack \in Int
    BY PoolNumbers DEF PoolInv
  <2>2. made_ <= peak + Slack /\ peak \in Nat
    BY <2>1 DEF PoolInv, PoolTypes
  <2>3. made_ <= peak + (Cardinality(Threads) - 1) * (2 * BlockSize - 1) + BlockSize
    <3> DEFINE y == (Cardinality(Threads) - 1) * Full
    <3>1. y \in Int
      BY PoolNumbers DEF PoolInv
    <3>2. made_ <= peak + (y + BlockSize)
      BY <2>2 DEF Slack
    <3> HIDE DEF y
    <3>3. made_ <= peak + y + BlockSize
      BY <2>1, <2>2, <3>1, <3>2
    <3> QED BY <2>1, <3>3 DEF y
  <2>4. made_ = out + Cardinality(HeldBy(pri)) + Len(shared) * 2 * BlockSize
    BY DEF PoolInv, InBlocks, InShared
  <2>5. \A t \in Threads : pri[t] \in 0..(2 * BlockSize - 1)
    BY <2>1 DEF PoolInv, PoolTypes, Blocks
  <2>6. \A i \in DOMAIN shared : shared[i] = 2 * BlockSize
    BY DEF PoolInv, PoolTypes
  <2>7. making \subseteq {t \in Threads : pri[t] = 0}
    BY DEF PoolInv, PoolTypes
  <2>8. Pool!Held = HeldBy(pri)
    BY HeldIsHeldBy
  <2> QED BY <2>3, <2>4, <2>5, <2>6, <2>7, <2>8, CardinalityOfPool DEF Pool!PoolBounded
<1> QED BY <1>1, <1>2, <1>3, PTL DEF Pool!Spec

\* Objects and elements have one user at a time, for any threads and blocks.
THEOREM HandedOutSafety ==
  ASSUME PoolSizes PROVE Pool!Spec /\ Queue!Spec => []HandedOutOnce
<1>1. Pool!PoolBounded /\ Queue!LeavesInOrder => HandedOutOnce
  BY DEF HandedOutOnce
<1> QED BY <1>1, PoolSafety, QueueSafety, PTL

-----------------------------------------------------------------------------
\* All of it together.

\* What threads do with one of the parts is a behaviour of each of them.
LEMMA PartsInit == MCInit => Init /\ Wait!Init /\ Async!Init /\ Count!Init /\ Pool!Init /\ Queue!Init
BY DEF MCInit

LEMMA PartsNext ==
  [MCNext]_allVars =>
    /\ [Next]_vars /\ [Wait!Next]_(Wait!vars) /\ [Async!Next]_(Async!vars)
    /\ [Count!Next]_(Count!vars) /\ [Pool!Next]_(Pool!vars) /\ [Queue!Next]_(Queue!vars)
<1> SUFFICES ASSUME [MCNext]_allVars
             PROVE  /\ [Next]_vars /\ [Wait!Next]_(Wait!vars) /\ [Async!Next]_(Async!vars)
                    /\ [Count!Next]_(Count!vars) /\ [Pool!Next]_(Pool!vars)
                    /\ [Queue!Next]_(Queue!vars)
  OBVIOUS
<1>1. /\ (waitVars' = waitVars) <=> (UNCHANGED Wait!vars)
      /\ (asyncVars' = asyncVars) <=> (UNCHANGED Async!vars)
      /\ (countVars' = countVars) <=> (UNCHANGED Count!vars)
      /\ (poolVars' = poolVars) <=> (UNCHANGED Pool!vars)
      /\ (queueVars' = queueVars) <=> (UNCHANGED Queue!vars)
  BY DEF waitVars, asyncVars, countVars, poolVars, queueVars,
         Wait!vars, Async!vars, Count!vars, Pool!vars, Queue!vars
<1>2. CASE UNCHANGED allVars
  <2>1. /\ vars' = vars /\ waitVars' = waitVars /\ asyncVars' = asyncVars
        /\ countVars' = countVars /\ poolVars' = poolVars /\ queueVars' = queueVars
    BY <1>2 DEF allVars
  <2> QED BY <1>1, <2>1
<1>3. CASE MCNext
  BY <1>1, <1>3 DEF MCNext
<1> QED BY <1>2, <1>3

LEMMA PartsSpecs ==
  MCSpec => Spec /\ Wait!Spec /\ Async!Spec /\ Count!Spec /\ Pool!Spec /\ Queue!Spec
BY PartsInit, PartsNext, PTL
   DEF MCSpec, Spec, Wait!Spec, Async!Spec, Count!Spec, Pool!Spec, Queue!Spec

\* The behaviours that are checked on two threads keep all of it, for any
\* number of threads, futures, tasks and objects.
THEOREM SharedSafety ==
  ASSUME Sizes, AsyncSizes, CountSizes, PoolSizes, "oneContinuation" \in Rules
  PROVE  MCSpec => [](Continuations /\ Groups /\ HandedOutOnce) /\ NoRace
BY PartsSpecs, ContinuationsSafety, RaceSafety, GroupsSafety, HandedOutSafety, PTL

=============================================================================
