--------------------------------- MODULE Timer ---------------------------------
(***************************************************************************)
(* spiderweb::Timer over asio::steady_timer.  The wait it starts completes *)
(* by expiring or by being cancelled; either way a handler is queued in    *)
(* the event loop and runs later.  A cancel does not recall an expiry that *)
(* is already queued.  The handler emits `timeout` in its middle, so the   *)
(* user's callback runs between its two halves; `phase` is "callback" then.*)
(*                                                                         *)
(* Time is what is left: a tick lets one unit pass.                        *)
(***************************************************************************)
EXTENDS Naturals, Sequences

CONSTANTS
  Intervals,  \* the timeouts in use, in ticks
  MaxQueue    \* bound: the user does not add to a longer queue

\* Nothing keeps the user from breaking a rule of use; `broken` tells which
\* were, and each promise names the rules it rests on.
\* "noRestart":     Start and Reset only on a timer that does not run and was
\*                  never stopped: a new one, or one that timed out.
\* "quietCallback": the callback of a repeating timer does not call Stop,
\*                  Start or Reset on it, and no callback makes it repeat.
\* "stopFirst":     a stopped timer, never started again, is deleted, and by
\*                  DeleteLater.
AllRules == {"noRestart", "quietCallback", "stopFirst"}

ASSUME TimerAssumption ==
  /\ Intervals \subseteq Nat
  /\ Intervals # {}
  /\ MaxQueue \in Nat

VARIABLES
  isRunning,   \* Timer::Private::is_running
  singalShot,  \* Timer::Private::singal_shot
  timeoutms,   \* Timer::Private::timeoutms
  wait,        \* the pending wait of the asio timer, or NoWait
  ready,       \* the loop's queue: completed waits and posted deletes
  phase,       \* "callback" while the user is inside `timeout`
  captured,    \* the timeout_ms the running handler captured
  deleting,    \* DeleteLater was called
  gone,        \* Timer::Private was destroyed
  goneUse,     \* a handler read the destroyed Timer::Private
  started,     \* Start or Reset was ever called
  on,          \* the user's last command was Start or Reset, not Stop
  rest,        \* time left before a timeout is what the user asked for
  broken,      \* the rules the user has broken
  fires        \* timeouts since Start, Reset or a change by SetSingalShot
               \* (2 stands for more)

timerVars == <<isRunning, singalShot, timeoutms>>
loopVars  == <<wait, ready, phase, captured>>
lifeVars  == <<deleting, gone, goneUse>>
userVars  == <<started, on, rest, fires>>

vars == <<timerVars, loopVars, lifeVars, userVars, broken>>

NoWait == [left |-> 0, ms |-> 0, pending |-> FALSE]

\* Mutant: the interval, not the timeout that was asked for.
Wait_Interval(ms) == [left |-> timeoutms, ms |-> ms, pending |-> TRUE]

Wait(ms) == [left |-> ms, ms |-> ms, pending |-> TRUE]

Fired(ms) == [op |-> "fired", ms |-> ms]

Aborted == [op |-> "aborted", ms |-> 0]

Deletion == [op |-> "delete", ms |-> 0]

\* Cancelling completes a pending wait with operation_aborted.
Cancelled(queue) == IF wait.pending THEN Append(queue, Aborted) ELSE queue

\* Mutant: begins a wait only when there was none to cancel.
SetExpired_Once(ms, queue) ==
  /\ ready' = Cancelled(queue)
  /\ wait' = IF wait.pending THEN NoWait ELSE Wait(ms)

\* SetExpired(ms) on a running timer: cancel the old wait, begin a new one.
SetExpired(ms, queue) == /\ ready' = Cancelled(queue)
                         /\ wait' = Wait(ms)

-----------------------------------------------------------------------------
\* What the user does, between handlers or inside the callback.

Idle == phase = "idle"

MayCall == ~gone /\ Len(ready) < MaxQueue

\* The callback of a timer that repeats is to be quiet.
Quiet == Idle \/ singalShot

Breaks(rule, when) == IF when THEN {rule} ELSE {}

Reset(ms) ==
  /\ MayCall
  /\ isRunning' = TRUE
  /\ SetExpired(ms, ready)
  /\ started' = TRUE /\ on' = TRUE /\ rest' = ms /\ fires' = 0
  /\ broken' = broken \cup Breaks("quietCallback", ~Quiet)
                      \cup Breaks("noRestart", started /\ (isRunning \/ ~on))
                      \cup Breaks("stopFirst", deleting)
  /\ UNCHANGED <<singalShot, timeoutms, phase, captured, lifeVars>>

Start == Reset(timeoutms)

\* Mutant: cancels the wait and leaves is_running alone.
Stop_CancelOnly ==
  /\ MayCall
  /\ broken' = broken \cup Breaks("quietCallback", ~Quiet)
  /\ ready' = Cancelled(ready)
  /\ wait' = NoWait
  /\ on' = FALSE
  /\ UNCHANGED <<timerVars, phase, captured, lifeVars, started, rest, fires>>

Stop ==
  /\ MayCall
  /\ broken' = broken \cup Breaks("quietCallback", ~Quiet)
  /\ isRunning' = FALSE
  /\ ready' = Cancelled(ready)
  /\ wait' = NoWait
  /\ on' = FALSE
  /\ UNCHANGED <<singalShot, timeoutms, phase, captured, lifeVars, started,
                 rest, fires>>

\* Mutant: takes seconds.
SetInterval_Seconds(ms) ==
  /\ MayCall
  /\ timeoutms' = ms * 1000
  /\ UNCHANGED <<isRunning, singalShot, loopVars, lifeVars, userVars, broken>>

SetInterval(ms) ==
  /\ MayCall
  /\ timeoutms' = ms
  /\ UNCHANGED <<isRunning, singalShot, loopVars, lifeVars, userVars, broken>>

SetSingalShot(flag) ==
  /\ MayCall
  /\ broken' = broken \cup Breaks("quietCallback", ~(Idle \/ flag))
  /\ singalShot' = flag
  /\ fires' = IF flag # singalShot THEN 0 ELSE fires
  /\ UNCHANGED <<isRunning, timeoutms, loopVars, lifeVars, started, on, rest>>

\* ~Timer cancels the wait, whose handler outlives the Private it points to.
Destroyed(queue) == /\ gone' = TRUE
                    /\ ready' = Cancelled(queue)
                    /\ wait' = NoWait

\* Mutant: deletes the timer on the spot.
DeleteLater_Now ==
  /\ MayCall /\ ~deleting
  /\ broken' = broken \cup Breaks("stopFirst", isRunning \/ ~Quiet)
  /\ deleting' = TRUE
  /\ Destroyed(ready)
  /\ UNCHANGED <<timerVars, phase, captured, goneUse, userVars>>

DeleteLater ==
  /\ MayCall /\ ~deleting
  /\ broken' = broken \cup Breaks("stopFirst", isRunning \/ ~Quiet)
  /\ deleting' = TRUE
  /\ ready' = Append(ready, Deletion)
  /\ UNCHANGED <<timerVars, wait, phase, captured, gone, goneUse, userVars>>

\* A timer that is a member or a local variable is destroyed on the spot.
Destroy ==
  /\ MayCall /\ Idle /\ ~deleting
  /\ broken' = broken \cup {"stopFirst"}
  /\ Destroyed(ready)
  /\ UNCHANGED <<timerVars, phase, captured, deleting, goneUse, userVars>>

User == \/ Start \/ Stop
        \/ \E ms \in Intervals : Reset(ms) \/ SetInterval(ms)
        \/ \E flag \in BOOLEAN : SetSingalShot(flag)
        \/ DeleteLater
        \/ Destroy

-----------------------------------------------------------------------------
\* Time and the expiry of the wait.

Tick ==
  /\ wait.left > 0 \/ rest > 0
  /\ wait' = [wait EXCEPT !.left = IF @ > 0 THEN @ - 1 ELSE 0]
  /\ rest' = IF rest > 0 THEN rest - 1 ELSE 0
  /\ UNCHANGED <<timerVars, ready, phase, captured, lifeVars, started, on,
                 fires, broken>>

Expire ==
  /\ wait.pending /\ wait.left = 0
  /\ ready' = Append(ready, Fired(wait.ms))
  /\ wait' = NoWait
  /\ UNCHANGED <<timerVars, phase, captured, lifeVars, userVars, broken>>

-----------------------------------------------------------------------------
\* The handler of the wait, run by the event loop.

Running(op) == Idle /\ ready # <<>> /\ Head(ready).op = op

\* An aborted handler returns before it touches the timer.
HandleAborted ==
  /\ Running("aborted")
  /\ ready' = Tail(ready)
  /\ UNCHANGED <<timerVars, wait, phase, captured, lifeVars, userVars, broken>>

\* Any other handler reads is_running, of a destroyed timer too.
HandleStopped ==
  /\ Running("fired") /\ (gone \/ ~isRunning)
  /\ ready' = Tail(ready)
  /\ goneUse' = (goneUse \/ gone)
  /\ UNCHANGED <<timerVars, wait, phase, captured, deleting, gone, userVars, broken>>

\* Mutant: the timer stays running in the callback.
EmitTimeout_Running ==
  /\ Running("fired") /\ ~gone /\ isRunning
  /\ phase' = "callback"
  /\ captured' = Head(ready).ms
  /\ ready' = Tail(ready)
  /\ fires' = IF fires < 2 THEN fires + 1 ELSE fires
  /\ rest' = Head(ready).ms
  /\ UNCHANGED <<timerVars, wait, lifeVars, started, on, broken>>

\* First half: the timer is not running while `timeout` is emitted.
EmitTimeout ==
  /\ Running("fired") /\ ~gone /\ isRunning
  /\ isRunning' = FALSE
  /\ phase' = "callback"
  /\ captured' = Head(ready).ms
  /\ ready' = Tail(ready)
  /\ fires' = IF fires < 2 THEN fires + 1 ELSE fires
  /\ rest' = Head(ready).ms
  /\ UNCHANGED <<singalShot, timeoutms, wait, lifeVars, started, on, broken>>

\* Mutant: running again, but no new wait.
Rearm_NoWait ==
  /\ ~Idle
  /\ phase' = "idle"
  /\ isRunning' = ~singalShot
  /\ UNCHANGED <<singalShot, timeoutms, wait, ready, captured, lifeVars,
                 userVars, broken>>

\* Second half: a repeating timer runs again, with the captured timeout.
Rearm ==
  /\ ~Idle
  /\ phase' = "idle"
  /\ IF singalShot
     THEN UNCHANGED <<isRunning, wait, ready>>
     ELSE isRunning' = TRUE /\ SetExpired(captured, ready)
  /\ UNCHANGED <<singalShot, timeoutms, captured, lifeVars, userVars, broken>>

Delete ==
  /\ Running("delete")
  /\ Destroyed(Tail(ready))
  /\ UNCHANGED <<timerVars, phase, captured, deleting, goneUse, userVars, broken>>

Loop == HandleAborted \/ HandleStopped \/ EmitTimeout \/ Rearm \/ Delete

-----------------------------------------------------------------------------

Init ==
  /\ isRunning = FALSE /\ singalShot = FALSE /\ timeoutms \in Intervals
  /\ wait = NoWait /\ ready = <<>> /\ phase = "idle" /\ captured = 0
  /\ deleting = FALSE /\ gone = FALSE /\ goneUse = FALSE
  /\ started = FALSE /\ on = FALSE /\ rest = 0 /\ fires = 0
  /\ broken = {}

Next == User \/ Tick \/ Expire \/ Loop

\* Time passes, expired waits are noticed and the loop runs its queue.
Spec == /\ Init /\ [][Next]_vars
        /\ WF_vars(Tick) /\ WF_vars(Expire) /\ WF_vars(Loop)

-----------------------------------------------------------------------------

\* Type invariant.
TypeOK ==
  /\ isRunning \in BOOLEAN /\ singalShot \in BOOLEAN
  /\ timeoutms \in Intervals
  /\ wait \in [left : Nat, ms : Nat, pending : BOOLEAN]
  /\ ready \in Seq([op : {"fired", "aborted", "delete"}, ms : Nat])
  /\ phase \in {"idle", "callback"} /\ captured \in Nat
  /\ deleting \in BOOLEAN /\ gone \in BOOLEAN /\ goneUse \in BOOLEAN
  /\ started \in BOOLEAN /\ on \in BOOLEAN /\ rest \in Nat /\ fires \in 0..2
  /\ broken \subseteq AllRules

\* A running timer is never lost: between handlers its wait is pending or
\* the expiry is queued, however often it was restarted meanwhile.
Armed ==
  isRunning /\ ~gone =>
    wait.pending \/ \E i \in 1..Len(ready) : ready[i].op = "fired"

\* A single shot timer triggers at most once after it was started, even when
\* the start overtook an expiry that was already queued.
OnceWhenSingle == singalShot /\ ~goneUse => fires <= 1

\* No handler touches a timer that was destroyed, if the rules were kept.
NoGoneUse == goneUse => broken # {}

\* A running timer has a wait, a single shot one fires once, and a handler
\* uses a timer that is gone only when the user broke a rule.
Kept == TypeOK /\ Armed /\ OnceWhenSingle /\ NoGoneUse

Emits == phase = "idle" /\ phase' = "callback"

\* A timeout is emitted only to a user whose last word was Start or Reset.
NoTimeoutWhenOff == [][Emits => on \/ "quietCallback" \in broken]_vars

\* A timeout is not emitted before the time asked for by the last Start or
\* Reset, or the last period of a repeating timer, has passed.
NotEarly ==
  [][Emits => rest = 0 \/ broken \cap {"noRestart", "quietCallback"} # {}]_vars

\* A timeout comes neither early nor from a timer that is off.
OnlyWhenDue == NotEarly /\ NoTimeoutWhenOff

\* A timer that runs is heard of: it times out unless it is stopped,
\* deleted, or restarted over and over.
TimesOut ==
  isRunning ~>
    (phase = "callback" \/ ~isRunning \/ gone \/ "noRestart" \in broken)

=============================================================================
