----------------------------- MODULE TimerProofs -----------------------------
(***************************************************************************)
(* Proofs about Timer, for any timeouts and any number of queued handlers, *)
(* and about the event dispatcher, for any timers and sockets and loops    *)
(* nested to any depth.                                                    *)
(***************************************************************************)
EXTENDS MCTimers, FiniteSetTheorems, SequenceTheorems, TLAPS

-----------------------------------------------------------------------------
\* Queues of handlers.

Handlers == [op : {"fired", "aborted", "delete"}, ms : Nat]

NoFired(s) == \A i \in 1..Len(s) : s[i].op # "fired"

OneFired(s) == \E i \in 1..Len(s) :
                 \A j \in 1..Len(s) : s[j].op = "fired" <=> j = i

NoDelete(s) == \A i \in 1..Len(s) : s[i].op # "delete"

\* No expiry is behind a delete.
Behind(s) ==
  \A i \in 1..Len(s) : s[i].op = "fired" =>
    \A j \in 1..i : s[j].op # "delete"

\* Queue t has the expiries of s, and no deletes that s has not.
Alike(s, t) == /\ NoFired(s) <=> NoFired(t)
               /\ OneFired(s) => OneFired(t)
               /\ NoDelete(s) => NoDelete(t)
               /\ Behind(s) => Behind(t)

LEMMA AppendQueue ==
  ASSUME NEW s \in Seq(Handlers), NEW c \in Handlers
  PROVE  /\ Append(s, c) \in Seq(Handlers)
         /\ c.op = "aborted" => Alike(s, Append(s, c))
         /\ c.op = "delete" => /\ NoFired(s) <=> NoFired(Append(s, c))
                               /\ OneFired(s) => OneFired(Append(s, c))
                               /\ Behind(s) => Behind(Append(s, c))
         /\ c.op = "fired" =>
              /\ ~NoFired(Append(s, c))
              /\ NoFired(s) => OneFired(Append(s, c))
              /\ NoDelete(s) => NoDelete(Append(s, c)) /\ Behind(Append(s, c))
<1> DEFINE t == Append(s, c)
<1>1. /\ t \in Seq(Handlers) /\ Len(t) = Len(s) + 1 /\ Len(s) \in Nat
      /\ \A i \in 1..Len(s) : i \in 1..Len(t) /\ t[i] = s[i]
      /\ t[Len(s) + 1] = c /\ Len(s) + 1 \in 1..Len(t)
  OBVIOUS
<1>2. \A i \in 1..Len(t) : i \in 1..Len(s) \/ i = Len(s) + 1
  BY <1>1
<1> HIDE DEF t
<1>3. ASSUME c.op # "fired"
      PROVE  /\ NoFired(s) <=> NoFired(t)
             /\ OneFired(s) => OneFired(t)
             /\ Behind(s) => Behind(t)
  <2>1. NoFired(s) <=> NoFired(t)
    BY <1>1, <1>2, <1>3 DEF NoFired
  <2>2. ASSUME OneFired(s) PROVE OneFired(t)
    <3>1. PICK i \in 1..Len(s) :
                 \A j \in 1..Len(s) : s[j].op = "fired" <=> j = i
      BY <2>2 DEF OneFired
    <3>2. i \in 1..Len(t) /\ \A j \in 1..Len(t) : t[j].op = "fired" <=> j = i
      BY <1>1, <1>2, <1>3, <3>1
    <3> QED BY <3>2 DEF OneFired
  <2>3. ASSUME Behind(s), NEW i \in 1..Len(t), t[i].op = "fired", NEW j \in 1..i
        PROVE  t[j].op # "delete"
    <3>1. i \in 1..Len(s) /\ j \in 1..Len(s) /\ t[i] = s[i] /\ t[j] = s[j]
      BY <1>1, <1>2, <1>3, <2>3
    <3> QED BY <2>3, <3>1 DEF Behind
  <2> QED BY <2>1, <2>2, <2>3 DEF Behind
<1>4. ASSUME c.op # "delete" PROVE NoDelete(s) => NoDelete(t)
  BY <1>1, <1>2, <1>4 DEF NoDelete
<1>5. ASSUME c.op = "fired"
      PROVE  /\ ~NoFired(t)
             /\ NoFired(s) => OneFired(t)
             /\ NoDelete(t) => Behind(t)
  <2>1. ~NoFired(t)
    BY <1>1, <1>5 DEF NoFired
  <2>2. ASSUME NoFired(s) PROVE OneFired(t)
    <3>1. \A j \in 1..Len(t) : t[j].op = "fired" <=> j = Len(s) + 1
      BY <1>1, <1>2, <1>5, <2>2 DEF NoFired
    <3> QED BY <1>1, <3>1 DEF OneFired
  <2>3. \A i \in 1..Len(t) : \A j \in 1..i : j \in 1..Len(t)
    BY <1>1
  <2>4. NoDelete(t) => Behind(t)
    BY <2>3 DEF NoDelete, Behind
  <2> QED BY <2>1, <2>2, <2>4
<1> QED BY <1>1, <1>3, <1>4, <1>5 DEF Alike, t

LEMMA TailQueue ==
  ASSUME NEW s \in Seq(Handlers), s # <<>>
  PROVE  /\ Tail(s) \in Seq(Handlers) /\ Head(s) \in Handlers
         /\ NoDelete(s) => NoDelete(Tail(s))
         /\ Behind(s) => Behind(Tail(s))
         /\ Head(s).op # "fired" => /\ NoFired(s) <=> NoFired(Tail(s))
                                    /\ OneFired(s) => OneFired(Tail(s))
         /\ Head(s).op = "fired" => /\ ~NoFired(s)
                                    /\ OneFired(s) => NoFired(Tail(s))
         /\ Head(s).op = "delete" => /\ ~NoDelete(s)
                                     /\ Behind(s) => NoFired(Tail(s))
<1> DEFINE t == Tail(s)
<1>1. /\ t \in Seq(Handlers) /\ Len(t) = Len(s) - 1
      /\ Len(s) \in Nat /\ Len(s) >= 1
      /\ \A i \in 1..Len(t) : t[i] = s[i + 1]
      /\ Head(s) = s[1] /\ s[1] \in Handlers
  OBVIOUS
<1>2. /\ 1 \in 1..Len(s)
      /\ \A i \in 1..Len(t) : i + 1 \in 1..Len(s) /\ i + 1 # 1
      /\ \A i \in 1..Len(s) :
           i # 1 => i - 1 \in 1..Len(t) /\ s[i] = t[i - 1]
  <2> HIDE DEF t
  <2>1. ASSUME NEW i \in 1..Len(s), i # 1
        PROVE  i - 1 \in 1..Len(t) /\ s[i] = t[i - 1]
    <3>1. i - 1 \in 1..Len(t) /\ (i - 1) + 1 = i
      BY <1>1, <2>1
    <3> QED BY <1>1, <3>1
  <2> QED BY <1>1, <2>1
<1> HIDE DEF t
<1>3. NoDelete(s) => NoDelete(t) /\ Head(s).op # "delete"
  BY <1>1, <1>2 DEF NoDelete
<1>4. ASSUME Behind(s), NEW i \in 1..Len(t), t[i].op = "fired", NEW j \in 1..i
      PROVE  t[j].op # "delete"
  <2>1. i + 1 \in 1..Len(s) /\ j + 1 \in 1..(i + 1)
        /\ t[i] = s[i + 1] /\ t[j] = s[j + 1]
    BY <1>1
  <2> QED BY <1>4, <2>1 DEF Behind
<1>5. Head(s).op # "fired" => (NoFired(s) <=> NoFired(t))
  BY <1>1, <1>2 DEF NoFired
<1>6. ASSUME OneFired(s)
      PROVE  IF Head(s).op = "fired" THEN NoFired(t) ELSE OneFired(t)
  <2>1. PICK i \in 1..Len(s) : \A j \in 1..Len(s) : s[j].op = "fired" <=> j = i
    BY <1>6 DEF OneFired
  <2>2. CASE i = 1
    BY <1>1, <1>2, <2>1, <2>2 DEF NoFired
  <2>3. CASE i # 1
    <3>1. i - 1 \in 1..Len(t)
      BY <1>1, <2>3
    <3>2. \A j \in 1..Len(t) : t[j].op = "fired" <=> j = i - 1
      BY <1>1, <2>1, SMTT(30)
    <3> QED BY <1>1, <1>2, <2>1, <2>3, <3>1, <3>2 DEF OneFired
  <2> QED BY <2>2, <2>3
<1>7. Head(s).op = "fired" => ~NoFired(s)
  BY <1>1, <1>2 DEF NoFired
<1>8. ASSUME Behind(s), Head(s).op = "delete" PROVE NoFired(t)
  <2>1. ASSUME NEW i \in 1..Len(t) PROVE t[i].op # "fired"
    <3>1. 1 \in 1..(i + 1) /\ i + 1 \in 1..Len(s) /\ t[i] = s[i + 1]
      BY <1>1
    <3> QED BY <1>1, <1>8, <3>1 DEF Behind
  <2> QED BY <2>1 DEF NoFired
<1> QED BY <1>1, <1>3, <1>4, <1>5, <1>6, <1>7, <1>8 DEF Behind, t

LEMMA Records ==
  /\ Aborted \in Handlers /\ Aborted.op = "aborted"
  /\ Deletion \in Handlers /\ Deletion.op = "delete"
  /\ \A ms \in Nat : Fired(ms) \in Handlers /\ Fired(ms).op = "fired"
  /\ NoWait.pending = FALSE
BY DEF Aborted, Deletion, Fired, Handlers, NoWait

LEMMA AlikeSelf == ASSUME NEW s PROVE Alike(s, s)
BY DEF Alike

LEMMA CancelledQueue ==
  ASSUME NEW s \in Seq(Handlers)
  PROVE  Cancelled(s) \in Seq(Handlers) /\ Alike(s, Cancelled(s))
BY AppendQueue, Records, AlikeSelf DEF Cancelled

-----------------------------------------------------------------------------
\* The inductive invariant.

\* A repeating timer is in its callback, after which it begins a wait.
InCallback == phase = "callback" /\ ~singalShot

Restarts == {"noRestart", "quietCallback"}

\* A single shot timer that fired does not run.
ShotInv == singalShot => fires = 0 \/ (fires = 1 /\ ~isRunning)

OnInv == "quietCallback" \notin broken => (isRunning \/ InCallback => on)

\* A timer that is not restarted has one wait, pending or expired, and what
\* is left of it is no less than the user asked for.
WaitInv ==
  broken \cap Restarts = {} =>
    /\ wait.pending =>
         isRunning /\ started /\ NoFired(ready) /\ rest <= wait.left
    /\ \/ NoFired(ready)
       \/ OneFired(ready) /\ started /\ (isRunning \/ ~on) /\ (isRunning => rest = 0)
    /\ InCallback =>
         ~isRunning /\ started /\ NoFired(ready) /\ rest <= captured

\* A timer that is deleted when it does not run has no expiry behind the
\* delete.
DeleteInv ==
  /\ goneUse => broken # {}
  /\ broken = {} =>
       /\ deleting => ~isRunning /\ (phase = "callback" => singalShot)
       /\ gone => deleting /\ NoFired(ready)
       /\ NoDelete(ready) \/ deleting
       /\ Behind(ready)

Inv == TypeOK /\ Armed /\ ShotInv /\ OnInv /\ WaitInv /\ DeleteInv

LEMMA ArmedFired ==
  Armed <=> (isRunning /\ ~gone => wait.pending \/ ~NoFired(ready))
BY DEF Armed, NoFired

LEMMA TypeFacts ==
  ASSUME Inv
  PROVE  /\ ready \in Seq(Handlers) /\ timeoutms \in Nat
         /\ Cancelled(ready) \in Seq(Handlers) /\ Alike(ready, Cancelled(ready))
<1>1. ready \in Seq(Handlers) /\ timeoutms \in Nat
  BY TimerAssumption DEF Inv, TypeOK, Handlers
<1> QED BY <1>1, CancelledQueue

LEMMA WaitType ==
  ASSUME NEW ms \in Nat
  PROVE  /\ Wait(ms) \in [left : Nat, ms : Nat, pending : BOOLEAN]
         /\ Wait(ms).left = ms /\ Wait(ms).pending = TRUE
         /\ NoWait \in [left : Nat, ms : Nat, pending : BOOLEAN]
BY DEF Wait, NoWait

LEMMA InitInv ==
  ASSUME Init PROVE Inv
<1>1. /\ isRunning = FALSE /\ wait = NoWait /\ ready = <<>> /\ phase = "idle"
      /\ goneUse = FALSE /\ gone = FALSE /\ deleting = FALSE /\ fires = 0
      /\ broken = {}
  BY DEF Init
<1>2. TypeOK
  <2>1. /\ ready \in Seq([op : {"fired", "aborted", "delete"}, ms : Nat])
        /\ wait \in [left : Nat, ms : Nat, pending : BOOLEAN]
        /\ broken \subseteq AllRules
    BY <1>1 DEF NoWait
  <2>2. /\ singalShot = FALSE /\ timeoutms \in Intervals /\ captured = 0
        /\ started = FALSE /\ on = FALSE /\ rest = 0
    BY DEF Init
  <2>3. /\ isRunning \in BOOLEAN /\ singalShot \in BOOLEAN
        /\ deleting \in BOOLEAN /\ gone \in BOOLEAN /\ goneUse \in BOOLEAN
        /\ started \in BOOLEAN /\ on \in BOOLEAN
    BY <1>1, <2>2
  <2>4. captured \in Nat /\ rest \in Nat /\ fires \in 0..2
    BY <1>1, <2>2
  <2> QED BY <1>1, <2>1, <2>2, <2>3, <2>4 DEF TypeOK
<1>3. NoFired(ready) /\ NoDelete(ready) /\ Behind(ready)
  BY <1>1 DEF NoFired, NoDelete, Behind
<1> QED BY <1>1, <1>2, <1>3, ArmedFired, Records
        DEF Inv, ShotInv, OnInv, WaitInv, DeleteInv, InCallback

LEMMA ResetStep ==
  ASSUME Inv, NEW ms \in Nat, Reset(ms) PROVE Inv'
<1>1. /\ ~gone /\ isRunning' = TRUE /\ ready' = Cancelled(ready)
      /\ wait' = Wait(ms) /\ started' = TRUE /\ on' = TRUE /\ rest' = ms
      /\ fires' = 0
      /\ UNCHANGED <<singalShot, timeoutms, phase, captured, deleting, gone,
                     goneUse>>
  BY DEF Reset, MayCall, SetExpired, lifeVars
<1>2. /\ broken' \in SUBSET AllRules /\ broken \subseteq broken'
      /\ "quietCallback" \notin broken' => phase = "idle" \/ singalShot
      /\ "noRestart" \notin broken' => ~started \/ (~isRunning /\ on)
      /\ "stopFirst" \notin broken' => ~deleting
  BY DEF Reset, Breaks, Quiet, Idle, Inv, TypeOK, AllRules
<1>3. /\ ready' \in Seq(Handlers) /\ Alike(ready, ready')
      /\ wait'.left = ms /\ wait'.pending = TRUE
      /\ wait' \in [left : Nat, ms : Nat, pending : BOOLEAN]
  BY <1>1, TypeFacts, WaitType
<1>4. TypeOK'
  BY <1>1, <1>2, <1>3 DEF Inv, TypeOK, Handlers
<1>5. Armed' /\ ShotInv'
  BY <1>1, <1>3 DEF Armed, ShotInv
<1>6. OnInv'
  BY <1>1 DEF OnInv
<1>7. WaitInv'
  <2> SUFFICES ASSUME broken' \cap Restarts = {}
               PROVE  NoFired(ready') /\ ~InCallback'
    BY <1>1, <1>3 DEF WaitInv
  <2>1. NoFired(ready) /\ ~InCallback
    BY <1>2 DEF Inv, WaitInv, Restarts, InCallback
  <2> QED BY <1>1, <1>3, <2>1 DEF Alike, InCallback
<1>8. DeleteInv'
  BY <1>1, <1>2, <1>3 DEF Inv, DeleteInv, Alike
<1> QED BY <1>4, <1>5, <1>6, <1>7, <1>8 DEF Inv

LEMMA StopStep ==
  ASSUME Inv, Stop PROVE Inv'
<1>1. /\ isRunning' = FALSE /\ ready' = Cancelled(ready)
      /\ wait' = NoWait /\ on' = FALSE
      /\ UNCHANGED <<singalShot, timeoutms, phase, captured, deleting, gone,
                     goneUse, started, rest, fires>>
  BY DEF Stop, lifeVars
<1>2. /\ broken' \in SUBSET AllRules /\ broken \subseteq broken'
      /\ "quietCallback" \notin broken' => ~InCallback
  BY DEF Stop, Breaks, Quiet, Idle, Inv, TypeOK, AllRules, InCallback
<1>3. /\ ready' \in Seq(Handlers) /\ Alike(ready, ready')
      /\ wait'.pending = FALSE
  BY <1>1, TypeFacts, Records
<1>4. TypeOK'
  BY <1>1, <1>2, <1>3, WaitType DEF Inv, TypeOK, Handlers
<1>5. Armed' /\ ShotInv'
  BY <1>1 DEF Armed, ShotInv, Inv
<1>6. OnInv'
  BY <1>1, <1>2 DEF OnInv, InCallback
<1>7. WaitInv'
  BY <1>1, <1>2, <1>3 DEF Inv, WaitInv, Restarts, InCallback, Alike
<1>8. DeleteInv'
  BY <1>1, <1>2, <1>3 DEF Inv, DeleteInv, Alike
<1> QED BY <1>4, <1>5, <1>6, <1>7, <1>8 DEF Inv

LEMMA SetStep ==
  ASSUME Inv, (\E ms \in Intervals : SetInterval(ms))
              \/ (\E flag \in BOOLEAN : SetSingalShot(flag))
  PROVE  Inv'
<1>1. ASSUME NEW ms \in Intervals, SetInterval(ms) PROVE Inv'
  BY <1>1 DEF SetInterval, loopVars, lifeVars, userVars, Inv, TypeOK, Armed,
              ShotInv, OnInv, WaitInv, DeleteInv, InCallback
<1>2. ASSUME NEW flag \in BOOLEAN, SetSingalShot(flag) PROVE Inv'
  <2>1. /\ singalShot' = flag
        /\ fires' = (IF flag # singalShot THEN 0 ELSE fires)
        /\ UNCHANGED <<isRunning, timeoutms, wait, ready, phase, captured,
                       deleting, gone, goneUse, started, on, rest>>
    BY <1>2 DEF SetSingalShot, loopVars, lifeVars
  <2>2. /\ broken' \in SUBSET AllRules /\ broken \subseteq broken'
        /\ "quietCallback" \notin broken' => ~InCallback'
    BY <1>2, <2>1
       DEF SetSingalShot, Breaks, Idle, Inv, TypeOK, AllRules, InCallback
  <2>3. TypeOK' /\ Armed'
    BY <2>1, <2>2 DEF Inv, TypeOK, Armed
  <2>4. ShotInv' /\ OnInv' /\ WaitInv'
    BY <2>1, <2>2 DEF Inv, ShotInv, OnInv, WaitInv, Restarts
  <2>5. DeleteInv'
    BY <2>1, <2>2 DEF Inv, TypeOK, DeleteInv, InCallback
  <2> QED BY <2>3, <2>4, <2>5 DEF Inv
<1> QED BY <1>1, <1>2

LEMMA DeleteLaterStep ==
  ASSUME Inv, DeleteLater PROVE Inv'
<1>1. /\ ~gone /\ ~deleting /\ deleting' = TRUE /\ ready' = Append(ready, Deletion)
      /\ UNCHANGED <<isRunning, singalShot, timeoutms, wait, phase, captured,
                     gone, goneUse, started, on, rest, fires>>
  BY DEF DeleteLater, MayCall, timerVars, userVars
<1>2. /\ broken' \in SUBSET AllRules /\ broken \subseteq broken'
      /\ broken' = {} => ~isRunning /\ (phase = "callback" => singalShot)
  BY DEF DeleteLater, Breaks, Quiet, Idle, Inv, TypeOK, AllRules
<1>3. /\ ready' \in Seq(Handlers)
      /\ NoFired(ready) <=> NoFired(ready')
      /\ OneFired(ready) => OneFired(ready')
      /\ Behind(ready) => Behind(ready')
  BY <1>1, TypeFacts, Records, AppendQueue
<1>4. TypeOK'
  BY <1>1, <1>2, <1>3 DEF Inv, TypeOK, Handlers
<1>5. Armed' /\ ShotInv' /\ OnInv'
  BY <1>1, <1>2, <1>3, ArmedFired DEF Inv, Armed, NoFired, ShotInv, OnInv, InCallback
<1>6. WaitInv'
  BY <1>1, <1>2, <1>3 DEF Inv, WaitInv, InCallback
<1>7. DeleteInv'
  BY <1>1, <1>2, <1>3 DEF Inv, DeleteInv
<1> QED BY <1>4, <1>5, <1>6, <1>7 DEF Inv

LEMMA DestroyStep ==
  ASSUME Inv, Destroy PROVE Inv'
<1>1. /\ gone' = TRUE /\ ready' = Cancelled(ready) /\ wait' = NoWait
      /\ broken' = broken \cup {"stopFirst"}
      /\ UNCHANGED <<isRunning, singalShot, timeoutms, phase, captured,
                     deleting, goneUse, started, on, rest, fires>>
  BY DEF Destroy, Destroyed, timerVars, userVars
<1>2. /\ ready' \in Seq(Handlers) /\ Alike(ready, ready')
      /\ wait'.pending = FALSE
  BY <1>1, TypeFacts, Records
<1>3. TypeOK'
  BY <1>1, <1>2, WaitType DEF Inv, TypeOK, Handlers, AllRules
<1>4. Armed' /\ ShotInv' /\ OnInv' /\ DeleteInv'
  BY <1>1 DEF Inv, Armed, ShotInv, OnInv, DeleteInv, InCallback
<1>5. WaitInv'
  BY <1>1, <1>2 DEF Inv, WaitInv, InCallback, Alike, Restarts
<1> QED BY <1>3, <1>4, <1>5 DEF Inv

LEMMA TickStep ==
  ASSUME Inv, Tick PROVE Inv'
<1>1. /\ wait' = [wait EXCEPT !.left = IF @ > 0 THEN @ - 1 ELSE 0]
      /\ rest' = (IF rest > 0 THEN rest - 1 ELSE 0)
      /\ UNCHANGED <<isRunning, singalShot, timeoutms, ready, phase, captured,
                     deleting, gone, goneUse, started, on, fires, broken>>
  BY DEF Tick, timerVars, lifeVars
<1>2. /\ wait \in [left : Nat, ms : Nat, pending : BOOLEAN] /\ rest \in Nat
      /\ captured \in Nat
  BY DEF Inv, TypeOK
<1>3. /\ wait' \in [left : Nat, ms : Nat, pending : BOOLEAN] /\ rest' \in Nat
      /\ wait'.pending = wait.pending
      /\ rest <= wait.left => rest' <= wait'.left
      /\ rest' <= rest
  BY <1>1, <1>2
<1>4. TypeOK' /\ Armed'
  BY <1>1, <1>3 DEF Inv, TypeOK, Armed
<1>5. ShotInv' /\ OnInv' /\ DeleteInv'
  BY <1>1 DEF Inv, ShotInv, OnInv, DeleteInv, InCallback
<1>6. WaitInv'
  BY <1>1, <1>2, <1>3 DEF Inv, WaitInv, InCallback
<1> QED BY <1>4, <1>5, <1>6 DEF Inv

LEMMA ExpireStep ==
  ASSUME Inv, Expire PROVE Inv'
<1>1. /\ wait.pending /\ wait.left = 0 /\ wait' = NoWait
      /\ ready' = Append(ready, Fired(wait.ms))
      /\ UNCHANGED <<isRunning, singalShot, timeoutms, phase, captured,
                     deleting, gone, goneUse, started, on, rest, fires, broken>>
  BY DEF Expire, timerVars, lifeVars, userVars
<1>2. wait.ms \in Nat /\ rest \in Nat
  BY DEF Inv, TypeOK
<1>3. /\ ready' \in Seq(Handlers) /\ ~NoFired(ready')
      /\ NoFired(ready) => OneFired(ready')
      /\ NoDelete(ready) => NoDelete(ready') /\ Behind(ready')
      /\ wait'.pending = FALSE
  BY <1>1, <1>2, TypeFacts, Records, AppendQueue
<1>4. TypeOK'
  BY <1>1, <1>3, WaitType DEF Inv, TypeOK, Handlers
<1>5. Armed' /\ ShotInv' /\ OnInv'
  BY <1>1, <1>3 DEF Inv, Armed, NoFired, ShotInv, OnInv, InCallback
<1>6. WaitInv'
  BY <1>1, <1>2, <1>3 DEF Inv, WaitInv, InCallback
<1>7. DeleteInv'
  BY <1>1, <1>3 DEF Inv, DeleteInv, WaitInv
<1> QED BY <1>4, <1>5, <1>6, <1>7 DEF Inv

-----------------------------------------------------------------------------
\* The handlers.

LEMMA Taken ==
  ASSUME Inv, NEW op, Running(op)
  PROVE  /\ phase = "idle" /\ Head(ready).op = op /\ Head(ready) \in Handlers
         /\ Tail(ready) \in Seq(Handlers)
         /\ NoDelete(ready) => NoDelete(Tail(ready))
         /\ Behind(ready) => Behind(Tail(ready))
         /\ op # "fired" => /\ NoFired(ready) <=> NoFired(Tail(ready))
                            /\ OneFired(ready) => OneFired(Tail(ready))
         /\ op = "fired" => /\ ~NoFired(ready)
                            /\ OneFired(ready) => NoFired(Tail(ready))
         /\ op = "delete" => /\ ~NoDelete(ready)
                             /\ Behind(ready) => NoFired(Tail(ready))
BY TypeFacts, TailQueue DEF Running, Idle

LEMMA HandleAbortedStep ==
  ASSUME Inv, HandleAborted PROVE Inv'
<1>1. /\ Running("aborted") /\ ready' = Tail(ready)
      /\ UNCHANGED <<isRunning, singalShot, timeoutms, wait, phase, captured,
                     deleting, gone, goneUse, started, on, rest, fires, broken>>
  BY DEF HandleAborted, timerVars, lifeVars, userVars
<1>2. ready' \in Seq(Handlers) /\ Alike(ready, ready')
  BY <1>1, Taken DEF Alike
<1>3. TypeOK'
  BY <1>1, <1>2 DEF Inv, TypeOK, Handlers
<1>4. Armed' /\ ShotInv' /\ OnInv'
  BY <1>1, <1>2 DEF Inv, Armed, NoFired, Alike, ShotInv, OnInv, InCallback
<1>5. WaitInv' /\ DeleteInv'
  BY <1>1, <1>2 DEF Inv, WaitInv, DeleteInv, Alike, InCallback
<1> QED BY <1>3, <1>4, <1>5 DEF Inv

LEMMA HandleStoppedStep ==
  ASSUME Inv, HandleStopped PROVE Inv'
<1>1. /\ Running("fired") /\ (gone \/ ~isRunning) /\ ready' = Tail(ready)
      /\ goneUse' = (goneUse \/ gone)
      /\ UNCHANGED <<isRunning, singalShot, timeoutms, wait, phase, captured,
                     deleting, gone, started, on, rest, fires, broken>>
  BY DEF HandleStopped, timerVars, userVars
<1>2. /\ ready' \in Seq(Handlers) /\ ~NoFired(ready) /\ phase = "idle"
      /\ OneFired(ready) => NoFired(ready')
      /\ NoDelete(ready) => NoDelete(ready')
      /\ Behind(ready) => Behind(ready')
  BY <1>1, Taken
<1>3. TypeOK'
  BY <1>1, <1>2 DEF Inv, TypeOK, Handlers
<1>4. Armed' /\ ShotInv' /\ OnInv'
  BY <1>1 DEF Inv, Armed, ShotInv, OnInv, InCallback
<1>5. WaitInv'
  BY <1>1, <1>2 DEF Inv, WaitInv, InCallback
<1>6. DeleteInv'
  <2>1. broken = {} => broken \cap Restarts = {} /\ ~gone
    BY <1>2 DEF Inv, DeleteInv
  <2> QED BY <1>1, <1>2, <2>1 DEF Inv, DeleteInv
<1> QED BY <1>3, <1>4, <1>5, <1>6 DEF Inv

LEMMA EmitTimeoutStep ==
  ASSUME Inv, EmitTimeout PROVE Inv'
<1>1. /\ Running("fired") /\ ~gone /\ isRunning /\ isRunning' = FALSE
      /\ phase' = "callback" /\ captured' = Head(ready).ms
      /\ ready' = Tail(ready) /\ rest' = Head(ready).ms
      /\ fires' = (IF fires < 2 THEN fires + 1 ELSE fires)
      /\ UNCHANGED <<singalShot, timeoutms, wait, deleting, gone, goneUse,
                     started, on, broken>>
  BY DEF EmitTimeout, lifeVars
<1>2. /\ ready' \in Seq(Handlers) /\ ~NoFired(ready) /\ phase = "idle"
      /\ OneFired(ready) => NoFired(ready')
      /\ NoDelete(ready) => NoDelete(ready')
      /\ Behind(ready) => Behind(ready')
  BY <1>1, Taken
<1>3. captured' \in Nat /\ rest' = captured' /\ fires \in 0..2
  <2>1. Head(ready) \in Handlers
    BY <1>1, Taken
  <2> QED BY <1>1, <2>1 DEF Handlers, Inv, TypeOK
<1>4. TypeOK'
  <2>1. fires' \in 0..2
    BY <1>1, <1>3
  <2> QED BY <1>1, <1>2, <1>3, <2>1 DEF Inv, TypeOK, Handlers
<1>5. Armed' /\ OnInv' /\ ShotInv'
  BY <1>1, <1>3 DEF Inv, Armed, OnInv, ShotInv, InCallback
<1>6. WaitInv'
  BY <1>1, <1>2, <1>3 DEF Inv, WaitInv, InCallback
<1>7. DeleteInv'
  BY <1>1, <1>2 DEF Inv, DeleteInv
<1> QED BY <1>4, <1>5, <1>6, <1>7 DEF Inv

LEMMA RearmStep ==
  ASSUME Inv, Rearm PROVE Inv'
<1>1. /\ phase = "callback" /\ phase' = "idle"
      /\ IF singalShot THEN UNCHANGED <<isRunning, wait, ready>>
         ELSE /\ isRunning' = TRUE /\ ready' = Cancelled(ready)
              /\ wait' = Wait(captured)
      /\ UNCHANGED <<singalShot, timeoutms, captured, deleting, gone, goneUse,
                     started, on, rest, fires, broken>>
  BY DEF Rearm, SetExpired, Idle, lifeVars, userVars, Inv, TypeOK
<1>2. captured \in Nat /\ ready \in Seq(Handlers) /\ singalShot \in BOOLEAN
  BY TypeFacts DEF Inv, TypeOK
<1>3. CASE singalShot
  BY <1>1, <1>3 DEF Inv, TypeOK, Armed, ShotInv, OnInv, WaitInv, DeleteInv,
                    InCallback
<1>4. CASE ~singalShot
  <2>1. InCallback /\ ~InCallback'
    BY <1>1, <1>4 DEF InCallback
  <2>2. /\ ready' \in Seq(Handlers) /\ Alike(ready, ready')
        /\ wait'.left = captured /\ wait'.pending = TRUE
    BY <1>1, <1>2, <1>4, TypeFacts, WaitType
  <2>3. TypeOK'
    BY <1>1, <1>2, <1>4, <2>2, WaitType DEF Inv, TypeOK, Handlers
  <2>4. Armed' /\ ShotInv' /\ OnInv'
    BY <1>1, <1>4, <2>1, <2>2 DEF Inv, Armed, ShotInv, OnInv
  <2>5. WaitInv'
    BY <1>1, <1>4, <2>1, <2>2 DEF Inv, WaitInv, Alike
  <2>6. DeleteInv'
    BY <1>1, <1>4, <2>2 DEF Inv, DeleteInv, Alike
  <2> QED BY <2>3, <2>4, <2>5, <2>6 DEF Inv
<1> QED BY <1>3, <1>4

LEMMA DeleteStep ==
  ASSUME Inv, Delete PROVE Inv'
<1>1. /\ Running("delete") /\ gone' = TRUE /\ ready' = Cancelled(Tail(ready))
      /\ wait' = NoWait
      /\ UNCHANGED <<isRunning, singalShot, timeoutms, phase, captured,
                     deleting, goneUse, started, on, rest, fires, broken>>
  BY DEF Delete, Destroyed, timerVars, userVars
<1>2. /\ Tail(ready) \in Seq(Handlers) /\ ~NoDelete(ready)
      /\ NoFired(ready) <=> NoFired(Tail(ready))
      /\ OneFired(ready) => OneFired(Tail(ready))
      /\ Behind(ready) => Behind(Tail(ready)) /\ NoFired(Tail(ready))
  BY <1>1, Taken
<1>3. /\ ready' \in Seq(Handlers) /\ Alike(Tail(ready), ready')
      /\ wait'.pending = FALSE
  BY <1>1, <1>2, CancelledQueue, Records
<1>4. TypeOK'
  BY <1>1, <1>3, WaitType DEF Inv, TypeOK, Handlers
<1>5. Armed' /\ ShotInv' /\ OnInv'
  BY <1>1 DEF Inv, Armed, ShotInv, OnInv, InCallback
<1>6. WaitInv'
  BY <1>1, <1>2, <1>3 DEF Inv, WaitInv, InCallback, Alike
<1>7. DeleteInv'
  BY <1>1, <1>2, <1>3 DEF Inv, DeleteInv, Alike
<1> QED BY <1>4, <1>5, <1>6, <1>7 DEF Inv

LEMMA NextStep ==
  ASSUME Inv, [Next]_vars PROVE Inv'
<1>1. CASE User
  <2>1. Intervals \subseteq Nat /\ timeoutms \in Nat
    BY TimerAssumption, TypeFacts
  <2>2. ASSUME NEW ms \in Intervals, Reset(ms) PROVE Inv'
    BY <2>1, <2>2, ResetStep
  <2>3. CASE Start
    BY <2>1, <2>3, ResetStep DEF Start
  <2> QED BY <1>1, <2>2, <2>3, StopStep, SetStep, DeleteLaterStep, DestroyStep
          DEF User
<1>2. CASE Loop
  BY <1>2, HandleAbortedStep, HandleStoppedStep, EmitTimeoutStep, RearmStep,
     DeleteStep DEF Loop
<1>3. CASE UNCHANGED vars
  BY <1>3 DEF vars, timerVars, loopVars, lifeVars, userVars, Inv, TypeOK,
              Armed, ShotInv, OnInv, WaitInv, DeleteInv, InCallback
<1> QED BY <1>1, <1>2, <1>3, TickStep, ExpireStep DEF Next

LEMMA Inductive == Spec => []Inv
<1>1. Init => Inv
  BY InitInv
<1>2. Inv /\ [Next]_vars => Inv'
  BY NextStep
<1> QED BY <1>1, <1>2, PTL DEF Spec

-----------------------------------------------------------------------------

\* A running timer is never lost: its wait is pending or its expiry queued,
\* however it is restarted, stopped, set and deleted meanwhile.
THEOREM ArmedSafety == Spec => [](TypeOK /\ Armed)
<1>1. Inv => TypeOK /\ Armed
  BY DEF Inv
<1> QED BY <1>1, Inductive, PTL

\* A single shot timer fires once at most each time it is started, also when
\* the start overtakes an expiry that was queued.
THEOREM OnceSafety == Spec => []OnceWhenSingle
<1>1. Inv => OnceWhenSingle
  BY DEF Inv, ShotInv, OnceWhenSingle
<1> QED BY <1>1, Inductive, PTL

\* A timer that is stopped before it is deleted is not used by a handler once
\* it is gone: an expiry that Stop came too late for runs before the delete.
THEOREM GoneSafety == Spec => []NoGoneUse
<1>1. Inv => NoGoneUse
  BY DEF Inv, DeleteInv, NoGoneUse
<1> QED BY <1>1, Inductive, PTL

LEMMA EmitsFired ==
  ASSUME Inv, [Next]_vars, Emits PROVE EmitTimeout
BY DEF Emits, Next, User, Start, Reset, Stop, SetInterval, SetSingalShot,
       DeleteLater, Destroy, Tick, Expire, Loop, HandleAborted, HandleStopped,
       Rearm, Delete, vars, loopVars

\* No timeout reaches a user whose last word was Stop, though a Stop does not
\* recall an expiry that is queued.
THEOREM OffSafety == Spec => NoTimeoutWhenOff
<1>1. ASSUME Inv, [Next]_vars
      PROVE  [Emits => on \/ "quietCallback" \in broken]_vars
  BY <1>1, EmitsFired DEF EmitTimeout, Inv, OnInv
<1> QED BY <1>1, Inductive, PTL DEF Spec, NoTimeoutWhenOff

\* No timeout comes before its time, whatever the timer was set to while it
\* waited.
THEOREM EarlySafety == Spec => NotEarly
<1>1. ASSUME Inv, [Next]_vars
      PROVE  [Emits => rest = 0 \/ broken \cap Restarts # {}]_vars
  BY <1>1, EmitsFired, Taken DEF EmitTimeout, Inv, WaitInv
<1>2. Spec => [][Emits => rest = 0 \/ broken \cap Restarts # {}]_vars
  BY <1>1, Inductive, PTL DEF Spec
<1> QED BY <1>2 DEF NotEarly, Restarts

\* What the timer's state promises, all together: a running timer has a wait,
\* fires once when it is single shot, and is not used once it is gone.
THEOREM KeptSafety == Spec => []Kept
<1>1. TypeOK /\ Armed /\ OnceWhenSingle /\ NoGoneUse => Kept
  BY DEF Kept
<1> QED BY <1>1, ArmedSafety, OnceSafety, GoneSafety, PTL

\* What the timer's steps promise: no timeout comes early or from a timer that
\* the user's last word turned off.
THEOREM DueSafety == Spec => OnlyWhenDue
BY OffSafety, EarlySafety, PTL DEF OnlyWhenDue

-----------------------------------------------------------------------------
\* The event dispatcher: what its invariant is about.

\* What an info may be called.
Infos == 1..(Cardinality(Qt!Items) + MaxCalls)

\* The items whose info is n, and the frames of s that hold n.
Users(o, n) == {i \in Qt!Items : o[i] = n}
Loops(s, n) == {d \in DOMAIN s : Qt!Holds(s[d], n)}

\* The stack s with r for its innermost frame, with one more, and without it.
WithTop(s, r) == Qt!Front(s) \o <<r>>
Pushed(s, r) == Append(s, r)
Popped(s) == Qt!Front(s)

\* The info k given to item i, and the items I to info k.
Given(o, i, k) == [o EXCEPT ![i] = k]
ItemsGiven(f, k, I) == [f EXCEPT ![k].items = I]

\* How many have each info: what is registered for it, and frames.
Count(o, s) == [n \in Infos |-> Cardinality(Users(o, n)) + Cardinality(Loops(s, n))]

InfoType == [items : SUBSET Qt!Items, refs : Nat, active : BOOLEAN, armed : BOOLEAN]

\* The infos f are those that c counts, and as often referenced.
RefsOk(f, c) == /\ DOMAIN f = {n \in Infos : c[n] > 0}
                /\ \A n \in DOMAIN f : f[n] \in InfoType /\ f[n].refs = c[n]

\* The items of an info are those registered for it, but for what is left of a timer.
ItemsOk(f, o) ==
  /\ \A n \in DOMAIN f : /\ Users(o, n) # {} => f[n].items = Users(o, n)
                         /\ f[n].items \cap Notifiers \subseteq Users(o, n)
  /\ \A i \in Qt!Items \ Notifiers : o[i] # 0 => Users(o, o[i]) = {i}

Waiting == {"start", "posted"}
Between == {"zero", "run", "reset"}
Within == {"zeroDone", "timerDone", "tell"}

FrameType == [at : Waiting \cup Between \cup Within, more : BOOLEAN, wait : BOOLEAN,
              result : BOOLEAN, todo : SUBSET (Infos \cup {0}), cur : Infos \cup {0},
              left : SUBSET Notifiers, user : BOOLEAN]

\* What a frame holds, by where it is.
FrameOk(f) ==
  /\ f \in FrameType
  /\ f.at \in Waiting => f.todo = {}
  /\ f.at \in Within <=> f.cur # 0
  /\ f.cur \notin f.todo \ {0}
  /\ f.at \in {"zero", "zeroDone"} => 0 \notin f.todo

\* What is not registered is held once at most, so that two references say
\* that it is.
HeldOnce(o, s) == \A n \in Infos : Users(o, n) = {} =>
                    \A d, e \in Loops(s, n) : d = e

\* The infos f, registrations o and stack s agree.
Good(f, o, s) ==
  /\ s \in Seq(FrameType) /\ \A d \in 1..Len(s) : FrameOk(s[d])
  /\ RefsOk(f, Count(o, s)) /\ ItemsOk(f, o)
  /\ "nestedKeeps" \in DispatchRules => HeldOnce(o, s)

\* The inductive invariant. There is a number for every info that may still
\* be allocated.
DispatchInv ==
  /\ of \in [Qt!Items -> Infos \cup {0}]
  /\ Good(info, of, stack)
  /\ calls \in Nat /\ Cardinality(DOMAIN info) + calls <= Cardinality(Qt!Items) + MaxCalls
  /\ other \in {"idle", "wake", "write"}
  /\ "nestedKeeps" \in DispatchRules => ~stale

-----------------------------------------------------------------------------
\* The stack of frames, and who of it holds an info.

\* The dispatcher's instance of FiniteSets has the operator of FiniteSets.
LEMMA SameCardinality == \A S : Qt!Cardinality(S) = Cardinality(S)
BY DEF Qt!Cardinality, Cardinality

LEMMA FrontOf ==
  ASSUME NEW F, NEW s \in Seq(F), s # <<>>
  PROVE  /\ Len(s) \in Nat \ {0} /\ Qt!Last(s) = s[Len(s)] /\ Len(s) \in 1..Len(s)
         /\ Qt!Front(s) \in Seq(F) /\ Len(Qt!Front(s)) = Len(s) - 1
         /\ \A d \in 1..(Len(s) - 1) : Qt!Front(s)[d] = s[d]
<1>1. Len(s) \in Nat \ {0} /\ \A d \in 1..(Len(s) - 1) : s[d] \in F
  OBVIOUS
<1>2. /\ SubSeq(s, 1, Len(s) - 1) \in Seq(F)
      /\ Len(SubSeq(s, 1, Len(s) - 1)) = IF 1 <= Len(s) - 1 THEN Len(s) - 1 - 1 + 1 ELSE 0
      /\ \A d \in 1..(Len(s) - 1 - 1 + 1) : SubSeq(s, 1, Len(s) - 1)[d] = s[1 + d - 1]
  BY <1>1, SubSeqProperties
<1>3. Len(s) - 1 - 1 + 1 = Len(s) - 1 /\ \A d \in 1..(Len(s) - 1) : 1 + d - 1 = d
  BY <1>1
<1>4. Qt!Front(s) = SubSeq(s, 1, Len(s) - 1)
  BY DEF Qt!Front
<1>5. Len(Qt!Front(s)) = Len(s) - 1
  <2>1. PICK l : l = Len(s)
    OBVIOUS
  <2>2. Len(Qt!Front(s)) = IF 1 <= l - 1 THEN l - 1 - 1 + 1 ELSE 0
    BY <1>2, <1>4, <2>1
  <2>3. l \in Nat \ {0}
    BY <1>1, <2>1
  <2>4. Len(Qt!Front(s)) = l - 1
    BY <2>2, <2>3
  <2> QED BY <2>1, <2>4
<1>6. \A d \in 1..(Len(s) - 1) : Qt!Front(s)[d] = s[d]
  BY <1>1, <1>2, <1>3, <1>4
<1>7. Len(s) \in 1..Len(s) /\ Qt!Last(s) = s[Len(s)]
  BY <1>1 DEF Qt!Last
<1> QED BY <1>1, <1>2, <1>4, <1>5, <1>6, <1>7

\* What a frame becomes while it is the innermost one, t is then the stack.
LEMMA TopStack ==
  ASSUME NEW s \in Seq(FrameType), s # <<>>, NEW g \in FrameType,
         NEW t, t = WithTop(s, g)
  PROVE  /\ t \in Seq(FrameType) /\ Len(t) = Len(s)
         /\ t[Len(s)] = g
         /\ \A d \in 1..Len(s) : d # Len(s) => t[d] = s[d]
<1> DEFINE F == FrameType
<1>1. s \in Seq(F) /\ g \in F
  OBVIOUS
<1> HIDE DEF F
<1>2. PICK u : u = Qt!Front(s)
  OBVIOUS
<1>3. /\ Len(s) \in Nat \ {0} /\ u \in Seq(F) /\ Len(u) = Len(s) - 1
      /\ \A d \in 1..(Len(s) - 1) : u[d] = s[d]
  BY <1>1, <1>2, FrontOf
<1>4. <<g>> \in Seq(F) /\ Len(<<g>>) = 1 /\ <<g>>[1] = g
  BY <1>1
<1>5. /\ u \o <<g>> \in Seq(F) /\ Len(u \o <<g>>) = Len(u) + Len(<<g>>)
      /\ \A d \in 1..(Len(u) + Len(<<g>>)) :
           (u \o <<g>>)[d] = IF d <= Len(u) THEN u[d] ELSE <<g>>[d - Len(u)]
  BY <1>3, <1>4, ConcatProperties
<1>6. \A d \in 1..Len(s) : t[d] = IF d <= Len(s) - 1 THEN u[d] ELSE <<g>>[d - (Len(s) - 1)]
  BY <1>2, <1>3, <1>4, <1>5 DEF WithTop
<1>7. t \in Seq(F) /\ Len(t) = Len(s)
  BY <1>2, <1>3, <1>4, <1>5 DEF WithTop
<1>10. PICK e : e = <<g>>
  OBVIOUS
<1>11. \A d \in 1..Len(s) : t[d] = IF d <= Len(s) - 1 THEN u[d] ELSE e[d - (Len(s) - 1)]
  BY <1>6, <1>10
<1>12. Len(s) \in 1..Len(s) /\ ~(Len(s) <= Len(s) - 1) /\ Len(s) - (Len(s) - 1) = 1
       /\ \A d \in 1..Len(s) : d # Len(s) => d <= Len(s) - 1 /\ d \in 1..(Len(s) - 1)
  BY <1>3
<1>8. t[Len(s)] = g
  BY <1>4, <1>10, <1>11, <1>12
<1>9. \A d \in 1..Len(s) : d # Len(s) => t[d] = s[d]
  BY <1>3, <1>11, <1>12
<1> QED BY <1>7, <1>8, <1>9 DEF F

\* The innermost frame is replaced, the others stay.
LEMMA NewTop ==
  ASSUME NEW s \in Seq(FrameType), s # <<>>, NEW g \in FrameType
  PROVE  /\ WithTop(s, g) \in Seq(FrameType) /\ Len(WithTop(s, g)) = Len(s)
         /\ WithTop(s, g)[Len(s)] = g
         /\ \A d \in 1..Len(s) : d # Len(s) => WithTop(s, g)[d] = s[d]
BY TopStack

LEMMA LoopsFinite ==
  ASSUME NEW s \in Seq(FrameType), NEW n
  PROVE  IsFiniteSet(Loops(s, n)) /\ Cardinality(Loops(s, n)) \in Nat
<1>1. Len(s) \in Nat /\ Loops(s, n) \in SUBSET (1..Len(s))
  BY DEF Loops
<1>2. IsFiniteSet(1..Len(s))
  BY <1>1, FS_Interval
<1> QED BY <1>1, <1>2, FS_Subset, FS_CardinalityType

\* The frames that hold info n are counted one more, or one less, when the
\* innermost one takes it or puts it down.
LEMMA LoopsTop ==
  ASSUME NEW s \in Seq(FrameType), s # <<>>, NEW g \in FrameType,
         NEW n
  PROVE  /\ (Qt!Holds(g, n) <=> Qt!Holds(Qt!Last(s), n)) => Loops(WithTop(s, g), n) = Loops(s, n)
         /\ Qt!Holds(g, n) /\ ~Qt!Holds(Qt!Last(s), n)
              => Cardinality(Loops(WithTop(s, g), n)) = Cardinality(Loops(s, n)) + 1
         /\ ~Qt!Holds(g, n) /\ Qt!Holds(Qt!Last(s), n)
              => Cardinality(Loops(WithTop(s, g), n)) = Cardinality(Loops(s, n)) - 1
         /\ ~Qt!Holds(g, n) => Loops(WithTop(s, g), n) \subseteq Loops(s, n)
<1> DEFINE t == WithTop(s, g)
<1> DEFINE L == Len(s)
<1>1. /\ t \in Seq(FrameType) /\ Len(t) = L /\ L \in Nat \ {0} /\ L \in 1..L
      /\ t[L] = g /\ Qt!Last(s) = s[L]
      /\ \A d \in 1..L : d # L => t[d] = s[d]
  BY NewTop, FrontOf
<1>2. DOMAIN s = 1..L /\ DOMAIN t = 1..L
  BY <1>1
<1> HIDE DEF L, t
<1>3. \A d : d # L => (d \in Loops(t, n) <=> d \in Loops(s, n))
  BY <1>1, <1>2 DEF Loops
<1>4. /\ L \in Loops(t, n) <=> Qt!Holds(g, n)
      /\ L \in Loops(s, n) <=> Qt!Holds(Qt!Last(s), n)
  BY <1>1, <1>2 DEF Loops
<1>5. ASSUME Qt!Holds(g, n) <=> Qt!Holds(Qt!Last(s), n) PROVE Loops(t, n) = Loops(s, n)
  <2>1. \A d : d \in Loops(t, n) <=> d \in Loops(s, n)
    BY <1>3, <1>4, <1>5
  <2> QED BY <2>1 DEF Loops
<1>6. ASSUME Qt!Holds(g, n), ~Qt!Holds(Qt!Last(s), n)
      PROVE  Cardinality(Loops(t, n)) = Cardinality(Loops(s, n)) + 1
  <2>1. Loops(t, n) = Loops(s, n) \cup {L} /\ L \notin Loops(s, n)
    BY <1>3, <1>4, <1>6
  <2> QED BY <2>1, LoopsFinite, FS_AddElement
<1>7. ASSUME ~Qt!Holds(g, n), Qt!Holds(Qt!Last(s), n)
      PROVE  Cardinality(Loops(t, n)) = Cardinality(Loops(s, n)) - 1
  <2>1. Loops(t, n) = Loops(s, n) \ {L} /\ L \in Loops(s, n)
    BY <1>3, <1>4, <1>7
  <2> QED BY <2>1, LoopsFinite, FS_RemoveElement
<1>8. ~Qt!Holds(g, n) => Loops(t, n) \subseteq Loops(s, n)
  BY <1>3, <1>4
<1> QED BY <1>5, <1>6, <1>7, <1>8 DEF t

LEMMA PushedLoops ==
  ASSUME NEW s \in Seq(FrameType), NEW g \in FrameType, NEW n,
         ~Qt!Holds(g, n)
  PROVE  Pushed(s, g) \in Seq(FrameType) /\ Loops(Pushed(s, g), n) = Loops(s, n)
<1> DEFINE t == Pushed(s, g)
<1>1. /\ t \in Seq(FrameType) /\ Len(t) = Len(s) + 1 /\ Len(s) \in Nat
      /\ t[Len(s) + 1] = g /\ \A d \in 1..Len(s) : t[d] = s[d]
  BY DEF Pushed
<1> HIDE DEF t
<1>2. /\ DOMAIN s = 1..Len(s) /\ DOMAIN t = 1..(Len(s) + 1)
      /\ \A d \in 1..(Len(s) + 1) : d \in 1..Len(s) \/ d = Len(s) + 1
      /\ 1..Len(s) \subseteq 1..(Len(s) + 1)
  BY <1>1
<1> QED BY <1>1, <1>2 DEF Loops, t

LEMMA PoppedLoops ==
  ASSUME NEW s \in Seq(FrameType), s # <<>>, NEW n,
         ~Qt!Holds(Qt!Last(s), n)
  PROVE  Popped(s) \in Seq(FrameType) /\ Loops(Popped(s), n) = Loops(s, n)
<1> DEFINE t == Popped(s)
<1> DEFINE F == FrameType
<1>0. s \in Seq(F)
  OBVIOUS
<1> HIDE DEF F
<1>1. Len(s) \in Nat \ {0} /\ Qt!Last(s) = s[Len(s)]
  BY <1>0, FrontOf
<1>2. /\ t \in Seq(F) /\ Len(t) = Len(s) - 1
      /\ \A d \in 1..(Len(s) - 1) : t[d] = s[d]
  BY <1>0, FrontOf DEF Popped
<1> HIDE DEF t
<1>3. /\ DOMAIN s = 1..Len(s) /\ DOMAIN t = 1..(Len(s) - 1)
      /\ \A d \in 1..Len(s) : d \in 1..(Len(s) - 1) \/ d = Len(s)
      /\ 1..(Len(s) - 1) \subseteq 1..Len(s)
  BY <1>1, <1>2
<1> QED BY <1>0, <1>1, <1>2, <1>3 DEF Loops, F, t

-----------------------------------------------------------------------------
\* The count of references, and what Ref and Deref make of it.

SameItems(f, g) == /\ DOMAIN g \subseteq DOMAIN f
                   /\ \A n \in DOMAIN g : g[n].items = f[n].items

\* Ref and Deref keep the count, when the holders c become e.
LEMMA RefLemma ==
  ASSUME NEW c \in [Infos -> Nat], NEW e \in [Infos -> Nat], NEW f, RefsOk(f, c),
         NEW S \in SUBSET (DOMAIN f),
         \A n \in Infos : e[n] = IF n \in S THEN c[n] + 1 ELSE c[n]
  PROVE  RefsOk(Qt!Ref(f, S), e) /\ SameItems(f, Qt!Ref(f, S))
<1>1. PICK g : g = Qt!Ref(f, S)
  OBVIOUS
<1>2. DOMAIN g = DOMAIN f
  BY <1>1 DEF Qt!Ref
<1>3. \A n \in DOMAIN f : n \in Infos /\ f[n] \in InfoType /\ f[n].refs = c[n] /\ c[n] > 0
  BY DEF RefsOk
<1>4. DOMAIN f = {n \in Infos : e[n] > 0}
  BY <1>3 DEF RefsOk
<1>5. ASSUME NEW n \in DOMAIN f
      PROVE  g[n] \in InfoType /\ g[n].refs = e[n] /\ g[n].items = f[n].items
  <2>1. CASE n \in S
    <3>1. g[n] = [f[n] EXCEPT !.refs = @ + 1]
      BY <1>1, <2>1 DEF Qt!Ref
    <3>2. PICK r : r = f[n]
      OBVIOUS
    <3>3. r \in InfoType /\ g[n] = [r EXCEPT !.refs = r.refs + 1]
      BY <1>3, <3>1, <3>2
    <3>4. g[n] \in InfoType /\ g[n].refs = r.refs + 1 /\ g[n].items = r.items
      BY <3>3 DEF InfoType
    <3> QED BY <1>3, <2>1, <3>2, <3>4
  <2>2. CASE n \notin S
    BY <1>1, <1>3, <2>2 DEF Qt!Ref
  <2> QED BY <2>1, <2>2
<1> QED BY <1>1, <1>2, <1>4, <1>5 DEF RefsOk, SameItems

LEMMA DerefLemma ==
  ASSUME NEW c \in [Infos -> Nat], NEW e \in [Infos -> Nat], NEW f, RefsOk(f, c),
         NEW k \in DOMAIN f, e[k] = c[k] - 1,
         \A n \in Infos : n # k => e[n] = c[n]
  PROVE  RefsOk(Qt!Deref(f, k), e) /\ SameItems(f, Qt!Deref(f, k))
<1>1. PICK g : g = Qt!Deref(f, k)
  OBVIOUS
<1>3. \A n \in DOMAIN f : n \in Infos /\ f[n] \in InfoType /\ f[n].refs = c[n] /\ c[n] > 0
  BY DEF RefsOk
<1>4. CASE f[k].refs = 1
  <2>1. g = [n \in DOMAIN f \ {k} |-> f[n]]
    BY <1>1, <1>4 DEF Qt!Deref, Qt!Restrict
  <2>2. e[k] = 0
    BY <1>3, <1>4
  <2>3. DOMAIN g = {n \in Infos : e[n] > 0}
    BY <2>1, <2>2 DEF RefsOk
  <2> QED BY <1>1, <1>3, <2>1, <2>3 DEF RefsOk, SameItems
<1>5. CASE f[k].refs # 1
  <2>1. g = [f EXCEPT ![k].refs = @ - 1]
    BY <1>1, <1>5 DEF Qt!Deref
  <2>2. PICK r : r = f[k]
    OBVIOUS
  <2>3. DOMAIN g = DOMAIN f /\ g[k] = [r EXCEPT !.refs = r.refs - 1]
        /\ \A n \in DOMAIN f : n # k => g[n] = f[n]
    BY <2>1, <2>2
  <2>4. r \in InfoType /\ r.refs = c[k] /\ c[k] \in Nat /\ c[k] > 0 /\ c[k] # 1
    BY <1>3, <1>5, <2>2
  <2>5. g[k] \in InfoType /\ g[k].refs = e[k] /\ g[k].items = f[k].items
    BY <2>2, <2>3, <2>4 DEF InfoType
  <2>6. DOMAIN g = {n \in Infos : e[n] > 0}
    BY <2>3, <2>4 DEF RefsOk
  <2> QED BY <1>1, <1>3, <2>3, <2>5, <2>6 DEF RefsOk, SameItems
<1> QED BY <1>4, <1>5

LEMMA ItemsKept ==
  ASSUME NEW f, NEW g, NEW o, ItemsOk(f, o), SameItems(f, g)
  PROVE  ItemsOk(g, o)
BY DEF ItemsOk, SameItems

LEMMA SameTwice ==
  ASSUME NEW f, NEW g, NEW h, SameItems(f, g), SameItems(g, h)
  PROVE  SameItems(f, h)
BY DEF SameItems

\* There is a number for one more info.
LEMMA Bound ==
  /\ Cardinality(Qt!Items) + MaxCalls \in Nat /\ IsFiniteSet(Infos)
  /\ Cardinality(Infos) = Cardinality(Qt!Items) + MaxCalls
<1>1. IsFiniteSet(Qt!Items) /\ MaxCalls \in Nat
  BY DispatchAssumption DEF Qt!Items
<1>2. Cardinality(Qt!Items) \in Nat
  BY <1>1, FS_CardinalityType
<1>3. PICK m : m = Cardinality(Qt!Items) + MaxCalls
  OBVIOUS
<1>4. m \in Nat
  BY <1>1, <1>2, <1>3
<1>5. IsFiniteSet(1..m) /\ Cardinality(1..m) = IF 1 > m THEN 0 ELSE m - 1 + 1
  BY <1>4, FS_Interval
<1>6. Cardinality(1..m) = m
  BY <1>4, <1>5
<1> QED BY <1>3, <1>4, <1>5, <1>6 DEF Infos

\* No step but a registration needs a number.
LEMMA Fewer ==
  ASSUME NEW f, DOMAIN f \subseteq Infos, NEW g, DOMAIN g \subseteq DOMAIN f
  PROVE  /\ Cardinality(DOMAIN f) \in Nat /\ Cardinality(DOMAIN g) \in Nat
         /\ Cardinality(DOMAIN g) <= Cardinality(DOMAIN f)
<1>1. IsFiniteSet(DOMAIN f)
  BY Bound, FS_Subset
<1>2. IsFiniteSet(DOMAIN g) /\ Cardinality(DOMAIN g) <= Cardinality(DOMAIN f)
  BY <1>1, FS_Subset
<1> QED BY <1>1, <1>2, FS_CardinalityType

LEMMA FreshOne ==
  ASSUME DOMAIN info \subseteq Infos,
         Cardinality(DOMAIN info) < Cardinality(Qt!Items) + MaxCalls
  PROVE  Qt!Fresh \in Infos \ DOMAIN info
<1>1. DOMAIN info # Infos
  BY Bound, Fewer
<1>2. \E n \in Infos : n \notin DOMAIN info
  BY <1>1
<1>3. Infos = 1..(Qt!Cardinality(Qt!Items) + MaxCalls)
  BY SameCardinality DEF Infos
<1> QED BY <1>2, <1>3 DEF Qt!Fresh

LEMMA UsersFinite ==
  \A o, n : IsFiniteSet(Users(o, n)) /\ Cardinality(Users(o, n)) \in Nat
<1> SUFFICES ASSUME NEW o, NEW n
             PROVE  IsFiniteSet(Users(o, n)) /\ Cardinality(Users(o, n)) \in Nat
  OBVIOUS
<1>1. IsFiniteSet(Qt!Items) /\ Users(o, n) \in SUBSET Qt!Items
  BY DispatchAssumption DEF Qt!Items, Users
<1> QED BY <1>1, FS_Subset, FS_CardinalityType

LEMMA CountType ==
  ASSUME NEW o, NEW s \in Seq(FrameType)
  PROVE  Count(o, s) \in [Infos -> Nat]
<1>1. \A n \in Infos : Cardinality(Users(o, n)) \in Nat /\ Cardinality(Loops(s, n)) \in Nat
  BY UsersFinite, LoopsFinite
<1>2. \A n \in Infos : Cardinality(Users(o, n)) + Cardinality(Loops(s, n)) \in Nat
  BY <1>1
<1> QED BY <1>2 DEF Count

-----------------------------------------------------------------------------
\* Steps of the stack that keep an info, take some, or put one down.

LEMMA CountAt ==
  ASSUME NEW o, NEW s, NEW n \in Infos
  PROVE  Count(o, s)[n] = Cardinality(Users(o, n)) + Cardinality(Loops(s, n))
BY DEF Count

\* What an info of the model is, seen from the count of it.
\* An info lives as long as somebody has it.
LEMMA Allocated ==
  ASSUME NEW f, NEW o, NEW s, Good(f, o, s), NEW n \in Infos
  PROVE  /\ n \in DOMAIN f <=> Users(o, n) # {} \/ Loops(s, n) # {}
         /\ DOMAIN f \subseteq Infos
<1>1. s \in Seq(FrameType) /\ RefsOk(f, Count(o, s))
  BY DEF Good
<1>2. /\ IsFiniteSet(Users(o, n)) /\ Cardinality(Users(o, n)) \in Nat
      /\ IsFiniteSet(Loops(s, n)) /\ Cardinality(Loops(s, n)) \in Nat
  BY <1>1, UsersFinite, LoopsFinite
<1>3. /\ Cardinality(Users(o, n)) = 0 <=> Users(o, n) = {}
      /\ Cardinality(Loops(s, n)) = 0 <=> Loops(s, n) = {}
  BY <1>2, FS_EmptySet
<1>4. n \in DOMAIN f <=> Cardinality(Users(o, n)) + Cardinality(Loops(s, n)) > 0
  BY <1>1, CountAt DEF RefsOk
<1> QED BY <1>1, <1>2, <1>3, <1>4 DEF RefsOk

LEMMA SameLoops ==
  ASSUME NEW f, NEW o, NEW s, Good(f, o, s),
         NEW g, RefsOk(g, Count(o, s)), SameItems(f, g),
         NEW t \in Seq(FrameType), \A d \in 1..Len(t) : FrameOk(t[d]),
         \A n \in Infos : Loops(t, n) = Loops(s, n)
  PROVE  Good(g, o, t)
<1>1. Count(o, t) = Count(o, s)
  BY DEF Count
<1>2. HeldOnce(o, s) => HeldOnce(o, t)
  BY DEF HeldOnce
<1>3. ItemsOk(g, o)
  BY ItemsKept DEF Good
<1> QED BY <1>1, <1>2, <1>3 DEF Good

LEMMA NoChange ==
  ASSUME NEW f, NEW o, NEW s, Good(f, o, s)
  PROVE  RefsOk(f, Count(o, s)) /\ SameItems(f, f)
BY DEF Good, SameItems

LEMMA TopFrames ==
  ASSUME NEW s \in Seq(FrameType), \A d \in 1..Len(s) : FrameOk(s[d]), s # <<>>,
         NEW g, FrameOk(g)
  PROVE  WithTop(s, g) \in Seq(FrameType) /\ \A d \in 1..Len(WithTop(s, g)) : FrameOk(WithTop(s, g)[d])
<1>1. g \in FrameType
  BY DEF FrameOk
<1>3. /\ WithTop(s, g) \in Seq(FrameType) /\ Len(WithTop(s, g)) = Len(s) /\ WithTop(s, g)[Len(s)] = g
      /\ \A d \in 1..Len(s) : d # Len(s) => WithTop(s, g)[d] = s[d]
  BY <1>1, NewTop
<1> QED BY <1>3

\* The innermost frame r holds what it held, holds those of S too, or no
\* longer holds k.
LEMMA KeepTop ==
  ASSUME NEW f, NEW o, NEW s, Good(f, o, s), s # <<>>,
         NEW g, RefsOk(g, Count(o, s)), SameItems(f, g),
         NEW r, FrameOk(r),
         \A n \in Infos : Qt!Holds(r, n) <=> Qt!Holds(Qt!Last(s), n)
  PROVE  Good(g, o, WithTop(s, r))
<1>1. s \in Seq(FrameType) /\ \A d \in 1..Len(s) : FrameOk(s[d])
  BY DEF Good
<1>2. r \in FrameType
  BY DEF FrameOk
<1>3. WithTop(s, r) \in Seq(FrameType) /\ \A d \in 1..Len(WithTop(s, r)) : FrameOk(WithTop(s, r)[d])
  BY <1>1, TopFrames
<1>4. \A n \in Infos : Loops(WithTop(s, r), n) = Loops(s, n)
  BY <1>1, <1>2, LoopsTop
<1> QED BY <1>3, <1>4, SameLoops

LEMMA TakeTop ==
  ASSUME NEW f, NEW o, NEW s, Good(f, o, s), s # <<>>,
         NEW S \in SUBSET Infos, \A n \in S : Users(o, n) # {} /\ ~Qt!Holds(Qt!Last(s), n),
         NEW r, FrameOk(r),
         \A n \in Infos : Qt!Holds(r, n) <=> Qt!Holds(Qt!Last(s), n) \/ n \in S
  PROVE  Good(Qt!Ref(f, S), o, WithTop(s, r)) /\ SameItems(f, Qt!Ref(f, S))
<1>1. s \in Seq(FrameType) /\ \A d \in 1..Len(s) : FrameOk(s[d])
  BY DEF Good
<1>2. r \in FrameType
  BY DEF FrameOk
<1>3. WithTop(s, r) \in Seq(FrameType) /\ \A d \in 1..Len(WithTop(s, r)) : FrameOk(WithTop(s, r)[d])
  BY <1>1, TopFrames
<1>4. \A n \in Infos : n \notin S => Loops(WithTop(s, r), n) = Loops(s, n)
  BY <1>1, <1>2, LoopsTop
<1>5. \A n \in S : Cardinality(Loops(WithTop(s, r), n)) = Cardinality(Loops(s, n)) + 1
  BY <1>1, <1>2, LoopsTop
<1>6. Count(o, s) \in [Infos -> Nat] /\ Count(o, WithTop(s, r)) \in [Infos -> Nat]
  BY <1>1, <1>3, CountType
<1>7. S \in SUBSET DOMAIN f
  BY Allocated
<1>8. ASSUME NEW n \in Infos
      PROVE  Count(o, WithTop(s, r))[n] = IF n \in S THEN Count(o, s)[n] + 1 ELSE Count(o, s)[n]
  <2>1. CASE n \in S
    <3>1. Cardinality(Users(o, n)) \in Nat /\ Cardinality(Loops(s, n)) \in Nat
      BY <1>1, UsersFinite, LoopsFinite
    <3> QED BY <1>5, <2>1, <3>1, CountAt
  <2>2. CASE n \notin S
    BY <1>4, <2>2, CountAt
  <2> QED BY <2>1, <2>2
<1>9. RefsOk(f, Count(o, s))
  BY DEF Good
<1>10. RefsOk(Qt!Ref(f, S), Count(o, WithTop(s, r))) /\ SameItems(f, Qt!Ref(f, S))
  BY <1>6, <1>7, <1>8, <1>9, RefLemma
<1>11. ItemsOk(Qt!Ref(f, S), o)
  BY <1>10, ItemsKept DEF Good
<1>12. HeldOnce(o, s) => HeldOnce(o, WithTop(s, r))
  <2> SUFFICES ASSUME HeldOnce(o, s), NEW n \in Infos, Users(o, n) = {}
               PROVE  \A d, e \in Loops(WithTop(s, r), n) : d = e
    BY DEF HeldOnce
  <2>1. Loops(WithTop(s, r), n) = Loops(s, n)
    BY <1>4
  <2> QED BY <2>1 DEF HeldOnce
<1> QED BY <1>3, <1>10, <1>11, <1>12 DEF Good

LEMMA DropTop ==
  ASSUME NEW f, NEW o, NEW s, Good(f, o, s), s # <<>>,
         NEW g, RefsOk(g, Count(o, s)), SameItems(f, g),
         NEW k \in Infos, Qt!Holds(Qt!Last(s), k),
         NEW r, FrameOk(r), ~Qt!Holds(r, k),
         \A n \in Infos : n # k => (Qt!Holds(r, n) <=> Qt!Holds(Qt!Last(s), n))
  PROVE  Good(Qt!Deref(g, k), o, WithTop(s, r)) /\ SameItems(f, Qt!Deref(g, k))
<1>1. s \in Seq(FrameType) /\ \A d \in 1..Len(s) : FrameOk(s[d])
  BY DEF Good
<1>2. r \in FrameType
  BY DEF FrameOk
<1>3. WithTop(s, r) \in Seq(FrameType) /\ \A d \in 1..Len(WithTop(s, r)) : FrameOk(WithTop(s, r)[d])
  BY <1>1, TopFrames
<1>4. ASSUME NEW n \in Infos, n # k PROVE Loops(WithTop(s, r), n) = Loops(s, n)
  <2>1. Qt!Holds(r, n) <=> Qt!Holds(Qt!Last(s), n)
    BY <1>4
  <2> QED BY <1>1, <1>2, <2>1, LoopsTop
<1>5. /\ Cardinality(Loops(WithTop(s, r), k)) = Cardinality(Loops(s, k)) - 1
      /\ Loops(WithTop(s, r), k) \subseteq Loops(s, k)
  BY <1>1, <1>2, LoopsTop
<1>6. Count(o, s) \in [Infos -> Nat] /\ Count(o, WithTop(s, r)) \in [Infos -> Nat]
  BY <1>1, <1>3, CountType
<1>7. Len(s) \in Loops(s, k)
  <2>1. Len(s) \in 1..Len(s) /\ Qt!Last(s) = s[Len(s)]
    BY <1>1, FrontOf
  <2>2. DOMAIN s = 1..Len(s)
    BY <1>1
  <2> QED BY <2>1, <2>2 DEF Loops
<1>8. k \in DOMAIN g
  <2>1. Good(g, o, s)
    BY <1>1, SameLoops
  <2> QED BY <1>7, <2>1, Allocated
<1>9. /\ Count(o, WithTop(s, r))[k] = Count(o, s)[k] - 1
      /\ \A n \in Infos : n # k => Count(o, WithTop(s, r))[n] = Count(o, s)[n]
  <2>1. Cardinality(Users(o, k)) \in Nat /\ Cardinality(Loops(s, k)) \in Nat
    BY <1>1, UsersFinite, LoopsFinite
  <2>2. /\ Count(o, WithTop(s, r))[k] = Cardinality(Users(o, k)) + Cardinality(Loops(WithTop(s, r), k))
        /\ Count(o, s)[k] = Cardinality(Users(o, k)) + Cardinality(Loops(s, k))
    BY CountAt
  <2>3. \A n \in Infos : n # k => Count(o, WithTop(s, r))[n] = Count(o, s)[n]
    BY <1>4, CountAt
  <2> QED BY <1>5, <2>1, <2>2, <2>3
<1>10. RefsOk(Qt!Deref(g, k), Count(o, WithTop(s, r))) /\ SameItems(g, Qt!Deref(g, k))
  BY <1>6, <1>8, <1>9, DerefLemma
<1>11. SameItems(f, Qt!Deref(g, k))
  BY <1>10, SameTwice
<1>12. ItemsOk(Qt!Deref(g, k), o)
  BY <1>11, ItemsKept DEF Good
<1>13. HeldOnce(o, s) => HeldOnce(o, WithTop(s, r))
  <2> SUFFICES ASSUME HeldOnce(o, s), NEW n \in Infos, Users(o, n) = {}
               PROVE  \A d, e \in Loops(WithTop(s, r), n) : d = e
    BY DEF HeldOnce
  <2>1. Loops(WithTop(s, r), n) \subseteq Loops(s, n)
    BY <1>4, <1>5
  <2> QED BY <2>1 DEF HeldOnce
<1> QED BY <1>3, <1>10, <1>11, <1>12, <1>13 DEF Good

\* A frame that holds nothing comes or goes.
LEMMA PushFrame ==
  ASSUME NEW f, NEW o, NEW s, Good(f, o, s), NEW r, FrameOk(r),
         \A n \in Infos : ~Qt!Holds(r, n)
  PROVE  Good(f, o, Pushed(s, r))
<1>1. s \in Seq(FrameType) /\ \A d \in 1..Len(s) : FrameOk(s[d])
  BY DEF Good
<1>2. r \in FrameType
  BY DEF FrameOk
<1>3. Pushed(s, r) \in Seq(FrameType) /\ \A d \in 1..Len(Pushed(s, r)) : FrameOk(Pushed(s, r)[d])
  <2>1. /\ Pushed(s, r) \in Seq(FrameType) /\ Len(Pushed(s, r)) = Len(s) + 1 /\ Len(s) \in Nat
        /\ Pushed(s, r)[Len(s) + 1] = r /\ \A d \in 1..Len(s) : Pushed(s, r)[d] = s[d]
    BY <1>1, <1>2 DEF Pushed
  <2>2. \A d \in 1..Len(Pushed(s, r)) : d \in 1..Len(s) \/ d = Len(s) + 1
    BY <2>1
  <2> QED BY <1>1, <2>1, <2>2
<1>4. \A n \in Infos : Loops(Pushed(s, r), n) = Loops(s, n)
  <2> TAKE n \in Infos
  <2>1. ~Qt!Holds(r, n)
    OBVIOUS
  <2> QED BY <1>1, <1>2, <2>1, PushedLoops
<1> QED BY <1>3, <1>4, NoChange, SameLoops

LEMMA PopFrame ==
  ASSUME NEW f, NEW o, NEW s, Good(f, o, s), s # <<>>,
         \A n \in Infos : ~Qt!Holds(Qt!Last(s), n)
  PROVE  Good(f, o, Popped(s))
<1>1. s \in Seq(FrameType) /\ \A d \in 1..Len(s) : FrameOk(s[d])
  BY DEF Good
<1>3. Popped(s) \in Seq(FrameType) /\ \A d \in 1..Len(Popped(s)) : FrameOk(Popped(s)[d])
  <2> DEFINE F == FrameType
  <2>1. s \in Seq(F)
    BY <1>1
  <2> HIDE DEF F
  <2>2. /\ Len(s) \in Nat \ {0} /\ Popped(s) \in Seq(F) /\ Len(Popped(s)) = Len(s) - 1
        /\ \A d \in 1..(Len(s) - 1) : Popped(s)[d] = s[d]
    BY <2>1, FrontOf DEF Popped
  <2>3. \A d \in 1..Len(Popped(s)) : d \in 1..Len(s) /\ Popped(s)[d] = s[d]
    BY <2>2
  <2> QED BY <1>1, <2>2, <2>3 DEF F
<1>4. \A n \in Infos : Loops(Popped(s), n) = Loops(s, n)
  BY <1>1, PoppedLoops
<1> QED BY <1>3, <1>4, NoChange, SameLoops

-----------------------------------------------------------------------------
\* What becomes of a frame. Then the steps of the dispatcher.

\* A frame that is there, has this to do and this at hand.
Is(r, at, todo, cur) == r \in FrameType /\ r.at = at /\ r.todo = todo /\ r.cur = cur

LEMMA TopOk ==
  ASSUME NEW f, NEW o, NEW s, Good(f, o, s), s # <<>>
  PROVE  FrameOk(Qt!Last(s)) /\ Qt!Last(s) \in FrameType
<1>1. s \in Seq(FrameType) /\ \A d \in 1..Len(s) : FrameOk(s[d])
  BY DEF Good
<1>2. Len(s) \in 1..Len(s) /\ Qt!Last(s) = s[Len(s)]
  BY <1>1, FrontOf
<1> QED BY <1>1, <1>2 DEF FrameOk

\* The fields of a frame after the assignments that the steps make.
LEMMA Begins ==
  ASSUME NEW f \in FrameType, NEW b, b \in BOOLEAN
  PROVE  Is([[f EXCEPT !.at = "posted", !.result = b] EXCEPT !.user = FALSE],
            "posted", f.todo, f.cur)
BY DEF FrameType, Waiting, Between, Within, Is

LEMMA TakesZero ==
  ASSUME NEW f \in FrameType, NEW b, b \in BOOLEAN, NEW S \in SUBSET (Infos \cup {0})
  PROVE  Is([[f EXCEPT !.at = "zero", !.todo = S, !.wait = b] EXCEPT !.user = FALSE],
            "zero", S, f.cur)
BY DEF FrameType, Waiting, Between, Within, Is

LEMMA Stays ==
  ASSUME NEW f \in FrameType
  PROVE  Is([f EXCEPT !.user = FALSE], f.at, f.todo, f.cur)
BY DEF FrameType, Waiting, Between, Within, Is

LEMMA Goes ==
  ASSUME NEW f \in FrameType, NEW at \in Waiting \cup Between \cup Within
  PROVE  /\ Is([f EXCEPT !.at = at], at, f.todo, f.cur)
         /\ Is([f EXCEPT !.at = at, !.user = TRUE], at, f.todo, f.cur)
BY DEF FrameType, Waiting, Between, Within, Is

LEMMA Takes ==
  ASSUME NEW f \in FrameType, NEW n \in Infos
  PROVE  /\ Is([f EXCEPT !.todo = @ \ {n}], f.at, f.todo \ {n}, f.cur)
         /\ Is([f EXCEPT !.todo = @ \ {n}, !.cur = n], f.at, f.todo \ {n}, n)
         /\ Is([f EXCEPT !.cur = n, !.result = TRUE], f.at, f.todo, n)
BY DEF FrameType, Is

\* What a step of the dispatcher has to show.
LEMMA StaysInv ==
  ASSUME DispatchInv, Good(info', of, stack'), SameItems(info, info'), of' = of,
         calls' = calls, other' \in {"idle", "wake", "write"},
         "nestedKeeps" \in DispatchRules => ~stale'
  PROVE  DispatchInv'
<1>1. Good(info', of', stack')
  OBVIOUS
<1>2. RefsOk(info, Count(of, stack)) /\ DOMAIN info' \subseteq DOMAIN info
  BY DEF DispatchInv, Good, SameItems
<1>3. DOMAIN info \subseteq Infos
  BY <1>2 DEF RefsOk
<1>4. /\ Cardinality(DOMAIN info) \in Nat /\ Cardinality(DOMAIN info') \in Nat
      /\ Cardinality(DOMAIN info') <= Cardinality(DOMAIN info)
  BY <1>2, <1>3, Fewer
<1>5. Cardinality(DOMAIN info') + calls' <= Cardinality(Qt!Items) + MaxCalls
  BY <1>4, Bound DEF DispatchInv
<1> QED BY <1>1, <1>5 DEF DispatchInv

LEMMA OtherStep == ASSUME DispatchInv, Qt!OtherThread PROVE DispatchInv'
<1>1. UNCHANGED <<info, of, stack, calls, stale>> /\ other' \in {"idle", "wake", "write"}
  BY DEF Qt!OtherThread, Qt!Post, Qt!SetFlag, Qt!WriteFd, Qt!infoVars
<1>2. Good(info', of, stack') /\ SameItems(info, info')
  BY <1>1, NoChange DEF DispatchInv
<1> QED BY <1>1, <1>2, StaysInv DEF DispatchInv

LEMMA LoopStep == ASSUME DispatchInv, Qt!Loop PROVE DispatchInv'
<1>1. /\ stack = <<>> /\ stack' = <<Qt!Frame(TRUE)>>
      /\ UNCHANGED <<info, of, calls, other, stale>>
  BY DEF Qt!Loop, Qt!infoVars, Qt!otherVars
<1>2. PICK r : r = Qt!Frame(TRUE)
  OBVIOUS
<1>3. Is(r, "start", {}, 0)
  BY <1>2 DEF Qt!Frame, Qt!None, Is, FrameType, Waiting
<1>4. FrameOk(r) /\ \A n \in Infos : ~Qt!Holds(r, n)
  BY <1>3 DEF Is, FrameOk, Qt!Holds, Waiting, Within, Infos
<1>5. stack' = Pushed(stack, r)
  BY <1>1, <1>2 DEF Pushed
<1>6. Good(info, of, stack')
  BY <1>4, <1>5, PushFrame DEF DispatchInv
<1> QED BY <1>1, <1>6, StaysInv, NoChange DEF DispatchInv

\* What a step that replaces the innermost frame needs.
LEMMA AtTop ==
  ASSUME DispatchInv, stack # <<>>
  PROVE  /\ Good(info, of, stack)
         /\ Qt!Top = Qt!Last(stack) /\ Qt!Top \in FrameType /\ FrameOk(Qt!Top)
         /\ SameItems(info, info) /\ RefsOk(info, Count(of, stack))
BY TopOk, NoChange DEF DispatchInv, Qt!Top

LEMMA StartStep == ASSUME DispatchInv, Qt!Start PROVE DispatchInv'
<1>1. /\ stack # <<>> /\ Qt!Top.at = "start"
      /\ UNCHANGED <<info, of, calls, other, stale>>
  BY DEF Qt!Start, Qt!At, Qt!infoVars, Qt!otherVars
<1>2. PICK r : r = [[Qt!Top EXCEPT !.at = "posted", !.result = posted > 0] EXCEPT !.user = FALSE]
  OBVIOUS
<1>3. stack' = WithTop(stack, r)
  BY <1>2 DEF Qt!Start, Qt!Becomes, WithTop
<1>4. Is(r, "posted", Qt!Top.todo, Qt!Top.cur)
  <2>1. (posted > 0) \in BOOLEAN
    OBVIOUS
  <2> QED BY <1>1, <1>2, <2>1, AtTop, Begins
<1>5. FrameOk(r) /\ \A n \in Infos : Qt!Holds(r, n) <=> Qt!Holds(Qt!Top, n)
  BY <1>1, <1>4, AtTop DEF Is, FrameOk, Qt!Holds, Waiting, Within
<1>6. Good(info, of, stack')
  BY <1>1, <1>3, <1>5, AtTop, KeepTop
<1> QED BY <1>1, <1>6, StaysInv, NoChange DEF DispatchInv

LEMMA PostedStep == ASSUME DispatchInv, Qt!SendPosted PROVE DispatchInv'
<1>1. /\ stack # <<>> /\ Qt!Top.at = "posted"
      /\ UNCHANGED <<info, of, calls, other, stale>>
  BY DEF Qt!SendPosted, Qt!At, Qt!infoVars, Qt!otherVars
<1>2. PICK r : r = [Qt!Top EXCEPT !.at = "posted", !.user = TRUE]
  OBVIOUS
<1>3. stack' = WithTop(stack, r)
  BY <1>2 DEF Qt!SendPosted, Qt!Calls, WithTop
<1>4. Is(r, "posted", Qt!Top.todo, Qt!Top.cur)
  BY <1>1, <1>2, AtTop, Goes DEF Waiting
<1>5. FrameOk(r) /\ \A n \in Infos : Qt!Holds(r, n) <=> Qt!Holds(Qt!Top, n)
  BY <1>1, <1>4, AtTop DEF Is, FrameOk, Qt!Holds, Waiting, Within
<1>6. Good(info, of, stack')
  BY <1>1, <1>3, <1>5, AtTop, KeepTop
<1> QED BY <1>1, <1>6, StaysInv, NoChange DEF DispatchInv

\* What is registered is allocated.
LEMMA Registrations ==
  ASSUME DispatchInv, NEW I \in SUBSET Qt!Items, NEW S, S = {of[i] : i \in I} \ {0}
  PROVE  S \in SUBSET Infos /\ \A n \in S : Users(of, n) # {}
BY DEF DispatchInv, Users

LEMMA ZeroTimersStep == ASSUME DispatchInv, Qt!TakeZeroTimers PROVE DispatchInv'
<1>1. /\ stack # <<>> /\ Qt!Top.at = "posted"
      /\ UNCHANGED <<of, calls, other, stale>>
  BY DEF Qt!TakeZeroTimers, Qt!At, Qt!otherVars
<1>2. Qt!Top.todo = {} /\ Qt!Top.cur = 0
  BY <1>1, AtTop DEF FrameOk, Waiting, Within
<1>3. \A n \in Infos : ~Qt!Holds(Qt!Top, n)
  BY <1>2 DEF Qt!Holds, Infos
<1>4. CASE interrupt
  <2>1. stack' = Popped(stack) /\ info' = info
    BY <1>4 DEF Qt!TakeZeroTimers, Qt!Leave, Popped
  <2>2. Good(info, of, stack')
    BY <1>1, <1>3, <2>1, AtTop, PopFrame
  <2> QED BY <1>1, <2>1, <2>2, StaysInv, NoChange DEF DispatchInv
<1>5. CASE ~interrupt
  <2>1. PICK S : S = {of[i] : i \in ZeroTimers} \ {0}
    OBVIOUS
  <2>2. S \in SUBSET Infos /\ \A n \in S : Users(of, n) # {}
    BY <2>1, Registrations DEF Qt!Items
  <2>3. PICK r : r = [[Qt!Top EXCEPT !.at = "zero", !.todo = S,
                                     !.wait = Qt!Top.more /\ ~Qt!Top.result]
                       EXCEPT !.user = FALSE]
    OBVIOUS
  <2>4. stack' = WithTop(stack, r) /\ info' = Qt!Ref(info, S)
    BY <1>5, <2>1, <2>3 DEF Qt!TakeZeroTimers, Qt!Becomes, WithTop, Qt!None
  <2>5. Is(r, "zero", S, 0)
    <3>1. (Qt!Top.more /\ ~Qt!Top.result) \in BOOLEAN
      OBVIOUS
    <3> QED BY <1>1, <1>2, <2>2, <2>3, <3>1, AtTop, TakesZero
  <2>6. FrameOk(r) /\ \A n \in Infos : Qt!Holds(r, n) <=> n \in S
    BY <1>1, <2>2, <2>5 DEF Is, FrameOk, Qt!Holds, Waiting, Within, Infos
  <2>7. Good(info', of, stack') /\ SameItems(info, info')
    BY <1>1, <1>3, <2>2, <2>4, <2>6, AtTop, TakeTop
  <2> QED BY <1>1, <2>7, StaysInv DEF DispatchInv
<1> QED BY <1>4, <1>5

\* Whether an info is active or armed is not counted.
LEMMA Marked ==
  ASSUME NEW f, NEW c, RefsOk(f, c), NEW n \in DOMAIN f, NEW b \in BOOLEAN
  PROVE  /\ RefsOk([f EXCEPT ![n].active = b], c) /\ SameItems(f, [f EXCEPT ![n].active = b])
         /\ RefsOk([f EXCEPT ![n].armed = b], c) /\ SameItems(f, [f EXCEPT ![n].armed = b])
<1>1. \A m \in DOMAIN f : f[m] \in InfoType /\ f[m].refs = c[m]
  BY DEF RefsOk
<1>2. PICK r : r = f[n]
  OBVIOUS
<1>3. r \in InfoType /\ r.refs = c[n]
  BY <1>1, <1>2
<1>4. ASSUME NEW x, x \in {[r EXCEPT !.active = b], [r EXCEPT !.armed = b]},
             NEW g, g = [f EXCEPT ![n] = x]
      PROVE  RefsOk(g, c) /\ SameItems(f, g)
  <2>1. x \in InfoType /\ x.refs = c[n] /\ x.items = r.items
    BY <1>3, <1>4 DEF InfoType
  <2>2. DOMAIN g = DOMAIN f /\ g[n] = x /\ \A m \in DOMAIN f : m # n => g[m] = f[m]
    BY <1>4
  <2>3. \A m \in DOMAIN g : g[m] \in InfoType /\ g[m].refs = c[m] /\ g[m].items = f[m].items
    BY <1>1, <1>2, <2>1, <2>2
  <2> QED BY <2>2, <2>3 DEF RefsOk, SameItems
<1>5. /\ [f EXCEPT ![n].active = b] = [f EXCEPT ![n] = [r EXCEPT !.active = b]]
      /\ [f EXCEPT ![n].armed = b] = [f EXCEPT ![n] = [r EXCEPT !.armed = b]]
  BY <1>2
<1> QED BY <1>4, <1>5

\* What a frame holds is allocated.
LEMMA HeldThere ==
  ASSUME NEW f, NEW o, NEW s, Good(f, o, s), s # <<>>,
         NEW n \in Infos, Qt!Holds(Qt!Last(s), n)
  PROVE  n \in DOMAIN f /\ Loops(s, n) # {}
<1>1. s \in Seq(FrameType)
  BY DEF Good
<1>2. Len(s) \in 1..Len(s) /\ Qt!Last(s) = s[Len(s)]
  BY <1>1, FrontOf
<1>3. DOMAIN s = 1..Len(s)
  BY <1>1
<1>4. Len(s) \in Loops(s, n)
  BY <1>2, <1>3 DEF Loops
<1> QED BY <1>4, Allocated

\* An info with more than one reference is registered: were it not,
\* another frame would hold it, an outer one, and it would have been
\* unregistered in a nested loop.
LEMMA Alive ==
  ASSUME NEW f, NEW o, NEW s, Good(f, o, s), "nestedKeeps" \in DispatchRules,
         NEW n \in Infos, n \in DOMAIN f, Loops(s, n) # {}, f[n].refs > 1
  PROVE  \A i \in f[n].items : o[i] = n
<1>1. /\ s \in Seq(FrameType) /\ RefsOk(f, Count(o, s)) /\ ItemsOk(f, o)
      /\ HeldOnce(o, s)
  BY DEF Good
<1>2. f[n].refs = Cardinality(Users(o, n)) + Cardinality(Loops(s, n))
  BY <1>1, CountAt DEF RefsOk
<1>3. Users(o, n) # {}
  <2> SUFFICES ASSUME Users(o, n) = {} PROVE FALSE
    OBVIOUS
  <2>1. PICK d : d \in Loops(s, n)
    OBVIOUS
  <2>2. Loops(s, n) = {d}
    BY <1>1, <2>1 DEF HeldOnce
  <2>3. Cardinality(Loops(s, n)) = 1 /\ Cardinality(Users(o, n)) = 0
    BY <2>2, FS_Singleton, FS_EmptySet
  <2> QED BY <1>2, <2>3
<1>4. f[n].items = Users(o, n)
  BY <1>1, <1>3 DEF ItemsOk
<1> QED BY <1>4 DEF Users

LEMMA ZeroTimerStep == ASSUME DispatchInv, Qt!ZeroTimer PROVE DispatchInv'
<1>1. /\ stack # <<>> /\ Qt!Top.at = "zero"
      /\ UNCHANGED <<of, calls, other>>
  BY DEF Qt!ZeroTimer, Qt!At, Qt!otherVars
<1>2. PICK n \in Qt!Top.todo :
        LET f == [Qt!Top EXCEPT !.todo = @ \ {n}]
        IN  IF Qt!canProcess(n) /\ info[n].active
            THEN /\ info' = [info EXCEPT ![n].active = FALSE]
                 /\ stale' = (stale \/ \E i \in info[n].items : of[i] # n)
                 /\ Qt!Calls([f EXCEPT !.cur = n, !.result = TRUE], "zeroDone")
            ELSE /\ info' = Qt!Deref(info, n)
                 /\ Qt!Becomes(f)
                 /\ UNCHANGED stale
  BY DEF Qt!ZeroTimer
<1>3. /\ n \in Infos /\ Qt!Holds(Qt!Top, n) /\ Qt!Top.cur = 0 /\ 0 \notin Qt!Top.todo
      /\ Good(info, of, stack) /\ Qt!Top = Qt!Last(stack) /\ Qt!Top \in FrameType
  BY <1>1, AtTop DEF FrameOk, FrameType, Qt!Holds, Within
<1>4. n \in DOMAIN info /\ Loops(stack, n) # {}
  BY <1>1, <1>3, HeldThere
<1>5. PICK f : f = [Qt!Top EXCEPT !.todo = @ \ {n}]
  OBVIOUS
<1>6. Is(f, "zero", Qt!Top.todo \ {n}, 0)
  BY <1>1, <1>3, <1>5, Takes
<1>7. CASE Qt!canProcess(n) /\ info[n].active
  <2>1. PICK g : g = [f EXCEPT !.cur = n, !.result = TRUE]
    OBVIOUS
  <2>2. PICK r : r = [g EXCEPT !.at = "zeroDone", !.user = TRUE]
    OBVIOUS
  <2>3. stack' = WithTop(stack, r) /\ info' = [info EXCEPT ![n].active = FALSE]
    BY <1>2, <1>5, <1>7, <2>1, <2>2 DEF Qt!Calls, WithTop
  <2>4. Is(g, "zero", Qt!Top.todo \ {n}, n)
    BY <1>3, <1>6, <2>1, Takes DEF Is
  <2>5. Is(r, "zeroDone", Qt!Top.todo \ {n}, n)
    BY <2>2, <2>4, Goes DEF Is, Within
  <2>6. FrameOk(r) /\ \A m \in Infos : Qt!Holds(r, m) <=> Qt!Holds(Qt!Top, m)
    BY <1>3, <2>5 DEF Is, FrameOk, Qt!Holds, Waiting, Within, Infos
  <2>7. RefsOk(info', Count(of, stack)) /\ SameItems(info, info')
    BY <1>1, <1>4, <2>3, AtTop, Marked
  <2>8. Good(info', of, stack')
    BY <1>1, <1>3, <2>3, <2>6, <2>7, KeepTop
  <2>9. "nestedKeeps" \in DispatchRules => ~stale'
    <3>1. stale' = (stale \/ \E i \in info[n].items : of[i] # n)
      BY <1>2, <1>7
    <3>2. info[n].refs > 1
      BY <1>7 DEF Qt!canProcess
    <3>3. ASSUME "nestedKeeps" \in DispatchRules PROVE \A i \in info[n].items : of[i] = n
      BY <1>3, <1>4, <3>2, <3>3, Alive
    <3> QED BY <3>1, <3>3 DEF DispatchInv
  <2> QED BY <1>1, <2>7, <2>8, <2>9, StaysInv DEF DispatchInv
<1>8. CASE ~(Qt!canProcess(n) /\ info[n].active)
  <2>1. PICK r : r = [f EXCEPT !.user = FALSE]
    OBVIOUS
  <2>2. stack' = WithTop(stack, r) /\ info' = Qt!Deref(info, n) /\ stale' = stale
    BY <1>2, <1>5, <1>8, <2>1 DEF Qt!Becomes, WithTop
  <2>3. Is(r, "zero", Qt!Top.todo \ {n}, 0)
    BY <1>6, <2>1, Stays DEF Is
  <2>4. /\ FrameOk(r) /\ ~Qt!Holds(r, n)
        /\ \A m \in Infos : m # n => (Qt!Holds(r, m) <=> Qt!Holds(Qt!Top, m))
    BY <1>3, <2>3 DEF Is, FrameOk, Qt!Holds, Waiting, Within, Infos
  <2>5. Good(info', of, stack') /\ SameItems(info, info')
    BY <1>1, <1>3, <2>2, <2>4, AtTop, DropTop
  <2> QED BY <1>1, <2>2, <2>5, StaysInv DEF DispatchInv
<1> QED BY <1>7, <1>8

LEMMA Puts ==
  ASSUME NEW f \in FrameType, NEW at \in Waiting \cup Between \cup Within
  PROVE  /\ Is([f EXCEPT !.at = at, !.cur = 0], at, f.todo, 0)
         /\ Is([f EXCEPT !.at = at, !.cur = 0, !.left = {}], at, f.todo, 0)
         /\ \A T \in SUBSET (Infos \cup {0}) : Is([f EXCEPT !.at = at, !.todo = T], at, T, f.cur)
         /\ \A I \in SUBSET Notifiers : Is([f EXCEPT !.at = at, !.left = I], at, f.todo, f.cur)
         /\ \A I \in SUBSET Notifiers : Is([f EXCEPT !.left = I], f.at, f.todo, f.cur)
BY DEF FrameType, Waiting, Between, Within, Is

\* A frame within an event puts its info down, and goes on.
LEMMA PutDown ==
  ASSUME DispatchInv, stack # <<>>, Qt!Top.at \in Within,
         NEW at \in {"zero", "run"}, at = "zero" => Qt!Top.at = "zeroDone",
         NEW f, Is(f, at, Qt!Top.todo, 0),
         stack' = WithTop(stack, [f EXCEPT !.user = FALSE]),
         NEW g, RefsOk(g, Count(of, stack)), SameItems(info, g),
         info' = Qt!Deref(g, Qt!Top.cur),
         of' = of, calls' = calls, other' = other, stale' = stale
  PROVE  DispatchInv'
<1>1. PICK k : k = Qt!Top.cur
  OBVIOUS
<1>2. /\ Good(info, of, stack) /\ Qt!Top = Qt!Last(stack) /\ Qt!Top \in FrameType
      /\ k \in Infos /\ k \notin Qt!Top.todo /\ Qt!Holds(Qt!Top, k)
      /\ Qt!Top.at = "zeroDone" => 0 \notin Qt!Top.todo
  BY <1>1, AtTop DEF FrameOk, FrameType, Qt!Holds
<1>3. PICK r : r = [f EXCEPT !.user = FALSE]
  OBVIOUS
<1>4. Is(r, at, Qt!Top.todo, 0)
  BY <1>3, Stays DEF Is
<1>5. /\ FrameOk(r) /\ ~Qt!Holds(r, k)
      /\ \A m \in Infos : m # k => (Qt!Holds(r, m) <=> Qt!Holds(Qt!Top, m))
  BY <1>1, <1>2, <1>4 DEF Is, FrameOk, Qt!Holds, Waiting, Within, Infos
<1>6. Good(info', of, stack') /\ SameItems(info, info')
  BY <1>1, <1>2, <1>3, <1>5, DropTop
<1> QED BY <1>6, StaysInv DEF DispatchInv

LEMMA ZeroTimerDoneStep == ASSUME DispatchInv, Qt!ZeroTimerDone PROVE DispatchInv'
<1>1. /\ stack # <<>> /\ Qt!Top.at = "zeroDone"
      /\ of' = of /\ calls' = calls /\ other' = other /\ stale' = stale
  BY DEF Qt!ZeroTimerDone, Qt!At, Qt!otherVars
<1>2. PICK f : f = [Qt!Top EXCEPT !.at = "zero", !.cur = 0]
  OBVIOUS
<1>3. PICK g : g = [info EXCEPT ![Qt!Top.cur].active = TRUE]
  OBVIOUS
<1>4. stack' = WithTop(stack, [f EXCEPT !.user = FALSE]) /\ info' = Qt!Deref(g, Qt!Top.cur)
  BY <1>2, <1>3 DEF Qt!ZeroTimerDone, Qt!Becomes, WithTop, Qt!None
<1>5. Is(f, "zero", Qt!Top.todo, 0)
  BY <1>1, <1>2, AtTop, Puts DEF Between
<1>6. Qt!Top.cur \in Infos /\ Qt!Holds(Qt!Top, Qt!Top.cur)
  BY <1>1, AtTop DEF FrameOk, FrameType, Within, Qt!Holds
<1>7. Qt!Top.cur \in DOMAIN info
  BY <1>1, <1>6, AtTop, HeldThere
<1>8. RefsOk(g, Count(of, stack)) /\ SameItems(info, g)
  BY <1>1, <1>3, <1>7, AtTop, Marked
<1> QED BY <1>1, <1>4, <1>5, <1>8, PutDown DEF Within

LEMMA TimerDoneStep == ASSUME DispatchInv, Qt!TimerDone PROVE DispatchInv'
<1>1. /\ stack # <<>> /\ Qt!Top.at = "timerDone"
      /\ of' = of /\ calls' = calls /\ other' = other /\ stale' = stale
  BY DEF Qt!TimerDone, Qt!At, Qt!otherVars
<1>2. PICK f : f = [Qt!Top EXCEPT !.at = "run", !.cur = 0]
  OBVIOUS
<1>3. PICK g : g = IF Qt!canProcess(Qt!Top.cur)
                   THEN [info EXCEPT ![Qt!Top.cur].armed = TRUE] ELSE info
  OBVIOUS
<1>4. stack' = WithTop(stack, [f EXCEPT !.user = FALSE]) /\ info' = Qt!Deref(g, Qt!Top.cur)
  BY <1>2, <1>3 DEF Qt!TimerDone, Qt!Becomes, WithTop, Qt!None
<1>5. Is(f, "run", Qt!Top.todo, 0)
  BY <1>1, <1>2, AtTop, Puts DEF Between
<1>6. Qt!Top.cur \in Infos /\ Qt!Holds(Qt!Top, Qt!Top.cur)
  BY <1>1, AtTop DEF FrameOk, FrameType, Within, Qt!Holds
<1>7. Qt!Top.cur \in DOMAIN info
  BY <1>1, <1>6, AtTop, HeldThere
<1>8. RefsOk(g, Count(of, stack)) /\ SameItems(info, g)
  BY <1>1, <1>3, <1>7, AtTop, Marked
<1> QED BY <1>1, <1>4, <1>5, <1>8, PutDown DEF Within

LEMMA TellStep == ASSUME DispatchInv, Qt!Tell PROVE DispatchInv'
<1>1. /\ stack # <<>> /\ Qt!Top.at = "tell"
      /\ of' = of /\ calls' = calls /\ other' = other
  BY DEF Qt!Tell, Qt!At, Qt!otherVars
<1>2. PICK there : there = Qt!Top.left \cap info[Qt!Top.cur].items
  OBVIOUS
<1>3. /\ Good(info, of, stack) /\ Qt!Top = Qt!Last(stack) /\ Qt!Top \in FrameType
      /\ Qt!Top.cur \in Infos /\ Qt!Holds(Qt!Top, Qt!Top.cur) /\ FrameOk(Qt!Top)
  BY <1>1, AtTop DEF FrameOk, FrameType, Within, Qt!Holds
<1>4. CASE there = {}
  <2>1. PICK f : f = [Qt!Top EXCEPT !.at = "run", !.cur = 0, !.left = {}]
    OBVIOUS
  <2>2. /\ stack' = WithTop(stack, [f EXCEPT !.user = FALSE])
        /\ info' = Qt!Deref(info, Qt!Top.cur) /\ stale' = stale
    BY <1>2, <1>4, <2>1 DEF Qt!Tell, Qt!Becomes, WithTop, Qt!None
  <2>3. Is(f, "run", Qt!Top.todo, 0)
    BY <1>1, <1>3, <2>1, Puts DEF Between
  <2> QED BY <1>1, <2>2, <2>3, AtTop, PutDown DEF Within
<1>5. CASE there # {}
  <2>1. PICK i \in there :
          /\ stale' = (stale \/ of[i] # Qt!Top.cur)
          /\ Qt!Calls([Qt!Top EXCEPT !.left = @ \ {i}], "tell")
          /\ UNCHANGED info
    BY <1>2, <1>5 DEF Qt!Tell
  <2>2. PICK f : f = [Qt!Top EXCEPT !.left = @ \ {i}]
    OBVIOUS
  <2>3. PICK r : r = [f EXCEPT !.at = "tell", !.user = TRUE]
    OBVIOUS
  <2>4. stack' = WithTop(stack, r) /\ info' = info
    BY <2>1, <2>2, <2>3 DEF Qt!Calls, WithTop
  <2>5. Is(f, "tell", Qt!Top.todo, Qt!Top.cur)
    <3>1. Qt!Top.left \ {i} \in SUBSET Notifiers /\ f = [Qt!Top EXCEPT !.left = Qt!Top.left \ {i}]
      BY <1>3, <2>2 DEF FrameType
    <3> QED BY <1>1, <1>3, <3>1, Puts DEF Between, Within, Waiting
  <2>6. Is(r, "tell", Qt!Top.todo, Qt!Top.cur)
    BY <2>3, <2>5, Goes DEF Is, Within
  <2>7. FrameOk(r) /\ \A m \in Infos : Qt!Holds(r, m) <=> Qt!Holds(Qt!Top, m)
    BY <1>1, <1>3, <2>6 DEF Is, FrameOk, Qt!Holds, Waiting, Within
  <2>8. Good(info', of, stack') /\ SameItems(info, info')
    BY <1>1, <1>3, <2>4, <2>7, AtTop, KeepTop
  <2>9. of[i] = Qt!Top.cur
    <3>1. Qt!Top.cur \in DOMAIN info
      BY <1>1, <1>3, HeldThere
    <3>2. i \in info[Qt!Top.cur].items \cap Notifiers
      BY <1>2, <1>3, <2>1 DEF FrameType
    <3> QED BY <1>3, <3>1, <3>2 DEF Good, ItemsOk, Users
  <2> QED BY <1>1, <2>1, <2>8, <2>9, StaysInv DEF DispatchInv
<1> QED BY <1>4, <1>5

LEMMA WaitStep == ASSUME DispatchInv, Qt!EpollWait PROVE DispatchInv'
<1>1. /\ stack # <<>> /\ Qt!Top.at = "zero" /\ Qt!Top.todo = {}
      /\ UNCHANGED <<of, calls, other, stale>>
  BY DEF Qt!EpollWait, Qt!At, Qt!otherVars
<1>2. PICK S \in Qt!Reports :
        /\ info' = Qt!Ref(info, S)
        /\ Qt!Becomes([Qt!Top EXCEPT !.at = "run",
                       !.todo = S \cup (IF eventfd THEN {Qt!WakeFd} ELSE {})])
  BY DEF Qt!EpollWait
<1>3. S \in SUBSET Infos /\ \A n \in S : Users(of, n) # {}
  <2>1. PICK T : T = {of[i] : i \in QtTimers \cup Notifiers} \ {0}
    OBVIOUS
  <2>2. T \in SUBSET Infos /\ \A n \in T : Users(of, n) # {}
    BY <2>1, Registrations DEF Qt!Items
  <2>3. S \in SUBSET T
    BY <2>1 DEF Qt!Reports, Qt!None
  <2> QED BY <2>2, <2>3
<1>4. PICK T : T = S \cup (IF eventfd THEN {0} ELSE {})
  OBVIOUS
<1>5. PICK f : f = [Qt!Top EXCEPT !.at = "run", !.todo = T]
  OBVIOUS
<1>6. PICK r : r = [f EXCEPT !.user = FALSE]
  OBVIOUS
<1>7. stack' = WithTop(stack, r)
  BY <1>2, <1>4, <1>5, <1>6 DEF Qt!Becomes, WithTop, Qt!WakeFd
<1>8. Qt!Top.cur = 0 /\ \A n \in Infos : ~Qt!Holds(Qt!Top, n)
  BY <1>1, AtTop DEF FrameOk, Within, Qt!Holds, Infos
<1>9. T \in SUBSET (Infos \cup {0}) /\ \A n \in Infos : n \in T <=> n \in S
  BY <1>3, <1>4 DEF Infos
<1>10. Is(r, "run", T, 0)
  <2>1. Is(f, "run", T, 0)
    BY <1>1, <1>5, <1>8, <1>9, AtTop, Puts DEF Between
  <2> QED BY <1>6, <2>1, Stays DEF Is
<1>11. FrameOk(r) /\ \A n \in Infos : Qt!Holds(r, n) <=> n \in S
  BY <1>9, <1>10 DEF Is, FrameOk, Qt!Holds, Waiting, Within, Infos
<1>12. Good(info', of, stack') /\ SameItems(info, info')
  BY <1>1, <1>2, <1>3, <1>7, <1>8, <1>11, AtTop, TakeTop
<1> QED BY <1>1, <1>12, StaysInv DEF DispatchInv

LEMMA RunStep == ASSUME DispatchInv, Qt!Run PROVE DispatchInv'
<1>1. /\ stack # <<>> /\ Qt!Top.at = "run"
      /\ UNCHANGED <<of, calls, other>>
  BY DEF Qt!Run, Qt!At, Qt!otherVars
<1>2. PICK n \in Qt!Top.todo \ {0} :
        LET f == [Qt!Top EXCEPT !.todo = @ \ {n}, !.cur = n]
        IN  IF ~Qt!canProcess(n)
            THEN info' = Qt!Deref(info, n) /\ Qt!Becomes([f EXCEPT !.cur = 0]) /\ UNCHANGED stale
            ELSE IF info[n].items \subseteq Notifiers
            THEN /\ Qt!Becomes([f EXCEPT !.at = "tell", !.left = info[n].items])
                 /\ UNCHANGED <<info, stale>>
            ELSE /\ info' = [info EXCEPT ![n].armed = FALSE]
                 /\ stale' = (stale \/ \E i \in info[n].items : of[i] # n)
                 /\ Qt!Calls(f, "timerDone")
  BY DEF Qt!Run, Qt!WakeFd, Qt!None
<1>3. /\ n \in Infos /\ Qt!Holds(Qt!Top, n) /\ Qt!Top.cur = 0
      /\ Good(info, of, stack) /\ Qt!Top = Qt!Last(stack) /\ Qt!Top \in FrameType
  BY <1>1, AtTop DEF FrameOk, FrameType, Qt!Holds, Within
<1>4. n \in DOMAIN info /\ Loops(stack, n) # {}
  BY <1>1, <1>3, HeldThere
<1>5. PICK f : f = [Qt!Top EXCEPT !.todo = @ \ {n}, !.cur = n]
  OBVIOUS
<1>6. Is(f, "run", Qt!Top.todo \ {n}, n)
  BY <1>1, <1>3, <1>5, Takes
<1>7. CASE ~Qt!canProcess(n)
  <2>1. PICK g : g = [f EXCEPT !.cur = 0]
    OBVIOUS
  <2>2. PICK r : r = [g EXCEPT !.user = FALSE]
    OBVIOUS
  <2>3. stack' = WithTop(stack, r) /\ info' = Qt!Deref(info, n) /\ stale' = stale
    BY <1>2, <1>5, <1>7, <2>1, <2>2 DEF Qt!Becomes, WithTop
  <2>4. Is(g, "run", Qt!Top.todo \ {n}, 0)
    BY <1>6, <2>1 DEF Is, FrameType
  <2>5. Is(r, "run", Qt!Top.todo \ {n}, 0)
    BY <2>2, <2>4, Stays DEF Is
  <2>6. /\ FrameOk(r) /\ ~Qt!Holds(r, n)
        /\ \A m \in Infos : m # n => (Qt!Holds(r, m) <=> Qt!Holds(Qt!Top, m))
    BY <1>3, <2>5 DEF Is, FrameOk, Qt!Holds, Waiting, Within, Infos
  <2>7. Good(info', of, stack') /\ SameItems(info, info')
    BY <1>1, <1>3, <2>3, <2>6, AtTop, DropTop
  <2> QED BY <1>1, <2>3, <2>7, StaysInv DEF DispatchInv
<1>8. CASE Qt!canProcess(n) /\ info[n].items \subseteq Notifiers
  <2>1. PICK g : g = [f EXCEPT !.at = "tell", !.left = info[n].items]
    OBVIOUS
  <2>2. PICK r : r = [g EXCEPT !.user = FALSE]
    OBVIOUS
  <2>3. stack' = WithTop(stack, r) /\ info' = info /\ stale' = stale
    BY <1>2, <1>5, <1>8, <2>1, <2>2 DEF Qt!Becomes, WithTop
  <2>4. Is(g, "tell", Qt!Top.todo \ {n}, n)
    <3>1. f \in FrameType /\ f.at = "run" /\ f.todo = Qt!Top.todo \ {n} /\ f.cur = n
      BY <1>6 DEF Is
    <3>2. PICK I \in SUBSET Notifiers : I = info[n].items
      BY <1>8
    <3>3. Is([f EXCEPT !.at = "tell", !.left = I], "tell", f.todo, f.cur)
      BY <3>1, Puts DEF Within
    <3> QED BY <2>1, <3>1, <3>2, <3>3
  <2>5. Is(r, "tell", Qt!Top.todo \ {n}, n)
    BY <2>2, <2>4, Stays DEF Is
  <2>6. FrameOk(r) /\ \A m \in Infos : Qt!Holds(r, m) <=> Qt!Holds(Qt!Top, m)
    BY <1>3, <2>5 DEF Is, FrameOk, Qt!Holds, Waiting, Within, Infos
  <2>7. Good(info', of, stack') /\ SameItems(info, info')
    BY <1>1, <1>3, <2>3, <2>6, AtTop, KeepTop
  <2> QED BY <1>1, <2>3, <2>7, StaysInv DEF DispatchInv
<1>9. CASE Qt!canProcess(n) /\ ~(info[n].items \subseteq Notifiers)
  <2>1. PICK r : r = [f EXCEPT !.at = "timerDone", !.user = TRUE]
    OBVIOUS
  <2>2. stack' = WithTop(stack, r) /\ info' = [info EXCEPT ![n].armed = FALSE]
    BY <1>2, <1>5, <1>9, <2>1 DEF Qt!Calls, WithTop
  <2>3. Is(r, "timerDone", Qt!Top.todo \ {n}, n)
    BY <1>6, <2>1, Goes DEF Is, Within
  <2>4. FrameOk(r) /\ \A m \in Infos : Qt!Holds(r, m) <=> Qt!Holds(Qt!Top, m)
    BY <1>3, <2>3 DEF Is, FrameOk, Qt!Holds, Waiting, Within, Infos
  <2>5. RefsOk(info', Count(of, stack)) /\ SameItems(info, info')
    BY <1>1, <1>4, <2>2, AtTop, Marked
  <2>6. Good(info', of, stack')
    BY <1>1, <1>3, <2>2, <2>4, <2>5, KeepTop
  <2>7. "nestedKeeps" \in DispatchRules => ~stale'
    <3>1. stale' = (stale \/ \E i \in info[n].items : of[i] # n)
      BY <1>2, <1>9
    <3>2. info[n].refs > 1
      BY <1>9 DEF Qt!canProcess
    <3>3. ASSUME "nestedKeeps" \in DispatchRules PROVE \A i \in info[n].items : of[i] = n
      BY <1>3, <1>4, <3>2, <3>3, Alive
    <3> QED BY <3>1, <3>3 DEF DispatchInv
  <2> QED BY <1>1, <2>5, <2>6, <2>7, StaysInv DEF DispatchInv
<1> QED BY <1>7, <1>8, <1>9

LEMMA ReadWakeFdStep == ASSUME DispatchInv, Qt!ReadWakeFd PROVE DispatchInv'
<1>1. /\ stack # <<>> /\ Qt!Top.at = "run"
      /\ UNCHANGED <<info, of, calls, other, stale>>
  BY DEF Qt!ReadWakeFd, Qt!At, Qt!infoVars, Qt!otherVars
<1>2. PICK f : f = [Qt!Top EXCEPT !.at = "reset", !.todo = Qt!Top.todo \ {0}]
  OBVIOUS
<1>3. PICK r : r = [f EXCEPT !.user = FALSE]
  OBVIOUS
<1>4. stack' = WithTop(stack, r)
  BY <1>2, <1>3 DEF Qt!ReadWakeFd, Qt!Becomes, WithTop, Qt!WakeFd
<1>5. Qt!Top \in FrameType /\ Qt!Top.todo \ {0} \in SUBSET (Infos \cup {0}) /\ Qt!Top.cur = 0
  BY <1>1, AtTop DEF FrameType, FrameOk, Within
<1>6. Is(f, "reset", Qt!Top.todo \ {0}, 0)
  BY <1>2, <1>5, Puts DEF Between
<1>7. Is(r, "reset", Qt!Top.todo \ {0}, 0)
  BY <1>3, <1>6, Stays DEF Is
<1>8. FrameOk(r) /\ \A n \in Infos : Qt!Holds(r, n) <=> Qt!Holds(Qt!Top, n)
  BY <1>5, <1>7 DEF Is, FrameOk, Qt!Holds, Waiting, Within, Infos
<1>9. Good(info, of, stack')
  BY <1>1, <1>4, <1>8, AtTop, KeepTop
<1> QED BY <1>1, <1>9, StaysInv, NoChange DEF DispatchInv

LEMMA ResetFlagStep == ASSUME DispatchInv, Qt!ResetFlag PROVE DispatchInv'
<1>1. /\ stack # <<>> /\ Qt!Top.at = "reset"
      /\ UNCHANGED <<info, of, calls, other, stale>>
  BY DEF Qt!ResetFlag, Qt!At, Qt!infoVars, Qt!otherVars
<1>2. PICK f : f = [Qt!Top EXCEPT !.at = "run"]
  OBVIOUS
<1>3. PICK r : r = [f EXCEPT !.user = FALSE]
  OBVIOUS
<1>4. stack' = WithTop(stack, r)
  BY <1>2, <1>3 DEF Qt!ResetFlag, Qt!Becomes, WithTop
<1>5. Qt!Top \in FrameType /\ Qt!Top.cur = 0
  BY <1>1, AtTop DEF FrameOk, Within
<1>6. Is(f, "run", Qt!Top.todo, 0)
  BY <1>2, <1>5, Goes DEF Between
<1>7. Is(r, "run", Qt!Top.todo, 0)
  BY <1>3, <1>6, Stays DEF Is
<1>8. FrameOk(r) /\ \A n \in Infos : Qt!Holds(r, n) <=> Qt!Holds(Qt!Top, n)
  BY <1>5, <1>7 DEF Is, FrameOk, Qt!Holds, Waiting, Within, Infos
<1>9. Good(info, of, stack')
  BY <1>1, <1>4, <1>8, AtTop, KeepTop
<1> QED BY <1>1, <1>9, StaysInv, NoChange DEF DispatchInv

LEMMA FinishStep == ASSUME DispatchInv, Qt!Finish PROVE DispatchInv'
<1>1. /\ stack # <<>> /\ Qt!Top.at = "run" /\ Qt!Top.todo = {} /\ stack' = Popped(stack)
      /\ UNCHANGED <<info, of, calls, other, stale>>
  BY DEF Qt!Finish, Qt!At, Qt!Leave, Popped, Qt!infoVars, Qt!otherVars
<1>2. \A n \in Infos : ~Qt!Holds(Qt!Top, n)
  BY <1>1, AtTop DEF FrameOk, Within, Qt!Holds, Infos
<1>3. Good(info, of, stack')
  BY <1>1, <1>2, AtTop, PopFrame
<1> QED BY <1>1, <1>3, StaysInv, NoChange DEF DispatchInv

-----------------------------------------------------------------------------
\* What receivers do.

\* A call of the user's may allocate one info.
LEMMA CallInv ==
  ASSUME DispatchInv, calls > 0, calls' = calls - 1,
         of' \in [Qt!Items -> Infos \cup {0}], Good(info', of', stack'),
         NEW k, DOMAIN info' \subseteq DOMAIN info \cup {k},
         other' = other, stale' = stale
  PROVE  DispatchInv'
<1>1. DOMAIN info \subseteq Infos
  BY DEF DispatchInv, Good, RefsOk
<1>2. IsFiniteSet(DOMAIN info) /\ Cardinality(DOMAIN info) \in Nat
  BY <1>1, Bound, FS_Subset, Fewer
<1>3. /\ IsFiniteSet(DOMAIN info \cup {k})
      /\ Cardinality(DOMAIN info \cup {k}) \in Nat
      /\ Cardinality(DOMAIN info \cup {k}) <= Cardinality(DOMAIN info) + 1
  BY <1>2, FS_AddElement
<1>4. /\ Cardinality(DOMAIN info') \in Nat
      /\ Cardinality(DOMAIN info') <= Cardinality(DOMAIN info \cup {k})
  BY <1>3, FS_Subset, FS_CardinalityType
<1>5. /\ calls' \in Nat
      /\ Cardinality(DOMAIN info') + calls' <= Cardinality(Qt!Items) + MaxCalls
  BY <1>2, <1>3, <1>4, Bound DEF DispatchInv
<1> QED BY <1>5 DEF DispatchInv

LEMMA NestStep ==
  ASSUME DispatchInv, calls > 0, calls' = calls - 1, Qt!Nest,
         of' = of, other' = other, stale' = stale
  PROVE  DispatchInv'
<1>1. PICK more \in BOOLEAN : stack' = Append(stack, Qt!Frame(more))
  BY DEF Qt!Nest
<1>2. info' = info
  BY DEF Qt!Nest, Qt!infoVars
<1>3. PICK r : r = Qt!Frame(more)
  OBVIOUS
<1>4. Is(r, "start", {}, 0)
  BY <1>3 DEF Qt!Frame, Qt!None, Is, FrameType, Waiting
<1>5. FrameOk(r) /\ \A n \in Infos : ~Qt!Holds(r, n)
  BY <1>4 DEF Is, FrameOk, Qt!Holds, Waiting, Within, Infos
<1>6. stack' = Pushed(stack, r)
  BY <1>1, <1>3 DEF Pushed
<1>7. Good(info, of, stack')
  BY <1>5, <1>6, PushFrame DEF DispatchInv
<1> QED BY <1>2, <1>7, CallInv DEF DispatchInv

\* Item i, of none so far, is registered for info k, or is no longer.
LEMMA UsersMore ==
  ASSUME NEW o \in [Qt!Items -> Infos \cup {0}], NEW i \in Qt!Items, o[i] = 0,
         NEW k \in Infos
  PROVE  /\ Given(o, i, k) \in [Qt!Items -> Infos \cup {0}] /\ Given(o, i, k)[i] = k
         /\ \A j \in Qt!Items : j # i => Given(o, i, k)[j] = o[j]
         /\ Users(Given(o, i, k), k) = Users(o, k) \cup {i} /\ i \notin Users(o, k)
         /\ \A n \in Infos : n # k => Users(Given(o, i, k), n) = Users(o, n)
         /\ Cardinality(Users(Given(o, i, k), k)) = Cardinality(Users(o, k)) + 1
<1> DEFINE p == Given(o, i, k)
<1>1. /\ p \in [Qt!Items -> Infos \cup {0}] /\ p[i] = k
      /\ \A j \in Qt!Items : j # i => p[j] = o[j]
  BY DEF Given
<1> HIDE DEF p
<1>2. \A n \in Infos : n # 0
  BY DEF Infos
<1>3. Users(p, k) = Users(o, k) \cup {i} /\ i \notin Users(o, k)
  BY <1>1, <1>2 DEF Users
<1>4. \A n \in Infos : n # k => Users(p, n) = Users(o, n)
  BY <1>1, <1>2 DEF Users
<1>5. Cardinality(Users(p, k)) = Cardinality(Users(o, k)) + 1
  BY <1>3, UsersFinite, FS_AddElement
<1> QED BY <1>1, <1>3, <1>4, <1>5 DEF p

LEMMA UsersLess ==
  ASSUME NEW o \in [Qt!Items -> Infos \cup {0}], NEW i \in Qt!Items, o[i] # 0
  PROVE  /\ Given(o, i, 0) \in [Qt!Items -> Infos \cup {0}] /\ Given(o, i, 0)[i] = 0
         /\ \A j \in Qt!Items : j # i => Given(o, i, 0)[j] = o[j]
         /\ Users(Given(o, i, 0), o[i]) = Users(o, o[i]) \ {i} /\ i \in Users(o, o[i])
         /\ \A n \in Infos : n # o[i] => Users(Given(o, i, 0), n) = Users(o, n)
         /\ Cardinality(Users(Given(o, i, 0), o[i])) = Cardinality(Users(o, o[i])) - 1
<1> DEFINE p == Given(o, i, 0)
<1>1. /\ p \in [Qt!Items -> Infos \cup {0}] /\ p[i] = 0
      /\ \A j \in Qt!Items : j # i => p[j] = o[j]
  BY DEF Given
<1> HIDE DEF p
<1>2. \A n \in Infos : n # 0
  BY DEF Infos
<1>3. Users(p, o[i]) = Users(o, o[i]) \ {i} /\ i \in Users(o, o[i])
  BY <1>1, <1>2 DEF Users
<1>4. \A n \in Infos : n # o[i] => Users(p, n) = Users(o, n)
  BY <1>1, <1>2 DEF Users
<1>5. Cardinality(Users(p, o[i])) = Cardinality(Users(o, o[i])) - 1
  BY <1>3, UsersFinite, FS_RemoveElement
<1> QED BY <1>1, <1>3, <1>4, <1>5 DEF p

\* The items of an info change with those registered for it.
LEMMA ItemsSet ==
  ASSUME NEW f, NEW c, RefsOk(f, c), NEW k \in DOMAIN f, NEW I \in SUBSET Qt!Items
  PROVE  /\ RefsOk(ItemsGiven(f, k, I), c) /\ DOMAIN ItemsGiven(f, k, I) = DOMAIN f /\ ItemsGiven(f, k, I)[k].items = I
         /\ \A n \in DOMAIN f : n # k => ItemsGiven(f, k, I)[n].items = f[n].items
<1> DEFINE g == ItemsGiven(f, k, I)
<1>1. \A m \in DOMAIN f : f[m] \in InfoType /\ f[m].refs = c[m]
  BY DEF RefsOk
<1>2. PICK r : r = f[k]
  OBVIOUS
<1>3. PICK x : x = [r EXCEPT !.items = I]
  OBVIOUS
<1>4. x \in InfoType /\ x.refs = c[k] /\ x.items = I
  BY <1>1, <1>2, <1>3 DEF InfoType
<1>5. g = [f EXCEPT ![k] = x]
  BY <1>2, <1>3 DEF ItemsGiven
<1> HIDE DEF g
<1>6. DOMAIN g = DOMAIN f /\ g[k] = x /\ \A m \in DOMAIN f : m # k => g[m] = f[m]
  BY <1>5
<1>7. \A m \in DOMAIN g : g[m] \in InfoType /\ g[m].refs = c[m]
  BY <1>1, <1>4, <1>6
<1> QED BY <1>4, <1>6, <1>7 DEF RefsOk, g

\* Registering an item of its own, or a second notifier of a socket.
LEMMA NewStep ==
  ASSUME DispatchInv, calls > 0, calls' = calls - 1, NEW i \in Qt!Items, of[i] = 0,
         info' = [n \in DOMAIN info \cup {Qt!Fresh} |-> IF n = Qt!Fresh THEN Qt!NewInfo(i)
                                                        ELSE info[n]],
         of' = [of EXCEPT ![i] = Qt!Fresh],
         stack' = stack, other' = other, stale' = stale
  PROVE  DispatchInv'
<1>1. /\ Good(info, of, stack) /\ of \in [Qt!Items -> Infos \cup {0}]
      /\ RefsOk(info, Count(of, stack)) /\ ItemsOk(info, of)
      /\ stack \in Seq(FrameType) /\ \A d \in 1..Len(stack) : FrameOk(stack[d])
      /\ "nestedKeeps" \in DispatchRules => HeldOnce(of, stack)
  BY DEF DispatchInv, Good
<1>2. DOMAIN info \subseteq Infos
  BY <1>1 DEF RefsOk
<1>3. PICK k : k = Qt!Fresh
  OBVIOUS
<1>4. k \in Infos /\ k \notin DOMAIN info
  <2>1. Cardinality(DOMAIN info) \in Nat
    BY <1>2, Fewer
  <2>2. Cardinality(DOMAIN info) < Cardinality(Qt!Items) + MaxCalls
    BY <2>1, Bound DEF DispatchInv
  <2> QED BY <1>2, <1>3, <2>2, FreshOne
<1>5. Users(of, k) = {} /\ Loops(stack, k) = {}
  BY <1>1, <1>4, Allocated
<1>6. PICK p : p = Given(of, i, k)
  OBVIOUS
<1>7. of' = p /\ DOMAIN info' = DOMAIN info \cup {k}
      /\ info'[k] = Qt!NewInfo(i) /\ \A n \in DOMAIN info : info'[n] = info[n]
  BY <1>3, <1>4, <1>6 DEF Given
<1>8. /\ p \in [Qt!Items -> Infos \cup {0}] /\ p[i] = k
      /\ \A j \in Qt!Items : j # i => p[j] = of[j]
      /\ Users(p, k) = {i}
      /\ \A n \in Infos : n # k => Users(p, n) = Users(of, n)
  BY <1>1, <1>4, <1>5, <1>6, UsersMore
<1>9. /\ Count(p, stack)[k] = 1
      /\ \A n \in Infos : n # k => Count(p, stack)[n] = Count(of, stack)[n]
  <2>1. Cardinality(Users(p, k)) = 1 /\ Cardinality(Loops(stack, k)) = 0
    BY <1>5, <1>8, FS_Singleton, FS_EmptySet
  <2>2. Count(p, stack)[k] = 1
    BY <1>4, <2>1, CountAt
  <2> QED BY <1>8, <2>2, CountAt
<1>10. RefsOk(info', Count(p, stack))
  <2>1. /\ Qt!NewInfo(i) \in InfoType /\ Qt!NewInfo(i).refs = 1 /\ Qt!NewInfo(i).items = {i}
    BY DEF Qt!NewInfo, InfoType
  <2>2. DOMAIN info' = {n \in Infos : Count(p, stack)[n] > 0}
    BY <1>1, <1>4, <1>7, <1>9 DEF RefsOk
  <2>3. \A n \in DOMAIN info' : info'[n] \in InfoType /\ info'[n].refs = Count(p, stack)[n]
    BY <1>1, <1>2, <1>4, <1>7, <1>9, <2>1 DEF RefsOk
  <2> QED BY <2>2, <2>3 DEF RefsOk
<1>11. ItemsOk(info', p)
  <2>1. info'[k].items = {i}
    BY <1>7 DEF Qt!NewInfo
  <2>2. ASSUME NEW n \in DOMAIN info'
        PROVE  /\ Users(p, n) # {} => info'[n].items = Users(p, n)
               /\ info'[n].items \cap Notifiers \subseteq Users(p, n)
    <3>1. CASE n = k
      BY <1>8, <2>1, <3>1
    <3>2. CASE n # k
      <4>1. n \in DOMAIN info /\ n \in Infos /\ info'[n] = info[n] /\ Users(p, n) = Users(of, n)
        BY <1>2, <1>7, <1>8, <3>2
      <4> QED BY <1>1, <4>1 DEF ItemsOk
    <3> QED BY <3>1, <3>2
  <2>3. ASSUME NEW j \in Qt!Items \ Notifiers, p[j] # 0 PROVE Users(p, p[j]) = {j}
    <3>1. CASE j = i
      BY <1>8, <3>1
    <3>2. CASE j # i
      <4>1. p[j] = of[j] /\ of[j] \in Infos
        BY <1>1, <1>8, <2>3, <3>2
      <4>2. Users(of, of[j]) = {j}
        BY <1>1, <2>3, <4>1 DEF ItemsOk
      <4>3. of[j] # k
        BY <1>5, <4>2
      <4> QED BY <1>8, <4>1, <4>2, <4>3
    <3> QED BY <3>1, <3>2
  <2> QED BY <2>2, <2>3 DEF ItemsOk
<1>12. HeldOnce(of, stack) => HeldOnce(p, stack)
  <2> SUFFICES ASSUME HeldOnce(of, stack), NEW n \in Infos, Users(p, n) = {}
               PROVE  \A d, e \in Loops(stack, n) : d = e
    BY DEF HeldOnce
  <2>1. Users(of, n) = {}
    BY <1>8
  <2> QED BY <2>1 DEF HeldOnce
<1>13. Good(info', p, stack)
  BY <1>1, <1>10, <1>11, <1>12 DEF Good
<1> QED BY <1>7, <1>8, <1>13, CallInv

LEMMA ShareStep ==
  ASSUME DispatchInv, calls > 0, calls' = calls - 1, NEW i \in Qt!Items, of[i] = 0,
         NEW j \in Notifiers, of[j] # 0, i \in Notifiers,
         info' = Qt!Ref([info EXCEPT ![of[j]].items = @ \cup {i}], {of[j]}),
         of' = [of EXCEPT ![i] = of[j]],
         stack' = stack, other' = other, stale' = stale
  PROVE  DispatchInv'
<1>1. /\ Good(info, of, stack) /\ of \in [Qt!Items -> Infos \cup {0}]
      /\ RefsOk(info, Count(of, stack)) /\ ItemsOk(info, of)
      /\ stack \in Seq(FrameType) /\ \A d \in 1..Len(stack) : FrameOk(stack[d])
      /\ "nestedKeeps" \in DispatchRules => HeldOnce(of, stack)
  BY DEF DispatchInv, Good
<1>2. PICK k : k = of[j]
  OBVIOUS
<1>3. j \in Qt!Items /\ k \in Infos /\ j \in Users(of, k)
  BY <1>1, <1>2 DEF Qt!Items, Users
<1>4. k \in DOMAIN info /\ DOMAIN info \subseteq Infos
  BY <1>1, <1>3, Allocated
<1>5. info[k].items = Users(of, k)
  BY <1>1, <1>3, <1>4 DEF ItemsOk
<1>6. PICK I : I = info[k].items \cup {i}
  OBVIOUS
<1>7. I \in SUBSET Qt!Items
  BY <1>5, <1>6 DEF Users
<1>8. PICK g : g = ItemsGiven(info, k, I)
  OBVIOUS
<1>9. /\ RefsOk(g, Count(of, stack)) /\ DOMAIN g = DOMAIN info /\ g[k].items = I
      /\ \A n \in DOMAIN info : n # k => g[n].items = info[n].items
  BY <1>1, <1>4, <1>7, <1>8, ItemsSet
<1>10. PICK p : p = Given(of, i, k)
  OBVIOUS
<1>11. of' = p /\ info' = Qt!Ref(g, {k})
  BY <1>2, <1>6, <1>8, <1>10 DEF Given, ItemsGiven
<1>12. /\ p \in [Qt!Items -> Infos \cup {0}] /\ p[i] = k
       /\ \A m \in Qt!Items : m # i => p[m] = of[m]
       /\ Users(p, k) = Users(of, k) \cup {i}
       /\ \A n \in Infos : n # k => Users(p, n) = Users(of, n)
       /\ Cardinality(Users(p, k)) = Cardinality(Users(of, k)) + 1
  BY <1>1, <1>3, <1>10, UsersMore
<1>13. Count(of, stack) \in [Infos -> Nat] /\ Count(p, stack) \in [Infos -> Nat]
  BY <1>1, CountType
<1>14. ASSUME NEW n \in Infos
       PROVE  Count(p, stack)[n] = IF n \in {k} THEN Count(of, stack)[n] + 1
                                   ELSE Count(of, stack)[n]
  <2>1. CASE n = k
    <3>1. Cardinality(Users(of, k)) \in Nat /\ Cardinality(Loops(stack, k)) \in Nat
      BY <1>1, UsersFinite, LoopsFinite
    <3>2. /\ Count(p, stack)[k] = Cardinality(Users(p, k)) + Cardinality(Loops(stack, k))
          /\ Count(of, stack)[k] = Cardinality(Users(of, k)) + Cardinality(Loops(stack, k))
      BY <1>3, CountAt
    <3> QED BY <1>12, <2>1, <3>1, <3>2
  <2>2. CASE n # k
    BY <1>12, <2>2, CountAt
  <2> QED BY <2>1, <2>2
<1>15. RefsOk(info', Count(p, stack)) /\ SameItems(g, info')
  <2>1. {k} \in SUBSET DOMAIN g
    BY <1>4, <1>9
  <2> QED BY <1>9, <1>11, <1>13, <1>14, <2>1, RefLemma
<1>16. ItemsOk(info', p)
  <2>1. DOMAIN info' \subseteq DOMAIN info /\ \A n \in DOMAIN info' : info'[n].items = g[n].items
    BY <1>9, <1>15 DEF SameItems
  <2>2. ASSUME NEW n \in DOMAIN info'
        PROVE  /\ Users(p, n) # {} => info'[n].items = Users(p, n)
               /\ info'[n].items \cap Notifiers \subseteq Users(p, n)
    <3>1. CASE n = k
      BY <1>5, <1>6, <1>9, <1>12, <2>1, <3>1
    <3>2. CASE n # k
      <4>1. n \in DOMAIN info /\ n \in Infos /\ info'[n].items = info[n].items
            /\ Users(p, n) = Users(of, n)
        BY <1>4, <1>9, <1>12, <2>1, <3>2
      <4> QED BY <1>1, <4>1 DEF ItemsOk
    <3> QED BY <3>1, <3>2
  <2>3. ASSUME NEW m \in Qt!Items \ Notifiers, p[m] # 0 PROVE Users(p, p[m]) = {m}
    <3>1. p[m] = of[m] /\ of[m] \in Infos
      BY <1>1, <1>12, <2>3
    <3>2. Users(of, of[m]) = {m}
      BY <1>1, <2>3, <3>1 DEF ItemsOk
    <3>3. of[m] # k
      BY <1>3, <3>2
    <3> QED BY <1>12, <3>1, <3>2, <3>3
  <2> QED BY <2>2, <2>3 DEF ItemsOk
<1>17. HeldOnce(of, stack) => HeldOnce(p, stack)
  <2> SUFFICES ASSUME HeldOnce(of, stack), NEW n \in Infos, Users(p, n) = {}
               PROVE  \A d, e \in Loops(stack, n) : d = e
    BY DEF HeldOnce
  <2>1. Users(of, n) = {}
    BY <1>12
  <2> QED BY <2>1 DEF HeldOnce
<1>18. Good(info', p, stack)
  BY <1>1, <1>15, <1>16, <1>17 DEF Good
<1>19. DOMAIN info' \subseteq DOMAIN info \cup {k}
  BY <1>9, <1>15 DEF SameItems
<1> QED BY <1>11, <1>12, <1>18, <1>19, CallInv

LEMMA UnregisterStep ==
  ASSUME DispatchInv, calls > 0, calls' = calls - 1,
         NEW i \in Qt!Items, Qt!Unregister(i),
         stack' = stack, other' = other, stale' = stale
  PROVE  DispatchInv'
<1>1. /\ Good(info, of, stack) /\ of \in [Qt!Items -> Infos \cup {0}]
      /\ RefsOk(info, Count(of, stack)) /\ ItemsOk(info, of)
      /\ stack \in Seq(FrameType) /\ \A d \in 1..Len(stack) : FrameOk(stack[d])
  BY DEF DispatchInv, Good
<1>2. PICK k : k = of[i]
  OBVIOUS
<1>3. k \in Infos /\ k # 0 /\ i \in Users(of, k)
  BY <1>1, <1>2 DEF Qt!Unregister, Qt!None, Users
<1>4. k \in DOMAIN info /\ DOMAIN info \subseteq Infos
  BY <1>1, <1>3, Allocated
<1>5. info[k].items = Users(of, k)
  BY <1>1, <1>3, <1>4 DEF ItemsOk
<1>6. PICK I : I = info[k].items \ {i}
  OBVIOUS
<1>7. I \in SUBSET Qt!Items
  BY <1>5, <1>6 DEF Users
<1>8. PICK g : g = IF i \in Notifiers THEN ItemsGiven(info, k, I) ELSE info
  OBVIOUS
<1>9. /\ RefsOk(g, Count(of, stack)) /\ DOMAIN g = DOMAIN info
      /\ i \in Notifiers => g[k].items = I
      /\ i \notin Notifiers => g[k].items = info[k].items
      /\ \A n \in DOMAIN info : n # k => g[n].items = info[n].items
  <2>1. CASE i \in Notifiers
    BY <1>1, <1>4, <1>7, <1>8, <2>1, ItemsSet
  <2>2. CASE i \notin Notifiers
    BY <1>1, <1>8, <2>2
  <2> QED BY <2>1, <2>2
<1>10. PICK p : p = Given(of, i, 0)
  OBVIOUS
<1>11. of' = p /\ info' = Qt!Deref(g, k)
  BY <1>2, <1>6, <1>8, <1>10 DEF Qt!Unregister, Qt!None, Given, ItemsGiven
<1>12. /\ p \in [Qt!Items -> Infos \cup {0}] /\ p[i] = 0
       /\ \A m \in Qt!Items : m # i => p[m] = of[m]
       /\ Users(p, k) = Users(of, k) \ {i}
       /\ \A n \in Infos : n # k => Users(p, n) = Users(of, n)
       /\ Cardinality(Users(p, k)) = Cardinality(Users(of, k)) - 1
  BY <1>1, <1>2, <1>3, <1>10, UsersLess
<1>13. Count(of, stack) \in [Infos -> Nat] /\ Count(p, stack) \in [Infos -> Nat]
  BY <1>1, CountType
<1>14. /\ Count(p, stack)[k] = Count(of, stack)[k] - 1
       /\ \A n \in Infos : n # k => Count(p, stack)[n] = Count(of, stack)[n]
  <2>1. Cardinality(Users(of, k)) \in Nat /\ Cardinality(Loops(stack, k)) \in Nat
    BY <1>1, UsersFinite, LoopsFinite
  <2>2. /\ Count(p, stack)[k] = Cardinality(Users(p, k)) + Cardinality(Loops(stack, k))
        /\ Count(of, stack)[k] = Cardinality(Users(of, k)) + Cardinality(Loops(stack, k))
    BY <1>3, CountAt
  <2>3. \A n \in Infos : n # k => Count(p, stack)[n] = Count(of, stack)[n]
    BY <1>12, CountAt
  <2> QED BY <1>12, <2>1, <2>2, <2>3
<1>15. RefsOk(info', Count(p, stack)) /\ SameItems(g, info')
  BY <1>4, <1>9, <1>11, <1>13, <1>14, DerefLemma
<1>16. ItemsOk(info', p)
  <2>1. DOMAIN info' \subseteq DOMAIN info /\ \A n \in DOMAIN info' : info'[n].items = g[n].items
    BY <1>9, <1>15 DEF SameItems
  <2>2. i \notin Notifiers => Users(of, k) = {i}
    BY <1>1, <1>2, <1>3 DEF ItemsOk
  <2>3. ASSUME NEW n \in DOMAIN info'
        PROVE  /\ Users(p, n) # {} => info'[n].items = Users(p, n)
               /\ info'[n].items \cap Notifiers \subseteq Users(p, n)
    <3>1. CASE n = k /\ i \in Notifiers
      BY <1>5, <1>6, <1>9, <1>12, <2>1, <3>1
    <3>2. CASE n = k /\ i \notin Notifiers
      <4>1. info'[n].items = {i} /\ Users(p, n) = {}
        BY <1>5, <1>9, <1>12, <2>1, <2>2, <3>2
      <4> QED BY <3>2, <4>1
    <3>3. CASE n # k
      <4>1. n \in DOMAIN info /\ n \in Infos /\ info'[n].items = info[n].items
            /\ Users(p, n) = Users(of, n)
        BY <1>4, <1>9, <1>12, <2>1, <3>3
      <4> QED BY <1>1, <4>1 DEF ItemsOk
    <3> QED BY <3>1, <3>2, <3>3
  <2>4. ASSUME NEW m \in Qt!Items \ Notifiers, p[m] # 0 PROVE Users(p, p[m]) = {m}
    <3>1. m # i /\ p[m] = of[m] /\ of[m] \in Infos
      BY <1>1, <1>12, <2>4
    <3>2. Users(of, of[m]) = {m}
      BY <1>1, <2>4, <3>1 DEF ItemsOk
    <3>3. of[m] # k
      BY <1>3, <3>1, <3>2
    <3> QED BY <1>12, <3>1, <3>2, <3>3
  <2> QED BY <2>3, <2>4 DEF ItemsOk
<1>17. "nestedKeeps" \in DispatchRules => HeldOnce(p, stack)
  <2> SUFFICES ASSUME "nestedKeeps" \in DispatchRules, NEW n \in Infos,
                      NEW d \in Loops(stack, n), NEW e \in Loops(stack, n)
               PROVE  d = e
    BY DEF HeldOnce
  <2>1. Len(stack) <= 1 /\ Len(stack) \in Nat
    BY <1>1 DEF Qt!Unregister
  <2>2. d \in 1..Len(stack) /\ e \in 1..Len(stack)
    BY <1>1 DEF Loops
  <2> QED BY <2>1, <2>2
<1>18. Good(info', p, stack)
  BY <1>1, <1>15, <1>16, <1>17 DEF Good
<1>19. DOMAIN info' \subseteq DOMAIN info \cup {k}
  BY <1>9, <1>15 DEF SameItems
<1> QED BY <1>11, <1>12, <1>18, <1>19, CallInv

LEMMA UserStep == ASSUME DispatchInv, Qt!User PROVE DispatchInv'
<1>1. calls > 0 /\ calls' = calls - 1 /\ other' = other /\ stale' = stale
  BY DEF Qt!User, Qt!otherVars
<1>2. CASE Qt!Nest
  <2>1. of' = of
    BY <1>2 DEF Qt!Nest, Qt!infoVars
  <2> QED BY <1>1, <1>2, <2>1, NestStep
<1>3. CASE Qt!Exit
  <2>1. UNCHANGED <<info, of, stack>>
    BY <1>3 DEF Qt!Exit, Qt!infoVars
  <2> QED BY <1>1, <2>1, CallInv DEF DispatchInv
<1>4. ASSUME NEW i \in Qt!Items, Qt!Register(i), stack' = stack PROVE DispatchInv'
  <2>1. of[i] = 0
    BY <1>4 DEF Qt!Register, Qt!None
  <2>2. CASE Qt!Shared(i) = {}
    BY <1>1, <1>4, <2>1, <2>2, NewStep DEF Qt!Register
  <2>3. CASE Qt!Shared(i) # {}
    <3>1. PICK n : n = CHOOSE m \in Qt!Shared(i) : TRUE
      OBVIOUS
    <3>2. n \in Qt!Shared(i)
      BY <2>3, <3>1
    <3>3. i \in Notifiers /\ \E j \in Notifiers : of[j] = n /\ of[j] # 0
      BY <3>2 DEF Qt!Shared, Qt!None
    <3>4. PICK j \in Notifiers : of[j] = n /\ of[j] # 0
      BY <3>3
    <3>5. /\ info' = Qt!Ref([info EXCEPT ![n].items = @ \cup {i}], {n})
          /\ of' = [of EXCEPT ![i] = n]
      BY <1>4, <2>3, <3>1 DEF Qt!Register
    <3> QED BY <1>1, <1>4, <2>1, <3>3, <3>4, <3>5, ShareStep
  <2> QED BY <2>2, <2>3
<1>5. ASSUME NEW i \in Qt!Items, Qt!Unregister(i), stack' = stack PROVE DispatchInv'
  BY <1>1, <1>5, UnregisterStep
<1> QED BY <1>2, <1>3, <1>4, <1>5 DEF Qt!User

-----------------------------------------------------------------------------
\* The state in which the loop begins, and the theorems.

\* A sequence of a finite set's elements names each once.
LEMMA Listed ==
  ASSUME NEW S, IsFiniteSet(S)
  PROVE  LET q == Qt!SetToSeq(S)
         IN  /\ q \in [1..Cardinality(S) -> S]
             /\ \A m, n \in 1..Cardinality(S) : q[m] = q[n] => m = n
             /\ \A x \in S : \E n \in 1..Cardinality(S) : q[n] = x
<1>1. PICK c : c = Cardinality(S)
  OBVIOUS
<1>2. c \in Nat /\ ExistsBijection(1..c, S)
  BY <1>1, FS_CardinalityType
<1>3. PICK f : f \in Bijection(1..c, S)
  BY <1>2 DEF ExistsBijection
<1>4. f \in [1..c -> S] /\ Qt!IsInjective(f)
  BY <1>3 DEF Bijection, Injection, Surjection, IsInjective, Qt!IsInjective
<1>5. PICK q : q = Qt!SetToSeq(S)
  OBVIOUS
<1>6. q = CHOOSE g \in [1..c -> S] : Qt!IsInjective(g)
  BY <1>1, <1>5, SameCardinality DEF Qt!SetToSeq
<1>7. q \in [1..c -> S] /\ Qt!IsInjective(q)
  BY <1>4, <1>6
<1>8. \A m, n \in 1..c : q[m] = q[n] => m = n
  BY <1>7 DEF Qt!IsInjective
<1>9. q \in Injection(1..c, S)
  BY <1>7, <1>8 DEF Injection, IsInjective
<1>10. Cardinality(1..c) = c
  <2>1. Cardinality(1..c) = IF 1 > c THEN 0 ELSE c - 1 + 1
    BY <1>2, FS_Interval
  <2> QED BY <1>2, <2>1
<1>11. q \in Surjection(1..c, S)
  BY <1>1, <1>9, <1>10, FS_Injection
<1>12. \A x \in S : \E n \in 1..c : q[n] = x
  BY <1>11 DEF Surjection
<1> QED BY <1>1, <1>5, <1>7, <1>8, <1>12

LEMMA RegisteredLemma ==
  ASSUME NEW I \in SUBSET Qt!Items, NEW o, o = Qt!Registered(I)
  PROVE  /\ o \in [Qt!Items -> 0..Cardinality(Qt!Items)]
         /\ \A i \in Qt!Items : i \notin Notifiers /\ o[i] # 0 => Users(o, o[i]) = {i}
<1> DEFINE first(i) == IF i \in Notifiers THEN I \cap Notifiers ELSE {i}
           S == {first(i) : i \in I}
           h == [i \in I |-> first(i)]
<1>1. IsFiniteSet(Qt!Items)
  BY DispatchAssumption DEF Qt!Items
<1>2. /\ IsFiniteSet(I) /\ Cardinality(I) \in Nat /\ Cardinality(Qt!Items) \in Nat
      /\ Cardinality(I) <= Cardinality(Qt!Items)
  BY <1>1, FS_Subset, FS_CardinalityType
<1>3. h \in Surjection(I, S)
  BY DEF Surjection
<1>4. IsFiniteSet(S) /\ Cardinality(S) <= Cardinality(I) /\ Cardinality(S) \in Nat
  BY <1>2, <1>3, FS_Surjection, FS_CardinalityType
<1>5. PICK q : q = Qt!SetToSeq(S)
  OBVIOUS
<1>6. PICK c : c = Cardinality(S)
  OBVIOUS
<1>7. /\ q \in [1..c -> S] /\ \A x \in S : \E n \in 1..c : q[n] = x
  BY <1>4, <1>5, <1>6, Listed
<1>8. o = [i \in Qt!Items |-> IF i \in I THEN CHOOSE n \in DOMAIN q : q[n] = first(i) ELSE 0]
  BY <1>5 DEF Qt!Registered, Qt!None
<1>9. \A i \in I : first(i) \in S
  OBVIOUS
<1> HIDE DEF S
<1>10. \A i \in I : o[i] \in 1..c /\ q[o[i]] = first(i)
  <2> TAKE i \in I
  <2>1. o[i] = CHOOSE n \in DOMAIN q : q[n] = first(i)
    BY <1>8
  <2>2. \E n \in DOMAIN q : q[n] = first(i)
    BY <1>7, <1>9
  <2>3. PICK k : k = CHOOSE n \in DOMAIN q : q[n] = first(i)
    OBVIOUS
  <2>4. k \in DOMAIN q /\ q[k] = first(i)
    BY <2>2, <2>3
  <2> QED BY <1>7, <2>1, <2>3, <2>4
<1>13. c \in Nat /\ c <= Cardinality(Qt!Items)
  BY <1>2, <1>4, <1>6
<1>11. o \in [Qt!Items -> 0..Cardinality(Qt!Items)]
  <2>1. \A i \in Qt!Items : o[i] \in 0..Cardinality(Qt!Items)
    <3> TAKE i \in Qt!Items
    <3>1. CASE i \in I
      <4>1. o[i] \in 1..c /\ c \in Nat /\ c <= Cardinality(Qt!Items)
        BY <1>10, <1>13, <3>1
      <4> QED BY <1>2, <4>1
    <3>2. CASE i \notin I
      BY <1>2, <1>8, <3>2
    <3> QED BY <3>1, <3>2
  <2> QED BY <1>8, <2>1
<1>12. ASSUME NEW i \in Qt!Items, i \notin Notifiers, o[i] # 0, NEW j \in Qt!Items, o[j] = o[i]
       PROVE  j = i
  <2>1. i \in I /\ j \in I
    BY <1>8, <1>12
  <2>2. first(j) = {i}
    BY <1>10, <1>12, <2>1
  <2> QED BY <1>12, <2>2
<1> QED BY <1>11, <1>12 DEF Users

LEMMA DispatchInit == ASSUME Qt!Init PROVE DispatchInv
<1>1. /\ stack = <<>> /\ other = "idle" /\ stale = FALSE /\ calls \in 1..MaxCalls
      /\ info = [n \in Qt!Range(of) \ {0} |->
                   [items |-> Users(of, n), refs |-> Qt!Cardinality(Users(of, n)),
                    active |-> TRUE, armed |-> TRUE]]
  BY DEF Qt!Init, Users, Qt!None
<1>2. \E I \in SUBSET Qt!Items : of = Qt!Registered(I)
  BY DEF Qt!Init
<1>3. PICK I \in SUBSET Qt!Items : of = Qt!Registered(I)
  BY <1>2
<1>4. /\ of \in [Qt!Items -> 0..Cardinality(Qt!Items)]
      /\ \A i \in Qt!Items : i \notin Notifiers /\ of[i] # 0 => Users(of, of[i]) = {i}
  BY <1>3, RegisteredLemma
<1>5. Cardinality(Qt!Items) \in Nat /\ MaxCalls \in Nat
  BY DispatchAssumption, FS_CardinalityType DEF Qt!Items
<1>6. of \in [Qt!Items -> Infos \cup {0}]
  BY <1>4, <1>5 DEF Infos
<1>7. /\ DOMAIN info = {n \in Infos : Users(of, n) # {}}
      /\ DOMAIN info \subseteq 1..Cardinality(Qt!Items)
  <2>1. Qt!Range(of) = {of[i] : i \in Qt!Items}
    BY <1>6 DEF Qt!Range
  <2>2. DOMAIN info = {of[i] : i \in Qt!Items} \ {0}
    BY <1>1, <2>1
  <2>3. \A n \in DOMAIN info : n \in 1..Cardinality(Qt!Items)
    BY <1>4, <1>5, <2>2
  <2>4. \A n \in Infos : n # 0
    BY DEF Infos
  <2> QED BY <1>6, <2>2, <2>3, <2>4 DEF Users
<1>8. \A n \in DOMAIN info :
        info[n] = [items |-> Users(of, n), refs |-> Cardinality(Users(of, n)),
                   active |-> TRUE, armed |-> TRUE]
  BY <1>1, SameCardinality
<1>9. stack \in Seq(FrameType) /\ \A d \in 1..Len(stack) : FrameOk(stack[d])
  BY <1>1
<1>10. \A n : Loops(stack, n) = {}
  BY <1>1 DEF Loops
<1>11. \A n \in Infos : Count(of, stack)[n] = Cardinality(Users(of, n))
                        /\ Cardinality(Users(of, n)) \in Nat
                        /\ (Cardinality(Users(of, n)) = 0 <=> Users(of, n) = {})
  BY <1>10, CountAt, UsersFinite, FS_EmptySet
<1>12. RefsOk(info, Count(of, stack))
  <2>1. DOMAIN info = {n \in Infos : Count(of, stack)[n] > 0}
    BY <1>7, <1>11
  <2>2. ASSUME NEW n \in DOMAIN info
        PROVE  info[n] \in InfoType /\ info[n].refs = Count(of, stack)[n]
    <3>1. n \in Infos /\ Users(of, n) \in SUBSET Qt!Items
      BY <1>7 DEF Users
    <3>2. PICK u, r : u = Users(of, n) /\ r = Cardinality(Users(of, n))
      OBVIOUS
    <3>3. u \in SUBSET Qt!Items /\ r \in Nat /\ r = Count(of, stack)[n]
      BY <1>11, <3>1, <3>2
    <3>4. info[n] = [items |-> u, refs |-> r, active |-> TRUE, armed |-> TRUE]
      BY <1>8, <3>2
    <3> QED BY <3>3, <3>4 DEF InfoType
  <2> QED BY <2>1, <2>2 DEF RefsOk
<1>13. ItemsOk(info, of)
  BY <1>4, <1>8 DEF ItemsOk
<1>14. HeldOnce(of, stack)
  BY <1>10 DEF HeldOnce
<1>15. Cardinality(DOMAIN info) + calls <= Cardinality(Qt!Items) + MaxCalls
  <2>1. /\ IsFiniteSet(1..Cardinality(Qt!Items))
        /\ Cardinality(1..Cardinality(Qt!Items))
             = IF 1 > Cardinality(Qt!Items) THEN 0 ELSE Cardinality(Qt!Items) - 1 + 1
    BY <1>5, FS_Interval
  <2>2. Cardinality(1..Cardinality(Qt!Items)) = Cardinality(Qt!Items)
    BY <1>5, <2>1
  <2>3. Cardinality(DOMAIN info) <= Cardinality(Qt!Items) /\ Cardinality(DOMAIN info) \in Nat
    BY <1>7, <2>1, <2>2, FS_Subset, FS_CardinalityType
  <2> QED BY <1>1, <1>5, <2>3
<1> QED BY <1>1, <1>5, <1>6, <1>9, <1>12, <1>13, <1>14, <1>15 DEF DispatchInv, Good

LEMMA DispatchNext == DispatchInv /\ [Qt!Next]_epollVars => DispatchInv'
<1> SUFFICES ASSUME DispatchInv, [Qt!Next]_epollVars PROVE DispatchInv'
  OBVIOUS
<1>1. CASE Qt!Dispatch
  BY <1>1, StartStep, PostedStep, ZeroTimersStep, ZeroTimerStep, ZeroTimerDoneStep,
     WaitStep, RunStep, TimerDoneStep, TellStep, ReadWakeFdStep, ResetFlagStep, FinishStep,
     LoopStep DEF Qt!Dispatch
<1>2. CASE UNCHANGED epollVars
  <2>1. UNCHANGED <<info, of, stack, calls, other, stale>>
    BY <1>2 DEF epollVars
  <2>2. Good(info', of, stack') /\ SameItems(info, info')
    BY <2>1, NoChange DEF DispatchInv
  <2> QED BY <2>1, <2>2, StaysInv DEF DispatchInv
<1> QED BY <1>1, <1>2, OtherStep, UserStep DEF Qt!Next

\* The invariant of the dispatcher holds in every behaviour.
LEMMA DispatchInductive == MCSpec => []DispatchInv
<1>1. MCInit => DispatchInv
  BY DispatchInit DEF MCInit
<1>2. DispatchInv /\ [MCNext]_allVars => DispatchInv'
  <2> SUFFICES ASSUME DispatchInv, [MCNext]_allVars PROVE DispatchInv'
    OBVIOUS
  <2>1. [Qt!Next]_epollVars
    BY DEF MCNext, Timers, Dispatches, allVars
  <2> QED BY <2>1, DispatchNext
<1> QED BY <1>1, <1>2, PTL DEF MCSpec

\* The invariant counts the holders as Counted does.
LEMMA CountedHolds == DispatchInv => Qt!Counted
<1> SUFFICES ASSUME DispatchInv PROVE Qt!Counted
  OBVIOUS
<1>1. /\ Good(info, of, stack) /\ RefsOk(info, Count(of, stack))
      /\ stack \in Seq(FrameType) /\ \A d \in 1..Len(stack) : FrameOk(stack[d])
  BY DEF DispatchInv, Good
<1>2. Infos = 1..(Qt!Cardinality(Qt!Items) + MaxCalls)
  BY SameCardinality DEF Infos
<1>3. ASSUME NEW n \in Infos PROVE Qt!Holders(n) = Count(of, stack)[n]
  <2>1. Qt!Holders(n) = Qt!Cardinality(Users(of, n)) + Qt!Cardinality(Loops(stack, n))
    BY DEF Qt!Holders, Users, Loops
  <2> QED BY <2>1, CountAt, SameCardinality
<1>4. DOMAIN info = {n \in 1..(Qt!Cardinality(Qt!Items) + MaxCalls) : Qt!Holders(n) > 0}
  BY <1>1, <1>2, <1>3 DEF RefsOk
<1>5. \A n \in DOMAIN info : info[n].refs = Qt!Holders(n)
  BY <1>1, <1>3 DEF RefsOk
<1>6. \A d \in DOMAIN stack : stack[d].left \subseteq Notifiers
  <2>1. DOMAIN stack = 1..Len(stack)
    BY <1>1
  <2> QED BY <1>1, <2>1 DEF FrameOk, FrameType
<1> QED BY <1>4, <1>5, <1>6 DEF Qt!Counted, DispatchInv

\* An info of the dispatcher (EpollAbastractEvent, ref and deref) is
\* referenced as often as something is registered for it or a call of
\* processEvents, nested or not, has it to process: it is never freed under a
\* loop that comes back to it, and never kept when nobody has it. No rule of
\* use is needed.
THEOREM CountedSafety == MCSpec => []Qt!Counted
BY DispatchInductive, CountedHolds, PTL

\* With that, and users that unregister nothing in a nested loop, an event is
\* only sent to what is still registered, although epoll reported it before a
\* receiver unregistered it (canProcess).
THEOREM RegisteredSafety ==
  "nestedKeeps" \in DispatchRules => (MCSpec => []Registered)
<1>1. "nestedKeeps" \in DispatchRules /\ DispatchInv => Registered
  BY CountedHolds DEF Registered, Qt!NotStale, DispatchInv
<1>2. CASE "nestedKeeps" \in DispatchRules
  <2>1. DispatchInv => Registered
    BY <1>1, <1>2
  <2> QED BY <2>1, DispatchInductive, PTL
<1> QED BY <1>2

=============================================================================
