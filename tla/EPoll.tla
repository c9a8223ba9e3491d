--------------------------------- MODULE EPoll --------------------------------
(***************************************************************************)
(* The Qt event dispatcher over epoll: processEvents of the thread's loop, *)
(* with the zero timers, the timers and the socket notifiers it sends to,  *)
(* and wakeUp from another thread.  Receivers are user code: they register *)
(* and unregister, run nested loops and make the loop exit, while infos of *)
(* theirs are among the events that epoll reported.  What is reported is   *)
(* referenced, and processed only while something else references it.      *)
(***************************************************************************)
EXTENDS Integers, Sequences, SequencesExt, FiniteSets, Functions

CONSTANTS
  Timers, ZeroTimers,  \* timers with an interval, and without
  Notifiers,           \* of one socket: at most one reads, one writes
  MaxDepth,            \* nested processEvents
  MaxCalls,            \* what receivers do, in all
  MaxSteps,            \* what another thread posts, and calls twice, in all
  DispatchRules        \* the rules of use the receivers follow

\* "nestedKeeps": nothing is unregistered in a nested loop.
\* "postedFlat":  a posted event's receiver nests no loop: that one would take
\*                a wake-up for exit, and the outer loop wait without it.
AllDispatchRules == {"nestedKeeps", "postedFlat"}

VARIABLES
  info,       \* the allocated EpollAbastractEvents
  of,         \* m_timers, m_zero_timers and m_notifiers: the info of each item
  stack,      \* the calls of processEvents, the innermost last
  posted,     \* events posted to objects of the thread
  exited,     \* exit() of the loop was called
  interrupt,  \* m_interrupt
  wakeups,    \* m_wakeups
  eventfd,    \* the event descriptor is readable
  other,      \* what the other thread is about to do
  calls,      \* bounds: how much is left to call
  posts,      \* and to post
  stale       \* an event was sent to what is not registered

infoVars == <<info, of>>
otherVars == <<other, posts>>
wakeVars == <<interrupt, wakeups, eventfd>>
epollVars == <<infoVars, stack, posted, exited, wakeVars, other, calls, posts, stale>>

Items == Timers \cup ZeroTimers \cup Notifiers

None == 0
WakeFd == 0  \* m_event_fd_info, which is always there

Fresh == CHOOSE n \in 1..(Cardinality(Items) + MaxCalls) : n \notin DOMAIN info

canProcess(n) == info[n].refs > 1

Ref(f, S) == [n \in DOMAIN f |-> IF n \in S THEN [f[n] EXCEPT !.refs = @ + 1] ELSE f[n]]

\* deref(), of an info of f.
Deref(f, n) ==
  IF f[n].refs = 1 THEN Restrict(f, DOMAIN f \ {n}) ELSE [f EXCEPT ![n].refs = @ - 1]

-----------------------------------------------------------------------------
\* Registering.

\* A timer has an info of its own, armed to expire.
NewInfo(i) == [items |-> {i}, refs |-> 1, active |-> TRUE, armed |-> TRUE]

\* The notifiers of a socket share one info, with one reference for each.
Shared(i) == {of[j] : j \in (IF i \in Notifiers THEN Notifiers ELSE {})} \ {None}

\* registerTimer, registerZeroTimer, registerSocketNotifier.
Register(i) ==
  /\ of[i] = None
  /\ IF Shared(i) = {}
     THEN /\ info' = [n \in DOMAIN info \cup {Fresh} |-> IF n = Fresh THEN NewInfo(i) ELSE info[n]]
          /\ of' = [of EXCEPT ![i] = Fresh]
     ELSE LET n == CHOOSE m \in Shared(i) : TRUE
          IN  /\ info' = Ref([info EXCEPT ![n].items = @ \cup {i}], {n})
              /\ of' = [of EXCEPT ![i] = n]

\* Mutant: the info is deleted although others may hold it.
Unregister_Delete(i) ==
  /\ of[i] # None
  /\ "nestedKeeps" \in DispatchRules => Len(stack) <= 1
  /\ info' = Restrict(info, DOMAIN info \ {of[i]})
  /\ of' = [of EXCEPT ![i] = None]

\* unregisterTimer(s), unregisterSocketNotifier. A timer's info keeps its
\* object, a notifier is taken out of its info.
Unregister(i) ==
  /\ of[i] # None
  /\ "nestedKeeps" \in DispatchRules => Len(stack) <= 1
  /\ info' = Deref(IF i \in Notifiers THEN [info EXCEPT ![of[i]].items = @ \ {i}]
                   ELSE info, of[i])
  /\ of' = [of EXCEPT ![i] = None]

-----------------------------------------------------------------------------
\* wakeUp().

WakeUp ==
  /\ wakeups' = TRUE
  /\ eventfd' = (eventfd \/ ~wakeups)

\* The other thread posts an event, or makes the loop exit, and wakes it up:
\* first the flag, then the descriptor.
Post ==
  /\ other = "idle" /\ posts > 0
  /\ posts' = posts - 1
  /\ other' = "wake"
  /\ \/ posted' = posted + 1 /\ UNCHANGED <<exited, interrupt>>
     \/ ~exited /\ exited' = TRUE /\ interrupt' = TRUE /\ posted' = posted
  /\ UNCHANGED <<infoVars, stack, wakeups, eventfd, calls, stale>>

SetFlag ==
  /\ other = "wake"
  /\ wakeups' = TRUE
  /\ other' = IF wakeups THEN "idle" ELSE "write"
  /\ UNCHANGED <<infoVars, stack, posted, exited, interrupt, eventfd, calls, posts, stale>>

WriteFd ==
  /\ other = "write"
  /\ eventfd' = TRUE
  /\ other' = "idle"
  /\ UNCHANGED <<infoVars, stack, posted, exited, interrupt, wakeups, calls, posts, stale>>

OtherThread == Post \/ SetFlag \/ WriteFd

-----------------------------------------------------------------------------
\* processEvents(). A frame: where it is, whether it waits for more events
\* and may block, whether it did something, and the infos it has to process,
\* the one at hand, with the notifiers left to tell. While user code that it
\* called runs, `at` is where it goes on.

Frame(more) == [at |-> "start", more |-> more, wait |-> FALSE, result |-> FALSE,
                todo |-> {}, cur |-> None, left |-> {}, user |-> FALSE]

Top == Last(stack)

At(pc) == stack # <<>> /\ Top.at = pc

\* The innermost frame becomes f.
Becomes(f) == stack' = Front(stack) \o <<[f EXCEPT !.user = FALSE]>>

Leave == stack' = Front(stack)

\* The frame calls user code, and goes on at `then` when that returns.
Calls(f, then) == stack' = Front(stack) \o <<[f EXCEPT !.at = then, !.user = TRUE]>>

\* QEventLoop::exec: while (!exit) processEvents(WaitForMoreEvents).
Loop ==
  /\ stack = <<>> /\ ~exited
  /\ stack' = <<Frame(TRUE)>>
  /\ UNCHANGED <<infoVars, posted, exited, wakeVars, calls, stale, otherVars>>

Start ==
  /\ At("start")
  /\ interrupt' = FALSE
  /\ Becomes([Top EXCEPT !.at = "posted", !.result = posted > 0])
  /\ UNCHANGED <<infoVars, posted, exited, wakeups, eventfd, calls, stale, otherVars>>

\* sendPostedEvents.
SendPosted ==
  /\ At("posted") /\ posted > 0
  /\ posted' = posted - 1
  /\ Calls(Top, "posted")
  /\ UNCHANGED <<infoVars, exited, wakeVars, calls, stale, otherVars>>

\* With no posted event left the zero timers are taken, unless interrupted.
TakeZeroTimers ==
  /\ At("posted") /\ posted = 0
  /\ LET zero == {of[i] : i \in ZeroTimers} \ {None}
     IN  IF interrupt THEN Leave /\ UNCHANGED info
         ELSE /\ Becomes([Top EXCEPT !.at = "zero", !.todo = zero,
                                     !.wait = Top.more /\ ~Top.result])
              /\ info' = Ref(info, zero)
  /\ UNCHANGED <<of, posted, exited, wakeVars, calls, stale, otherVars>>

\* A zero timer fires unless it is firing already.
ZeroTimer ==
  /\ At("zero") /\ Top.todo # {}
  /\ \E n \in Top.todo :
       LET f == [Top EXCEPT !.todo = @ \ {n}]
       IN  IF canProcess(n) /\ info[n].active
           THEN /\ info' = [info EXCEPT ![n].active = FALSE]
                /\ stale' = (stale \/ \E i \in info[n].items : of[i] # n)
                /\ Calls([f EXCEPT !.cur = n, !.result = TRUE], "zeroDone")
           ELSE /\ info' = Deref(info, n)
                /\ Becomes(f)
                /\ UNCHANGED stale
  /\ UNCHANGED <<of, posted, exited, wakeVars, calls, otherVars>>

ZeroTimerDone ==
  /\ At("zeroDone")
  /\ info' = Deref([info EXCEPT ![Top.cur].active = TRUE], Top.cur)
  /\ Becomes([Top EXCEPT !.at = "zero", !.cur = None])
  /\ UNCHANGED <<of, posted, exited, wakeVars, calls, stale, otherVars>>

\* What epoll_wait may report: armed timers that expired, notifiers whose
\* socket is ready, and the event descriptor.
Reports == {S \in SUBSET ({of[i] : i \in Timers \cup Notifiers} \ {None}) :
              \A n \in S : info[n].armed}

\* Blocks unless something was done already.
EpollWait ==
  /\ At("zero") /\ Top.todo = {}
  /\ \E S \in Reports :
       /\ Top.wait /\ ~Top.result => eventfd \/ S # {}
       /\ info' = Ref(info, S)
       /\ Becomes([Top EXCEPT !.at = "run",
                              !.todo = S \cup (IF eventfd THEN {WakeFd} ELSE {})])
  /\ UNCHANGED <<of, posted, exited, wakeVars, calls, stale, otherVars>>

\* Mutant: processes what was unregistered since it was reported.
Run_Blind ==
  /\ At("run") /\ \E n \in Top.todo \ {WakeFd} :
       LET f == [Top EXCEPT !.todo = @ \ {n}, !.cur = n]
       IN  IF info[n].items \subseteq Notifiers
           THEN Becomes([f EXCEPT !.at = "tell", !.left = info[n].items]) /\ UNCHANGED <<info, stale>>
           ELSE /\ info' = [info EXCEPT ![n].armed = FALSE]
                /\ stale' = (stale \/ \E i \in info[n].items : of[i] # n)
                /\ Calls(f, "timerDone")
  /\ UNCHANGED <<of, posted, exited, wakeVars, calls, otherVars>>

\* TimerInfo::process and SocketNotifierInfo::process begin: the timer's
\* descriptor is read and its object called.
Run ==
  /\ At("run") /\ \E n \in Top.todo \ {WakeFd} :
       LET f == [Top EXCEPT !.todo = @ \ {n}, !.cur = n]
       IN  IF ~canProcess(n)
           THEN info' = Deref(info, n) /\ Becomes([f EXCEPT !.cur = None]) /\ UNCHANGED stale
           ELSE IF info[n].items \subseteq Notifiers
           THEN Becomes([f EXCEPT !.at = "tell", !.left = info[n].items]) /\ UNCHANGED <<info, stale>>
           ELSE /\ info' = [info EXCEPT ![n].armed = FALSE]
                /\ stale' = (stale \/ \E i \in info[n].items : of[i] # n)
                /\ Calls(f, "timerDone")
  /\ UNCHANGED <<of, posted, exited, wakeVars, calls, otherVars>>

\* "Check if we are NOT going to be deleted": the timer is set again.
TimerDone ==
  /\ At("timerDone")
  /\ info' = Deref(IF canProcess(Top.cur) THEN [info EXCEPT ![Top.cur].armed = TRUE]
                   ELSE info, Top.cur)
  /\ Becomes([Top EXCEPT !.at = "run", !.cur = None])
  /\ UNCHANGED <<of, posted, exited, wakeVars, calls, stale, otherVars>>

\* One notifier after the other, those that are still there.
Tell ==
  /\ At("tell")
  /\ LET there == Top.left \cap info[Top.cur].items
     IN  IF there = {}
         THEN /\ info' = Deref(info, Top.cur)
              /\ Becomes([Top EXCEPT !.at = "run", !.cur = None, !.left = {}])
              /\ UNCHANGED stale
         ELSE \E i \in there :
                /\ stale' = (stale \/ of[i] # Top.cur)
                /\ Calls([Top EXCEPT !.left = @ \ {i}], "tell")
                /\ UNCHANGED info
  /\ UNCHANGED <<of, posted, exited, wakeVars, calls, otherVars>>

\* wake_up_handler: first the descriptor is read, then the flag reset. A
\* nested loop may have done both.
ReadWakeFd ==
  /\ At("run") /\ WakeFd \in Top.todo
  /\ eventfd' = FALSE
  /\ Becomes([Top EXCEPT !.at = "reset", !.todo = @ \ {WakeFd}])
  /\ UNCHANGED <<infoVars, posted, exited, interrupt, wakeups, calls, stale, otherVars>>

\* Mutant: the flag stays set when the descriptor was read.
ResetFlag_Never ==
  /\ At("reset")
  /\ Becomes([Top EXCEPT !.at = "run"])
  /\ UNCHANGED <<infoVars, posted, exited, wakeVars, calls, stale, otherVars>>

ResetFlag ==
  /\ At("reset")
  /\ wakeups' = FALSE
  /\ Becomes([Top EXCEPT !.at = "run"])
  /\ UNCHANGED <<infoVars, posted, exited, interrupt, eventfd, calls, stale, otherVars>>

Finish ==
  /\ At("run") /\ Top.todo = {}
  /\ Leave
  /\ UNCHANGED <<infoVars, posted, exited, wakeVars, calls, stale, otherVars>>

-----------------------------------------------------------------------------
\* User code.

Nest ==
  /\ Len(stack) < MaxDepth
  /\ "postedFlat" \in DispatchRules => Top.at # "posted"
  /\ \E more \in BOOLEAN : stack' = Append(stack, Frame(more))
  /\ UNCHANGED <<infoVars, exited, wakeVars>>

Exit ==
  /\ ~exited
  /\ exited' = TRUE /\ interrupt' = TRUE
  /\ WakeUp
  /\ UNCHANGED <<infoVars, stack>>

User ==
  /\ stack # <<>> /\ Top.user /\ calls > 0
  /\ calls' = calls - 1
  /\ \/ Nest \/ Exit
     \/ /\ \E i \in Items : Register(i) \/ Unregister(i)
        /\ UNCHANGED <<stack, exited, wakeVars>>
  /\ UNCHANGED <<posted, stale, otherVars>>

Dispatch ==
  \/ Start \/ SendPosted \/ TakeZeroTimers \/ ZeroTimer \/ ZeroTimerDone
  \/ EpollWait \/ Run \/ TimerDone \/ Tell \/ ReadWakeFd \/ ResetFlag \/ Finish
  \/ Loop

\* The infos of items that are registered.
Registered(items) ==
  LET first(i) == IF i \in Notifiers THEN items \cap Notifiers ELSE {i}
      names == SetToSeq({first(i) : i \in items})
  IN  [i \in Items |-> IF i \in items THEN CHOOSE n \in DOMAIN names : names[n] = first(i)
                       ELSE None]

\* When the loop begins everything is registered, or all but zero timers,
\* which keep it from waiting.
Init ==
  /\ of \in {Registered(Items), Registered(Items \ ZeroTimers)}
  /\ info = [n \in Range(of) \ {None} |->
               LET items == {i \in Items : of[i] = n}
               IN  [items |-> items, refs |-> Cardinality(items),
                    active |-> TRUE, armed |-> TRUE]]
  /\ stack = <<>> /\ posted = 0 /\ exited = FALSE
  /\ interrupt = FALSE /\ wakeups = FALSE /\ eventfd = FALSE
  /\ other = "idle" /\ stale = FALSE
  /\ calls \in 1..MaxCalls /\ posts = MaxSteps - 2 * calls

Next == OtherThread \/ Dispatch \/ User

\* The outer loop waits for events that nobody promises.
Waits == Len(stack) = 1 /\ At("zero") /\ Top.todo = {} /\ Top.wait /\ ~Top.result /\ ~eventfd

\* The thread that runs the loop goes on, its receivers return, and a thread
\* that posts goes on to wake the loop up. No timer need expire
\* and no socket be ready, but for a nested loop that waits.
Fairness ==
  /\ WF_epollVars(~Waits /\ Dispatch)
  /\ WF_epollVars(SetFlag \/ WriteFd)

Spec == Init /\ [][Next]_epollVars /\ Fairness

-----------------------------------------------------------------------------

Holds(f, n) == n \in f.todo \/ n = f.cur

\* Who holds each info: its registrations and the loops that have it to do.
Holders(n) ==
  Cardinality({i \in Items : of[i] = n})
  + Cardinality({d \in DOMAIN stack : Holds(stack[d], n)})

\* Type invariant, and the count of references is right: an info lives as
\* long as it is registered or some loop, nested or not, has yet to process
\* it, and no longer.
Counted ==
  /\ DOMAIN info = {n \in 1..(Cardinality(Items) + MaxCalls) : Holders(n) > 0}
  /\ \A n \in DOMAIN info : info[n].refs = Holders(n)
  /\ \A d \in DOMAIN stack : stack[d].left \subseteq Notifiers
  /\ other \in {"idle", "wake", "write"}

\* An event is only sent to what is still registered: an unregistered timer
\* or notifier, whose object may be gone, is not processed although epoll
\* reported it before.
NotStale == ~stale

\* An event posted by another thread is sent, however its wake-up falls
\* between the read of the descriptor, the reset of the flag and the wait.
Delivered == posted > 0 ~> posted = 0 \/ exited

\* When exit was called the loop ends, also when the interrupt came before
\* processEvents began and was forgotten by it.
Quits == exited ~> stack = <<>>

=============================================================================
