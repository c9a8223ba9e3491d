------------------------------- MODULE MCTimers -------------------------------
(***************************************************************************)
(* Timers, and the event dispatcher that serves timers and sockets of a Qt *)
(* thread.  Each has its own state; `part` says which of them a behaviour  *)
(* uses.                                                                   *)
(*                                                                         *)
(* Timer: a short and a long timeout, and a user who adds to a queue of    *)
(* two at most.  EPoll: a timer, a zero timer and two notifiers of one     *)
(* socket, a loop nested in a receiver, and another thread that posts.     *)
(***************************************************************************)
EXTENDS Timer, FiniteSets

CONSTANTS QtTimers, ZeroTimers, Notifiers, MaxDepth, MaxCalls, MaxSteps, DispatchRules

ASSUME DispatchAssumption ==
  /\ IsFiniteSet(QtTimers \cup ZeroTimers \cup Notifiers) /\ MaxCalls \in Nat
  /\ (QtTimers \cup ZeroTimers) \cap Notifiers = {}

VARIABLES
  part,
  info, of, stack, posted, exited, interrupt, wakeups, eventfd, other, calls,
  posts, stale

epollVars == <<info, of, stack, posted, exited, interrupt, wakeups, eventfd,
               other, calls, posts, stale>>

allVars == <<part, vars, epollVars>>

TwoIntervals == {1, 2}

Followed == {"nestedKeeps", "postedFlat"}

Qt == INSTANCE EPoll WITH Timers <- QtTimers

MCInit == /\ part \in {"timer", "epoll"}
          /\ Init /\ Qt!Init
          /\ part # "timer" => ~singalShot /\ timeoutms = 1
          /\ part # "epoll" => calls = 1 /\ \A i \in DOMAIN of : of[i] # 0

Timers == /\ part = "timer" /\ Next
          /\ UNCHANGED epollVars

Dispatches == /\ part = "epoll" /\ Qt!Next
              /\ UNCHANGED vars

MCNext == UNCHANGED part /\ (Timers \/ Dispatches)

\* Nothing is asked of the part that a behaviour does not use: there Tick and
\* Dispatch could go on, and the other steps are never enabled.
MCSpec == /\ MCInit /\ [][MCNext]_allVars
          /\ WF_vars(part = "timer" /\ Tick) /\ WF_vars(Expire) /\ WF_vars(Loop)
          /\ WF_epollVars(part = "epoll" /\ ~Qt!Waits /\ Qt!Dispatch)
          /\ WF_epollVars(Qt!SetFlag \/ Qt!WriteFd)

-----------------------------------------------------------------------------

\* What is registered is counted by those who hold it and freed with the
\* last; only what is registered is sent an event.
Registered == Qt!Counted /\ Qt!NotStale

\* What another thread posts is delivered, and a loop that was told to exit
\* ends.
NeverAsleep == Qt!Delivered /\ Qt!Quits

=============================================================================
