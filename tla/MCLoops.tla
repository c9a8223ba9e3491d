------------------------------- MODULE MCLoops -------------------------------
(***************************************************************************)
(* A Thread and its loop, and objects and slots of two loops.  Each has    *)
(* its own state; `part` says which of them a behaviour uses.              *)
(*                                                                         *)
(* Thread: two callers, so that one may quit or destroy the thread at any  *)
(* point of the other's call.  EventLoop: two threads, one object and one  *)
(* signal that is emitted three times, in slots that run inside slots.     *)
(***************************************************************************)
EXTENDS Thread, TLC

CONSTANTS
  c1, c2, o1, n1,                                  \* model values
  Threads, Objects, Notifies, MaxEmits, MaxDepth   \* EventLoop

VARIABLES
  part,
  \* EventLoop
  loops, quits, queues, slots, life, home, id, dying, slot, emits, slotsRan,
  quitAgain

threadVars == <<once, workerVars, queue, called, ran, pc, mine, quit, exists>>
objectVars == <<loops, quits, queues, slots, life, home, id, dying, slot, emits,
                slotsRan, quitAgain>>

allVars == <<part, vars, objectVars>>

TwoCallers == {c1, c2}
OneObject  == {o1}
OneNotify  == {n1}

Loop == INSTANCE EventLoop WITH
          loop <- loops, stopped <- quits, queue <- queues, running <- slots,
          ran <- slotsRan

MCInit == /\ part \in {"thread", "loop"}
          /\ Init /\ Loop!Init
          /\ part # "loop" => \A o \in Objects : home[o] = c1

MCNext ==
  /\ UNCHANGED part
  /\ \/ part = "thread" /\ Next /\ UNCHANGED objectVars
     \/ part = "loop" /\ Loop!Next /\ UNCHANGED threadVars

\* No step of a part that the behaviour does not use is ever enabled.
MCSpec == /\ MCInit /\ [][MCNext]_allVars
          /\ WF_vars(part = "thread" /\ Worker)
          /\ \A c \in Callers : WF_vars(part = "thread" /\ GoesOn(c))
          /\ Loop!Fairness

-----------------------------------------------------------------------------

\* As long as its rules are kept, nothing uses a loop or an object that is
\* gone, and of a thread that was destroyed nothing is left.
NoGoneUse == /\ part = "thread" => TypeOK /\ NoFault /\ GoneWithThread
             /\ part = "loop" => Loop!NoGoneUse

\* Call, Quit and ~Thread return.
CallsReturn == CallReturns /\ QuitReturns

\* Slots run on the thread of their object, once and in order.
RunsAtHome == part = "loop" => Loop!RunsAtHome

\* DeleteLater deletes, also behind a Quit.
Deleted == Loop!Deleted

=============================================================================
