------------------------------- MODULE Connector -------------------------------
(***************************************************************************)
(* net::TcpSocketConnector: each attempt is a new TcpSocket and a new      *)
(* single shot Timer that closes the socket when the deadline passes.      *)
(* Attempts are numbered.  Of the socket only the opening is modelled, of  *)
(* the timer only its one expiry; IoStream and Timer have the rest.        *)
(*                                                                         *)
(* All of it runs on one event loop.  Completions and posted deletes wait  *)
(* in its queue, so an answer may be queued when the deadline passes, when *)
(* the user cancels, and when the user begins the next attempt.            *)
(***************************************************************************)
EXTENDS Integers, Sequences

CONSTANTS
  MaxAttempts  \* bound: calls of ConnectToHost that begin an attempt

ASSUME ConnectorAssumption == MaxAttempts \in Nat

\* Nothing keeps the user from breaking a rule of use; what is promised holds
\* until then.
\* "goodAddress":   ConnectToHost is given an address that can be parsed.
\* "waitForAnswer": after CancelConnect the next ConnectToHost waits until
\*                  the cancelled attempt is answered.
\* "deleteIdle":    the connector is deleted when no attempt is pending, by
\*                  DeleteLater, and not used afterwards.
\* "noOptions":     no option is set on a socket the connector handed out,
\*                  or none that the system refuses.
AllRules == {"goodAddress", "waitForAnswer", "deleteIdle", "noOptions"}

Attempts == 1..MaxAttempts

VARIABLES
  pending,   \* Private::pending: an attempt, 0 for null
  begun,     \* attempts up to this one were begun
  sock,      \* the socket of each attempt
  waiting,   \* the attempts whose timer's wait is pending
  running,   \* those whose timer has is_running set
  ready,     \* the loop's queue
  alive,     \* what was not deleted: <<"timer", a>>, <<"socket", a>>, Itself
  deleting,  \* the user's DeleteLater of the connector was called
  cancelled, \* history: the attempts the user cancelled
  answers,   \* history: the signals emitted for each attempt
  fault,     \* a deleted object was used or assert(!d->pending) failed
  broken     \* history: the rules the user has broken

vars == <<pending, begun, sock, waiting, running, ready, alive, deleting,
          cancelled, answers, fault, broken>>

Itself == <<"connector", 0>>

TimerOf(a)  == <<"timer", a>>
SocketOf(a) == <<"socket", a>>

Opened(a, ok)  == [op |-> "open", what |-> SocketOf(a), ok |-> ok]
Fired(a)       == [op |-> "fired", what |-> TimerOf(a), ok |-> TRUE]
Deletion(what) == [op |-> "delete", what |-> what, ok |-> TRUE]

\* An attempt that began and whose connect was not answered.
InFlight(a) == a <= begun /\ sock[a] # "unopened" /\ answers[a] = <<>>

-----------------------------------------------------------------------------
\* The user.

\* After a fault nothing is known, and the model ends.
MayCall == Itself \in alive /\ ~fault

Breaks(rule, when) == broken' = IF when THEN broken \cup {rule} ELSE broken

BrokenBy(good) ==
  {rule \in AllRules :
     \/ rule = "goodAddress" /\ ~good
     \/ rule = "deleteIdle" /\ deleting
     \/ rule = "waitForAnswer" /\ \E a \in Attempts : InFlight(a)}

\* Does nothing while an attempt is pending. An address that cannot be
\* parsed throws after everything but the connect was done.
ConnectToHost(good) ==
  /\ MayCall /\ pending = 0 /\ begun < MaxAttempts
  /\ broken' = broken \cup BrokenBy(good)
  /\ LET a == begun + 1
     IN  /\ begun' = a
         /\ pending' = a
         /\ sock' = [sock EXCEPT ![a] = IF good THEN "connecting" ELSE @]
         /\ waiting' = waiting \cup {a}
         /\ running' = running \cup {a}
         /\ alive' = alive \cup {TimerOf(a), SocketOf(a)}
  /\ UNCHANGED <<ready, deleting, cancelled, answers, fault>>

\* Mutant: fails also a connect whose answer is queued.
Closed_Twice(a, queue) ==
  /\ sock' = [sock EXCEPT ![a] = IF @ = "unopened" THEN @ ELSE "closed"]
  /\ ready' = IF sock[a] \in {"unopened", "closed"} THEN queue
              ELSE Append(queue, Opened(a, FALSE))

\* DisConnectFromHost: a connect that was not answered fails now.
Closed(a, queue) ==
  /\ sock' = [sock EXCEPT ![a] = IF @ = "unopened" THEN @ ELSE "closed"]
  /\ ready' = IF sock[a] = "connecting" THEN Append(queue, Opened(a, FALSE))
                                        ELSE queue

\* Mutant: deletes the socket, as its slot will.
CancelConnect_Delete ==
  /\ MayCall /\ pending # 0
  /\ Closed(pending, Append(ready, Deletion(SocketOf(pending))))
  /\ pending' = 0
  /\ cancelled' = cancelled \cup {pending}
  /\ UNCHANGED <<begun, waiting, running, alive, deleting, answers, fault, broken>>

\* Mutant: the attempt stays pending until it is answered.
CancelConnect_Later ==
  /\ MayCall /\ pending # 0
  /\ Closed(pending, ready)
  /\ cancelled' = cancelled \cup {pending}
  /\ UNCHANGED <<pending, begun, waiting, running, alive, deleting, answers, fault, broken>>

CancelConnect ==
  /\ MayCall /\ pending # 0
  /\ Closed(pending, ready)
  /\ pending' = 0
  /\ cancelled' = cancelled \cup {pending}
  /\ UNCHANGED <<begun, waiting, running, alive, deleting, answers, fault, broken>>

DeleteLater ==
  /\ MayCall /\ ~deleting
  /\ Breaks("deleteIdle", pending # 0)
  /\ deleting' = TRUE
  /\ ready' = Append(ready, Deletion(Itself))
  /\ UNCHANGED <<pending, begun, sock, waiting, running, alive, cancelled,
                 answers, fault>>

\* A connector on the stack is destroyed at once.
Destroy ==
  /\ MayCall /\ ~deleting
  /\ Breaks("deleteIdle", TRUE)
  /\ alive' = alive \ {Itself}
  /\ fault' = (fault \/ pending # 0)
  /\ UNCHANGED <<pending, begun, sock, waiting, running, ready, deleting,
                 cancelled, answers>>

-----------------------------------------------------------------------------
\* The connector's slots. They stay connected to a socket it handed out.

Signalled(a, signal) == answers' = [answers EXCEPT ![a] = Append(@, signal)]

\* DeleteLater of the timer, and of a socket that failed.
Deletions(a, signal) ==
  IF signal = "established"
  THEN <<Deletion(TimerOf(a))>>
  ELSE <<Deletion(TimerOf(a)), Deletion(SocketOf(a))>>

\* Mutant: the timer is deleted but not stopped.
Slot_KeepTimer(a, signal, queue) ==
  /\ fault' = (fault \/ ~({Itself, TimerOf(a)} \subseteq alive))
  /\ pending' = 0
  /\ UNCHANGED <<running, waiting>>
  /\ Signalled(a, signal)
  /\ ready' = queue \o Deletions(a, signal)

\* Mutant: the timer's wait is not cancelled.
Slot_KeepWait(a, signal, queue) ==
  /\ fault' = (fault \/ ~({Itself, TimerOf(a)} \subseteq alive))
  /\ pending' = 0
  /\ running' = running \ {a}
  /\ waiting' = waiting
  /\ Signalled(a, signal)
  /\ ready' = queue \o Deletions(a, signal)

\* Mutant: a failed socket is not deleted.
Slot_KeepSocket(a, signal, queue) ==
  /\ fault' = (fault \/ ~({Itself, TimerOf(a)} \subseteq alive))
  /\ pending' = 0
  /\ running' = running \ {a}
  /\ waiting' = waiting \ {a}
  /\ Signalled(a, signal)
  /\ ready' = Append(queue, Deletion(TimerOf(a)))

\* The slots of ConnectionEstablished, ConnectError and SetOptionError.
Slot(a, signal, queue) ==
  /\ fault' = (fault \/ ~({Itself, TimerOf(a)} \subseteq alive))
  /\ pending' = 0
  /\ running' = running \ {a}
  /\ waiting' = waiting \ {a}
  /\ Signalled(a, signal)
  /\ ready' = queue \o Deletions(a, signal)

HandedOut(a) == ~fault /\ answers[a] = <<"established">> /\ SocketOf(a) \in alive

\* The owner of an established socket deletes it, or sets an option and the
\* system refuses.
UserDeletes(a) ==
  /\ HandedOut(a)
  /\ \A i \in DOMAIN ready : ready[i] # Deletion(SocketOf(a))
  /\ ready' = Append(ready, Deletion(SocketOf(a)))
  /\ UNCHANGED <<pending, begun, sock, waiting, running, alive, deleting,
                 cancelled, answers, fault, broken>>

OptionFails(a) ==
  /\ HandedOut(a)
  /\ Breaks("noOptions", TRUE)
  /\ Slot(a, "optionError", ready)
  /\ UNCHANGED <<begun, sock, alive, deleting, cancelled>>

User ==
  \/ \E good \in BOOLEAN : ConnectToHost(good)
  \/ CancelConnect
  \/ DeleteLater
  \/ Destroy
  \/ \E a \in Attempts : UserDeletes(a) \/ OptionFails(a)

-----------------------------------------------------------------------------
\* The network and the clock.

ConnectDone(a, ok) ==
  /\ sock[a] = "connecting" /\ ~fault
  /\ sock' = [sock EXCEPT ![a] = IF ok THEN "connected" ELSE "failed"]
  /\ ready' = Append(ready, Opened(a, ok))
  /\ UNCHANGED <<pending, begun, waiting, running, alive, deleting, cancelled,
                 answers, fault, broken>>

Expire(a) ==
  /\ a \in waiting /\ ~fault
  /\ waiting' = waiting \ {a}
  /\ ready' = Append(ready, Fired(a))
  /\ UNCHANGED <<pending, begun, sock, running, alive, deleting, cancelled,
                 answers, fault, broken>>

-----------------------------------------------------------------------------
\* The loop. An aborted wait's handler does nothing and is left out.

Runs(op, what) ==
  /\ ready # <<>> /\ ~fault
  /\ Head(ready).op = op /\ Head(ready).what = what

\* HandleOpen. Closing the socket does not recall an answer that is queued,
\* so a connect that had succeeded is established although it is closed.
HandleOpen(a) ==
  /\ Runs("open", SocketOf(a))
  /\ Slot(a, IF Head(ready).ok THEN "established" ELSE "error", Tail(ready))
  /\ sock' = [sock EXCEPT ![a] = IF Head(ready).ok THEN @ ELSE "closed"]
  /\ UNCHANGED <<begun, alive, deleting, cancelled, broken>>

\* Timeout: unless the timer was stopped, its slot closes the socket.
HandleFired(a) ==
  /\ Runs("fired", TimerOf(a))
  /\ running' = running \ {a}
  /\ IF a \in running THEN Closed(a, Tail(ready))
                      ELSE ready' = Tail(ready) /\ sock' = sock
  /\ fault' = (fault \/ TimerOf(a) \notin alive
                     \/ (a \in running /\ SocketOf(a) \notin alive))
  /\ UNCHANGED <<pending, begun, waiting, alive, deleting, cancelled, answers, broken>>

\* ~Timer cancels its wait, ~TcpSocketConnector asserts that nothing is
\* pending. To delete twice is a fault.
Delete(what) ==
  /\ Runs("delete", what)
  /\ ready' = Tail(ready)
  /\ alive' = alive \ {what}
  /\ waiting' = {a \in waiting : TimerOf(a) # what}
  /\ fault' = (fault \/ what \notin alive \/ (what = Itself /\ pending # 0))
  /\ UNCHANGED <<pending, begun, sock, running, deleting, cancelled, answers, broken>>

Loop ==
  \/ \E a \in Attempts : \/ HandleOpen(a)
                         \/ HandleFired(a)
                         \/ Delete(TimerOf(a))
                         \/ Delete(SocketOf(a))
  \/ Delete(Itself)

Init ==
  /\ pending = 0
  /\ begun = 0
  /\ sock = [a \in Attempts |-> "unopened"]
  /\ waiting = {}
  /\ running = {}
  /\ ready = <<>>
  /\ alive = {Itself}
  /\ deleting = FALSE
  /\ cancelled = {}
  /\ answers = [a \in Attempts |-> <<>>]
  /\ fault = FALSE
  /\ broken = {}

Next ==
  \/ User
  \/ \E a \in Attempts : Expire(a) \/ \E ok \in BOOLEAN : ConnectDone(a, ok)
  \/ Loop

\* Time passes and the loop runs its queue. Nothing makes a peer answer.
Spec == /\ Init /\ [][Next]_vars
        /\ WF_vars(Loop)
        /\ \A a \in Attempts : WF_vars(Expire(a))

-----------------------------------------------------------------------------

Signals == {"established", "error", "optionError"}

\* Type invariant.
TypeOK ==
  /\ pending \in 0..begun
  /\ begun \in 0..MaxAttempts
  /\ sock \in [Attempts -> {"unopened", "connecting", "connected", "failed", "closed"}]
  /\ waiting \subseteq running
  /\ running \subseteq 1..begun
  /\ alive \subseteq {Itself} \cup {TimerOf(a) : a \in 1..begun}
                              \cup {SocketOf(a) : a \in 1..begun}
  /\ deleting \in BOOLEAN
  /\ cancelled \subseteq 1..begun
  /\ answers \in [Attempts -> Seq(Signals)]
  /\ fault \in BOOLEAN
  /\ broken \subseteq AllRules

\* The slots hold plain pointers to the connector, the timer and the socket:
\* none of them is used after it was deleted, nor deleted twice, whatever is
\* queued behind what.
NoFault == fault => broken \ {"goodAddress"} # {}

\* An attempt is answered once at most, though the connect, the deadline and
\* the user's cancel all end it, and other attempts may run beside it.
AnsweredOnce ==
  \A a \in Attempts : Len(answers[a]) > 1 => "noOptions" \in broken

\* `pending` is the attempt that CancelConnect can still stop and that keeps
\* the next one from beginning: the slots of another do not clear it.
PendingIsCurrent ==
  \/ fault
  \/ broken \cap {"goodAddress", "waitForAnswer", "noOptions"} # {}
  \/ \A a \in Attempts : (pending = a) = (InFlight(a) /\ a \notin cancelled)

\* Every attempt is answered once, no slot uses a deleted object, and `pending`
\* is the attempt under way.
AttemptsAnswered == TypeOK /\ NoFault /\ AnsweredOnce /\ PendingIsCurrent

\* The deadline of an attempt never closes a socket that was handed out.
KeepsEstablished ==
  [][\A a \in Attempts : answers[a] = <<"established">> => sock'[a] = sock[a]]_vars

\* Every attempt is answered, if by nothing else then by its deadline. Then
\* its timer is deleted in the end, and its socket when it failed.
Answered ==
  \A a \in Attempts :
    /\ InFlight(a) ~> answers[a] # <<>> \/ fault
    /\ answers[a] # <<>> ~> TimerOf(a) \notin alive \/ fault
    /\ answers[a] = <<"error">> ~> SocketOf(a) \notin alive \/ fault

\* A cancelled attempt is answered by ConnectError.
CancelFails ==
  \A a \in cancelled : answers[a] \in {<<>>, <<"error">>}

=============================================================================
