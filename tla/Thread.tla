-------------------------------- MODULE Thread --------------------------------
(***************************************************************************)
(* spiderweb::Thread: a worker thread that makes an EventLoop, runs it and *)
(* destroys it, and the callers that start it, post tasks to its loop, ask *)
(* for results through ThreadData::Call and quit it.                       *)
(*                                                                         *)
(* No lock guards `loop`: a call looks whether the loop is running and     *)
(* then uses it, and between the two anything may happen.                  *)
(***************************************************************************)
EXTENDS Integers, Sequences

CONSTANTS
  Callers,
  MaxTasks  \* bound: calls that hand a task to the loop

ASSUME ThreadAssumption == MaxTasks \in Nat

\* What the user owes; what is promised holds until a rule is broken.
\* "noOverlap":   while one caller is in Quit, or in ~Thread, no other is in
\*                a call.
\* "loopStays":   no task quits the loop it runs on.
\* "notOnItself": no task calls Call on its own thread.
\* "whenRunning": Call and AsyncCall are made after a Start returned and
\*                before the first Quit.
AllRules == {"noOverlap", "loopStays", "notOnItself", "whenRunning"}

VARIABLES
  once,     \* once_ of Start: "new", "running", "done"
  routine,  \* where the worker is in Routine
  notified, \* wait_for_satrt was notified
  loop,     \* "null", "alive" or "destroyed" while `loop` still points to it
  stopped,  \* the loop's io_service is stopped
  queue,    \* the loop's tasks
  called,   \* tasks handed out so far, which numbers them
  ran,      \* history: the numbers of the tasks that ran
  pc,       \* of each caller: where it is in a call
  mine,     \* of each caller: the number and kind of the task it posts
  quit,     \* history: Quit or ~Thread was called
  exists,   \* ~Thread was not called
  fault,    \* a destroyed object was used, or an assertion failed
  broken    \* history: the rules the user has broken

workerVars == <<routine, notified, loop, stopped>>
vars == <<once, workerVars, queue, called, ran, pc, mine, quit, exists, fault, broken>>

Kinds == {"plain", "quitLoop", "callItself"}

\* QueueTask of Thread; AsyncCall, AsyncCallThen; Call, New, Destory.
Calls == {"task", "async", "call"}

IsRunning == loop # "null" /\ ~stopped

At(c, label) == pc[c] = label /\ ~fault

Goes(c, label) == pc' = [pc EXCEPT ![c] = label]

Idle(c) == At(c, "idle")

Breaks(rule, when) == IF when THEN {rule} ELSE {}

Quitting(c) == pc[c] \in {"stop", "join"}

Others(c) == Callers \ {c}

-----------------------------------------------------------------------------
\* Calls begin. Each looks at the loop in its first step.

\* call_once: the first caller starts the worker and waits for its notice,
\* others wait for the first.
Start(c) ==
  /\ Idle(c) /\ exists
  /\ once' = IF once = "new" THEN "running" ELSE once
  /\ routine' = IF once = "new" THEN "starting" ELSE routine
  /\ Goes(c, CASE once = "new"     -> "waitStart"
               [] once = "running" -> "waitOnce"
               [] once = "done"    -> "idle")
  /\ broken' = broken \cup Breaks("noOverlap", \E b \in Others(c) : Quitting(b))
  /\ UNCHANGED <<notified, loop, stopped, queue, called, ran, mine, quit, exists, fault>>

\* QueueTask drops the task when the thread does not run; AsyncCall and Call
\* abort then. A look at a loop that is destroyed is a fault.
Enter(c, kind, how) ==
  /\ Idle(c) /\ exists /\ called < MaxTasks
  /\ called' = called + 1
  /\ mine' = [mine EXCEPT ![c] = [id |-> called + 1, kind |-> kind, how |-> how]]
  /\ Goes(c, CASE ~IsRunning -> "idle"
               [] IsRunning /\ how # "task" -> "look"
               [] IsRunning /\ how = "task" -> "post")
  /\ fault' = (loop = "destroyed" \/ (how # "task" /\ ~IsRunning))
  /\ broken' = broken \cup Breaks("noOverlap", \E b \in Others(c) : Quitting(b))
                      \cup Breaks("whenRunning", how # "task" /\ (once # "done" \/ quit))
                      \cup Breaks("loopStays", kind = "quitLoop")
                      \cup Breaks("notOnItself", kind = "callItself")
  /\ UNCHANGED <<once, workerVars, queue, ran, quit, exists>>

\* Mutant: stops the loop and does not wait for the worker.
Quit_StopOnly(c, destroy) ==
  /\ Idle(c) /\ exists
  /\ stopped' = (stopped \/ IsRunning)
  /\ quit' = TRUE
  /\ exists' = ~destroy
  /\ UNCHANGED <<once, routine, notified, loop, pc, queue, called, ran, mine, fault, broken>>

\* Mutant: joins without stopping the loop.
Quit_JoinOnly(c, destroy) ==
  /\ Idle(c) /\ exists
  /\ Goes(c, "join")
  /\ quit' = TRUE
  /\ exists' = ~destroy
  /\ broken' = broken \cup Breaks("noOverlap", \E b \in Others(c) : pc[b] # "idle")
  /\ UNCHANGED <<once, workerVars, queue, called, ran, mine, fault>>

\* Quit, and the same in ~Thread.
Quit(c, destroy) ==
  /\ Idle(c) /\ exists
  /\ Goes(c, IF IsRunning THEN "stop" ELSE "join")
  /\ quit' = TRUE
  /\ exists' = ~destroy
  /\ fault' = (loop = "destroyed")
  /\ broken' = broken \cup Breaks("noOverlap", \E b \in Others(c) : pc[b] # "idle")
  /\ UNCHANGED <<once, workerVars, queue, called, ran, mine>>

-----------------------------------------------------------------------------
\* Calls go on.

\* The end of Start.
Started(c) ==
  /\ \/ At(c, "waitStart") /\ notified
     \/ At(c, "waitOnce") /\ once = "done"
  /\ once' = "done"
  /\ Goes(c, "idle")
  /\ UNCHANGED <<workerVars, queue, called, ran, mine, quit, exists, fault, broken>>

\* AsyncCall and Call looked once; the QueueTask in them looks again, and may
\* drop the task.
Look(c) ==
  /\ At(c, "look")
  /\ Goes(c, CASE IsRunning -> "post"
               [] ~IsRunning /\ mine[c].how = "call" -> "await"
               [] ~IsRunning /\ mine[c].how = "async" -> "idle")
  /\ fault' = (loop = "destroyed")
  /\ UNCHANGED <<once, workerVars, queue, called, ran, mine, quit, exists, broken>>

\* loop->QueueTask. A stopped loop takes the task but will not run it.
Post(c) ==
  /\ At(c, "post")
  /\ fault' = (loop # "alive")
  /\ queue' = Append(queue, mine[c])
  /\ Goes(c, IF mine[c].how = "call" THEN "await" ELSE "idle")
  /\ UNCHANGED <<once, workerVars, called, ran, mine, quit, exists, broken>>

HasRun(id) == \E i \in DOMAIN ran : ran[i] = id

\* The future of a Call is ready.
Answer(c) ==
  /\ At(c, "await") /\ HasRun(mine[c].id)
  /\ Goes(c, "idle")
  /\ UNCHANGED <<once, workerVars, queue, called, ran, mine, quit, exists, fault, broken>>

\* loop->Quit().
StopLoop(c) ==
  /\ At(c, "stop")
  /\ fault' = (loop # "alive")
  /\ stopped' = TRUE
  /\ Goes(c, "join")
  /\ UNCHANGED <<once, routine, notified, loop, queue, called, ran, mine, quit, exists, broken>>

\* WaitForThreadExit.
Join(c) ==
  /\ At(c, "join") /\ routine \in {"none", "ended"}
  /\ Goes(c, "idle")
  /\ UNCHANGED <<once, workerVars, queue, called, ran, mine, quit, exists, fault, broken>>

Caller(c) ==
  \/ Start(c)
  \/ \E kind \in Kinds, how \in Calls : Enter(c, kind, how)
  \/ \E destroy \in BOOLEAN : Quit(c, destroy)

GoesOn(c) ==
  Started(c) \/ Look(c) \/ Post(c) \/ Answer(c) \/ StopLoop(c) \/ Join(c)

-----------------------------------------------------------------------------
\* Routine, on the worker.

RoutineAt(label) == routine = label /\ ~fault

\* Mutant: gives notice before the loop is made.
MakeLoop_Early ==
  /\ RoutineAt("starting")
  /\ IF notified THEN loop' = "alive" /\ routine' = "exec" /\ notified' = notified
                 ELSE loop' = loop /\ routine' = routine /\ notified' = TRUE
  /\ UNCHANGED <<once, stopped, queue, called, ran, pc, mine, quit, exists, fault, broken>>

MakeLoop ==
  /\ RoutineAt("starting")
  /\ loop' = "alive"
  /\ routine' = "notify"
  /\ UNCHANGED <<once, notified, stopped, queue, called, ran, pc, mine, quit, exists,
                 fault, broken>>

Notify ==
  /\ RoutineAt("notify")
  /\ notified' = TRUE
  /\ routine' = "exec"
  /\ UNCHANGED <<once, loop, stopped, queue, called, ran, pc, mine, quit, exists,
                 fault, broken>>

\* Exec takes the next task. One that makes a Call to its own thread waits
\* for a task that is behind it.
RunTask ==
  /\ RoutineAt("exec") /\ ~stopped /\ queue # <<>>
  /\ LET task == Head(queue)
     IN  /\ queue' = Tail(queue)
         /\ stopped' = (task.kind = "quitLoop")
         /\ routine' = IF task.kind = "callItself" THEN "stuck" ELSE routine
         /\ ran' = IF task.kind = "callItself" THEN ran ELSE Append(ran, task.id)
  /\ UNCHANGED <<once, notified, loop, called, pc, mine, quit, exists, fault, broken>>

\* Mutant: the io_service has no `work`, and runs only while it has tasks.
DestroyLoop_NoWork ==
  /\ RoutineAt("exec") /\ (stopped \/ queue = <<>>)
  /\ stopped' = TRUE
  /\ loop' \in {"null", "destroyed"}
  /\ queue' = <<>>
  /\ routine' = "clear"
  /\ UNCHANGED <<once, notified, called, ran, pc, mine, quit, exists, fault, broken>>

\* Exec returns once the loop is stopped. `loop = nullptr` destroys the loop
\* and its tasks; the pointer is cleared before or after, as the library has
\* it, so that others may still see it.
DestroyLoop ==
  /\ RoutineAt("exec") /\ stopped
  /\ loop' \in {"null", "destroyed"}
  /\ queue' = <<>>
  /\ routine' = "clear"
  /\ UNCHANGED <<once, notified, stopped, called, ran, pc, mine, quit, exists, fault, broken>>

\* Mutant: deletes the loop through a raw pointer.
Ended_Dangling ==
  /\ RoutineAt("clear")
  /\ routine' = "ended"
  /\ UNCHANGED <<once, notified, loop, stopped, queue, called, ran, pc, mine, quit,
                 exists, fault, broken>>

Ended ==
  /\ RoutineAt("clear")
  /\ loop' = "null"
  /\ routine' = "ended"
  /\ UNCHANGED <<once, notified, stopped, queue, called, ran, pc, mine, quit, exists,
                 fault, broken>>

Worker == MakeLoop \/ Notify \/ RunTask \/ DestroyLoop \/ Ended

NoTask == [id |-> 0, kind |-> "plain", how |-> "task"]

Init ==
  /\ once = "new"
  /\ routine = "none"
  /\ notified = FALSE
  /\ loop = "null"
  /\ stopped = FALSE
  /\ queue = <<>>
  /\ called = 0
  /\ ran = <<>>
  /\ pc = [c \in Callers |-> "idle"]
  /\ mine = [c \in Callers |-> NoTask]
  /\ quit = FALSE
  /\ exists = TRUE
  /\ fault = FALSE
  /\ broken = {}

Next == Worker \/ \E c \in Callers : Caller(c) \/ GoesOn(c)

\* The system runs the worker and every caller that is inside a call.
Spec == /\ Init /\ [][Next]_vars
        /\ WF_vars(Worker)
        /\ \A c \in Callers : WF_vars(GoesOn(c))

-----------------------------------------------------------------------------
TypeOK ==
  /\ once \in {"new", "running", "done"}
  /\ routine \in {"none", "starting", "notify", "exec", "stuck", "clear", "ended"}
  /\ notified \in BOOLEAN
  /\ loop \in CASE routine \in {"none", "starting", "ended"} -> {"null"}
               [] routine \in {"notify", "exec", "stuck"}   -> {"alive"}
               [] routine = "clear"                         -> {"null", "destroyed"}
  /\ stopped \in BOOLEAN
  /\ called \in 0..MaxTasks
  /\ \A i \in DOMAIN queue : queue[i].id \in 1..called
  /\ \A i \in DOMAIN ran : ran[i] \in 1..called
  /\ \A c \in Callers :
       /\ pc[c] \in {"idle", "waitStart", "waitOnce", "look", "post", "await",
                     "stop", "join"}
       /\ mine[c].id \in 0..called
  /\ quit \in BOOLEAN /\ exists \in BOOLEAN /\ fault \in BOOLEAN
  /\ broken \subseteq AllRules

\* As long as every caller keeps the rules, no call uses a destroyed loop and
\* no assertion of ThreadData fails, whatever the worker is doing meanwhile:
\* the looks of Thread::IsRunning and what follows them are safe unlocked,
\* and a thread runs when Start returns.
NoFault == fault => broken # {}

\* When ~Thread has returned the worker is gone, and with it the loop and its
\* tasks: nothing runs that could touch Thread::Private.
GoneWithThread ==
  ~exists /\ (\A c \in Callers : pc[c] = "idle") /\ broken = {} =>
    routine \in {"none", "ended"} /\ loop = "null" /\ queue = <<>>

Excused == fault \/ broken # {}

\* A Call returns its result, as the task it waits for is run.
CallReturns ==
  \A c \in Callers : (pc[c] = "await") ~> (pc[c] # "await" \/ Excused)

\* Quit and ~Thread return: the worker sees the stop wherever it is.
QuitReturns ==
  \A c \in Callers : Quitting(c) ~> (~Quitting(c) \/ Excused)

=============================================================================
