------------------------------- MODULE LoopProofs -------------------------------
(***************************************************************************)
(* Theorems about Thread and about loops, objects and notifies: the       *)
(* inductive invariants behind their safety, for any number of threads,   *)
(* callers, objects and notifies.                                          *)
(***************************************************************************)
EXTENDS MCLoops, TLAPS

-----------------------------------------------------------------------------
\* A thread and its callers.

Tasks == [id : Nat, kind : Kinds, how : Calls]

Labels == {"idle", "waitStart", "waitOnce", "look", "post", "await", "stop", "join"}

Routines == {"none", "starting", "notify", "exec", "stuck", "clear", "ended"}

Posts(c) == pc[c] \in {"look", "post"}

LoopIn(l, r) ==
  /\ r \in {"none", "starting", "ended"} => l = "null"
  /\ r \in {"notify", "exec", "stuck"} => l = "alive"
  /\ r = "clear" => l \in {"null", "destroyed"}

ThreadTypes ==
  /\ once \in {"new", "running", "done"}
  /\ routine \in Routines /\ LoopIn(loop, routine)
  /\ notified \in BOOLEAN /\ stopped \in BOOLEAN
  /\ quit \in BOOLEAN /\ exists \in BOOLEAN /\ fault \in BOOLEAN
  /\ called \in 0..MaxTasks
  /\ queue \in Seq(Tasks) /\ \A i \in DOMAIN queue : queue[i].id \in 1..called
  /\ ran \in Seq(1..called)
  /\ pc \in [Callers -> Labels] /\ mine \in [Callers -> Tasks]
  /\ \A c \in Callers : mine[c].id <= called /\ (Posts(c) => mine[c].id >= 1)
  /\ \A c \in Callers : pc[c] = "look" => mine[c].how # "task"
  /\ once = "new" => routine = "none"
  /\ broken \subseteq AllRules

\* What holds as long as the rules are kept.  Who quits is alone, so that the
\* loop is stopped only for one who waits for the worker, and no caller is
\* between its look at the loop and its use of it.
Calm ==
  /\ ~fault /\ routine # "stuck"
  /\ \A i \in DOMAIN queue : queue[i].kind = "plain"
  /\ \A c \in Callers : mine[c].kind = "plain"
  /\ \A c \in Callers : Quitting(c) => quit /\ \A b \in Others(c) : pc[b] = "idle"
  /\ \A c \in Callers : pc[c] = "stop" \/ Posts(c) => loop = "alive" /\ ~stopped
  /\ notified <=> routine \in {"exec", "clear", "ended"}
  /\ once = "done" => notified
  /\ routine \in {"none", "starting"} => ~stopped
  /\ routine \in {"clear", "ended"} => stopped
  /\ stopped => quit
  /\ stopped /\ routine # "ended" => \E c \in Callers : pc[c] = "join"
  /\ ~exists => routine \in {"none", "ended"} \/ \E c \in Callers : Quitting(c)
  /\ routine \in {"none", "starting", "clear", "ended"} => queue = <<>>

ThreadInv == ThreadTypes /\ (broken = {} => Calm)

LEMMA TypesKept == ASSUME ThreadAssumption, ThreadTypes PROVE TypeOK
<1>1. /\ routine \in {"none", "starting", "ended"} => loop = "null"
      /\ routine \in {"notify", "exec", "stuck"} => loop = "alive"
      /\ routine = "clear" => loop \in {"null", "destroyed"}
      /\ routine \in Routines
  BY DEF ThreadTypes, LoopIn
<1>2. loop \in CASE routine \in {"none", "starting", "ended"} -> {"null"}
                 [] routine \in {"notify", "exec", "stuck"}   -> {"alive"}
                 [] routine = "clear"                         -> {"null", "destroyed"}
  BY <1>1 DEF Routines
<1>3. \A c \in Callers : pc[c] \in Labels /\ mine[c].id \in 0..called
  <2> SUFFICES ASSUME NEW c \in Callers PROVE pc[c] \in Labels /\ mine[c].id \in 0..called
    OBVIOUS
  <2>1. mine[c] \in Tasks /\ mine[c].id <= called /\ pc[c] \in Labels /\ called \in Nat
    BY DEF ThreadTypes, ThreadAssumption
  <2>2. mine[c].id \in Nat
    BY <2>1 DEF Tasks
  <2> QED BY <2>1, <2>2
<1> QED BY <1>1, <1>2, <1>3 DEF TypeOK, ThreadTypes, Labels, Routines

\* A caller goes on to another label.
LEMMA Labelled ==
  ASSUME NEW c \in Callers, NEW l \in Labels, pc \in [Callers -> Labels], Goes(c, l)
  PROVE  /\ pc' \in [Callers -> Labels] /\ pc'[c] = l
         /\ \A b \in Callers : b # c => pc'[b] = pc[b]
BY DEF Goes

LEMMA BreaksARule ==
  ASSUME NEW r, NEW b PROVE /\ b => Breaks(r, b) = {r}
                            /\ ~b => Breaks(r, b) = {}
BY DEF Breaks

\* No step of a caller loses a type.
LEMMA CallerTypes ==
  ASSUME ThreadAssumption, ThreadTypes, NEW c \in Callers, Caller(c) \/ GoesOn(c)
  PROVE  ThreadTypes'
<1> USE DEF Routines
<1>0. /\ pc \in [Callers -> Labels] /\ mine \in [Callers -> Tasks] /\ called \in Nat
      /\ queue \in Seq(Tasks) /\ ran \in Seq(1..called) /\ called <= MaxTasks
      /\ \A i \in DOMAIN queue : queue[i].id \in 1..called
      /\ \A b \in Callers : mine[b].id <= called /\ (Posts(b) => mine[b].id >= 1)
      /\ \A b \in Callers : pc[b] = "look" => mine[b].how # "task"
      /\ once = "new" => routine = "none"
      /\ broken \subseteq AllRules
  BY DEF ThreadTypes, ThreadAssumption
\* The calls go on and write nothing but their labels.
<1>1. ASSUME NEW l \in Labels, Goes(c, l), l \in {"look", "post"} => Posts(c),
             l = "look" => pc[c] = "look",
             UNCHANGED <<queue, called, ran, mine, routine, notified, loop>>,
             once' \in {once, "done"}, stopped' \in BOOLEAN,
             quit' \in BOOLEAN, exists' \in BOOLEAN, fault' \in BOOLEAN,
             broken' \subseteq AllRules
      PROVE  ThreadTypes'
  <2>1. /\ pc' \in [Callers -> Labels] /\ pc'[c] = l
        /\ \A b \in Callers : b # c => pc'[b] = pc[b]
    BY <1>0, <1>1, Labelled
  <2>2. \A b \in Callers : Posts(b)' => Posts(b)
    BY <1>1, <2>1 DEF Posts
  <2>5. \A b \in Callers : pc'[b] = "look" => mine'[b].how # "task"
    BY <1>0, <1>1, <2>1
  <2>6. once' \in {"new", "running", "done"} /\ (once' = "new" => routine' = "none")
    BY <1>0, <1>1 DEF ThreadTypes
  <2>3. LoopIn(loop, routine)' /\ notified' \in BOOLEAN /\ routine' \in Routines
    BY <1>1 DEF ThreadTypes, LoopIn
  <2>4. \A b \in Callers : mine'[b].id <= called' /\ (Posts(b)' => mine'[b].id >= 1)
    BY <1>0, <1>1, <2>2
  <2> QED BY <1>0, <1>1, <2>1, <2>3, <2>4, <2>5, <2>6 DEF ThreadTypes
<1>2. ASSUME Start(c) PROVE ThreadTypes'
  <2>1. broken' \subseteq AllRules
    BY <1>0, <1>2 DEF Start, Breaks, AllRules
  <2>2. PICK l \in Labels : Goes(c, l) /\ l \notin {"look", "post"}
    BY <1>2 DEF Start, ThreadTypes, Labels
  <2>3. /\ pc' \in [Callers -> Labels] /\ pc'[c] = l
        /\ \A b \in Callers : b # c => pc'[b] = pc[b]
    BY <1>0, <2>2, Labelled
  <2>4. \A b \in Callers : Posts(b)' => Posts(b)
    BY <2>2, <2>3 DEF Posts
  <2>5. /\ once' = IF once = "new" THEN "running" ELSE once
        /\ routine' = IF once = "new" THEN "starting" ELSE routine
        /\ UNCHANGED <<notified, loop, stopped, queue, called, ran, mine, quit, exists, fault>>
    BY <1>2 DEF Start
  <2>6. /\ once' \in {"new", "running", "done"} /\ once' # "new"
        /\ routine' \in Routines /\ LoopIn(loop, routine)'
    BY <1>0, <2>5 DEF ThreadTypes, LoopIn
  <2>7. \A b \in Callers : pc'[b] = "look" => mine'[b].how # "task"
    BY <1>0, <2>2, <2>3, <2>5
  <2> QED BY <1>0, <2>1, <2>3, <2>4, <2>5, <2>6, <2>7 DEF ThreadTypes
<1>3. ASSUME NEW kind \in Kinds, NEW how \in Calls, Enter(c, kind, how) PROVE ThreadTypes'
  <2> DEFINE task == [id |-> called + 1, kind |-> kind, how |-> how]
  <2>1. broken' \subseteq AllRules
    BY <1>0, <1>3 DEF Enter, Breaks, AllRules
  <2>2. PICK l \in Labels : Goes(c, l) /\ (l = "look" => how # "task")
    BY <1>3 DEF Enter, Labels
  <2>3. /\ pc' \in [Callers -> Labels] /\ pc'[c] = l
        /\ \A b \in Callers : b # c => pc'[b] = pc[b]
    BY <1>0, <2>2, Labelled
  <2>4. /\ called' = called + 1 /\ mine' = [mine EXCEPT ![c] = task] /\ called < MaxTasks
        /\ UNCHANGED <<once, workerVars, queue, ran, quit, exists>> /\ fault' \in BOOLEAN
    BY <1>3 DEF Enter
  <2>5. task \in Tasks /\ task.id = called + 1
    BY <1>0 DEF Tasks
  <2>11. task.how = how
    OBVIOUS
  <2> HIDE DEF task
  <2>6. /\ mine' \in [Callers -> Tasks] /\ mine'[c] = task
        /\ \A b \in Callers : b # c => mine'[b] = mine[b]
    BY <1>0, <2>4, <2>5
  <2>7. \A b \in Callers : b # c => (Posts(b)' => Posts(b))
    BY <2>3 DEF Posts
  <2>8. \A b \in Callers : mine'[b].id <= called' /\ (Posts(b)' => mine'[b].id >= 1)
    <3> SUFFICES ASSUME NEW b \in Callers
                 PROVE  mine'[b].id <= called' /\ (Posts(b)' => mine'[b].id >= 1)
      OBVIOUS
    <3>1. CASE b = c
      BY <1>0, <2>4, <2>5, <2>6, <3>1
    <3>2. CASE b # c
      <4>1. mine[b].id \in Nat /\ mine[b].id <= called
        BY <1>0 DEF Tasks
      <4> QED BY <1>0, <2>4, <2>6, <2>7, <3>2, <4>1
    <3> QED BY <3>1, <3>2
  <2>9. /\ ran' \in Seq(1..called') /\ called' \in 0..MaxTasks
        /\ queue' \in Seq(Tasks) /\ \A i \in DOMAIN queue' : queue'[i].id \in 1..called'
    BY <1>0, <2>4 DEF ThreadAssumption
  <2>10. LoopIn(loop, routine)' /\ notified' \in BOOLEAN /\ routine' \in Routines
         /\ once' \in {"new", "running", "done"} /\ stopped' \in BOOLEAN
         /\ quit' \in BOOLEAN /\ exists' \in BOOLEAN /\ (once' = "new" => routine' = "none")
    BY <2>4 DEF ThreadTypes, LoopIn, workerVars
  <2>12. \A b \in Callers : pc'[b] = "look" => mine'[b].how # "task"
    BY <1>0, <2>2, <2>3, <2>6, <2>11
  <2> QED BY <2>1, <2>3, <2>4, <2>6, <2>8, <2>9, <2>10, <2>12 DEF ThreadTypes
<1>4. ASSUME NEW destroy \in BOOLEAN, Quit(c, destroy) PROVE ThreadTypes'
  <2>1. broken' \subseteq AllRules
    BY <1>0, <1>4 DEF Quit, Breaks, AllRules
  <2>2. PICK l \in Labels : Goes(c, l) /\ l \notin {"look", "post"}
    BY <1>4 DEF Quit, Labels
  <2> QED BY <1>1, <1>4, <2>1, <2>2 DEF Quit, ThreadTypes, workerVars
<1>5. ASSUME Started(c) PROVE ThreadTypes'
  BY <1>1, <1>5 DEF Started, ThreadTypes, workerVars, Labels
<1>6. ASSUME Look(c) PROVE ThreadTypes'
  <2>1. pc[c] = "look" /\ Posts(c) /\ mine[c].how \in {"call", "async"}
    <3>1. pc[c] = "look" /\ mine[c] \in Tasks
      BY <1>0, <1>6 DEF Look, At
    <3> QED BY <1>0, <3>1 DEF Posts, Tasks, Calls
  <2>2. PICK l \in Labels : Goes(c, l) /\ l # "look"
    BY <1>6, <2>1 DEF Look, Labels
  <2> QED BY <1>1, <1>6, <2>1, <2>2 DEF Look, ThreadTypes, workerVars
<1>7. ASSUME Post(c) PROVE ThreadTypes'
  <2>1. mine[c] \in Tasks /\ mine[c].id \in 1..called
    BY <1>0, <1>7 DEF Post, At, Posts, Tasks
  <2>2. /\ queue' = Append(queue, mine[c]) /\ fault' \in BOOLEAN
        /\ UNCHANGED <<once, workerVars, called, ran, mine, quit, exists, broken>>
    BY <1>7 DEF Post
  <2>3. queue' \in Seq(Tasks) /\ \A i \in DOMAIN queue' : queue'[i].id \in 1..called
    BY <1>0, <2>1, <2>2
  <2>4. PICK l \in Labels : Goes(c, l) /\ l \notin {"look", "post"}
    BY <1>7 DEF Post, Labels
  <2>5. /\ pc' \in [Callers -> Labels] /\ pc'[c] = l
        /\ \A b \in Callers : b # c => pc'[b] = pc[b]
    BY <1>0, <2>4, Labelled
  <2>6. \A b \in Callers : Posts(b)' => Posts(b)
    BY <2>4, <2>5 DEF Posts
  <2>7. LoopIn(loop, routine)' /\ routine' \in Routines
    BY <2>2 DEF ThreadTypes, LoopIn, workerVars
  <2>8. \A b \in Callers : pc'[b] = "look" => mine'[b].how # "task"
    BY <1>0, <2>2, <2>4, <2>5
  <2> QED BY <1>0, <2>2, <2>3, <2>5, <2>6, <2>7, <2>8 DEF ThreadTypes, workerVars
<1>8. ASSUME Answer(c) PROVE ThreadTypes'
  BY <1>1, <1>8 DEF Answer, ThreadTypes, workerVars, Labels
<1>9. ASSUME StopLoop(c) PROVE ThreadTypes'
  BY <1>1, <1>9 DEF StopLoop, ThreadTypes, workerVars, Labels
<1>10. ASSUME Join(c) PROVE ThreadTypes'
  BY <1>1, <1>10 DEF Join, ThreadTypes, workerVars, Labels
<1> QED BY <1>2, <1>3, <1>4, <1>5, <1>6, <1>7, <1>8, <1>9, <1>10 DEF Caller, GoesOn

LEMMA WorkerTypes ==
  ASSUME ThreadAssumption, ThreadTypes, Worker PROVE ThreadTypes'
<1> USE DEF Routines
<1>1. /\ once # "new" /\ queue \in Seq(Tasks) /\ ran \in Seq(1..called)
      /\ \A i \in DOMAIN queue : queue[i].id \in 1..called
  BY DEF ThreadTypes, Worker, MakeLoop, Notify, RunTask, DestroyLoop, Ended, RoutineAt
<1>2. \A c \in Callers : Posts(c)' <=> Posts(c)
  BY DEF Worker, MakeLoop, Notify, RunTask, DestroyLoop, Ended, Posts
<1>3. CASE MakeLoop
  BY <1>1, <1>2, <1>3 DEF ThreadTypes, LoopIn, MakeLoop
<1>4. CASE Notify
  BY <1>1, <1>2, <1>4 DEF ThreadTypes, LoopIn, Notify, RoutineAt
<1>5. CASE RunTask
  <2>1. /\ routine = "exec" /\ queue # <<>> /\ queue' = Tail(queue) /\ stopped' \in BOOLEAN
        /\ routine' \in {"exec", "stuck"}
        /\ ran' = ran \/ ran' = Append(ran, Head(queue).id)
        /\ UNCHANGED <<once, notified, loop, called, pc, mine, quit, exists, fault, broken>>
    BY <1>5 DEF RunTask, RoutineAt
  <2>2. ran' \in Seq(1..called)
    <3>1. Head(queue) = queue[1] /\ 1 \in DOMAIN queue
      BY <1>1, <2>1
    <3> DEFINE I == 1..called
    <3>2. Head(queue).id \in I /\ ran \in Seq(I)
      BY <1>1, <3>1
    <3> HIDE DEF I
    <3>3. ran' \in Seq(I)
      BY <2>1, <3>2
    <3> QED BY <3>3 DEF I
  <2>3. queue' \in Seq(Tasks) /\ \A i \in DOMAIN queue' : queue'[i].id \in 1..called
    BY <1>1, <2>1
  <2>4. LoopIn(loop, routine)'
    BY <2>1 DEF ThreadTypes, LoopIn
  <2> QED BY <1>1, <1>2, <2>1, <2>2, <2>3, <2>4 DEF ThreadTypes
<1>6. CASE DestroyLoop
  <2>1. queue' \in Seq(Tasks) /\ \A i \in DOMAIN queue' : queue'[i].id \in 1..called'
    BY <1>6 DEF DestroyLoop
  <2> QED BY <1>1, <1>2, <1>6, <2>1 DEF ThreadTypes, LoopIn, DestroyLoop
<1>7. CASE Ended
  BY <1>1, <1>2, <1>7 DEF ThreadTypes, LoopIn, Ended
<1> QED BY <1>3, <1>4, <1>5, <1>6, <1>7 DEF Worker

\* The worker runs what was posted, and ends when it is told to.
LEMMA WorkerCalm ==
  ASSUME ThreadTypes, Calm, Worker PROVE Calm'
<1>1. /\ ~fault /\ queue \in Seq(Tasks) /\ \A i \in DOMAIN queue : queue[i].kind = "plain"
      /\ LoopIn(loop, routine)
  BY DEF ThreadTypes, Calm
<1>2. /\ \A c \in Callers : Posts(c)' <=> Posts(c)
      /\ \A c \in Callers : Quitting(c)' <=> Quitting(c)
      /\ UNCHANGED <<pc, mine, once, quit, exists, fault, broken>>
  BY DEF Worker, MakeLoop, Notify, RunTask, DestroyLoop, Ended, Posts, Quitting
<1>3. CASE MakeLoop
  <2>1. /\ routine = "starting" /\ loop' = "alive" /\ routine' = "notify"
        /\ UNCHANGED <<notified, stopped, queue>>
    BY <1>3 DEF MakeLoop, RoutineAt
  <2> QED BY <1>1, <1>2, <2>1 DEF Calm
<1>4. CASE Notify
  <2>1. /\ routine = "notify" /\ notified' = TRUE /\ routine' = "exec"
        /\ UNCHANGED <<loop, stopped, queue>>
    BY <1>4 DEF Notify, RoutineAt
  <2> QED BY <1>1, <1>2, <2>1 DEF Calm
<1>5. CASE RunTask
  <2>1. /\ routine = "exec" /\ ~stopped /\ queue # <<>> /\ queue' = Tail(queue)
        /\ stopped' = (Head(queue).kind = "quitLoop")
        /\ routine' = IF Head(queue).kind = "callItself" THEN "stuck" ELSE routine
        /\ UNCHANGED <<notified, loop>>
    BY <1>5 DEF RunTask, RoutineAt
  <2>2. Head(queue).kind = "plain"
    <3>1. Head(queue) = queue[1] /\ 1 \in DOMAIN queue
      BY <1>1, <2>1
    <3> QED BY <1>1, <3>1
  <2>3. ~stopped' /\ routine' = routine
    <3>1. "plain" # "quitLoop" /\ "plain" # "callItself"
      OBVIOUS
    <3>2. ~(Head(queue).kind = "quitLoop") /\ ~(Head(queue).kind = "callItself")
      BY <2>2, <3>1
    <3>3. ~stopped'
      BY <2>1, <3>2
    <3> QED BY <2>1, <3>2, <3>3
  <2>4. \A i \in DOMAIN queue' : queue'[i].kind = "plain"
    BY <1>1, <2>1
  <2> QED BY <1>2, <2>1, <2>3, <2>4 DEF Calm
<1>6. CASE DestroyLoop
  <2>1. /\ routine = "exec" /\ stopped /\ queue' = <<>> /\ routine' = "clear"
        /\ UNCHANGED <<notified, stopped>>
    BY <1>6 DEF DestroyLoop, RoutineAt
  <2>2. \A i \in DOMAIN queue' : queue'[i].kind = "plain"
    BY <2>1
  <2> QED BY <1>2, <2>1, <2>2 DEF Calm
<1>7. CASE Ended
  <2>1. /\ routine = "clear" /\ loop' = "null" /\ routine' = "ended"
        /\ UNCHANGED <<notified, stopped, queue>>
    BY <1>7 DEF Ended, RoutineAt
  <2> QED BY <1>2, <2>1 DEF Calm
<1> QED BY <1>3, <1>4, <1>5, <1>6, <1>7 DEF Worker

\* Who keeps the rules breaks no call of another, and finds the loop alive.
LEMMA CallerCalm ==
  ASSUME ThreadTypes, Calm, NEW c \in Callers, Caller(c) \/ GoesOn(c), broken' = {}
  PROVE  Calm'
<1>1. /\ pc \in [Callers -> Labels] /\ mine \in [Callers -> Tasks]
      /\ queue \in Seq(Tasks) /\ LoopIn(loop, routine) /\ routine \in Routines
      /\ stopped \in BOOLEAN /\ exists \in BOOLEAN /\ once \in {"new", "running", "done"}
      /\ once = "new" => routine = "none"
  BY DEF ThreadTypes
<1>2. /\ ~fault /\ routine # "stuck"
      /\ \A i \in DOMAIN queue : queue[i].kind = "plain"
      /\ \A b \in Callers : mine[b].kind = "plain"
      /\ \A b \in Callers : Quitting(b) => quit /\ \A d \in Others(b) : pc[d] = "idle"
      /\ \A b \in Callers : pc[b] = "stop" \/ Posts(b) => loop = "alive" /\ ~stopped
      /\ notified <=> routine \in {"exec", "clear", "ended"}
      /\ once = "done" => notified
      /\ routine \in {"none", "starting"} => ~stopped
      /\ routine \in {"clear", "ended"} => stopped
      /\ stopped => quit
      /\ stopped /\ routine # "ended" => \E b \in Callers : pc[b] = "join"
      /\ ~exists => routine \in {"none", "ended"} \/ \E b \in Callers : Quitting(b)
      /\ routine \in {"none", "starting", "clear", "ended"} => queue = <<>>
  BY DEF Calm
<1>3. ASSUME NEW l, Goes(c, l), l \in Labels
      PROVE  /\ pc' \in [Callers -> Labels] /\ pc'[c] = l
             /\ \A b \in Callers : b # c => pc'[b] = pc[b]
  BY <1>1, <1>3, Labelled
\* Nobody else quits when a call begins, and a loop that runs is alive.
<1>4. IsRunning => loop = "alive" /\ ~stopped
  BY <1>1, <1>2 DEF IsRunning, LoopIn, Routines
<1>5. loop = "destroyed" => \E b \in Callers : pc[b] = "join"
  BY <1>1, <1>2 DEF LoopIn, Routines
<1>6. \A b \in Callers : pc[b] = "idle" => ~Quitting(b) /\ ~Posts(b)
  BY DEF Quitting, Posts
<1>7. ASSUME Start(c) PROVE Calm'
  <2>1. /\ pc[c] = "idle" /\ exists
        /\ once' = IF once = "new" THEN "running" ELSE once
        /\ routine' = IF once = "new" THEN "starting" ELSE routine
        /\ UNCHANGED <<notified, loop, stopped, queue, mine, quit, exists, fault>>
    BY <1>7 DEF Start, Idle, At
  <2>2. \A b \in Others(c) : ~Quitting(b)
    BY <1>7 DEF Start, Breaks
  <2>3. PICK l \in {"idle", "waitStart", "waitOnce"} : Goes(c, l)
    BY <1>1, <1>7 DEF Start
  <2>4. /\ pc'[c] = l /\ \A b \in Callers : b # c => pc'[b] = pc[b]
    BY <1>3, <2>3 DEF Labels
  <2>5. \A b \in Callers : ~Quitting(b) /\ ~Quitting(b)' /\ (Posts(b)' => Posts(b))
    BY <1>6, <2>1, <2>2, <2>3, <2>4 DEF Others, Quitting, Posts
  <2>6. ~stopped \/ routine = "ended"
    BY <1>2, <2>5 DEF Quitting
  <2>7. \A b \in Callers : pc'[b] = "stop" \/ Posts(b)' => loop = "alive" /\ ~stopped
    BY <1>2, <2>5 DEF Quitting
  <2>8. routine' # "stuck" /\ (once' = "done" => notified')
        /\ (notified' <=> routine' \in {"exec", "clear", "ended"})
        /\ (routine' \in {"none", "starting"} => ~stopped')
        /\ (routine' \in {"clear", "ended"} => stopped')
        /\ (stopped' => quit') /\ (stopped' /\ routine' # "ended" => FALSE)
        /\ (routine' \in {"none", "starting", "clear", "ended"} => queue' = <<>>)
    BY <1>1, <1>2, <2>1, <2>6
  <2> QED BY <1>2, <2>1, <2>5, <2>7, <2>8 DEF Calm
<1>8. ASSUME NEW kind \in Kinds, NEW how \in Calls, Enter(c, kind, how) PROVE Calm'
  <2> DEFINE task == [id |-> called + 1, kind |-> kind, how |-> how]
  <2>1. /\ pc[c] = "idle" /\ mine' = [mine EXCEPT ![c] = task]
        /\ fault' = (loop = "destroyed" \/ (how # "task" /\ ~IsRunning))
        /\ UNCHANGED <<once, routine, notified, loop, stopped, queue, quit, exists>>
    BY <1>8 DEF Enter, Idle, At, workerVars
  <2>2. /\ \A b \in Others(c) : ~Quitting(b)
        /\ how # "task" => once = "done" /\ ~quit
        /\ kind # "quitLoop" /\ kind # "callItself"
    BY <1>8 DEF Enter, Breaks
  <2>3. PICK l \in {"idle", "look", "post"} : Goes(c, l) /\ (l # "idle" => IsRunning)
    BY <1>8 DEF Enter
  <2>4. /\ pc'[c] = l /\ \A b \in Callers : b # c => pc'[b] = pc[b]
    BY <1>3, <2>3 DEF Labels
  <2>5. \A b \in Callers : ~Quitting(b) /\ ~Quitting(b)'
    BY <1>6, <2>1, <2>2, <2>3, <2>4 DEF Others, Quitting
  <2>6. \A b \in Callers : mine'[b].kind = "plain"
    <3>1. kind = "plain"
      BY <2>2 DEF Kinds
    <3>2. task.kind = "plain"
      BY <3>1
    <3> HIDE DEF task
    <3> QED BY <1>1, <1>2, <2>1, <3>2
  <2>7. \A b \in Callers : pc'[b] = "stop" \/ Posts(b)' => loop = "alive" /\ ~stopped
    BY <1>2, <1>4, <2>3, <2>4 DEF Posts
  <2>8. ~stopped \/ routine = "ended"
    BY <1>2, <2>5 DEF Quitting
  <2>9. ~fault'
    <3>1. loop # "destroyed"
      BY <1>5, <2>5 DEF Quitting
    <3>2. how # "task" => IsRunning
      <4>1. how # "task" => routine = "exec" /\ ~stopped
        BY <1>2, <2>2, <2>8
      <4> QED BY <1>1, <4>1 DEF LoopIn, IsRunning
    <3> QED BY <2>1, <3>1, <3>2
  <2> QED BY <1>2, <2>1, <2>5, <2>6, <2>7, <2>8, <2>9 DEF Calm
<1>9. ASSUME NEW destroy \in BOOLEAN, Quit(c, destroy) PROVE Calm'
  <2>1. /\ pc[c] = "idle" /\ exists /\ quit' = TRUE /\ fault' = (loop = "destroyed")
        /\ UNCHANGED <<once, routine, notified, loop, stopped, queue, mine>>
    BY <1>9 DEF Quit, Idle, At, workerVars
  <2>2. \A b \in Others(c) : pc[b] = "idle"
    BY <1>9 DEF Quit, Breaks
  <2>3. PICK l \in {"stop", "join"} : Goes(c, l) /\ (l = "stop" => IsRunning)
    BY <1>9 DEF Quit
  <2>4. /\ pc'[c] = l /\ \A b \in Callers : b # c => pc'[b] = pc[b]
    BY <1>3, <2>3 DEF Labels
  <2>5. \A b \in Callers : pc[b] = "idle"
    BY <2>1, <2>2 DEF Others
  <2>6. \A b \in Callers : Quitting(b)' => \A d \in Others(b) : pc'[d] = "idle"
    BY <2>4, <2>5 DEF Others, Quitting
  <2>7. \A b \in Callers : pc'[b] = "stop" \/ Posts(b)' => loop = "alive" /\ ~stopped
    BY <1>4, <2>3, <2>4, <2>5 DEF Posts
  <2>8. ~fault' /\ Quitting(c)' /\ (~stopped \/ routine = "ended")
    BY <1>2, <1>5, <2>1, <2>3, <2>4, <2>5 DEF Quitting
  <2> QED BY <1>2, <2>1, <2>6, <2>7, <2>8 DEF Calm
<1>10. ASSUME Started(c) PROVE Calm'
  <2>1. /\ pc[c] \in {"waitStart", "waitOnce"} /\ Goes(c, "idle") /\ once' = "done"
        /\ notified \/ once = "done"
        /\ UNCHANGED <<routine, notified, loop, stopped, queue, mine, quit, exists, fault>>
    BY <1>10 DEF Started, At, workerVars
  <2>2. /\ pc'[c] = "idle" /\ \A b \in Callers : b # c => pc'[b] = pc[b]
    BY <1>3, <2>1 DEF Labels
  <2>3. \A b \in Callers : (Quitting(b)' <=> Quitting(b)) /\ (Posts(b)' => Posts(b))
                           /\ (pc[b] = "stop" <=> pc'[b] = "stop")
                           /\ (pc[b] = "join" <=> pc'[b] = "join")
                           /\ (pc[b] = "idle" => pc'[b] = "idle")
    BY <2>1, <2>2 DEF Quitting, Posts
  <2> QED BY <1>2, <2>1, <2>3 DEF Calm, Others
<1>11. ASSUME Look(c) PROVE Calm'
  <2>1. /\ pc[c] = "look" /\ fault' = (loop = "destroyed")
        /\ UNCHANGED <<once, routine, notified, loop, stopped, queue, mine, quit, exists>>
    BY <1>11 DEF Look, At, workerVars
  <2>2. Posts(c) /\ loop = "alive" /\ ~stopped /\ IsRunning
    BY <1>2, <2>1 DEF Posts, IsRunning
  <2>3. Goes(c, "post")
    BY <1>11, <2>2 DEF Look
  <2>4. /\ pc'[c] = "post" /\ \A b \in Callers : b # c => pc'[b] = pc[b]
    BY <1>3, <2>3 DEF Labels
  <2>5. \A b \in Callers : (Quitting(b)' <=> Quitting(b)) /\ (Posts(b)' => Posts(b))
                           /\ (pc[b] = "stop" <=> pc'[b] = "stop")
                           /\ (pc[b] = "join" <=> pc'[b] = "join")
                           /\ (pc[b] = "idle" => pc'[b] = "idle")
    BY <2>1, <2>4 DEF Quitting, Posts
  <2> QED BY <1>2, <2>1, <2>2, <2>5 DEF Calm, Others
<1>12. ASSUME Post(c) PROVE Calm'
  <2>1. /\ pc[c] = "post" /\ fault' = (loop # "alive") /\ queue' = Append(queue, mine[c])
        /\ UNCHANGED <<once, routine, notified, loop, stopped, mine, quit, exists>>
    BY <1>12 DEF Post, At, workerVars
  <2>2. Posts(c) /\ loop = "alive" /\ ~stopped
    BY <1>2, <2>1 DEF Posts
  <2>3. PICK l \in {"await", "idle"} : Goes(c, l)
    BY <1>12 DEF Post
  <2>4. /\ pc'[c] = l /\ \A b \in Callers : b # c => pc'[b] = pc[b]
    BY <1>3, <2>3 DEF Labels
  <2>5. \A b \in Callers : (Quitting(b)' <=> Quitting(b)) /\ (Posts(b)' => Posts(b))
                           /\ (pc[b] = "stop" <=> pc'[b] = "stop")
                           /\ (pc[b] = "join" <=> pc'[b] = "join")
                           /\ (pc[b] = "idle" => pc'[b] = "idle")
    BY <2>1, <2>3, <2>4 DEF Quitting, Posts
  <2>6. \A i \in DOMAIN queue' : queue'[i].kind = "plain"
    BY <1>1, <1>2, <2>1
  <2>7. routine \notin {"none", "starting", "clear", "ended"}
    BY <1>1, <2>2 DEF LoopIn
  <2> QED BY <1>2, <2>1, <2>2, <2>5, <2>6, <2>7 DEF Calm, Others
<1>13. ASSUME Answer(c) PROVE Calm'
  <2>1. /\ pc[c] = "await" /\ Goes(c, "idle")
        /\ UNCHANGED <<once, routine, notified, loop, stopped, queue, mine, quit, exists, fault>>
    BY <1>13 DEF Answer, At, workerVars
  <2>2. /\ pc'[c] = "idle" /\ \A b \in Callers : b # c => pc'[b] = pc[b]
    BY <1>3, <2>1 DEF Labels
  <2>3. \A b \in Callers : (Quitting(b)' <=> Quitting(b)) /\ (Posts(b)' => Posts(b))
                           /\ (pc[b] = "stop" <=> pc'[b] = "stop")
                           /\ (pc[b] = "join" <=> pc'[b] = "join")
                           /\ (pc[b] = "idle" => pc'[b] = "idle")
    BY <2>1, <2>2 DEF Quitting, Posts
  <2> QED BY <1>2, <2>1, <2>3 DEF Calm, Others
<1>14. ASSUME StopLoop(c) PROVE Calm'
  <2>1. /\ pc[c] = "stop" /\ fault' = (loop # "alive") /\ stopped' = TRUE /\ Goes(c, "join")
        /\ UNCHANGED <<once, routine, notified, loop, queue, mine, quit, exists>>
    BY <1>14 DEF StopLoop, At
  <2>2. /\ pc'[c] = "join" /\ \A b \in Callers : b # c => pc'[b] = pc[b]
    BY <1>3, <2>1 DEF Labels
  <2>3. Quitting(c) /\ quit /\ loop = "alive" /\ ~stopped /\ \A b \in Others(c) : pc[b] = "idle"
    BY <1>2, <2>1 DEF Quitting
  <2>4. Quitting(c)' /\ \A b \in Callers : b # c => pc'[b] = "idle"
    BY <2>2, <2>3 DEF Quitting, Others
  <2>5. \A b \in Callers : pc'[b] # "stop" /\ ~Posts(b)'
    BY <2>2, <2>4 DEF Posts
  <2>6. \A b \in Callers : Quitting(b)' => \A d \in Others(b) : pc'[d] = "idle"
    BY <2>2, <2>4 DEF Others, Quitting
  <2>7. routine \notin {"none", "starting"}
    BY <1>1, <2>3 DEF LoopIn
  <2> QED BY <1>2, <2>1, <2>2, <2>3, <2>4, <2>5, <2>6, <2>7 DEF Calm
<1>15. ASSUME Join(c) PROVE Calm'
  <2>1. /\ pc[c] = "join" /\ routine \in {"none", "ended"} /\ Goes(c, "idle")
        /\ UNCHANGED <<once, routine, notified, loop, stopped, queue, mine, quit, exists, fault>>
    BY <1>15 DEF Join, At, workerVars
  <2>2. /\ pc'[c] = "idle" /\ \A b \in Callers : b # c => pc'[b] = pc[b]
    BY <1>3, <2>1 DEF Labels
  <2>3. \A b \in Callers : (Quitting(b)' => Quitting(b)) /\ (Posts(b)' => Posts(b))
                           /\ (pc'[b] = "stop" => pc[b] = "stop")
                           /\ (pc[b] = "idle" => pc'[b] = "idle")
    BY <2>1, <2>2 DEF Quitting, Posts
  <2> QED BY <1>2, <2>1, <2>3 DEF Calm, Others
<1> QED BY <1>7, <1>8, <1>9, <1>10, <1>11, <1>12, <1>13, <1>14, <1>15 DEF Caller, GoesOn

LEMMA ThreadNext ==
  ASSUME ThreadAssumption, ThreadInv, [Next]_vars PROVE ThreadInv'
<1>1. CASE UNCHANGED vars
  BY <1>1 DEF ThreadInv, ThreadTypes, LoopIn, Posts, Calm, Quitting, Others, vars, workerVars
<1>2. CASE Worker
  <2>1. broken' = broken
    BY <1>2 DEF Worker, MakeLoop, Notify, RunTask, DestroyLoop, Ended
  <2> QED BY <1>2, <2>1, WorkerTypes, WorkerCalm DEF ThreadInv
<1>3. ASSUME NEW c \in Callers, Caller(c) \/ GoesOn(c) PROVE ThreadInv'
  <2>1. broken' = {} => broken = {}
    BY <1>3 DEF Caller, GoesOn, Start, Enter, Quit, Started, Look, Post, Answer, StopLoop, Join,
                Breaks
  <2> QED BY <1>3, <2>1, CallerTypes, CallerCalm DEF ThreadInv
<1> QED BY <1>1, <1>2, <1>3 DEF Next

LEMMA ThreadInit == ASSUME ThreadAssumption, Init PROVE ThreadInv
<1>1. pc \in [Callers -> Labels] /\ mine \in [Callers -> Tasks]
  BY DEF Init, Labels, Tasks, NoTask, Kinds, Calls
<1>2. \A c \in Callers : pc[c] = "idle" /\ mine[c] = NoTask
  BY DEF Init
<1>3. \A c \in Callers : ~Posts(c) /\ ~Quitting(c)
  BY <1>2 DEF Posts, Quitting
<1>4. NoTask.id = 0 /\ NoTask.kind = "plain"
  BY DEF NoTask
<1>5. ThreadTypes
  <2>1. called = 0 /\ called \in 0..MaxTasks
    BY DEF Init, ThreadAssumption
  <2>2. queue \in Seq(Tasks) /\ ran \in Seq(1..called) /\ DOMAIN queue = {}
    BY DEF Init
  <2>3. LoopIn(loop, routine) /\ routine \in Routines
    BY DEF Init, LoopIn, Routines
  <2>4. \A c \in Callers : mine[c].id <= called /\ ~Posts(c) /\ pc[c] # "look"
    <3> SUFFICES ASSUME NEW c \in Callers
                 PROVE  mine[c].id <= called /\ ~Posts(c) /\ pc[c] # "look"
      OBVIOUS
    <3>1. mine[c].id = 0
      BY <1>2, <1>4
    <3>2. mine[c].id <= called
      BY <2>1, <3>1
    <3>3. pc[c] # "look"
      BY <1>2
    <3> QED BY <1>3, <3>2, <3>3
  <2> QED BY <1>1, <2>1, <2>2, <2>3, <2>4 DEF Init, ThreadTypes
<1>6. Calm
  BY <1>2, <1>3, <1>4 DEF Init, Calm
<1> QED BY <1>5, <1>6 DEF ThreadInv

LEMMA ThreadKept ==
  ASSUME ThreadAssumption, ThreadInv PROVE TypeOK /\ NoFault /\ GoneWithThread
<1>1. TypeOK
  BY TypesKept DEF ThreadInv
<1>2. NoFault
  BY DEF ThreadInv, Calm, NoFault
<1>3. GoneWithThread
  <2> SUFFICES ASSUME ~exists, \A c \in Callers : pc[c] = "idle", broken = {}
               PROVE  routine \in {"none", "ended"} /\ loop = "null" /\ queue = <<>>
    BY DEF GoneWithThread
  <2>1. routine \in {"none", "ended"} /\ queue = <<>>
    BY DEF ThreadInv, Calm, Quitting
  <2> QED BY <2>1 DEF ThreadInv, ThreadTypes, LoopIn
<1> QED BY <1>1, <1>2, <1>3

\* Callers who keep the rules never use a destroyed loop, and of a thread that
\* was destroyed nothing is left, however many callers and tasks there are.
THEOREM ThreadSafety == Spec => [](TypeOK /\ NoFault /\ GoneWithThread)
<1>1. ThreadAssumption
  BY ThreadAssumption
<1>2. Init => ThreadInv
  BY <1>1, ThreadInit
<1>3. ThreadInv /\ [Next]_vars => ThreadInv'
  BY <1>1, ThreadNext
<1>4. ThreadInv => TypeOK /\ NoFault /\ GoneWithThread
  BY <1>1, ThreadKept
<1> QED BY <1>2, <1>3, <1>4, PTL DEF Spec

-----------------------------------------------------------------------------
\* Loops, objects and notifies.

SlotTasks == [kind : {"slot"}, o : Objects, n : Notifies, k : Nat]
Deletions == [kind : {"delete"}, o : Objects, n : {0}, k : {0}]
LoopTasks == SlotTasks \cup Deletions
SlotRuns  == [k : Nat, on : Threads, posted : BOOLEAN]

LoopTypes ==
  /\ loops \in [Threads -> {"none", "made", "exec", "execEx", "poll"}]
  /\ queues \in [Threads -> Seq(LoopTasks)]
  /\ life \in [Objects -> {"none", "alive", "gone"}]
  /\ home \in [Objects -> Threads] /\ id \in [Objects -> Threads]
  /\ slot \in [Notifies -> SUBSET Objects]
  /\ emits \in [Notifies -> Nat] /\ slotsRan \in [Notifies -> Seq(SlotRuns)]

\* What is queued is for a living object of this loop, and a deletion is the
\* last of what is queued for its object.
TaskInTime(t, q, i) ==
  /\ life[q[i].o] = "alive" /\ home[q[i].o] = t
  /\ q[i].kind = "slot" => q[i].o \in slot[q[i].n] /\ q[i].k \in 1..emits[q[i].n]
  /\ q[i].kind = "delete" =>
       q[i].o \in dying /\ \A m \in DOMAIN q : m > i => q[m].o # q[i].o

\* The slots of a notify are queued in the order of the emissions, behind
\* those that were posted and ran.
InOrder(q) ==
  \A i \in DOMAIN q : q[i].kind = "slot" =>
    /\ \A m \in DOMAIN q :
         m > i /\ q[m].kind = "slot" /\ q[m].n = q[i].n => q[i].k < q[m].k
    /\ \A r \in DOMAIN slotsRan[q[i].n] :
         /\ slotsRan[q[i].n][r].k # q[i].k
         /\ slotsRan[q[i].n][r].posted => slotsRan[q[i].n][r].k < q[i].k

QueueOk(t, q) == (\A i \in DOMAIN q : TaskInTime(t, q, i)) /\ InOrder(q)

ObjectOk(o) ==
  /\ life[o] = "alive" => loops[home[o]] # "none"
  /\ life[o] # "none" => id[o] = home[o]

\* A notify has one slot, which runs on the thread of its object.
NotifyOk(n) ==
  /\ \A o \in slot[n] : life[o] # "none" /\ slot[n] = {o}
  /\ slot[n] = {} => slotsRan[n] = <<>>
  /\ \A i \in DOMAIN slotsRan[n] :
       /\ \A o \in slot[n] : slotsRan[n][i].on = home[o]
       /\ slotsRan[n][i].k \in 1..emits[n]
       /\ \A j \in DOMAIN slotsRan[n] : i < j =>
            /\ slotsRan[n][i].k # slotsRan[n][j].k
            /\ slotsRan[n][i].posted /\ slotsRan[n][j].posted =>
                 slotsRan[n][i].k < slotsRan[n][j].k

LoopInv ==
  broken = {} =>
    /\ LoopTypes /\ ~fault
    /\ \A o \in Objects : ObjectOk(o)
    /\ \A n \in Notifies : NotifyOk(n)
    /\ \A t \in Threads : QueueOk(t, queues[t])

\* What a step leaves alone is in order afterwards.
LEMMA LoopFrame ==
  ASSUME LoopTypes, ~fault, NEW S, S \in [Threads -> {"none", "made", "exec", "execEx", "poll"}],
         loops' = S, \A t \in Threads : loops[t] # "none" => S[t] # "none",
         \A o \in Objects : ObjectOk(o), \A n \in Notifies : NotifyOk(n),
         \A t \in Threads : QueueOk(t, queues[t]),
         UNCHANGED <<queues, life, home, id, dying, slot, emits, slotsRan, fault>>
  PROVE  LoopInv'
<1>1. LoopTypes'
  BY DEF LoopTypes
<1>2. \A o \in Objects : ObjectOk(o)'
  BY DEF ObjectOk, LoopTypes
<1>3. \A n \in Notifies : NotifyOk(n)'
  BY DEF NotifyOk
<1>4. \A t \in Threads : QueueOk(t, queues[t])'
  BY DEF QueueOk, TaskInTime, InOrder
<1> QED BY <1>1, <1>2, <1>3, <1>4 DEF LoopInv

\* The tasks in one loop's queue are not those of another.
LEMMA OneLoop ==
  ASSUME \A n \in Notifies : NotifyOk(n), LoopTypes, NEW t \in Threads, NEW u \in Threads,
         u # t, QueueOk(t, queues[t]), QueueOk(u, queues[u]),
         NEW i \in DOMAIN queues[t], NEW m \in DOMAIN queues[u],
         queues[t][i].kind = "slot", queues[u][m].kind = "slot"
  PROVE  queues[t][i].n # queues[u][m].n
<1>1. queues[t][i] \in SlotTasks /\ queues[u][m] \in SlotTasks
  BY DEF LoopTypes, LoopTasks, Deletions
<1>2. /\ queues[t][i].o \in slot[queues[t][i].n] /\ home[queues[t][i].o] = t
      /\ queues[u][m].o \in slot[queues[u][m].n] /\ home[queues[u][m].o] = u
  BY DEF QueueOk, TaskInTime
<1>3. queues[t][i].n \in Notifies
  BY <1>1 DEF SlotTasks
<1> QED BY <1>2, <1>3 DEF NotifyOk

\* The first task leaves the queue.
LEMMA QueuePop ==
  ASSUME NEW T, NEW q \in Seq(T), q # <<>>
  PROVE  /\ Head(q) = q[1] /\ 1 \in DOMAIN q /\ Tail(q) \in Seq(T)
         /\ \A i \in DOMAIN Tail(q) : i + 1 \in DOMAIN q /\ Tail(q)[i] = q[i + 1] /\ i + 1 > 1
         /\ \A i, m \in DOMAIN Tail(q) : m > i => m + 1 > i + 1
OBVIOUS

LEMMA QueuePush ==
  ASSUME NEW T, NEW q \in Seq(T), NEW e \in T, NEW r, r = Append(q, e)
  PROVE  /\ r \in Seq(T) /\ Len(r) = Len(q) + 1 /\ DOMAIN r = 1..(Len(q) + 1)
         /\ DOMAIN q = 1..Len(q) /\ r[Len(q) + 1] = e
         /\ \A i \in DOMAIN q : r[i] = q[i] /\ i \in DOMAIN r /\ ~(i > Len(q) + 1)
         /\ \A i \in DOMAIN r : i \in DOMAIN q \/ i = Len(q) + 1
         /\ \A i, m \in DOMAIN r : m > i => i \in DOMAIN q
OBVIOUS

LEMMA TaskRuns ==
  ASSUME LoopInv, broken = {}, NEW t \in Threads, Loop!RunTask(t) PROVE LoopInv'
<1>1. /\ LoopTypes /\ ~fault
      /\ \A o \in Objects : ObjectOk(o)
      /\ \A n \in Notifies : NotifyOk(n)
      /\ \A u \in Threads : QueueOk(u, queues[u])
  BY DEF LoopInv
<1> DEFINE h == Head(queues[t])
<1>2. queues[t] \in Seq(LoopTasks) /\ queues[t] # <<>>
  BY <1>1 DEF LoopTypes, Loop!RunTask
<1>3. /\ h = queues[t][1] /\ 1 \in DOMAIN queues[t] /\ Tail(queues[t]) \in Seq(LoopTasks)
      /\ \A i \in DOMAIN Tail(queues[t]) :
           i + 1 \in DOMAIN queues[t] /\ Tail(queues[t])[i] = queues[t][i + 1] /\ i + 1 > 1
      /\ \A i, m \in DOMAIN Tail(queues[t]) : m > i => m + 1 > i + 1
  BY <1>2, QueuePop
<1>4. /\ queues' = [queues EXCEPT ![t] = Tail(queues[t])]
      /\ fault' = (fault \/ ~Loop!Alive(h.o))
      /\ UNCHANGED <<loops, home, id, dying, slot, emits, broken>>
  BY DEF Loop!RunTask, Loop!loopVars
<1>5. /\ queues' \in [Threads -> Seq(LoopTasks)] /\ queues'[t] = Tail(queues[t])
      /\ \A u \in Threads : u # t => queues'[u] = queues[u]
  BY <1>1, <1>3, <1>4 DEF LoopTypes
<1>6. h \in LoopTasks /\ h.o \in Objects /\ life[h.o] = "alive" /\ home[h.o] = t
  <2>1. h \in LoopTasks
    BY <1>2, <1>3
  <2>2. TaskInTime(t, queues[t], 1)
    BY <1>1, <1>3 DEF QueueOk
  <2> QED BY <1>3, <2>1, <2>2 DEF LoopTasks, SlotTasks, Deletions, TaskInTime
<1>7. ~fault'
  BY <1>1, <1>4, <1>6 DEF Loop!Alive
<1>8. \A i \in DOMAIN queues'[t] : i + 1 \in DOMAIN queues[t] /\ queues'[t][i] = queues[t][i + 1]
                                   /\ i + 1 > 1
  BY <1>3, <1>5
<1>9. \A i, m \in DOMAIN queues'[t] : m > i => m + 1 > i + 1
  BY <1>3, <1>5
<1>10. CASE h.kind = "slot"
  <2>1. /\ slotsRan' = [slotsRan EXCEPT ![h.n] = Append(@, Loop!Run(h.k, t, TRUE))]
        /\ life' = life
    BY <1>10 DEF Loop!RunTask
  <2>2. h \in SlotTasks /\ h.n \in Notifies /\ h.k \in Nat /\ h.o \in slot[h.n]
    <3>1. h \in SlotTasks
      BY <1>6, <1>10 DEF LoopTasks, Deletions
    <3>2. TaskInTime(t, queues[t], 1)
      BY <1>1, <1>3 DEF QueueOk
    <3> QED BY <1>3, <1>10, <3>1, <3>2 DEF SlotTasks, TaskInTime
  <2> DEFINE e == Loop!Run(h.k, t, TRUE)
  <2>3. e \in SlotRuns /\ e.k = h.k /\ e.on = t /\ e.posted
    BY <2>2 DEF SlotRuns, Loop!Run
  <2> DEFINE L == slotsRan[h.n]
  <2>4. L \in Seq(SlotRuns)
    BY <1>1, <2>2 DEF LoopTypes
  <2>5. /\ slotsRan' \in [Notifies -> Seq(SlotRuns)]
        /\ slotsRan'[h.n] = Append(L, e)
        /\ \A n \in Notifies : n # h.n => slotsRan'[n] = slotsRan[n]
    <3> DEFINE r == Append(L, e)
    <3>1. r \in Seq(SlotRuns)
      <4> HIDE DEF e, h, L
      <4> QED BY <2>3, <2>4
    <3>2. slotsRan' = [slotsRan EXCEPT ![h.n] = r]
      BY <2>1
    <3> HIDE DEF r
    <3>3. /\ slotsRan' \in [Notifies -> Seq(SlotRuns)] /\ slotsRan'[h.n] = r
          /\ \A n \in Notifies : n # h.n => slotsRan'[n] = slotsRan[n]
      BY <1>1, <2>2, <3>1, <3>2 DEF LoopTypes
    <3> QED BY <3>3 DEF r
  <2> HIDE DEF e, h
  <2>6. /\ \A i \in DOMAIN L : slotsRan'[h.n][i] = L[i] /\ L[i].k # h.k
                               /\ (L[i].posted => L[i].k < h.k)
        /\ slotsRan'[h.n][Len(L) + 1] = e
        /\ \A i \in DOMAIN slotsRan'[h.n] : i \in DOMAIN L \/ i = Len(L) + 1
        /\ \A i, m \in DOMAIN slotsRan'[h.n] : m > i => i \in DOMAIN L
    <3>1. \A i \in DOMAIN L : L[i].k # h.k /\ (L[i].posted => L[i].k < h.k)
      BY <1>1, <1>3, <1>10 DEF QueueOk, InOrder
    <3> DEFINE r == slotsRan'[h.n]
    <3>2. r = Append(L, e)
      BY <2>5
    <3> HIDE DEF L, r
    <3>3. /\ r[Len(L) + 1] = e
          /\ \A i \in DOMAIN L : r[i] = L[i]
          /\ \A i \in DOMAIN r : i \in DOMAIN L \/ i = Len(L) + 1
          /\ \A i, m \in DOMAIN r : m > i => i \in DOMAIN L
      BY <2>3, <2>4, <3>2, QueuePush
    <3> QED BY <3>1, <3>3 DEF r
  <2>7. LoopTypes'
    BY <1>1, <1>4, <1>5, <2>1, <2>5 DEF LoopTypes
  <2>8. \A o \in Objects : ObjectOk(o)'
    BY <1>1, <1>4, <2>1 DEF ObjectOk
  <2>9. ASSUME NEW n \in Notifies PROVE NotifyOk(n)'
    <3>1. CASE n # h.n
      BY <1>1, <1>4, <2>1, <2>5, <3>1 DEF NotifyOk
    <3>2. CASE n = h.n
      <4>1. /\ \A o \in slot[n] : life[o] # "none" /\ slot[n] = {o}
            /\ \A i \in DOMAIN L :
                 /\ \A o \in slot[n] : L[i].on = home[o]
                 /\ L[i].k \in 1..emits[n]
                 /\ \A j \in DOMAIN L : i < j =>
                      L[i].k # L[j].k /\ (L[i].posted /\ L[j].posted => L[i].k < L[j].k)
        BY <1>1, <3>2 DEF NotifyOk
      <4>2. e.k \in 1..emits[n] /\ \A o \in slot[n] : e.on = home[o]
        <5>1. TaskInTime(t, queues[t], 1)
          BY <1>1, <1>3 DEF QueueOk
        <5>2. h.k \in 1..emits[n]
          BY <1>3, <1>10, <3>2, <5>1 DEF TaskInTime
        <5> QED BY <1>6, <2>2, <2>3, <3>2, <4>1, <5>2
      <4>3. ASSUME NEW i \in DOMAIN slotsRan'[n]
            PROVE  /\ \A o \in slot[n] : slotsRan'[n][i].on = home[o]
                   /\ slotsRan'[n][i].k \in 1..emits[n]
        BY <2>6, <3>2, <4>1, <4>2
      <4>4. ASSUME NEW i \in DOMAIN slotsRan'[n], NEW j \in DOMAIN slotsRan'[n], i < j
            PROVE  /\ slotsRan'[n][i].k # slotsRan'[n][j].k
                   /\ slotsRan'[n][i].posted /\ slotsRan'[n][j].posted =>
                        slotsRan'[n][i].k < slotsRan'[n][j].k
        <5>1. i \in DOMAIN L /\ slotsRan'[n][i] = L[i]
          <6>1. i \in Int /\ j \in Int
            BY <2>4, <2>5, <3>2
          <6>2. j > i
            BY <4>4, <6>1
          <6> QED BY <2>6, <3>2, <6>2
        <5>2. CASE j \in DOMAIN L
          BY <2>6, <3>2, <4>1, <4>4, <5>1, <5>2
        <5>3. CASE j = Len(L) + 1
          BY <2>3, <2>6, <3>2, <5>1, <5>3
        <5> QED BY <2>6, <3>2, <5>2, <5>3
      <4>5. slot[n] # {}
        BY <2>2, <3>2
      <4>6. UNCHANGED <<slot, life, home, emits>>
        BY <1>4, <2>1
      <4> HIDE DEF L
      <4> QED BY <4>1, <4>3, <4>4, <4>5, <4>6 DEF NotifyOk
    <3> QED BY <3>1, <3>2
  <2>10. ASSUME NEW u \in Threads PROVE QueueOk(u, queues[u])'
    <3>1. CASE u = t
      <4>1. ASSUME NEW i \in DOMAIN queues'[t] PROVE TaskInTime(t, queues[t], i)'
        <5>1. TaskInTime(t, queues[t], i + 1)
          BY <1>1, <1>8 DEF QueueOk
        <5> QED BY <1>4, <1>8, <1>9, <2>1, <5>1 DEF TaskInTime
      <4>2. InOrder(queues[t])'
        <5> SUFFICES ASSUME NEW i \in DOMAIN queues'[t], queues'[t][i].kind = "slot"
                     PROVE  /\ \A m \in DOMAIN queues'[t] :
                                 m > i /\ queues'[t][m].kind = "slot"
                                 /\ queues'[t][m].n = queues'[t][i].n
                                   => queues'[t][i].k < queues'[t][m].k
                            /\ \A r \in DOMAIN slotsRan'[queues'[t][i].n] :
                                 /\ slotsRan'[queues'[t][i].n][r].k # queues'[t][i].k
                                 /\ slotsRan'[queues'[t][i].n][r].posted =>
                                      slotsRan'[queues'[t][i].n][r].k < queues'[t][i].k
          BY DEF InOrder
        <5>1. InOrder(queues[t])
          BY <1>1 DEF QueueOk
        <5>2. \A m \in DOMAIN queues'[t] :
                m > i /\ queues'[t][m].kind = "slot" /\ queues'[t][m].n = queues'[t][i].n
                  => queues'[t][i].k < queues'[t][m].k
          BY <1>8, <1>9, <5>1 DEF InOrder
        <5>3. queues[t][i + 1] = queues'[t][i] /\ i + 1 \in DOMAIN queues[t] /\ i + 1 > 1
          BY <1>8
        <5>4. queues'[t][i] \in SlotTasks
          BY <1>2, <5>3 DEF LoopTasks, Deletions
        <5>5. queues'[t][i].n \in Notifies /\ queues'[t][i].k \in Nat
          BY <5>4 DEF SlotTasks
        <5>6. CASE queues'[t][i].n # h.n
          <6>1. slotsRan'[queues'[t][i].n] = slotsRan[queues'[t][i].n]
            BY <2>5, <5>5, <5>6
          <6> QED BY <5>1, <5>2, <5>3, <6>1 DEF InOrder
        <5>7. CASE queues'[t][i].n = h.n
          <6>1. h.k < queues'[t][i].k
            BY <1>3, <1>10, <5>1, <5>3, <5>7 DEF InOrder
          <6>2. \A r \in DOMAIN L : L[r].k # queues'[t][i].k
                                    /\ (L[r].posted => L[r].k < queues'[t][i].k)
            BY <5>1, <5>3, <5>7 DEF InOrder
          <6>3. ASSUME NEW r \in DOMAIN slotsRan'[h.n]
                PROVE  /\ slotsRan'[h.n][r].k # queues'[t][i].k
                       /\ slotsRan'[h.n][r].posted =>
                            slotsRan'[h.n][r].k < queues'[t][i].k
            <7>1. CASE r \in DOMAIN L
              BY <2>6, <6>2, <7>1
            <7>2. CASE r = Len(L) + 1
              <8>1. slotsRan'[h.n][r].k = h.k
                BY <2>3, <2>6, <7>2
              <8>2. h.k # queues'[t][i].k
                BY <2>2, <5>5, <6>1
              <8> QED BY <6>1, <8>1, <8>2
            <7> QED BY <2>6, <7>1, <7>2
          <6> QED BY <5>2, <5>7, <6>3
        <5> QED BY <5>6, <5>7
      <4> QED BY <3>1, <4>1, <4>2 DEF QueueOk
    <3>2. CASE u # t
      <4>1. queues'[u] = queues[u]
        BY <1>5, <3>2
      <4>2. ASSUME NEW i \in DOMAIN queues[u] PROVE TaskInTime(u, queues[u], i)'
        <5>1. TaskInTime(u, queues[u], i)
          BY <1>1 DEF QueueOk
        <5>2. UNCHANGED <<life, home, slot, emits, dying>>
          BY <1>4, <2>1
        <5> QED BY <4>1, <5>1, <5>2 DEF TaskInTime
      <4>3. ASSUME NEW i \in DOMAIN queues[u], queues[u][i].kind = "slot"
            PROVE  slotsRan'[queues[u][i].n] = slotsRan[queues[u][i].n]
        <5>1. queues[t][1].n # queues[u][i].n
          BY <1>1, <1>3, <1>10, <3>2, <4>3, OneLoop
        <5>2. queues[u][i] \in SlotTasks
          BY <1>1, <4>3 DEF LoopTypes, LoopTasks, Deletions
        <5>3. queues[u][i].n \in Notifies
          BY <5>2 DEF SlotTasks
        <5> QED BY <1>3, <2>5, <5>1, <5>3
      <4>4. InOrder(queues[u])'
        BY <1>1, <4>1, <4>3 DEF QueueOk, InOrder
      <4> QED BY <4>1, <4>2, <4>4 DEF QueueOk
    <3> QED BY <3>1, <3>2
  <2> QED BY <1>7, <2>7, <2>8, <2>9, <2>10 DEF LoopInv
<1>11. CASE h.kind # "slot"
  <2>1. life' = [life EXCEPT ![h.o] = "gone"] /\ slotsRan' = slotsRan
    BY <1>11 DEF Loop!RunTask
  <2>2. /\ life' \in [Objects -> {"none", "alive", "gone"}]
        /\ life'[h.o] = "gone" /\ \A o \in Objects : o # h.o => life'[o] = life[o]
    BY <1>1, <1>6, <2>1 DEF LoopTypes
  <2>3. h.kind = "delete"
    BY <1>6, <1>11 DEF LoopTasks, SlotTasks, Deletions
  <2> HIDE DEF h
  <2>4. LoopTypes'
    BY <1>1, <1>4, <1>5, <2>1, <2>2 DEF LoopTypes
  <2>5. \A o \in Objects : ObjectOk(o)'
    BY <1>1, <1>4, <1>6, <2>2 DEF ObjectOk
  <2>6. \A n \in Notifies : NotifyOk(n)'
    BY <1>1, <1>4, <1>6, <2>1, <2>2 DEF NotifyOk, LoopTypes
  <2>7. ASSUME NEW u \in Threads PROVE QueueOk(u, queues[u])'
    <3>1. InOrder(queues[u])'
      <4>1. CASE u = t
        <5>1. InOrder(queues[t])
          BY <1>1 DEF QueueOk
        <5>2. ASSUME NEW i \in DOMAIN queues'[t], queues'[t][i].kind = "slot"
              PROVE  /\ \A m \in DOMAIN queues'[t] :
                          m > i /\ queues'[t][m].kind = "slot"
                          /\ queues'[t][m].n = queues'[t][i].n
                            => queues'[t][i].k < queues'[t][m].k
                     /\ \A r \in DOMAIN slotsRan'[queues'[t][i].n] :
                          /\ slotsRan'[queues'[t][i].n][r].k # queues'[t][i].k
                          /\ slotsRan'[queues'[t][i].n][r].posted =>
                               slotsRan'[queues'[t][i].n][r].k < queues'[t][i].k
          <6>1. queues'[t][i] = queues[t][i + 1] /\ i + 1 \in DOMAIN queues[t]
            BY <1>8
          <6>2. \A m \in DOMAIN queues'[t] :
                  m > i /\ queues'[t][m].kind = "slot" /\ queues'[t][m].n = queues'[t][i].n
                    => queues'[t][i].k < queues'[t][m].k
            BY <1>8, <1>9, <5>1, <5>2, <6>1 DEF InOrder
          <6> QED BY <2>1, <5>1, <5>2, <6>1, <6>2 DEF InOrder
        <5> QED BY <4>1, <5>2 DEF InOrder
      <4>2. CASE u # t
        <5>1. InOrder(queues[u]) /\ queues'[u] = queues[u]
          BY <1>1, <1>5, <4>2 DEF QueueOk
        <5> QED BY <2>1, <5>1 DEF InOrder
      <4> QED BY <4>1, <4>2
    <3>2. ASSUME NEW i \in DOMAIN queues'[u] PROVE TaskInTime(u, queues[u], i)'
      <4>1. CASE u = t
        <5>1. TaskInTime(t, queues[t], i + 1) /\ TaskInTime(t, queues[t], 1)
          BY <1>1, <1>3, <1>8, <4>1 DEF QueueOk
        <5>2. queues'[t][i].o # h.o /\ queues'[t][i] \in LoopTasks
          BY <1>2, <1>3, <1>8, <2>3, <4>1, <5>1 DEF TaskInTime
        <5>3. life'[queues'[t][i].o] = life[queues'[t][i].o]
          BY <2>2, <5>2 DEF LoopTasks, SlotTasks, Deletions
        <5> QED BY <1>4, <1>8, <1>9, <4>1, <5>1, <5>3 DEF TaskInTime
      <4>2. CASE u # t
        <5>1. queues'[u] = queues[u] /\ TaskInTime(u, queues[u], i) /\ queues[u][i] \in LoopTasks
          BY <1>1, <1>5, <4>2 DEF QueueOk, LoopTypes
        <5>2. queues[u][i].o # h.o
          BY <1>6, <4>2, <5>1 DEF TaskInTime
        <5>3. life'[queues[u][i].o] = life[queues[u][i].o]
          BY <2>2, <5>1, <5>2 DEF LoopTasks, SlotTasks, Deletions
        <5>4. UNCHANGED <<home, slot, emits, dying>>
          BY <1>4
        <5> QED BY <5>1, <5>3, <5>4 DEF TaskInTime
      <4> QED BY <4>1, <4>2
    <3> QED BY <3>1, <3>2 DEF QueueOk
  <2> QED BY <1>7, <2>4, <2>5, <2>6, <2>7 DEF LoopInv
<1> QED BY <1>10, <1>11

\* Loops are made, run, stopped and left; none goes that objects belong to.
LEMMA LoopMoves ==
  ASSUME LoopInv, broken = {}, broken' = {}, NEW t \in Threads,
         \/ Loop!MakeLoop(t) \/ Loop!DestroyLoop(t) \/ Loop!Quit(t)
         \/ \E how \in {"exec", "execEx"} : Loop!Exec(t, how)
         \/ Loop!SlotReturns(t) \/ Loop!ExecReturns(t) \/ Loop!Reset(t) \/ Loop!PollReturns(t)
  PROVE  LoopInv'
<1>1. /\ LoopTypes /\ ~fault
      /\ \A o \in Objects : ObjectOk(o)
      /\ \A n \in Notifies : NotifyOk(n)
      /\ \A u \in Threads : QueueOk(u, queues[u])
  BY DEF LoopInv
<1>2. ASSUME NEW l \in {"made", "exec", "execEx", "poll"},
             loops' = [loops EXCEPT ![t] = l] \/ loops' = loops,
             UNCHANGED <<queues, life, home, id, dying, slot, emits, slotsRan, fault>>
      PROVE  LoopInv'
  <2>1. PICK S : S = loops'
    OBVIOUS
  <2>2. /\ S \in [Threads -> {"none", "made", "exec", "execEx", "poll"}]
        /\ \A u \in Threads : loops[u] # "none" => S[u] # "none"
    <3>1. loops \in [Threads -> {"none", "made", "exec", "execEx", "poll"}] /\ l # "none"
      BY <1>1, <1>2 DEF LoopTypes
    <3>2. S = [loops EXCEPT ![t] = l] \/ S = loops
      BY <1>2, <2>1
    <3>3. CASE S = [loops EXCEPT ![t] = l]
      BY <3>1, <3>3
    <3>4. CASE S = loops
      BY <3>1, <3>4
    <3> QED BY <3>2, <3>3, <3>4
  <2> QED BY <1>1, <1>2, <2>1, <2>2, LoopFrame
<1>3. CASE Loop!DestroyLoop(t)
  <2>1. /\ loops' = [loops EXCEPT ![t] = "none"] /\ queues' = [queues EXCEPT ![t] = <<>>]
        /\ \A o \in Objects : life[o] = "alive" => home[o] # t
        /\ UNCHANGED <<life, home, id, dying, slot, emits, slotsRan, fault>>
    BY <1>3 DEF Loop!DestroyLoop, Loop!Breaks, Loop!Alive, Loop!objectVars, Loop!history
  <2>2. /\ loops' \in [Threads -> {"none", "made", "exec", "execEx", "poll"}]
        /\ \A u \in Threads : u # t => loops'[u] = loops[u]
    BY <1>1, <2>1 DEF LoopTypes
  <2>3. /\ queues' \in [Threads -> Seq(LoopTasks)] /\ queues'[t] = <<>>
        /\ \A u \in Threads : u # t => queues'[u] = queues[u]
    BY <1>1, <2>1 DEF LoopTypes
  <2>4. LoopTypes'
    BY <1>1, <2>1, <2>2, <2>3 DEF LoopTypes
  <2>5. \A o \in Objects : ObjectOk(o)'
    BY <1>1, <2>1, <2>2 DEF ObjectOk, LoopTypes
  <2>6. \A n \in Notifies : NotifyOk(n)'
    BY <1>1, <2>1 DEF NotifyOk
  <2>7. ASSUME NEW u \in Threads PROVE QueueOk(u, queues[u])'
    <3>1. CASE u = t
      BY <2>3, <3>1 DEF QueueOk, InOrder
    <3>2. CASE u # t
      <4>1. QueueOk(u, queues[u]) /\ queues'[u] = queues[u]
        BY <1>1, <2>3, <3>2
      <4>2. InOrder(queues[u])'
        <5>1. InOrder(queues[u])
          BY <4>1 DEF QueueOk
        <5> QED BY <2>1, <4>1, <5>1 DEF InOrder
      <4>3. ASSUME NEW i \in DOMAIN queues[u] PROVE TaskInTime(u, queues[u], i)'
        BY <2>1, <4>1 DEF QueueOk, TaskInTime
      <4> QED BY <4>1, <4>2, <4>3 DEF QueueOk
    <3> QED BY <3>1, <3>2
  <2> QED BY <1>1, <2>1, <2>4, <2>5, <2>6, <2>7 DEF LoopInv
<1>4. CASE ~Loop!DestroyLoop(t)
  <2>1. PICK l \in {"made", "exec", "execEx", "poll"} :
          loops' = [loops EXCEPT ![t] = l] \/ loops' = loops
    BY <1>4 DEF Loop!MakeLoop, Loop!Quit, Loop!Exec, Loop!SlotReturns, Loop!ExecReturns,
                Loop!Reset, Loop!PollReturns, Loop!loopVars
  <2>2. UNCHANGED <<queues, life, home, id, dying, slot, emits, slotsRan, fault>>
    BY <1>4 DEF Loop!MakeLoop, Loop!Quit, Loop!Exec, Loop!SlotReturns, Loop!ExecReturns,
                Loop!Reset, Loop!PollReturns, Loop!loopVars, Loop!objectVars, Loop!history
  <2> QED BY <1>2, <2>1, <2>2
<1> QED BY <1>3, <1>4

\* An object is made on its loop's thread, and deleted there when nothing is
\* queued for it.
LEMMA ObjectMoves ==
  ASSUME LoopInv, broken = {}, broken' = {}, NEW t \in Threads, NEW o \in Objects,
         \/ \E p \in Threads : Loop!MakeObject(t, o, p)
         \/ Loop!Delete(t, o)
         \/ \E n \in Notifies : Loop!Connect(n, o)
  PROVE  LoopInv'
<1>1. /\ LoopTypes /\ ~fault
      /\ \A p \in Objects : ObjectOk(p)
      /\ \A n \in Notifies : NotifyOk(n)
      /\ \A u \in Threads : QueueOk(u, queues[u])
  BY DEF LoopInv
<1>2. \A u \in Threads : \A i \in DOMAIN queues[u] :
        /\ TaskInTime(u, queues[u], i) /\ queues[u][i].o \in Objects
        /\ queues[u][i].kind = "slot" => queues[u][i].n \in Notifies
  <2> SUFFICES ASSUME NEW u \in Threads, NEW i \in DOMAIN queues[u]
               PROVE  /\ TaskInTime(u, queues[u], i) /\ queues[u][i].o \in Objects
                      /\ queues[u][i].kind = "slot" => queues[u][i].n \in Notifies
    OBVIOUS
  <2>1. queues[u][i] \in LoopTasks
    BY <1>1 DEF LoopTypes
  <2>2. TaskInTime(u, queues[u], i)
    BY <1>1 DEF QueueOk
  <2> QED BY <2>1, <2>2 DEF LoopTasks, SlotTasks, Deletions
<1>3. ASSUME NEW p \in Threads, Loop!MakeObject(t, o, p) PROVE LoopInv'
  <2>1. /\ life[o] = "none" /\ loops[p] # "none" /\ p = t
        /\ life' = [life EXCEPT ![o] = "alive"] /\ home' = [home EXCEPT ![o] = p]
        /\ id' = [id EXCEPT ![o] = t]
        /\ UNCHANGED <<loops, queues, dying, slot, emits, slotsRan, fault>>
    BY <1>3 DEF Loop!MakeObject, Loop!Breaks, Loop!loopVars, Loop!history
  <2>2. /\ life' \in [Objects -> {"none", "alive", "gone"}]
        /\ home' \in [Objects -> Threads] /\ id' \in [Objects -> Threads]
        /\ life'[o] = "alive" /\ home'[o] = t /\ id'[o] = t
        /\ \A q \in Objects : q # o => life'[q] = life[q] /\ home'[q] = home[q] /\ id'[q] = id[q]
    BY <1>1, <2>1 DEF LoopTypes
  <2>3. LoopTypes'
    BY <1>1, <2>1, <2>2 DEF LoopTypes
  <2>4. \A q \in Objects : ObjectOk(q)'
    BY <1>1, <2>1, <2>2 DEF ObjectOk
  <2>5. ASSUME NEW n \in Notifies PROVE NotifyOk(n)'
    <3>1. slot[n] \subseteq Objects /\ \A q \in slot[n] : q # o
      BY <1>1, <2>1 DEF NotifyOk, LoopTypes
    <3>2. \A q \in slot[n] : life'[q] = life[q] /\ home'[q] = home[q]
      BY <2>2, <3>1
    <3>3. NotifyOk(n)
      BY <1>1
    <3> QED BY <2>1, <3>2, <3>3 DEF NotifyOk
  <2>6. ASSUME NEW u \in Threads PROVE QueueOk(u, queues[u])'
    <3>1. \A i \in DOMAIN queues[u] : life'[queues[u][i].o] = "alive" /\ home'[queues[u][i].o] = u
      BY <1>2, <2>1, <2>2 DEF TaskInTime
    <3>2. InOrder(queues[u])
      BY <1>1 DEF QueueOk
    <3>3. ASSUME NEW i \in DOMAIN queues[u] PROVE TaskInTime(u, queues[u], i)'
      BY <1>2, <2>1, <3>1 DEF TaskInTime
    <3> QED BY <2>1, <3>2, <3>3 DEF QueueOk, InOrder
  <2> QED BY <1>1, <2>1, <2>3, <2>4, <2>5, <2>6 DEF LoopInv
<1>4. ASSUME Loop!Delete(t, o) PROVE LoopInv'
  <2>1. /\ life[o] = "alive" /\ life' = [life EXCEPT ![o] = "gone"]
        /\ Loop!TasksOf(o) = {}
        /\ UNCHANGED <<loops, queues, home, id, dying, slot, emits, slotsRan, fault>>
    BY <1>4 DEF Loop!Delete, Loop!Breaks, Loop!Alive, Loop!loopVars, Loop!history
  <2>2. /\ life' \in [Objects -> {"none", "alive", "gone"}]
        /\ life'[o] = "gone" /\ \A q \in Objects : q # o => life'[q] = life[q]
    BY <1>1, <2>1 DEF LoopTypes
  <2>3. \A u \in Threads : \A i \in DOMAIN queues[u] : queues[u][i].o # o
    BY <2>1 DEF Loop!TasksOf
  <2>4. LoopTypes'
    BY <1>1, <2>1, <2>2 DEF LoopTypes
  <2>5. \A q \in Objects : ObjectOk(q)'
    BY <1>1, <2>1, <2>2 DEF ObjectOk
  <2>6. ASSUME NEW n \in Notifies PROVE NotifyOk(n)'
    <3>1. NotifyOk(n) /\ \A q \in slot[n] : life'[q] # "none"
      BY <1>1, <2>2 DEF NotifyOk, LoopTypes
    <3> QED BY <2>1, <3>1 DEF NotifyOk
  <2>7. ASSUME NEW u \in Threads PROVE QueueOk(u, queues[u])'
    <3>1. \A i \in DOMAIN queues[u] : life'[queues[u][i].o] = life[queues[u][i].o]
      BY <1>2, <2>2, <2>3
    <3>2. InOrder(queues[u])
      BY <1>1 DEF QueueOk
    <3>3. ASSUME NEW i \in DOMAIN queues[u] PROVE TaskInTime(u, queues[u], i)'
      BY <1>2, <2>1, <3>1 DEF TaskInTime
    <3> QED BY <2>1, <3>2, <3>3 DEF QueueOk, InOrder
  <2> QED BY <1>1, <2>1, <2>4, <2>5, <2>6, <2>7 DEF LoopInv
<1>5. ASSUME NEW n \in Notifies, Loop!Connect(n, o) PROVE LoopInv'
  <2>1. /\ life[o] = "alive" /\ slot[n] = {} /\ slot' = [slot EXCEPT ![n] = {o}] /\ ~fault'
        /\ UNCHANGED <<loops, queues, life, home, id, dying, emits, slotsRan>>
    BY <1>1, <1>5 DEF Loop!Connect, Loop!Breaks, Loop!Alive, Loop!loopVars, Loop!objectVars,
                      Loop!history
  <2>2. /\ slot' \in [Notifies -> SUBSET Objects] /\ slot'[n] = {o}
        /\ \A m \in Notifies : m # n => slot'[m] = slot[m]
    BY <1>1, <2>1 DEF LoopTypes
  <2>3. LoopTypes'
    BY <1>1, <2>1, <2>2 DEF LoopTypes
  <2>4. \A q \in Objects : ObjectOk(q)'
    BY <1>1, <2>1 DEF ObjectOk
  <2>5. ASSUME NEW m \in Notifies PROVE NotifyOk(m)'
    <3>1. CASE m = n
      <4>1. slotsRan'[n] = <<>>
        BY <1>1, <2>1 DEF NotifyOk
      <4> QED BY <2>1, <2>2, <3>1, <4>1 DEF NotifyOk
    <3>2. CASE m # n
      <4>1. NotifyOk(m) /\ slot'[m] = slot[m]
        BY <1>1, <2>2, <3>2
      <4> QED BY <2>1, <4>1 DEF NotifyOk
    <3> QED BY <3>1, <3>2
  <2>6. ASSUME NEW u \in Threads PROVE QueueOk(u, queues[u])'
    <3>1. \A i \in DOMAIN queues[u] :
            queues[u][i].kind = "slot" => slot'[queues[u][i].n] = slot[queues[u][i].n]
      BY <1>2, <2>1, <2>2 DEF TaskInTime
    <3>2. InOrder(queues[u])
      BY <1>1 DEF QueueOk
    <3>3. ASSUME NEW i \in DOMAIN queues[u] PROVE TaskInTime(u, queues[u], i)'
      BY <1>2, <2>1, <3>1 DEF TaskInTime
    <3> QED BY <2>1, <3>2, <3>3 DEF QueueOk, InOrder
  <2> QED BY <2>1, <2>3, <2>4, <2>5, <2>6 DEF LoopInv
<1> QED BY <1>3, <1>4, <1>5

\* A task at the end of a queue that its object's deletion is not in.
LEMMA TaskPosted ==
  ASSUME LoopTypes, NEW u \in Threads, NEW e \in LoopTasks, QueueOk(u, queues[u]),
         life[e.o] = "alive", home[e.o] = u,
         e.kind = "slot" => e.o \in slot[e.n] /\ e.k = emits[e.n] + 1,
         e.kind = "delete" => e.o \in dying',
         e.o \notin dying, dying \subseteq dying',
         queues'[u] = Append(queues[u], e),
         \A n \in Notifies : emits'[n] \in Nat /\ emits[n] \in Nat /\ emits[n] <= emits'[n],
         e.kind = "slot" => emits'[e.n] = emits[e.n] + 1,
         e.kind = "slot" => \A r \in DOMAIN slotsRan[e.n] : slotsRan[e.n][r].k \in 1..emits[e.n],
         UNCHANGED <<life, home, slot, slotsRan>>
  PROVE  QueueOk(u, queues[u])'
<1> DEFINE q == queues[u]
<1>1. PICK r : r = Append(q, e)
  OBVIOUS
<1>2. q \in Seq(LoopTasks)
  BY DEF LoopTypes
<1>3. /\ r \in Seq(LoopTasks) /\ Len(r) = Len(q) + 1 /\ DOMAIN r = 1..(Len(q) + 1)
      /\ DOMAIN q = 1..Len(q) /\ r[Len(q) + 1] = e
      /\ \A i \in DOMAIN q : r[i] = q[i] /\ i \in DOMAIN r /\ ~(i > Len(q) + 1)
      /\ \A i \in DOMAIN r : i \in DOMAIN q \/ i = Len(q) + 1
      /\ \A i, m \in DOMAIN r : m > i => i \in DOMAIN q
  BY <1>1, <1>2, QueuePush
<1>4. queues'[u] = r
  BY <1>1
<1>5. \A i \in DOMAIN r : r[i] \in LoopTasks /\ (r[i].kind = "slot" => r[i].n \in Notifies /\ r[i].k \in Nat)
  BY <1>3 DEF LoopTasks, SlotTasks, Deletions
<1> HIDE DEF q
<1>6. ASSUME NEW i \in DOMAIN r PROVE TaskInTime(u, r, i)'
  <2>1. CASE i \in DOMAIN q
    <3>1. TaskInTime(u, q, i) /\ r[i] = q[i]
      BY <1>3, <2>1 DEF QueueOk, q
    <3>2. r[i].kind = "slot" => r[i].k \in 1..emits'[r[i].n]
      <4> SUFFICES ASSUME r[i].kind = "slot" PROVE r[i].k \in 1..emits'[r[i].n]
        OBVIOUS
      <4>1. r[i].n \in Notifies /\ r[i].k \in 1..emits[r[i].n]
        BY <1>5, <3>1 DEF TaskInTime
      <4>2. emits'[r[i].n] \in Nat /\ emits[r[i].n] \in Nat /\ emits[r[i].n] <= emits'[r[i].n]
        BY <4>1
      <4> QED BY <4>1, <4>2
    <3>3. r[i].kind = "delete" =>
            r[i].o \in dying' /\ \A m \in DOMAIN r : m > i => r[m].o # r[i].o
      <4> SUFFICES ASSUME r[i].kind = "delete"
                   PROVE  r[i].o \in dying' /\ \A m \in DOMAIN r : m > i => r[m].o # r[i].o
        OBVIOUS
      <4>1. r[i].o \in dying /\ \A m \in DOMAIN q : m > i => q[m].o # r[i].o
        BY <3>1 DEF TaskInTime
      <4>2. e.o # r[i].o
        BY <4>1
      <4> QED BY <1>3, <4>1, <4>2
    <3> QED BY <3>1, <3>2, <3>3 DEF TaskInTime
  <2>2. CASE i = Len(q) + 1
    <3>1. r[i] = e /\ \A m \in DOMAIN r : ~(m > i)
      BY <1>2, <1>3, <2>2
    <3>2. e.kind = "slot" => e.k \in 1..emits'[e.n]
      BY <1>5, <3>1
    <3> QED BY <3>1, <3>2 DEF TaskInTime
  <2> QED BY <1>3, <2>1, <2>2
<1>7. InOrder(r)'
  <2> SUFFICES ASSUME NEW i \in DOMAIN r, r[i].kind = "slot"
               PROVE  /\ \A m \in DOMAIN r :
                           m > i /\ r[m].kind = "slot" /\ r[m].n = r[i].n => r[i].k < r[m].k
                      /\ \A w \in DOMAIN slotsRan'[r[i].n] :
                           /\ slotsRan'[r[i].n][w].k # r[i].k
                           /\ slotsRan'[r[i].n][w].posted => slotsRan'[r[i].n][w].k < r[i].k
    BY DEF InOrder
  <2>1. InOrder(q)
    BY DEF QueueOk, q
  <2>2. CASE i \in DOMAIN q
    <3>1. r[i] = q[i] /\ r[i].n \in Notifies /\ r[i].k \in 1..emits[r[i].n]
      BY <1>3, <1>5, <2>2 DEF QueueOk, q, TaskInTime
    <3>2. ASSUME NEW m \in DOMAIN r, m > i, r[m].kind = "slot", r[m].n = r[i].n
          PROVE  r[i].k < r[m].k
      <4>1. CASE m \in DOMAIN q
        BY <1>3, <2>1, <2>2, <3>1, <3>2, <4>1 DEF InOrder
      <4>2. CASE m = Len(q) + 1
        <5>1. r[m].k = emits[r[i].n] + 1
          BY <1>3, <3>2, <4>2
        <5> QED BY <3>1, <5>1
      <4> QED BY <1>3, <4>1, <4>2
    <3> QED BY <2>1, <2>2, <3>1, <3>2 DEF InOrder
  <2>3. CASE i = Len(q) + 1
    <3>1. r[i] = e /\ \A m \in DOMAIN r : ~(m > i)
      BY <1>2, <1>3, <2>3
    <3>2. e.n \in Notifies /\ emits[e.n] \in Nat /\ e.k = emits[e.n] + 1
      BY <1>5, <3>1
    <3>3. ASSUME NEW w \in DOMAIN slotsRan[e.n]
          PROVE  slotsRan[e.n][w].k # e.k /\ slotsRan[e.n][w].k < e.k
      <4>1. slotsRan[e.n][w].k \in 1..emits[e.n]
        BY <3>1
      <4> QED BY <3>2, <4>1
    <3> QED BY <3>1, <3>3
  <2> QED BY <1>3, <2>2, <2>3
<1> QED BY <1>4, <1>6, <1>7 DEF QueueOk

\* What is queued stays in order when more is emitted and deleted later, and
\* when what runs meanwhile was not posted.
LEMMA TasksStay ==
  ASSUME LoopTypes, NEW u \in Threads, QueueOk(u, queues[u]), queues'[u] = queues[u],
         dying \subseteq dying',
         \A n \in Notifies : emits'[n] \in Nat /\ emits[n] \in Nat /\ emits[n] <= emits'[n],
         \A n \in Notifies : \A r \in DOMAIN slotsRan'[n] :
           \/ r \in DOMAIN slotsRan[n] /\ slotsRan'[n][r] = slotsRan[n][r]
           \/ slotsRan'[n][r].k = emits[n] + 1 /\ ~slotsRan'[n][r].posted,
         UNCHANGED <<life, home, slot>>
  PROVE  QueueOk(u, queues[u])'
<1>1. PICK q : q = queues[u]
  OBVIOUS
<1>2. q \in Seq(LoopTasks) /\ QueueOk(u, q) /\ queues'[u] = q
  BY <1>1 DEF LoopTypes
<1>3. ASSUME NEW i \in DOMAIN q, q[i].kind = "slot"
      PROVE  q[i].n \in Notifies /\ q[i].k \in 1..emits[q[i].n] /\ q[i].k \in 1..emits'[q[i].n]
  <2>1. q[i] \in SlotTasks
    BY <1>2, <1>3 DEF LoopTasks, Deletions
  <2>2. q[i].n \in Notifies /\ q[i].k \in 1..emits[q[i].n]
    BY <1>2, <1>3, <2>1 DEF SlotTasks, QueueOk, TaskInTime
  <2>3. /\ emits'[q[i].n] \in Nat /\ emits[q[i].n] \in Nat
        /\ emits[q[i].n] <= emits'[q[i].n]
    BY <2>2
  <2> QED BY <2>2, <2>3
<1>4. ASSUME NEW i \in DOMAIN q PROVE TaskInTime(u, q, i)'
  <2>1. TaskInTime(u, q, i)
    BY <1>2 DEF QueueOk
  <2> QED BY <1>3, <2>1 DEF TaskInTime
<1>5. InOrder(q)'
  <2> SUFFICES ASSUME NEW i \in DOMAIN q, q[i].kind = "slot"
               PROVE  /\ \A m \in DOMAIN q :
                           m > i /\ q[m].kind = "slot" /\ q[m].n = q[i].n => q[i].k < q[m].k
                      /\ \A w \in DOMAIN slotsRan'[q[i].n] :
                           /\ slotsRan'[q[i].n][w].k # q[i].k
                           /\ slotsRan'[q[i].n][w].posted => slotsRan'[q[i].n][w].k < q[i].k
    BY DEF InOrder
  <2>1. InOrder(q)
    BY <1>2 DEF QueueOk
  <2>2. ASSUME NEW w \in DOMAIN slotsRan'[q[i].n]
        PROVE  /\ slotsRan'[q[i].n][w].k # q[i].k
               /\ slotsRan'[q[i].n][w].posted => slotsRan'[q[i].n][w].k < q[i].k
    <3>1. q[i].n \in Notifies /\ q[i].k \in 1..emits[q[i].n] /\ emits[q[i].n] \in Nat
      BY <1>3
    <3>2. CASE w \in DOMAIN slotsRan[q[i].n] /\ slotsRan'[q[i].n][w] = slotsRan[q[i].n][w]
      BY <2>1, <3>2 DEF InOrder
    <3>3. CASE slotsRan'[q[i].n][w].k = emits[q[i].n] + 1 /\ ~slotsRan'[q[i].n][w].posted
      <4>1. q[i].k # emits[q[i].n] + 1
        BY <3>1
      <4> QED BY <3>3, <4>1
    <3> QED BY <3>1, <3>2, <3>3
  <2> QED BY <2>1, <2>2 DEF InOrder
<1> QED BY <1>2, <1>4, <1>5 DEF QueueOk

LEMMA EmitKeeps ==
  ASSUME LoopInv, broken = {}, broken' = {}, NEW t \in Threads, NEW n \in Notifies,
         Loop!Emit(t, n)
  PROVE  LoopInv'
<1>1. /\ LoopTypes /\ ~fault
      /\ \A p \in Objects : ObjectOk(p)
      /\ \A m \in Notifies : NotifyOk(m)
      /\ \A u \in Threads : QueueOk(u, queues[u])
  BY DEF LoopInv
<1>2. PICK o \in slot[n] :
        /\ emits' = [emits EXCEPT ![n] = @ + 1]
        /\ fault' = (fault \/ ~Loop!Alive(o) \/ (~Loop!Direct(t, o) /\ loops[home[o]] = "none"))
        /\ Loop!Breaks("lastWords", ~Loop!Alive(o) \/ (o \in dying /\ t # id[o]))
        /\ IF Loop!Direct(t, o)
           THEN /\ slotsRan' = [slotsRan EXCEPT
                                  ![n] = Append(@, Loop!Run(emits[n] + 1, t, FALSE))]
                /\ UNCHANGED queues
           ELSE /\ Loop!Post(home[o], [kind |-> "slot", o |-> o, n |-> n, k |-> emits[n] + 1])
                /\ UNCHANGED slotsRan
  BY DEF Loop!Emit
<1>3. UNCHANGED <<loops, life, home, id, dying, slot>>
  BY DEF Loop!Emit, Loop!loopVars, Loop!objectVars
<1>4. o \in Objects /\ life[o] = "alive" /\ (o \in dying => t = id[o])
  BY <1>1, <1>2 DEF Loop!Breaks, Loop!Alive, LoopTypes
<1>5. id[o] = home[o] /\ loops[home[o]] # "none" /\ home[o] \in Threads
  BY <1>1, <1>4 DEF ObjectOk, LoopTypes
<1>6. ~fault'
  BY <1>1, <1>2, <1>4, <1>5 DEF Loop!Alive
<1>7. /\ emits' \in [Notifies -> Nat] /\ emits[n] \in Nat /\ emits'[n] = emits[n] + 1
      /\ \A m \in Notifies : m # n => emits'[m] = emits[m]
  BY <1>1, <1>2 DEF LoopTypes
<1>8. \A m \in Notifies : emits'[m] \in Nat /\ emits[m] \in Nat /\ emits[m] <= emits'[m]
  <2> SUFFICES ASSUME NEW m \in Notifies
               PROVE  emits'[m] \in Nat /\ emits[m] \in Nat /\ emits[m] <= emits'[m]
    OBVIOUS
  <2>1. emits'[m] \in Nat /\ emits[m] \in Nat
    BY <1>1, <1>7 DEF LoopTypes
  <2>2. emits'[m] = emits[m] \/ emits'[m] = emits[m] + 1
    BY <1>7
  <2> QED BY <2>1, <2>2
<1>9. \A p \in Objects : ObjectOk(p)'
  BY <1>1, <1>3 DEF ObjectOk
<1>10. \A m \in Notifies : \A i \in DOMAIN slotsRan[m] : slotsRan[m][i].k \in 1..emits[m]
  BY <1>1 DEF NotifyOk
<1>11. CASE Loop!Direct(t, o)
  <2>1. /\ slotsRan' = [slotsRan EXCEPT ![n] = Append(@, Loop!Run(emits[n] + 1, t, FALSE))]
        /\ queues' = queues /\ home[o] = t
    BY <1>2, <1>5, <1>11 DEF Loop!Direct
  <2>2. PICK e : e = Loop!Run(emits[n] + 1, t, FALSE)
    OBVIOUS
  <2>3. e \in SlotRuns /\ e.k = emits[n] + 1 /\ e.on = t /\ ~e.posted
    BY <1>7, <2>2 DEF SlotRuns, Loop!Run
  <2>4. PICK L : L = slotsRan[n]
    OBVIOUS
  <2>5. PICK r : r = Append(L, e)
    OBVIOUS
  <2>6. L \in Seq(SlotRuns)
    BY <1>1, <2>4 DEF LoopTypes
  <2>7. /\ r \in Seq(SlotRuns) /\ r[Len(L) + 1] = e
        /\ \A i \in DOMAIN L : r[i] = L[i]
        /\ \A i \in DOMAIN r : i \in DOMAIN L \/ i = Len(L) + 1
        /\ \A i, m \in DOMAIN r : m > i => i \in DOMAIN L
    BY <2>3, <2>5, <2>6, QueuePush
  <2>8. /\ slotsRan' \in [Notifies -> Seq(SlotRuns)] /\ slotsRan'[n] = r
        /\ \A m \in Notifies : m # n => slotsRan'[m] = slotsRan[m]
    <3>1. slotsRan' = [slotsRan EXCEPT ![n] = r]
      BY <2>1, <2>2, <2>4, <2>5
    <3> QED BY <1>1, <2>7, <3>1 DEF LoopTypes
  <2>9. LoopTypes'
    BY <1>1, <1>3, <1>7, <2>1, <2>8 DEF LoopTypes
  <2>10. ASSUME NEW m \in Notifies PROVE NotifyOk(m)'
    <3>1. CASE m # n
      <4>1. NotifyOk(m) /\ emits'[m] = emits[m] /\ slotsRan'[m] = slotsRan[m]
        BY <1>1, <1>7, <2>8, <3>1
      <4> QED BY <1>3, <4>1 DEF NotifyOk
    <3>2. CASE m = n
      <4>1. /\ \A p \in slot[n] : life[p] # "none" /\ slot[n] = {p}
            /\ \A i \in DOMAIN L :
                 /\ \A p \in slot[n] : L[i].on = home[p]
                 /\ L[i].k \in 1..emits[n]
                 /\ \A j \in DOMAIN L : i < j =>
                      L[i].k # L[j].k /\ (L[i].posted /\ L[j].posted => L[i].k < L[j].k)
        BY <1>1, <2>4 DEF NotifyOk
      <4>2. slot[n] = {o}
        BY <4>1
      <4>3. ASSUME NEW i \in DOMAIN r
            PROVE  (\A p \in slot[n] : r[i].on = home[p]) /\ r[i].k \in 1..emits'[n]
        <5>1. CASE i \in DOMAIN L
          <6>1. L[i].k \in 1..emits[n]
            BY <4>1, <5>1
          <6>2. L[i].k \in 1..emits'[n]
            BY <1>7, <6>1
          <6> QED BY <2>7, <4>1, <5>1, <6>2
        <5>2. CASE i = Len(L) + 1
          <6>1. emits[n] + 1 \in 1..emits'[n]
            BY <1>7
          <6> QED BY <2>1, <2>3, <2>7, <4>2, <5>2, <6>1
        <5> QED BY <2>7, <5>1, <5>2
      <4>4. ASSUME NEW i \in DOMAIN r, NEW j \in DOMAIN r, i < j
            PROVE  r[i].k # r[j].k /\ (r[i].posted /\ r[j].posted => r[i].k < r[j].k)
        <5>1. i \in DOMAIN L /\ r[i] = L[i]
          <6>1. i \in Int /\ j \in Int
            BY <2>7
          <6>2. j > i
            BY <4>4, <6>1
          <6> QED BY <2>7, <6>2
        <5>2. CASE j \in DOMAIN L
          BY <2>7, <4>1, <4>4, <5>1, <5>2
        <5>3. CASE j = Len(L) + 1
          <6>1. L[i].k \in 1..emits[n]
            BY <4>1, <5>1
          <6>2. L[i].k # emits[n] + 1
            BY <1>7, <6>1
          <6> QED BY <2>3, <2>7, <5>1, <5>3, <6>2
        <5> QED BY <2>7, <5>2, <5>3
      <4> QED BY <1>3, <2>8, <3>2, <4>1, <4>2, <4>3, <4>4 DEF NotifyOk
    <3> QED BY <3>1, <3>2
  <2>11. ASSUME NEW m \in Notifies, NEW i \in DOMAIN slotsRan'[m]
         PROVE  \/ i \in DOMAIN slotsRan[m] /\ slotsRan'[m][i] = slotsRan[m][i]
                \/ slotsRan'[m][i].k = emits[m] + 1 /\ ~slotsRan'[m][i].posted
    <3>1. CASE m # n
      BY <2>8, <3>1
    <3>2. CASE m = n
      BY <2>3, <2>4, <2>7, <2>8, <3>2
    <3> QED BY <3>1, <3>2
  <2>12. ASSUME NEW u \in Threads PROVE QueueOk(u, queues[u])'
    <3>1. QueueOk(u, queues[u]) /\ queues'[u] = queues[u] /\ dying \subseteq dying'
      BY <1>1, <1>3, <2>1
    <3> QED BY <1>1, <1>3, <1>8, <2>11, <3>1, TasksStay
  <2> QED BY <1>6, <1>9, <2>9, <2>10, <2>12 DEF LoopInv
<1>12. CASE ~Loop!Direct(t, o)
  <2>1. t # id[o] /\ o \notin dying
    BY <1>4, <1>12 DEF Loop!Direct
  <2>2. PICK e : e = [kind |-> "slot", o |-> o, n |-> n, k |-> emits[n] + 1]
    OBVIOUS
  <2>3. e \in LoopTasks /\ e.kind = "slot" /\ e.o = o /\ e.n = n /\ e.k = emits[n] + 1
    <3>1. emits[n] + 1 \in Nat
      BY <1>7
    <3>2. e \in SlotTasks
      BY <1>4, <2>2, <3>1 DEF SlotTasks
    <3> QED BY <2>2, <3>2 DEF LoopTasks
  <2>4. queues' = [queues EXCEPT ![home[o]] = Append(@, e)] /\ slotsRan' = slotsRan
    BY <1>2, <1>12, <2>2 DEF Loop!Post
  <2>5. PICK w \in Threads : w = home[o]
    BY <1>5
  <2>6. PICK r : r = Append(queues[w], e)
    OBVIOUS
  <2>7. r \in Seq(LoopTasks) /\ queues' = [queues EXCEPT ![w] = r]
    <3>1. queues[w] \in Seq(LoopTasks)
      BY <1>1 DEF LoopTypes
    <3>2. r \in Seq(LoopTasks)
      BY <2>3, <2>6, <3>1, QueuePush
    <3> QED BY <2>4, <2>5, <2>6, <3>2
  <2>8. /\ queues' \in [Threads -> Seq(LoopTasks)] /\ queues'[w] = r
        /\ \A u \in Threads : u # w => queues'[u] = queues[u]
    BY <1>1, <2>7 DEF LoopTypes
  <2>9. LoopTypes'
    BY <1>1, <1>3, <1>7, <2>4, <2>8 DEF LoopTypes
  <2>10. ASSUME NEW m \in Notifies PROVE NotifyOk(m)'
    <3>1. NotifyOk(m)
      BY <1>1
    <3>2. \A i \in DOMAIN slotsRan[m] : slotsRan[m][i].k \in 1..emits'[m]
      <4> SUFFICES ASSUME NEW i \in DOMAIN slotsRan[m]
                   PROVE  slotsRan[m][i].k \in 1..emits'[m]
        OBVIOUS
      <4>1. slotsRan[m][i].k \in 1..emits[m]
        BY <1>10
      <4>2. emits'[m] \in Nat /\ emits[m] \in Nat /\ emits[m] <= emits'[m]
        BY <1>8
      <4> QED BY <4>1, <4>2
    <3> QED BY <1>3, <2>4, <3>1, <3>2 DEF NotifyOk
  <2>11. ASSUME NEW u \in Threads PROVE QueueOk(u, queues[u])'
    <3>1. QueueOk(u, queues[u]) /\ dying \subseteq dying'
      BY <1>1, <1>3
    <3>2. CASE u = w
      <4>1. /\ queues'[u] = Append(queues[u], e) /\ life[e.o] = "alive" /\ home[e.o] = u
            /\ e.o \notin dying /\ e.o \in slot[e.n]
        BY <1>2, <1>4, <2>1, <2>3, <2>5, <2>6, <2>8, <3>2
      <4>2. emits'[e.n] = emits[e.n] + 1 /\ e.k = emits[e.n] + 1
        BY <1>7, <2>3
      <4>3. \A i \in DOMAIN slotsRan[e.n] : slotsRan[e.n][i].k \in 1..emits[e.n]
        BY <1>10, <2>3
      <4>4. e.kind # "delete"
        BY <2>3
      <4> QED BY <1>1, <1>3, <1>8, <2>3, <2>4, <3>1, <4>1, <4>2, <4>3, <4>4, TaskPosted
    <3>3. CASE u # w
      <4>1. queues'[u] = queues[u]
        BY <2>8, <3>3
      <4>2. \A m \in Notifies : \A i \in DOMAIN slotsRan'[m] :
              i \in DOMAIN slotsRan[m] /\ slotsRan'[m][i] = slotsRan[m][i]
        BY <2>4
      <4> QED BY <1>1, <1>3, <1>8, <3>1, <4>1, <4>2, TasksStay
    <3> QED BY <3>2, <3>3
  <2> QED BY <1>6, <1>9, <2>9, <2>10, <2>11 DEF LoopInv
<1> QED BY <1>11, <1>12

LEMMA DeleteLaterKeeps ==
  ASSUME LoopInv, broken = {}, broken' = {}, NEW t \in Threads, NEW o \in Objects,
         Loop!DeleteLater(t, o)
  PROVE  LoopInv'
<1>1. /\ LoopTypes /\ ~fault
      /\ \A p \in Objects : ObjectOk(p)
      /\ \A m \in Notifies : NotifyOk(m)
      /\ \A u \in Threads : QueueOk(u, queues[u])
  BY DEF LoopInv
<1>2. PICK e : e = [kind |-> "delete", o |-> o, n |-> 0, k |-> 0]
  OBVIOUS
<1>3. /\ life[o] = "alive" /\ o \notin dying /\ dying' = dying \cup {o}
      /\ queues' = [queues EXCEPT ![home[o]] = Append(@, e)]
      /\ fault' = (fault \/ loops[home[o]] = "none")
      /\ UNCHANGED <<loops, life, home, id, slot, emits, slotsRan>>
  BY <1>2 DEF Loop!DeleteLater, Loop!Post, Loop!Alive, Loop!Breaks, Loop!loopVars, Loop!history
<1>4. e \in LoopTasks /\ e.kind = "delete" /\ e.o = o
  BY <1>2 DEF LoopTasks, Deletions
<1>5. PICK w \in Threads : w = home[o]
  BY <1>1 DEF LoopTypes
<1>6. ~fault'
  BY <1>1, <1>3 DEF ObjectOk
<1>7. PICK r : r = Append(queues[w], e)
  OBVIOUS
<1>8. r \in Seq(LoopTasks) /\ queues' = [queues EXCEPT ![w] = r]
  <2>1. queues[w] \in Seq(LoopTasks)
    BY <1>1 DEF LoopTypes
  <2>2. r \in Seq(LoopTasks)
    BY <1>4, <1>7, <2>1, QueuePush
  <2> QED BY <1>3, <1>5, <1>7, <2>2
<1>9. /\ queues' \in [Threads -> Seq(LoopTasks)] /\ queues'[w] = r
      /\ \A u \in Threads : u # w => queues'[u] = queues[u]
  BY <1>1, <1>8 DEF LoopTypes
<1>10. LoopTypes'
  BY <1>1, <1>3, <1>9 DEF LoopTypes
<1>11. \A p \in Objects : ObjectOk(p)'
  BY <1>1, <1>3 DEF ObjectOk
<1>12. \A m \in Notifies : NotifyOk(m)'
  BY <1>1, <1>3 DEF NotifyOk
<1>13. \A m \in Notifies : emits'[m] \in Nat /\ emits[m] \in Nat /\ emits[m] <= emits'[m]
  <2>1. \A m \in Notifies : emits[m] \in Nat /\ emits'[m] = emits[m]
    BY <1>1, <1>3 DEF LoopTypes
  <2>2. \A k \in Nat : k <= k
    OBVIOUS
  <2> QED BY <2>1, <2>2
<1>14. ASSUME NEW u \in Threads PROVE QueueOk(u, queues[u])'
  <2>1. QueueOk(u, queues[u]) /\ dying \subseteq dying' /\ e.kind # "slot"
    BY <1>1, <1>3, <1>4
  <2>2. CASE u = w
    <3>1. /\ queues'[u] = Append(queues[u], e) /\ life[e.o] = "alive" /\ home[e.o] = u
          /\ e.o \notin dying /\ e.o \in dying'
      BY <1>3, <1>4, <1>5, <1>7, <1>9, <2>2
    <3> QED BY <1>1, <1>3, <1>4, <1>13, <2>1, <3>1, TaskPosted
  <2>3. CASE u # w
    <3>1. queues'[u] = queues[u]
      BY <1>9, <2>3
    <3>2. \A m \in Notifies : \A i \in DOMAIN slotsRan'[m] :
            i \in DOMAIN slotsRan[m] /\ slotsRan'[m][i] = slotsRan[m][i]
      BY <1>3
    <3> QED BY <1>1, <1>3, <1>13, <2>1, <3>1, <3>2, TasksStay
  <2> QED BY <2>2, <2>3
<1> QED BY <1>6, <1>10, <1>11, <1>12, <1>14 DEF LoopInv

LEMMA LoopNext == ASSUME LoopInv, [Loop!Next]_(Loop!vars) PROVE LoopInv'
<1>1. CASE UNCHANGED Loop!vars
  <2>1. UNCHANGED <<loops, queues, life, home, id, dying, slot, emits, slotsRan, fault, broken>>
    BY <1>1 DEF Loop!vars, Loop!loopVars, Loop!objectVars, Loop!history
  <2> SUFFICES ASSUME broken' = {} PROVE LoopInv'
    BY DEF LoopInv
  <2>2. /\ LoopTypes /\ ~fault
        /\ \A o \in Objects : ObjectOk(o)
        /\ \A n \in Notifies : NotifyOk(n)
        /\ \A u \in Threads : QueueOk(u, queues[u])
    BY <2>1 DEF LoopInv
  <2>3. /\ loops \in [Threads -> {"none", "made", "exec", "execEx", "poll"}]
        /\ loops' = loops
    BY <2>1, <2>2 DEF LoopTypes
  <2> QED BY <2>1, <2>2, <2>3, LoopFrame
<1>2. CASE Loop!Next
  <2> SUFFICES ASSUME broken' = {} PROVE LoopInv'
    BY DEF LoopInv
  <2>1. broken = {}
    BY <1>2 DEF Loop!Next
  <2>2. \/ \E t \in Threads :
             \/ Loop!MakeLoop(t) \/ Loop!DestroyLoop(t) \/ Loop!Quit(t)
             \/ \E how \in {"exec", "execEx"} : Loop!Exec(t, how)
             \/ Loop!RunTask(t) \/ Loop!SlotReturns(t)
             \/ Loop!ExecReturns(t) \/ Loop!Reset(t) \/ Loop!PollReturns(t)
             \/ \E n \in Notifies : Loop!Emit(t, n)
             \/ \E o \in Objects : Loop!DeleteLater(t, o) \/ Loop!Delete(t, o)
             \/ \E o \in Objects, p \in Threads : Loop!MakeObject(t, o, p)
        \/ \E n \in Notifies, o \in Objects : Loop!Connect(n, o)
    BY <1>2 DEF Loop!Next
  <2>3. ASSUME NEW t \in Threads, Loop!RunTask(t) PROVE LoopInv'
    BY <2>1, <2>3, TaskRuns
  <2>4. ASSUME NEW t \in Threads,
               \/ Loop!MakeLoop(t) \/ Loop!DestroyLoop(t) \/ Loop!Quit(t)
               \/ \E how \in {"exec", "execEx"} : Loop!Exec(t, how)
               \/ Loop!SlotReturns(t) \/ Loop!ExecReturns(t) \/ Loop!Reset(t)
               \/ Loop!PollReturns(t)
        PROVE  LoopInv'
    BY <2>1, <2>4, LoopMoves
  <2>5. ASSUME NEW t \in Threads, NEW n \in Notifies, Loop!Emit(t, n) PROVE LoopInv'
    BY <2>1, <2>5, EmitKeeps
  <2>6. ASSUME NEW t \in Threads, NEW o \in Objects, Loop!DeleteLater(t, o) PROVE LoopInv'
    BY <2>1, <2>6, DeleteLaterKeeps
  <2>7. ASSUME NEW t \in Threads, NEW o \in Objects, Loop!Delete(t, o) PROVE LoopInv'
    BY <2>1, <2>7, ObjectMoves
  <2>8. ASSUME NEW t \in Threads, NEW o \in Objects, NEW p \in Threads,
               Loop!MakeObject(t, o, p)
        PROVE  LoopInv'
    BY <2>1, <2>8, ObjectMoves
  <2>9. ASSUME NEW n \in Notifies, NEW o \in Objects, Loop!Connect(n, o) PROVE LoopInv'
    <3>1. CASE Threads = {}
      <4>1. \A p \in Objects : FALSE
        BY <2>1, <3>1 DEF LoopInv, LoopTypes
      <4> QED BY <4>1
    <3>2. CASE Threads # {}
      <4>1. PICK t \in Threads : TRUE
        BY <3>2
      <4> QED BY <2>1, <2>9, <4>1, ObjectMoves
    <3> QED BY <3>1, <3>2
  <2> QED BY <2>2, <2>3, <2>4, <2>5, <2>6, <2>7, <2>8, <2>9
<1> QED BY <1>1, <1>2

LEMMA LoopInit == Loop!Init => LoopInv
<1> SUFFICES ASSUME Loop!Init PROVE LoopInv
  OBVIOUS
<1>1. /\ loops = [t \in Threads |-> "none"] /\ queues = [t \in Threads |-> <<>>]
      /\ life = [o \in Objects |-> "none"] /\ slot = [n \in Notifies |-> {}]
      /\ emits = [n \in Notifies |-> 0] /\ slotsRan = [n \in Notifies |-> <<>>]
      /\ fault = FALSE
  BY DEF Loop!Init
<1>2. PICK t \in Threads : home = [o \in Objects |-> t] /\ id = [o \in Objects |-> t]
  BY DEF Loop!Init
<1>3. LoopTypes
  BY <1>1, <1>2 DEF LoopTypes
<1>4. \A o \in Objects : ObjectOk(o)
  BY <1>1 DEF ObjectOk
<1>5. \A n \in Notifies : NotifyOk(n)
  BY <1>1 DEF NotifyOk
<1>6. \A u \in Threads : QueueOk(u, queues[u])
  BY <1>1 DEF QueueOk, InOrder
<1> QED BY <1>1, <1>3, <1>4, <1>5, <1>6 DEF LoopInv

LEMMA LoopKept == LoopInv => Loop!NoGoneUse /\ Loop!RunsAtHome
<1> SUFFICES ASSUME LoopInv, broken = {} PROVE ~fault /\ Loop!RunsAtHome
  BY DEF Loop!NoGoneUse, Loop!RunsAtHome
<1>1. /\ LoopTypes /\ ~fault
      /\ \A n \in Notifies : NotifyOk(n)
      /\ \A u \in Threads : QueueOk(u, queues[u])
  BY DEF LoopInv
<1>2. ASSUME NEW n \in Notifies, NEW o \in slot[n], NEW u \in Threads \ {home[o]}
      PROVE  Loop!Queued(n, u) = {}
  <2> SUFFICES ASSUME NEW i \in DOMAIN queues[u],
                      queues[u][i].kind = "slot", queues[u][i].n = n
               PROVE  FALSE
    BY DEF Loop!Queued
  <2>1. home[queues[u][i].o] = u /\ queues[u][i].o \in slot[n]
    BY <1>1 DEF QueueOk, TaskInTime
  <2> QED BY <1>1, <2>1 DEF NotifyOk
<1>3. ASSUME NEW n \in Notifies, NEW o \in slot[n]
      PROVE  /\ \A i \in DOMAIN slotsRan[n] : slotsRan[n][i].on = home[o]
             /\ \A i, j \in DOMAIN slotsRan[n] : i < j =>
                  /\ slotsRan[n][i].k # slotsRan[n][j].k
                  /\ slotsRan[n][i].posted /\ slotsRan[n][j].posted =>
                       slotsRan[n][i].k < slotsRan[n][j].k
  BY <1>1 DEF NotifyOk
<1> QED BY <1>1, <1>2, <1>3 DEF Loop!RunsAtHome

\* Whoever keeps the rules never has a slot, a deletion or an emission use an
\* object or a loop that is gone, and has each slot run at home, once and in
\* order, for any number of threads, objects and notifies.
THEOREM LoopSafety == Loop!Spec => [](Loop!NoGoneUse /\ Loop!RunsAtHome)
BY LoopInit, LoopNext, LoopKept, PTL DEF Loop!Spec

PartsInv == (part = "thread" => ThreadInv) /\ (part = "loop" => LoopInv)

\* A behaviour uses the thread or the loops.
LEMMA PartsSafety == MCSpec => []PartsInv
<1>1. MCInit => PartsInv
  BY ThreadAssumption, ThreadInit, LoopInit DEF MCInit, PartsInv
<1>2. ASSUME PartsInv, [MCNext]_allVars PROVE PartsInv'
  <2>1. CASE UNCHANGED allVars
    <3>1. vars' = vars /\ objectVars' = objectVars /\ part' = part
      BY <2>1 DEF allVars
    <3>2. UNCHANGED Loop!vars
      BY <3>1 DEF vars, objectVars, Loop!vars, Loop!loopVars, Loop!objectVars, Loop!history
    <3> QED BY <1>2, <3>1, <3>2, ThreadAssumption, ThreadNext, LoopNext DEF PartsInv
  <2>2. CASE MCNext
    <3>1. /\ part' = part
          /\ \/ part = "thread" /\ Next
             \/ part = "loop" /\ Loop!Next
      BY <2>2 DEF MCNext
    <3> QED BY <1>2, <3>1, ThreadAssumption, ThreadNext, LoopNext DEF PartsInv
  <2> QED BY <1>2, <2>1, <2>2
<1> QED BY <1>1, <1>2, PTL DEF MCSpec

\* In the behaviours that are checked on two threads, and in those of any
\* number, nothing uses a loop or an object that is gone.
THEOREM NoGoneUseSafety == MCSpec => []NoGoneUse
<1>1. PartsInv => NoGoneUse
  BY ThreadAssumption, ThreadKept, LoopKept DEF PartsInv, NoGoneUse
<1> QED BY <1>1, PartsSafety, PTL

\* In the same behaviours every slot runs on the thread of its object and on
\* no other, once, and in the order of the emissions that posted it.
THEOREM RunsAtHomeSafety == MCSpec => []RunsAtHome
<1>1. PartsInv => RunsAtHome
  BY LoopKept DEF PartsInv, RunsAtHome
<1> QED BY <1>1, PartsSafety, PTL

=============================================================================
