------------------------------- MODULE EventLoop -------------------------------
(***************************************************************************)
(* EventLoop, Object and Notify: threads with a loop each, objects that    *)
(* belong to a loop, and notifies that are connected to a slot of an       *)
(* object.  Who emits on the receiver's thread runs the slot inside the    *)
(* emission; who emits on another posts it to the receiver's loop.  There  *)
(* is no way to disconnect.                                                *)
(***************************************************************************)
EXTENDS Naturals, FiniteSets, SequencesExt

CONSTANTS
  Threads, Objects, Notifies,
  MaxEmits,   \* bound: emissions of each notify
  MaxDepth    \* bound: slots running inside slots

VARIABLES
  loop,      \* of each thread: "none", "made", "exec", "execEx", "poll"
  stopped,   \* its io_service is stopped
  queue,     \* the tasks posted to it
  running,   \* the slots a thread is in, the innermost first
  life,      \* of each object: "none", "alive", "gone"
  home,      \* Private::loop: the thread whose loop it is
  id,        \* Private::id: the thread it was made on
  dying,     \* objects that DeleteLater was called for
  slot,      \* f_ of each notify: the object it is connected to, if any
  emits,     \* history: emissions posted or run, by notify
  ran,       \* history: the slots that ran, by notify
  quitAgain, \* history: Quit was called in the poll of ExecEx
  fault,     \* a freed object or loop was used, or an assertion failed
  broken     \* the rules of use that were broken

loopVars   == <<loop, stopped>>
objectVars == <<life, home, id, dying>>
history    == <<emits, ran, quitAgain>>
vars == <<loopVars, queue, running, objectVars, slot, history, fault, broken>>

\* What the user owes.
\* "madeAtHome":  an object with a parent is made on the parent's thread.
\* "connectOnce": one slot for each notify.
\* "deleteOnce":  DeleteLater is called once, and delete only when nothing is
\*                queued or running for the object, and on its own thread.
\* "lastWords":   once DeleteLater was called, other threads do not emit to
\*                the object; once it is gone, nobody does.
\* "loopLast":    a loop is destroyed after its objects.
Breaks(rule, when) == broken' = broken \cup (IF when THEN {rule} ELSE {})

Run(k, t, posted) == [k |-> k, on |-> t, posted |-> posted]

Post(t, task) == queue' = [queue EXCEPT ![t] = Append(@, task)]

\* Code of the user runs on a thread outside the loop, or in a slot.
UserActs(t) == loop[t] \in {"none", "made"} \/ running[t] # <<>>

Alive(o) == life[o] = "alive"

TasksOf(o) ==
  {p \in Threads : \E i \in DOMAIN queue[p] : queue[p][i].o = o}

InSlot(o) == \E t \in Threads : Contains(running[t], o)

-----------------------------------------------------------------------------
\* Loops.

MakeLoop(t) ==
  /\ loop[t] = "none"
  /\ loop' = [loop EXCEPT ![t] = "made"]
  /\ UNCHANGED <<stopped, queue, running, objectVars, slot, history, fault, broken>>

\* Tasks that were not run are destroyed with the loop.
DestroyLoop(t) ==
  /\ loop[t] = "made" /\ running[t] = <<>>
  /\ loop' = [loop EXCEPT ![t] = "none"]
  /\ stopped' = [stopped EXCEPT ![t] = FALSE]
  /\ queue' = [queue EXCEPT ![t] = <<>>]
  /\ Breaks("loopLast", \E o \in Objects : Alive(o) /\ home[o] = t)
  /\ UNCHANGED <<running, objectVars, slot, history, fault>>

Exec(t, how) ==
  /\ loop[t] = "made" /\ running[t] = <<>>
  /\ loop' = [loop EXCEPT ![t] = how]
  /\ quitAgain' = [quitAgain EXCEPT ![t] = FALSE]
  /\ UNCHANGED <<stopped, queue, running, objectVars, slot, emits, ran, fault, broken>>

\* Quit and Exit, from any thread.
Quit(t) ==
  /\ loop[t] # "none" /\ ~stopped[t]
  /\ stopped' = [stopped EXCEPT ![t] = TRUE]
  /\ quitAgain' = [quitAgain EXCEPT ![t] = @ \/ loop[t] = "poll"]
  /\ UNCHANGED <<loop, queue, running, objectVars, slot, emits, ran, fault, broken>>

Runs(t) == loop[t] \in {"exec", "execEx", "poll"} /\ running[t] = <<>>

\* The thread's next task: a slot, or the deletion of an object.
RunTask(t) ==
  /\ Runs(t) /\ ~stopped[t] /\ queue[t] # <<>>
  /\ LET task == Head(queue[t])
     IN  /\ queue' = [queue EXCEPT ![t] = Tail(@)]
         /\ fault' = (fault \/ ~Alive(task.o))
         /\ IF task.kind = "slot"
            THEN /\ running' = [running EXCEPT ![t] = <<task.o>>]
                 /\ ran' = [ran EXCEPT ![task.n] = Append(@, Run(task.k, t, TRUE))]
                 /\ UNCHANGED life
            ELSE /\ life' = [life EXCEPT ![task.o] = "gone"]
                 /\ UNCHANGED <<running, ran>>
  /\ UNCHANGED <<loopVars, home, id, dying, slot, emits, quitAgain, broken>>

SlotReturns(t) ==
  /\ running[t] # <<>>
  /\ running' = [running EXCEPT ![t] = Tail(@)]
  /\ UNCHANGED <<loopVars, queue, objectVars, slot, history, fault, broken>>

\* run returns when it is stopped, and stays so for the next Exec.
ExecReturns(t) ==
  /\ loop[t] = "exec" /\ running[t] = <<>> /\ stopped[t]
  /\ loop' = [loop EXCEPT ![t] = "made"]
  /\ UNCHANGED <<stopped, queue, running, objectVars, slot, history, fault, broken>>

\* Mutant: no reset before poll.
Reset_Not(t) ==
  /\ loop[t] = "execEx" /\ running[t] = <<>> /\ stopped[t]
  /\ loop' = [loop EXCEPT ![t] = "poll"]
  /\ UNCHANGED <<stopped, queue, running, objectVars, slot, history, fault, broken>>

\* ExecEx goes on with reset and poll.
Reset(t) ==
  /\ loop[t] = "execEx" /\ running[t] = <<>> /\ stopped[t]
  /\ loop' = [loop EXCEPT ![t] = "poll"]
  /\ stopped' = [stopped EXCEPT ![t] = FALSE]
  /\ UNCHANGED <<queue, running, objectVars, slot, history, fault, broken>>

PollReturns(t) ==
  /\ loop[t] = "poll" /\ running[t] = <<>>
  /\ stopped[t] \/ queue[t] = <<>>
  /\ loop' = [loop EXCEPT ![t] = "made"]
  /\ UNCHANGED <<stopped, queue, running, objectVars, slot, history, fault, broken>>

-----------------------------------------------------------------------------
\* Objects and notifies.

\* With a parent, which may be a loop, the loop is the parent's; without it
\* the thread's own. The thread that is remembered is the one that runs the
\* constructor.
MakeObject(t, o, p) ==
  /\ UserActs(t) /\ life[o] = "none" /\ loop[p] # "none"
  /\ life' = [life EXCEPT ![o] = "alive"]
  /\ home' = [home EXCEPT ![o] = p]
  /\ id' = [id EXCEPT ![o] = t]
  /\ Breaks("madeAtHome", p # t)
  /\ UNCHANGED <<loopVars, queue, running, dying, slot, history, fault>>

Connect(n, o) ==
  /\ Alive(o) /\ o \notin dying
  /\ fault' = (fault \/ slot[n] # {})
  /\ slot' = [slot EXCEPT ![n] = {o}]
  /\ Breaks("connectOnce", slot[n] # {})
  /\ UNCHANGED <<loopVars, queue, running, objectVars, history>>

\* Mutant: the slot runs where it is emitted.
Direct_Always(t, o) == TRUE

Direct(t, o) == id[o] = t

Emit(t, n) ==
  /\ UserActs(t) /\ Len(running[t]) < MaxDepth /\ emits[n] < MaxEmits
  /\ \E o \in slot[n] :
       /\ emits' = [emits EXCEPT ![n] = @ + 1]
       /\ fault' = (fault \/ ~Alive(o) \/ (~Direct(t, o) /\ loop[home[o]] = "none"))
       /\ Breaks("lastWords", ~Alive(o) \/ (o \in dying /\ t # id[o]))
       /\ IF Direct(t, o)
          THEN /\ running' = [running EXCEPT ![t] = <<o>> \o @]
               /\ ran' = [ran EXCEPT ![n] = Append(@, Run(emits[n] + 1, t, FALSE))]
               /\ UNCHANGED queue
          ELSE /\ Post(home[o], [kind |-> "slot", o |-> o, n |-> n, k |-> emits[n] + 1])
               /\ UNCHANGED <<running, ran>>
  /\ UNCHANGED <<loopVars, objectVars, slot, quitAgain>>

\* Mutant: deletes at once.
DeleteLater_Now(t, o) ==
  /\ UserActs(t) /\ Alive(o)
  /\ life' = [life EXCEPT ![o] = "gone"]
  /\ dying' = dying \cup {o}
  /\ UNCHANGED <<loopVars, queue, running, home, id, slot, history, fault, broken>>

DeleteLater(t, o) ==
  /\ UserActs(t) /\ Alive(o)
  /\ Post(home[o], [kind |-> "delete", o |-> o, n |-> 0, k |-> 0])
  /\ dying' = dying \cup {o}
  /\ fault' = (fault \/ loop[home[o]] = "none")
  /\ Breaks("deleteOnce", o \in dying)
  /\ UNCHANGED <<loopVars, running, life, home, id, slot, history>>

Delete(t, o) ==
  /\ UserActs(t) /\ Alive(o)
  /\ life' = [life EXCEPT ![o] = "gone"]
  /\ Breaks("deleteOnce", t # home[o] \/ TasksOf(o) # {} \/ InSlot(o))
  /\ UNCHANGED <<loopVars, queue, running, home, id, dying, slot, history, fault>>

Init ==
  /\ loop = [t \in Threads |-> "none"]
  /\ stopped = [t \in Threads |-> FALSE]
  /\ queue = [t \in Threads |-> <<>>]
  /\ running = [t \in Threads |-> <<>>]
  /\ life = [o \in Objects |-> "none"]
  /\ \E t \in Threads : home = [o \in Objects |-> t] /\ id = [o \in Objects |-> t]
  /\ dying = {}
  /\ slot = [n \in Notifies |-> {}]
  /\ emits = [n \in Notifies |-> 0]
  /\ ran = [n \in Notifies |-> <<>>]
  /\ quitAgain = [t \in Threads |-> FALSE]
  /\ fault = FALSE
  /\ broken = {}

\* A behaviour ends where a rule is broken.
Next ==
  /\ broken = {}
  /\ \/ \E t \in Threads :
          \/ MakeLoop(t) \/ DestroyLoop(t) \/ Quit(t)
          \/ \E how \in {"exec", "execEx"} : Exec(t, how)
          \/ RunTask(t) \/ SlotReturns(t)
          \/ ExecReturns(t) \/ Reset(t) \/ PollReturns(t)
          \/ \E n \in Notifies : Emit(t, n)
          \/ \E o \in Objects : DeleteLater(t, o) \/ Delete(t, o)
          \/ \E o \in Objects, p \in Threads : MakeObject(t, o, p)
     \/ \E n \in Notifies, o \in Objects : Connect(n, o)

\* A thread that is inside Exec goes on, and slots return.
GoesOn(t) == RunTask(t) \/ SlotReturns(t) \/ ExecReturns(t) \/ Reset(t) \/ PollReturns(t)

Fairness == \A t \in Threads : WF_vars(broken = {} /\ GoesOn(t))

Spec == Init /\ [][Next]_vars /\ Fairness

-----------------------------------------------------------------------------
\* Where in t's queue the slots of n are.
Queued(n, t) ==
  {i \in DOMAIN queue[t] : queue[t][i].kind = "slot" /\ queue[t][i].n = n}

\* A user who keeps the rules never sees a freed object or loop used by a
\* slot, a deletion or an emission, from whatever threads they come.
NoGoneUse == broken = {} => ~fault

\* Every slot runs on the thread of its object's loop and on no other, and
\* once; those that were posted run in the order they were emitted in, and
\* nothing of them waits on another thread.
RunsAtHome ==
  broken = {} =>
    \A n \in Notifies : \A o \in slot[n] :
      /\ \A i \in DOMAIN ran[n] : ran[n][i].on = home[o]
      /\ \A i, j \in DOMAIN ran[n] : i < j =>
           /\ ran[n][i].k # ran[n][j].k
           /\ ran[n][i].posted /\ ran[n][j].posted => ran[n][i].k < ran[n][j].k
      /\ \A t \in Threads \ {home[o]} : Queued(n, t) = {}

\* DeleteLater deletes, also when the loop is quit: ExecEx runs what is queued
\* behind the stop.
Deleted ==
  \A t \in Threads : \A o \in Objects :
    o \in dying /\ home[o] = t /\ loop[t] = "execEx" /\ stopped[t]
      ~> life[o] = "gone" \/ quitAgain[t] \/ broken # {}

=============================================================================
