------------------------------- MODULE Process -------------------------------
(***************************************************************************)
(* Process: a child started with subprocess.h, a ProcessFd on each of its  *)
(* output pipes, and a timer that asks every 50 ms whether the child has   *)
(* exited.  A child is finished when the poll has seen its exit and both   *)
(* pipes have ended, in whatever order.                                    *)
(*                                                                         *)
(* One event loop runs everything.  StateChanged is emitted in the middle  *)
(* of calls, and the user may call back: `stack` holds what is left to do  *)
(* of the calls that are inside a callback.                                *)
(***************************************************************************)
EXTENDS Subprocess

CONSTANTS
  MaxStarts,  \* bound: calls of Start that create a child
  MaxNested,  \* bound: calls that are inside a callback when Start is called
  MaxBytes    \* bound: bytes a child writes into each pipe

VARIABLES
  state,      \* Private::state
  att,        \* stdo and stde: the start whose ProcessFd it is, 0 if null
  poll,       \* alive_timer: "off", "waiting" or "queued"
  gone,       \* the Process was destroyed
  reading,    \* ProcessFds with a pending read
  fdStopped,  \* ProcessFds whose stream is stopped
  released,   \* ProcessFds whose stream gave its descriptor back
  fdGone,     \* deleted ProcessFds
  ready,      \* the loop's queue
  stack,      \* what is left of the calls that are inside a callback
  pipe,       \* bytes in each output pipe
  writers,    \* pipes whose write end some process still holds
  wrote, got, \* bytes the child of this start wrote, and BytesRead brought
  starts,     \* children that were created
  stops,      \* Stopped emissions
  broken,     \* the rules of use that were broken
  fault       \* freed or uninitialized memory was used, or an assertion failed

fdVars   == <<att, reading, fdStopped, released, fdGone>>
pipeVars == <<pipe, writers, wrote, got>>
logVars  == <<starts, stops, broken>>
vars     == <<spawnVars, state, poll, gone, fdVars, ready, stack, pipeVars,
              logVars, fault>>

Channels == {"out", "err"}

Fds == (1..MaxStarts) \X Channels

Attached(ch) == <<att[ch], ch>>

Item(op, fd, n) == [op |-> op, fd |-> fd, n |-> n]

NoFd == <<0, "out">>

ReadDone(fd, n) == Item("read", fd, n)
ReadFailed(fd)  == Item("read", fd, 0)
DeleteFd(fd)    == Item("delete", fd, 0)
Poll            == Item("poll", NoFd, 0)

\* The user acts between handlers and inside callbacks. In that of kStarting
\* neither Start nor AsyncStop does anything.
UserTurn == \A i \in 1..Len(stack) : stack[i] # "create"

\* The program runs until it is killed or its behaviour is undefined.
Live == ~fault /\ ~groupKill

-----------------------------------------------------------------------------
\* What the user calls. AsyncStop and Start return at once in other states.

\* Start reports kStarting before it creates the child.
Start ==
  /\ UserTurn /\ ~gone /\ starts < MaxStarts /\ Len(stack) <= MaxNested
  /\ state = "notRunning"
  /\ state' = "starting"
  /\ stack' = <<"create">> \o stack
  /\ fault' = \E ch \in Channels : att[ch] # 0
  /\ \E inherit \in BOOLEAN : CreateBegins(inherit)
  /\ UNCHANGED <<poll, gone, fdVars, ready, pipeVars, logVars>>

AsyncStop ==
  /\ UserTurn /\ ~gone
  /\ state = "running"
  /\ state' = "stopping"
  /\ stack' = <<"kill">> \o stack
  /\ UNCHANGED <<spawnVars, poll, gone, fdVars, ready, pipeVars, logVars,
                 fault>>

\* ~Process, outside of its own callbacks. Releasing a ProcessFd aborts its
\* read. The files of a child that is not reaped stay open.
Destroy ==
  LET fds   == {Attached(ch) : ch \in {ch \in Channels : att[ch] # 0}}
      Of(ch) == IF att[ch] = 0 THEN <<>>
                ELSE (IF Attached(ch) \in reading
                      THEN <<ReadFailed(Attached(ch))>> ELSE <<>>)
                     \o <<DeleteFd(Attached(ch))>>
  IN
  /\ stack = <<>> /\ ~gone
  /\ gone' = TRUE
  /\ broken' = broken
       \cup (IF state # "notRunning" THEN {"destroyIdle"} ELSE {})
       \cup (IF ~proc.init THEN {"destroyStarted"} ELSE {})
  /\ poll' = IF poll = "waiting" THEN "off" ELSE poll
  /\ ready' = ready \o Of("out") \o Of("err")
  /\ att' = [ch \in Channels |-> 0]
  /\ reading' = reading \ fds
  /\ released' = released \cup fds
  /\ fault' = ~proc.init
  /\ IF IsAlive(proc)
     THEN UNCHANGED <<proc, kid, state>>
     ELSE /\ proc' = Destroyed(AliveAfter(proc))
          /\ kid' = IF Reaps(proc) THEN "none" ELSE kid
          /\ state' = "notRunning"
  /\ UNCHANGED <<ends, spawn, groupKill, fdStopped, fdGone, stack, pipeVars,
                 starts, stops>>

User == Start \/ AsyncStop \/ Destroy

-----------------------------------------------------------------------------
\* The calls go on when the user returns from a callback.

Top(label) == stack # <<>> /\ Head(stack) = label

Pop == Tail(stack)

Creating ==
  /\ Top("create")
  /\ CreateStep
  /\ UNCHANGED <<state, poll, gone, fdVars, ready, stack, pipeVars, logVars,
                 fault>>

\* The child runs: a new pair of pipes, and kRunning is reported.
CreateOk ==
  /\ Top("create") /\ spawn = Created
  /\ spawn' = Idle
  /\ proc' = Stored
  /\ state' = "running"
  /\ starts' = starts + 1
  /\ pipe' = [ch \in Channels |-> 0]
  /\ writers' = Channels
  /\ wrote' = [ch \in Channels |-> 0]
  /\ got' = [ch \in Channels |-> 0]
  /\ stack' = <<"attach">> \o Pop
  /\ UNCHANGED <<ends, kid, groupKill, poll, gone, fdVars, ready, stops,
                 broken, fault>>

CreateFailed ==
  /\ Top("create") /\ spawn = Failed
  /\ spawn' = Idle
  /\ state' = "notRunning"
  /\ stack' = <<"return">> \o Pop
  /\ UNCHANGED <<proc, ends, kid, groupKill, poll, gone, fdVars, ready,
                 pipeVars, logVars, fault>>

Return ==
  /\ Top("return")
  /\ stack' = Pop
  /\ UNCHANGED <<spawnVars, state, poll, gone, fdVars, ready, pipeVars,
                 logVars, fault>>

\* The result of Assign is not looked at: a ProcessFd without a descriptor
\* stays attached and never reads.
Attach ==
  /\ Top("attach")
  /\ stack' = Pop
  /\ att' = [ch \in Channels |-> starts]
  /\ \E ok \in SUBSET Channels :
       LET fds == {<<starts, ch>> : ch \in ok}
       IN  /\ reading' = reading \cup fds
           /\ fdStopped' = fdStopped \cup ({starts} \X (Channels \ ok))
           /\ broken' = broken \cup (IF ok = Channels THEN {} ELSE {"assign"})
  /\ poll' = "waiting"
  /\ UNCHANGED <<spawnVars, state, gone, released, fdGone, ready, pipeVars,
                 starts, stops, fault>>

Kill ==
  /\ Top("kill")
  /\ stack' = Pop
  /\ Terminate
  /\ UNCHANGED <<state, poll, gone, fdVars, ready, pipeVars, logVars, fault>>

\* The poll that cleaned up reports Stopped after kNotRunning.
ReportStopped ==
  /\ Top("stopped")
  /\ stack' = Pop
  /\ stops' = stops + 1
  /\ UNCHANGED <<spawnVars, state, poll, gone, fdVars, ready, pipeVars,
                 starts, broken, fault>>

Calls == Creating \/ CreateOk \/ CreateFailed \/ Return \/ Attach \/ Kill
           \/ ReportStopped

-----------------------------------------------------------------------------
\* The child, its descendants and the kernel.

Exits ==
  /\ KidExits
  /\ UNCHANGED <<state, poll, gone, fdVars, ready, stack, pipeVars, logVars,
                 fault>>

\* The child, or a process it started, writes.
Writes(ch) ==
  /\ starts > 0 /\ state # "notRunning"
  /\ ch \in writers /\ wrote[ch] < MaxBytes
  /\ pipe' = [pipe EXCEPT ![ch] = @ + 1]
  /\ wrote' = [wrote EXCEPT ![ch] = @ + 1]
  /\ UNCHANGED <<spawnVars, state, poll, gone, fdVars, ready, stack, writers,
                 got, logVars, fault>>

\* Nobody holds the write end any more: long before the exit or long after.
PipeEnds(ch) ==
  /\ ch \in writers
  /\ writers' = writers \ {ch}
  /\ UNCHANGED <<spawnVars, state, poll, gone, fdVars, ready, stack, pipe,
                 wrote, got, logVars, fault>>

ReadCompletes(ch) ==
  /\ att[ch] # 0 /\ Attached(ch) \in reading
  /\ pipe[ch] > 0 \/ ch \notin writers
  /\ reading' = reading \ {Attached(ch)}
  /\ ready' = Append(ready, ReadDone(Attached(ch), pipe[ch]))
  /\ pipe' = [pipe EXCEPT ![ch] = 0]
  /\ UNCHANGED <<spawnVars, state, poll, gone, att, fdStopped, released,
                 fdGone, stack, writers, wrote, got, logVars, fault>>

PollExpires ==
  /\ poll = "waiting"
  /\ poll' = "queued"
  /\ ready' = Append(ready, Poll)
  /\ UNCHANGED <<spawnVars, state, gone, fdVars, stack, pipeVars, logVars,
                 fault>>

Kernel == \/ Exits \/ PollExpires
          \/ \E ch \in Channels : Writes(ch) \/ PipeEnds(ch)
                                    \/ ReadCompletes(ch)

-----------------------------------------------------------------------------
\* The handlers of the event loop.

Running(op) == stack = <<>> /\ ready # <<>> /\ Head(ready).op = op

Rest == Tail(ready)

Fd == Head(ready).fd

\* A handler of a stopped stream does nothing.
Dropped ==
  /\ Running("read") /\ Fd \in fdStopped
  /\ ready' = Rest
  /\ UNCHANGED <<spawnVars, state, poll, gone, fdVars, stack, pipeVars,
                 logVars, fault>>

\* The next read is started, then BytesRead goes through the ProcessFd and
\* the Process, neither of which is tested.
ReadOk ==
  /\ Running("read") /\ Fd \notin fdStopped /\ Head(ready).n > 0
  /\ IF Fd \in released
     THEN ready' = Append(Rest, ReadFailed(Fd)) /\ UNCHANGED reading
     ELSE ready' = Rest /\ reading' = reading \cup {Fd}
  /\ fault' = (gone \/ Fd \in fdGone)
  /\ got' = [got EXCEPT ![Fd[2]] = @ + Head(ready).n]
  /\ UNCHANGED <<spawnVars, state, poll, gone, att, fdStopped, released,
                 fdGone, stack, pipe, writers, wrote, logVars>>

\* The end of the pipe, or an abort: the slot of Error releases and deletes
\* the ProcessFd and clears the pointer in the Process.
ReadFails ==
  /\ Running("read") /\ Fd \notin fdStopped /\ Head(ready).n = 0
  /\ fdStopped' = fdStopped \cup {Fd}
  /\ IF Fd \in fdGone
     THEN ready' = Rest /\ UNCHANGED <<att, released, fault>>
     ELSE /\ ready' = Append(Rest, DeleteFd(Fd))
          /\ released' = released \cup {Fd}
          /\ att' = [att EXCEPT ![Fd[2]] = 0]
          /\ fault' = gone
  /\ UNCHANGED <<spawnVars, state, poll, gone, reading, fdGone, stack,
                 pipeVars, logVars>>

Delete ==
  /\ Running("delete")
  /\ ready' = Rest
  /\ fault' = (Fd \in fdGone)
  /\ fdGone' = fdGone \cup {Fd}
  /\ UNCHANGED <<spawnVars, state, poll, gone, att, reading, fdStopped,
                 released, stack, pipeVars, logVars>>

\* An expiry that was queued when the Process was destroyed.
PollGone ==
  /\ Running("poll") /\ gone
  /\ ready' = Rest
  /\ fault' = TRUE
  /\ UNCHANGED <<spawnVars, state, poll, gone, fdVars, stack, pipeVars,
                 logVars>>

\* Mutants: does not wait for the pipes, or for standard error.
CleansUp_NoFds == ~IsAlive(proc)
CleansUp_OutOnly == ~IsAlive(proc) /\ att["out"] = 0

\* TryCleanup waits for both ProcessFds.
CleansUp == ~IsAlive(proc) /\ \A ch \in Channels : att[ch] = 0

\* Mutant: the single-shot timer is not started again.
PollAgain_Once ==
  /\ Running("poll") /\ ~gone /\ ~CleansUp
  /\ ready' = Rest
  /\ poll' = "off"
  /\ proc' = AliveAfter(proc)
  /\ kid' = IF Reaps(proc) THEN "none" ELSE kid
  /\ UNCHANGED <<ends, spawn, groupKill, state, gone, fdVars, stack,
                 pipeVars, logVars, fault>>

PollAgain ==
  /\ Running("poll") /\ ~gone /\ ~CleansUp
  /\ ready' = Rest
  /\ poll' = "waiting"
  /\ proc' = AliveAfter(proc)
  /\ kid' = IF Reaps(proc) THEN "none" ELSE kid
  /\ UNCHANGED <<ends, spawn, groupKill, state, gone, fdVars, stack,
                 pipeVars, logVars, fault>>

\* The child is finished: files closed, kNotRunning reported, then Stopped.
PollFinishes ==
  /\ Running("poll") /\ ~gone /\ CleansUp
  /\ ready' = Rest
  /\ poll' = "off"
  /\ proc' = Destroyed(AliveAfter(proc))
  /\ kid' = IF Reaps(proc) THEN "none" ELSE kid
  /\ state' = "notRunning"
  /\ stack' = <<"stopped">>
  /\ UNCHANGED <<ends, spawn, groupKill, gone, fdVars, pipeVars, logVars,
                 fault>>

Loop == Dropped \/ ReadOk \/ ReadFails \/ Delete \/ PollGone \/ PollAgain
          \/ PollFinishes

-----------------------------------------------------------------------------

Init ==
  /\ InitSubprocess
  /\ state = "notRunning" /\ att = [ch \in Channels |-> 0]
  /\ poll = "off" /\ gone = FALSE
  /\ reading = {} /\ fdStopped = {} /\ released = {} /\ fdGone = {}
  /\ ready = <<>> /\ stack = <<>>
  /\ pipe = [ch \in Channels |-> 0] /\ writers = {}
  /\ wrote = [ch \in Channels |-> 0] /\ got = [ch \in Channels |-> 0]
  /\ starts = 0 /\ stops = 0 /\ broken = {} /\ fault = FALSE

Next == Live /\ (User \/ Calls \/ Kernel \/ Loop)

Spec == Init /\ [][Next]_vars

\* The loop and a call that was begun go on, a timer expires, a read that
\* can complete does. Killed children exit, and then their pipes end: no
\* descendant of theirs keeps one open for ever.
Fairness ==
  /\ WF_vars(Live /\ Calls)
  /\ WF_vars(Live /\ Loop)
  /\ WF_vars(Live /\ PollExpires)
  /\ WF_vars(Live /\ kid = "killed" /\ Exits)
  /\ \A ch \in Channels :
       /\ WF_vars(Live /\ kid \in {"zombie", "none"} /\ PipeEnds(ch))
       /\ WF_vars(Live /\ ReadCompletes(ch))

FairSpec == Spec /\ Fairness

-----------------------------------------------------------------------------

States == {"notRunning", "starting", "running", "stopping"}

\* Type invariant, and no undefined behaviour: no handler uses a destroyed
\* Process or ProcessFd, none is deleted twice, and Start finds no ProcessFd
\* of an earlier child - for a user who destroys only a Process that was
\* started and is not running.
NoFault ==
  /\ SubprocessTypes /\ state \in States
  /\ att \in [Channels -> 0..MaxStarts]
  /\ poll \in {"off", "waiting", "queued"}
  /\ gone \in BOOLEAN /\ fault \in BOOLEAN
  /\ reading \subseteq Fds /\ fdStopped \subseteq Fds
  /\ released \subseteq Fds /\ fdGone \subseteq Fds
  /\ \A i \in 1..Len(ready) : ready[i].op \in {"read", "delete", "poll"}
  /\ broken \subseteq {"destroyIdle", "destroyStarted", "assign"}
  /\ fault => broken \cap {"destroyIdle", "destroyStarted"} # {}

\* A Process that is not running owns nothing, whichever step of creating
\* the child failed and whatever ended first: no child, pipe, file or
\* attached ProcessFd is left, and every child was reported by one Stopped.
AllReleased ==
  state = "notRunning" /\ broken = {} =>
    /\ ends = {} /\ kid = "none" /\ ~proc.child
    /\ \A ch \in Channels : att[ch] = 0
    /\ reading = {}
    /\ (stack = <<>> => proc.files = {} /\ stops = starts)

\* By the time the end of a child is reported BytesRead has brought all it
\* ever wrote: no pipe still holds data and nothing more can be written.
OutputBeforeStopped ==
  [][(state \in {"running", "stopping"} /\ state' = "notRunning"
        /\ broken' = {}) => (writers = {} /\ wrote = got)]_vars

\* A stop is answered: the killed child is cleaned up and reported, unless
\* the user destroys the Process first.
StopAnswered ==
  state = "stopping" ~> state = "notRunning" \/ gone \/ ~Live \/ broken # {}

\* AsyncStop kills the child it was called for ("Terminate a previously
\* created process") and nobody else. When the poll has already reaped the
\* child while a pipe is still open, the pid is zero.
KillsOnlyChild == ~groupKill

=============================================================================
