----------------------------- MODULE Subprocess -----------------------------
(***************************************************************************)
(* The child process as subprocess.h handles it on a POSIX system: the     *)
(* creation of pipes, child and FILEs, each step of which may fail, and    *)
(* the calls that wait for, kill and clean up a child.                     *)
(***************************************************************************)
EXTENDS Naturals, Sequences, FiniteSets

VARIABLES
  proc,      \* struct subprocess_s, or Garbage before its memset
  ends,      \* pipe ends open in this process that no FILE owns
  kid,       \* the child in the kernel: "none", "running", "killed", "zombie"
  spawn,     \* the step subprocess_create_ex is at, Idle outside of it
  groupKill  \* SIGKILL was sent to the program's own process group

spawnVars == <<proc, ends, kid, spawn, groupKill>>

Pipes == {"in", "out", "err"}

End(p, side) == <<p, side>>

Both(p) == {End(p, "r"), End(p, "w")}

\* A struct nothing was written to.
Garbage == [init |-> FALSE, child |-> FALSE, alive |-> FALSE, files |-> {}]

\* What memset leaves.
Zeroed == [Garbage EXCEPT !.init = TRUE]

\* The steps of subprocess_create_ex, in order.
Steps == << <<"pipe", "in">>, <<"pipe", "out">>, <<"pipe", "err">>,
            <<"actions", "all">>, <<"spawn", "all">>,
            <<"file", "in">>, <<"file", "out">>, <<"file", "err">> >>

Idle    == <<"idle", "all">>
Created == <<"created", "all">>
Failed  == <<"failed", "all">>

StepAfter(s) ==
  LET i == CHOOSE i \in 1..Len(Steps) : Steps[i] = s
  IN  IF i = Len(Steps) THEN Created ELSE Steps[i + 1]

-----------------------------------------------------------------------------

\* The arguments are checked before anything is written: an environment
\* cannot be both given and inherited.
CreateBegins(inherit) ==
  /\ spawn = Idle
  /\ IF inherit
     THEN spawn' = Failed /\ UNCHANGED proc
     ELSE spawn' = Steps[1] /\ proc' = Zeroed
  /\ UNCHANGED <<ends, kid, groupKill>>

PipeMade(p) ==
  /\ spawn = <<"pipe", p>>
  /\ ends' = ends \cup Both(p)
  /\ spawn' = StepAfter(spawn)
  /\ UNCHANGED <<proc, kid, groupKill>>

\* The file actions of posix_spawn: closes, dups and the directory.
ActionsMade ==
  /\ spawn = <<"actions", "all">>
  /\ spawn' = StepAfter(spawn)
  /\ UNCHANGED <<proc, ends, kid, groupKill>>

Spawned ==
  /\ spawn = <<"spawn", "all">>
  /\ kid' = "running"
  /\ spawn' = StepAfter(spawn)
  /\ UNCHANGED <<proc, ends, groupKill>>

\* Which end of pipe p this process keeps, as a FILE.
Kept(p) == End(p, IF p = "in" THEN "w" ELSE "r")

\* Closes the child's end of p and wraps the other one.
FileOpened(p) ==
  /\ spawn = <<"file", p>>
  /\ ends' = ends \ Both(p)
  /\ proc' = [proc EXCEPT !.files = @ \cup {p}]
  /\ spawn' = StepAfter(spawn)
  /\ UNCHANGED <<kid, groupKill>>

\* Mutant: the spawned child is neither killed nor waited for.
CreateFails_KidStays ==
  /\ spawn \in {Steps[i] : i \in 1..Len(Steps)}
  /\ ends' = {}
  /\ proc' = [proc EXCEPT !.files = {}]
  /\ spawn' = Failed
  /\ UNCHANGED <<kid, groupKill>>

\* The label cleanup, after a failure: kill and wait for a child that was
\* spawned, close the FILEs and what is left of the pipes. A failed fdopen
\* comes when the child's end of its pipe is already closed.
CreateFails ==
  /\ spawn \in {Steps[i] : i \in 1..Len(Steps)}
  /\ kid' = "none"
  /\ ends' = {}
  /\ proc' = [proc EXCEPT !.files = {}]
  /\ spawn' = Failed
  /\ UNCHANGED groupKill

CreateStep == \/ \E p \in Pipes : PipeMade(p) \/ FileOpened(p)
              \/ ActionsMade \/ Spawned \/ CreateFails

\* The child's pid is stored only when everything else is there.
Stored == [proc EXCEPT !.child = TRUE, !.alive = TRUE]

-----------------------------------------------------------------------------
\* The other calls, as functions on the struct.

\* subprocess_alive reaps a child that has exited, and joins it.
Reaps(s) == s.alive /\ kid = "zombie"

AliveAfter(s) ==
  IF Reaps(s) THEN [s EXCEPT !.child = FALSE, !.alive = FALSE,
                             !.files = @ \ {"in"}]
              ELSE s

IsAlive(s) == s.alive /\ ~Reaps(s)

\* subprocess_join of a reaped child, then subprocess_destroy.
Destroyed(s) == [s EXCEPT !.files = {}]

\* subprocess_terminate: kill(child, 9), whatever child holds. Zero is the
\* caller's process group.
Terminate ==
  /\ groupKill' = ~proc.child
  /\ kid' = IF proc.child /\ kid = "running" THEN "killed" ELSE kid
  /\ UNCHANGED <<proc, ends, spawn>>

\* The child exits, by itself or because it was killed.
KidExits ==
  /\ kid \in {"running", "killed"}
  /\ kid' = "zombie"
  /\ UNCHANGED <<proc, ends, spawn, groupKill>>

-----------------------------------------------------------------------------

InitSubprocess ==
  /\ proc = Garbage /\ ends = {} /\ kid = "none" /\ spawn = Idle
  /\ groupKill = FALSE

SubprocessTypes ==
  /\ proc \in [init : BOOLEAN, child : BOOLEAN, alive : BOOLEAN,
               files : SUBSET Pipes]
  /\ ends \subseteq UNION {Both(p) : p \in Pipes}
  /\ kid \in {"none", "running", "killed", "zombie"}
  /\ spawn \in {Steps[i] : i \in 1..Len(Steps)}
                 \cup {Idle, Created, Failed}
  /\ groupKill \in BOOLEAN

=============================================================================
