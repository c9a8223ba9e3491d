------------------------------ MODULE MCStreams ------------------------------
(***************************************************************************)
(* A TCP stream, and a child process with the streams of its two output    *)
(* pipes.  Each has its own state; `part` says which of them a behaviour   *)
(* uses.                                                                   *)
(*                                                                         *)
(* IoStream: buffers of two bytes that grow by two, so that both are       *)
(* compacted and reallocated under the operations that use them.           *)
(* Process: two children, the second started after the first or from       *)
(* inside one of its callbacks; each writes one byte into each pipe.       *)
(***************************************************************************)
EXTENDS IoStream

CONSTANTS MaxStarts, MaxNested, MaxBytes  \* Process

ASSUME StreamsAssumption ==
  MaxStarts \in Nat /\ MaxNested \in Nat /\ MaxBytes \in Nat

VARIABLES
  part,
  proc, ends, kid, spawn, groupKill,                      \* Subprocess
  state, att, poll, gone, reading, fdStopped, released, fdGone, tasks, stack,
  pipe, writers, wrote, brought, starts, stops, broken, fault   \* Process

childVars == <<proc, ends, kid, spawn, groupKill, state, att, poll, gone,
               reading, fdStopped, released, fdGone, tasks, stack, pipe,
               writers, wrote, brought, starts, stops, broken, fault>>

allVars == <<part, vars, childVars>>

RulesAll == AllRules

Child == INSTANCE Process WITH ready <- tasks, got <- brought

MCInit == /\ part \in {"stream", "process"}
          /\ Init /\ Child!Init
          /\ part # "stream" => opens = 0

Streams == /\ part = "stream" /\ Next
           /\ UNCHANGED childVars

Children == /\ part = "process" /\ Child!Next
            /\ UNCHANGED vars

MCNext == UNCHANGED part /\ (Streams \/ Children)

\* No step of a part that the behaviour does not use is ever enabled.
MCSpec == MCInit /\ [][MCNext]_allVars /\ WF_vars(Loop) /\ Child!Fairness

-----------------------------------------------------------------------------

\* A Process that does not run owns nothing, whatever failed before, and
\* nothing of it is used after it is gone.
ChildReleased == part = "process" => Child!NoFault /\ Child!AllReleased

\* All a child wrote is delivered before its end is reported.
OutputBeforeStopped == Child!OutputBeforeStopped

\* A stopped child is cleaned up and reported.
StopAnswered == Child!StopAnswered

=============================================================================
