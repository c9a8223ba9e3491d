-------------------------------- MODULE Device --------------------------------
(***************************************************************************)
(* The other owners of an IoPrivate stream: UdsSocket connects, SerialPort *)
(* and NamedPipe open at once but report it from the loop, and SocketCan   *)
(* makes a new socket whenever it is opened.  IoStream has the bytes; here *)
(* a stream is what is pending on it and whether it is still there.        *)
(***************************************************************************)
EXTENDS Integers, Sequences, FiniteSets, SequencesExt

CONSTANTS
  MaxOpens,    \* calls of Open
  MaxWrites,   \* writes, in all
  MaxReads,    \* reads that bring something
  DeviceRules  \* the rules of use the user follows

\* "openOnce":   Open once; a closed device is not opened again.
\* "openFirst":  Close only after Open, which SocketCan does not check.
\* "closeFirst": DeleteLater only when closed.
AllDeviceRules == {"openOnce", "openFirst", "closeFirst"}

VARIABLES
  kind,         \* "uds"; "port": SerialPort, NamedPipe; "can"
  stream,       \* the stream object, counted; 0 when there is none
  open,         \* it is open
  stopped, close_called, unsent,  \* of IoPrivate; unsent: its send buffer
  q,            \* impl.q is not null
  pending,      \* the operations on the stream that the kernel has
  ready,        \* the loop's queue
  deleting,
  opens, answers,  \* Open calls, and how many were answered
  writes, reads,   \* bounds
  fault         \* a freed stream or a null q was used

streamVars == <<stream, open, stopped, close_called, unsent, pending, ready>>
deviceVars == <<kind, streamVars, q, deleting, opens, answers, writes, reads, fault>>

Done(op, ok) == [op |-> op, on |-> stream, ok |-> ok]

\* Operation op is started, in queue rest; on a closed stream it fails at once.
Starts(op, rest) ==
  IF open THEN pending' = pending \cup {op} /\ ready' = rest
          ELSE ready' = Append(rest, Done(op, FALSE)) /\ UNCHANGED pending

\* What is pending on the stream when it is closed.
Aborted == SetToSeq({Done(op, FALSE) : op \in pending})

-----------------------------------------------------------------------------
\* IoPrivate.

Close(rest) ==
  IF close_called THEN ready' = rest /\ UNCHANGED <<close_called, open, pending>>
  ELSE /\ close_called' = TRUE /\ open' = FALSE
       /\ pending' = {} /\ ready' = rest \o Aborted

\* Mutant: the stream is not closed.
Stop_Only(rest) ==
  stopped' = TRUE /\ ready' = rest /\ UNCHANGED <<close_called, open, pending>>

Stop(rest) == stopped' = TRUE /\ Close(rest)

\* StartOpen(Ex). The outcome of Open is posted; that of connecting comes.
Open(ok) ==
  /\ q /\ opens < MaxOpens
  /\ "openOnce" \in DeviceRules => opens = 0
  /\ kind = "can" \/ ~open
  /\ stopped' = FALSE
  /\ opens' = opens + 1
  /\ open' = (ok \/ kind # "port")
  /\ \/ /\ kind = "uds" /\ ok
        /\ pending' = {"open"} /\ UNCHANGED <<stream, ready>>
     \/ /\ kind = "port"
        /\ ready' = Append(ready, Done("open", ok)) /\ UNCHANGED <<stream, pending>>
     \/ /\ kind = "can"
        /\ stream' = stream + 1 /\ pending' = {}
        /\ ready' = Append(ready \o Aborted, [Done("open", ok) EXCEPT !.on = stream + 1])
  /\ UNCHANGED <<kind, close_called, unsent, q, deleting, answers, writes, reads, fault>>

\* Close of the owner. SocketCan has no stream before it is opened.
UserClose ==
  /\ q /\ ~close_called
  /\ "openFirst" \in DeviceRules => opens > 0
  /\ IF stream = 0 THEN fault' = TRUE /\ UNCHANGED <<close_called, open, pending, ready>>
                   ELSE Close(ready) /\ UNCHANGED fault
  /\ UNCHANGED <<kind, stream, stopped, unsent, q, deleting, opens, answers, writes, reads>>

Write ==
  /\ q /\ ~stopped /\ writes < MaxWrites
  /\ writes' = writes + 1
  /\ unsent' = unsent + 1
  /\ IF unsent = 0 THEN Starts("write", ready) ELSE UNCHANGED <<pending, ready>>
  /\ UNCHANGED <<kind, stream, open, stopped, close_called, q, deleting, opens,
                 answers, reads, fault>>

DeleteLater ==
  /\ q /\ ~deleting
  /\ "closeFirst" \in DeviceRules => ~open /\ opens > 0
  /\ deleting' = TRUE
  /\ ready' = Append(ready, Done("delete", TRUE))
  /\ UNCHANGED <<kind, stream, open, stopped, close_called, unsent, q, pending,
                 opens, answers, writes, reads, fault>>

\* The kernel completes an operation. Only a new write has more to send.
Completes(op, ok) ==
  /\ op \in pending
  /\ op = "read" /\ ok => reads < MaxReads
  /\ reads' = IF op = "read" /\ ok THEN reads + 1 ELSE reads
  /\ pending' = pending \ {op}
  /\ ready' = Append(ready, Done(op, ok))
  /\ UNCHANGED <<kind, stream, open, stopped, close_called, unsent, q, deleting,
                 opens, answers, writes, fault>>

-----------------------------------------------------------------------------
\* The handlers.

Running(op) == ready # <<>> /\ Head(ready).op = op

Rest == Tail(ready)

\* The handler's stream is a reference to one that SocketCan replaced.
Dangling == Head(ready).on # stream

\* Mutant: a handler of a closed device does nothing either.
Dropped_Closed ==
  /\ ready # <<>> /\ Head(ready).op # "delete" /\ (stopped \/ close_called)
  /\ ready' = Rest
  /\ UNCHANGED <<kind, stream, open, stopped, close_called, unsent, q, pending,
                 deleting, opens, answers, writes, reads, fault>>

Dropped ==
  /\ ready # <<>> /\ Head(ready).op # "delete" /\ stopped
  /\ ready' = Rest
  /\ UNCHANGED <<kind, stream, open, stopped, close_called, unsent, q, pending,
                 deleting, opens, answers, writes, reads, fault>>

\* OpenFailed and OpenSuccess are reported by Object::Emit. A device that was
\* closed before its Open is reported has opened successfully.
HandleOpen ==
  /\ Running("open") /\ ~stopped
  /\ IF Head(ready).ok THEN Starts("read", Rest) /\ UNCHANGED <<stopped, close_called, open>>
                       ELSE Stop(Rest)
  /\ answers' = answers + 1
  /\ fault' = (fault \/ Dangling)
  /\ UNCHANGED <<kind, stream, unsent, q, deleting, opens, writes, reads>>

HandleRead ==
  /\ Running("read") /\ ~stopped
  /\ IF Head(ready).ok THEN Starts("read", Rest) /\ UNCHANGED <<stopped, close_called, open>>
                       ELSE Stop(Rest)
  /\ fault' = (fault \/ Dangling \/ (Head(ready).ok /\ ~q))
  /\ UNCHANGED <<kind, stream, unsent, q, deleting, opens, answers, writes, reads>>

\* Each write of the kernel's sends one write of the user's.
HandleWrite ==
  /\ Running("write") /\ ~stopped
  /\ IF Head(ready).ok
     THEN /\ unsent' = unsent - 1
          /\ IF unsent > 1 THEN Starts("write", Rest) ELSE ready' = Rest /\ UNCHANGED pending
          /\ UNCHANGED <<stopped, close_called, open>>
     ELSE Stop(Rest) /\ UNCHANGED unsent
  /\ fault' = (fault \/ Dangling \/ (Head(ready).ok /\ ~q))
  /\ UNCHANGED <<kind, stream, q, deleting, opens, answers, writes, reads>>

Deleted ==
  /\ Running("delete")
  /\ q' = FALSE
  /\ ready' = Rest
  /\ UNCHANGED <<kind, stream, open, stopped, close_called, unsent, pending,
                 deleting, opens, answers, writes, reads, fault>>

Loop == Dropped \/ HandleOpen \/ HandleRead \/ HandleWrite \/ Deleted

User == (\E ok \in BOOLEAN : Open(ok)) \/ UserClose \/ Write \/ DeleteLater

Kernel == \E op \in {"open", "read", "write"}, ok \in BOOLEAN : Completes(op, ok)

InitUser ==
  /\ kind \in {"uds", "port", "can"}
  /\ stream = IF kind = "can" THEN 0 ELSE 1
  /\ open = FALSE /\ stopped = TRUE /\ pending = {} /\ opens = 0

\* A socket that UdsServer accepted and reads from.
InitAccepted ==
  /\ kind = "uds" /\ stream = 1
  /\ open = TRUE /\ stopped = FALSE /\ pending = {"read"} /\ opens = 1

Init ==
  /\ InitUser \/ InitAccepted
  /\ close_called = FALSE /\ unsent = 0 /\ q = TRUE /\ ready = <<>>
  /\ deleting = FALSE /\ answers = opens /\ writes = 0 /\ reads = 0
  /\ fault = FALSE

Next == User \/ Kernel \/ Loop

\* The loop runs what is queued, and connecting ends.
Fairness ==
  /\ WF_deviceVars(Loop)
  /\ WF_deviceVars(\E ok \in BOOLEAN : Completes("open", ok))

Spec == Init /\ [][Next]_deviceVars /\ Fairness

-----------------------------------------------------------------------------

\* No handler uses a stream that SocketCan replaced or reports through a null
\* `q`, and a device that stopped has closed what it opened: neither after a
\* failed open nor after any failed read or write a descriptor is left behind.
ClosedInTheEnd ==
  ~fault /\ (stopped => ~open /\ pending = {})

\* Every Open is answered or, when a write failed before, stops with an Error;
\* and who closes hears of it, also when the answer to Open was not out yet.
OpenAnswered ==
  /\ answers < opens ~> answers = opens \/ stopped
  /\ close_called ~> stopped

=============================================================================
