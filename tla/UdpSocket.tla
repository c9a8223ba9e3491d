------------------------------- MODULE UdpSocket -------------------------------
(***************************************************************************)
(* net::UdpSocket: a socket that is opened, bound and closed, maybe again, *)
(* with one receive that starts the next, into one receive buffer, and     *)
(* sends that each keep their own copy.  Handlers hold the private part,   *)
(* which outlives the socket it reports to.                                *)
(***************************************************************************)
EXTENDS Naturals, FiniteSets, SequencesExt

CONSTANTS
  MaxOpens,      \* bound: calls of Open that open
  MaxSends,      \* bound: calls of SendTo
  MaxDatagrams   \* bound: datagrams that arrive

VARIABLES
  alive,       \* the UdpSocket exists: q can be used
  open,        \* socket.is_open()
  bound,       \* the socket has an address
  stopped,     \* Private::stopped
  closeCalled, \* Private::close_called
  reads,       \* pending receives
  sends,       \* pending sends
  tasks,       \* the loop's queue of completed operations
  kernel,      \* datagrams that arrived and were not received
  buffer,      \* recv_buffer and remote: the datagram in them
  arrived,     \* datagrams that arrived; the k-th is the datagram k
  opens, sent, \* calls of Open, calls of SendTo
  delivered,   \* the datagrams DatagramArrived was emitted with
  fault,       \* a deleted UdpSocket was used
  broken       \* the rules of use that were broken

socketVars == <<alive, open, bound, stopped, closeCalled>>
asioVars   == <<reads, sends, tasks, kernel, buffer>>
logVars    == <<arrived, opens, sent, delivered>>
vars == <<socketVars, asioVars, logVars, fault, broken>>

\* "openOnce": a socket that was closed is not opened again.
Completion(op, ok) == [op |-> op, ok |-> ok]

Failed(op, n) == [i \in 1..n |-> Completion(op, FALSE)]

\* socket.close(): what is pending is aborted, what waits is lost.
CloseSocket(rest) ==
  /\ open' = FALSE /\ bound' = FALSE
  /\ reads' = 0 /\ sends' = 0 /\ kernel' = <<>>
  /\ tasks' = rest \o Failed("read", reads) \o Failed("send", sends)

-----------------------------------------------------------------------------
\* The user.

Open ==
  /\ alive /\ ~open /\ opens < MaxOpens
  /\ open' = TRUE /\ stopped' = FALSE
  /\ opens' = opens + 1
  /\ broken' = broken \cup (IF opens > 0 THEN {"openOnce"} ELSE {})
  /\ UNCHANGED <<alive, bound, closeCalled, asioVars, arrived, sent, delivered, fault>>

\* StartRead: asio may receive a datagram that waits at once, into the
\* buffer, and only its handler is left for later.
StartRead(rest) ==
  \/ /\ reads' = reads + 1
     /\ tasks' = rest
     /\ UNCHANGED <<buffer, kernel>>
  \/ /\ kernel # <<>>
     /\ buffer' = Head(kernel)
     /\ kernel' = Tail(kernel)
     /\ tasks' = Append(rest, Completion("read", TRUE))
     /\ UNCHANGED reads

\* Bind reads from the first success on.
Bind ==
  /\ alive /\ open /\ ~bound
  /\ bound' = TRUE
  /\ IF stopped THEN UNCHANGED asioVars
                ELSE StartRead(tasks) /\ UNCHANGED sends
  /\ UNCHANGED <<alive, open, stopped, closeCalled, logVars, fault, broken>>

\* Mutant: the destructor leaves the stream running.
Close_Running(gone) ==
  /\ alive
  /\ CloseSocket(tasks)
  /\ alive' = ~gone
  /\ stopped' = (stopped \/ ~gone)
  /\ UNCHANGED <<closeCalled, buffer, arrived, opens, sent, delivered, fault, broken>>

\* Close, and the destructor.
Close(gone) ==
  /\ alive
  /\ CloseSocket(tasks)
  /\ stopped' = TRUE
  /\ alive' = ~gone
  /\ UNCHANGED <<closeCalled, buffer, arrived, opens, sent, delivered, fault, broken>>

\* A send gives an unbound socket an address.
SendTo ==
  /\ alive /\ sent < MaxSends
  /\ sent' = sent + 1
  /\ IF stopped THEN UNCHANGED <<bound, sends, tasks>>
     ELSE IF open THEN bound' = TRUE /\ sends' = sends + 1 /\ UNCHANGED tasks
     ELSE tasks' = Append(tasks, Completion("send", FALSE)) /\ UNCHANGED <<bound, sends>>
  /\ UNCHANGED <<alive, open, stopped, closeCalled, reads, kernel, buffer,
                 arrived, opens, delivered, fault, broken>>

-----------------------------------------------------------------------------
\* The kernel.

Arrive ==
  /\ open /\ bound /\ arrived < MaxDatagrams
  /\ arrived' = arrived + 1
  /\ kernel' = Append(kernel, arrived + 1)
  /\ UNCHANGED <<socketVars, reads, sends, tasks, buffer, opens, sent, delivered,
                 fault, broken>>

Receive ==
  /\ reads > 0 /\ kernel # <<>>
  /\ reads' = reads - 1
  /\ buffer' = Head(kernel) /\ kernel' = Tail(kernel)
  /\ tasks' = Append(tasks, Completion("read", TRUE))
  /\ UNCHANGED <<socketVars, sends, logVars, fault, broken>>

ReceiveFails ==
  /\ reads > 0
  /\ reads' = reads - 1
  /\ tasks' = Append(tasks, Completion("read", FALSE))
  /\ UNCHANGED <<socketVars, sends, kernel, buffer, logVars, fault, broken>>

SendDone(ok) ==
  /\ sends > 0
  /\ sends' = sends - 1
  /\ tasks' = Append(tasks, Completion("send", ok))
  /\ UNCHANGED <<socketVars, reads, kernel, buffer, logVars, fault, broken>>

-----------------------------------------------------------------------------
\* The handlers.

Runs(op) == tasks # <<>> /\ Head(tasks).op = op

Emits == fault' = (fault \/ ~alive)

Dropped ==
  /\ tasks # <<>> /\ stopped
  /\ tasks' = Tail(tasks)
  /\ UNCHANGED <<socketVars, reads, sends, kernel, buffer, logVars, fault, broken>>

\* The datagram is made from the buffer after the next receive was started.
HandleReceive ==
  /\ Runs("read") /\ Head(tasks).ok /\ ~stopped
  /\ StartRead(Tail(tasks))
  /\ Emits
  /\ delivered' = Append(delivered, buffer')
  /\ UNCHANGED <<socketVars, sends, arrived, opens, sent, broken>>

HandleWrite ==
  /\ Runs("send") /\ Head(tasks).ok /\ ~stopped
  /\ tasks' = Tail(tasks)
  /\ Emits
  /\ UNCHANGED <<socketVars, reads, sends, kernel, buffer, arrived, opens, sent,
                 delivered, broken>>

\* Mutant: does not close.
Stop_Only(rest) ==
  /\ stopped' = TRUE /\ tasks' = rest
  /\ UNCHANGED <<open, bound, closeCalled, reads, sends, kernel>>

\* The flag is set once and for all, so only the first error closes.
Stop(rest) ==
  /\ stopped' = TRUE
  /\ closeCalled' = TRUE
  /\ IF closeCalled THEN tasks' = rest /\ UNCHANGED <<open, bound, reads, sends, kernel>>
                    ELSE CloseSocket(rest)

OperationFails ==
  /\ tasks # <<>> /\ ~Head(tasks).ok /\ ~stopped
  /\ Stop(Tail(tasks))
  /\ Emits
  /\ UNCHANGED <<alive, buffer, arrived, opens, sent, delivered, broken>>

Init == /\ alive = TRUE /\ open = FALSE /\ bound = FALSE /\ stopped = TRUE
        /\ closeCalled = FALSE /\ reads = 0 /\ sends = 0 /\ tasks = <<>>
        /\ kernel = <<>> /\ buffer = 0 /\ arrived = 0 /\ opens = 0 /\ sent = 0
        /\ delivered = <<>> /\ fault = FALSE /\ broken = {}

Next == \/ Open \/ Bind \/ SendTo \/ \E gone \in BOOLEAN : Close(gone)
        \/ Arrive \/ Receive \/ ReceiveFails \/ \E ok \in BOOLEAN : SendDone(ok)
        \/ Dropped \/ HandleReceive \/ HandleWrite \/ OperationFails

Spec == Init /\ [][Next]_vars

-----------------------------------------------------------------------------
ReadsIn(queue) == Cardinality({i \in DOMAIN queue : queue[i].op = "read"})

\* A socket that is stopped, by an error or its user, has given its
\* descriptor back and reports nothing more, also when it was deleted with
\* operations pending; a socket that runs has one receive at most, as there
\* is one buffer. All for sockets that are opened once.
StoppedIsClosed ==
  /\ ~fault
  /\ broken = {} =>
       /\ stopped => ~open
       /\ ~stopped => reads + ReadsIn(tasks) <= 1

\* What is delivered is what arrived, each datagram once and in order.
DeliveredAsSent ==
  \A i, j \in DOMAIN delivered : i < j => delivered[i] < delivered[j]

=============================================================================
