------------------------------- MODULE IoStream -------------------------------
(***************************************************************************)
(* One asynchronous stream: IoPrivate<Impl> together with the TcpSocket    *)
(* that owns it (UdsSocket, SerialPort and NamedPipe differ only in what   *)
(* they open).  IoPrivate is kept alive by the handlers of its pending     *)
(* operations, so it can outlive the owner it reports to through the       *)
(* pointer `q`.                                                            *)
(*                                                                         *)
(* Everything runs on one event loop.  A completed operation is queued     *)
(* and its handler runs later, so between the two the user and other       *)
(* handlers act.  Callbacks are the last thing a handler does: what a user *)
(* does inside one is what it does right after the handler.  The exception *)
(* is a failed open, which reports twice; `phase` is the first report.     *)
(***************************************************************************)
EXTENDS BufferOps

CONSTANTS
  InitCap,   \* size of a new Buffer's vector (8192)
  GrowSize,  \* kSpaceGrowSize (8192)
  Rules,     \* the rules of use the user follows, see below
  MaxOpens,  \* bound: calls of ConnectToHost that open the socket
  MaxOut,    \* bound: bytes handed to Write
  MaxIn      \* bound: bytes the peer sends

\* "oneWrite":   Write only when BytesWritten has reported all earlier writes.
\* "noReuse":    ConnectToHost once, and DisConnectFromHost only after it.
\* "closeFirst": DeleteLater only on a closed socket, which stays closed.
AllRules == {"oneWrite", "noReuse", "closeFirst"}

ASSUME StreamAssumption ==
  /\ InitCap \in Nat \ {0}
  /\ GrowSize \in Nat \ {0}
  /\ Rules \subseteq AllRules
  /\ MaxOpens \in Nat
  /\ MaxOut \in Nat
  /\ MaxIn \in Nat

VARIABLES
  stopped,     \* IoPrivate::stopped
  closeCalled, \* IoPrivate::close_called
  alive,       \* impl.q is not null: the owner exists
  send,        \* IoPrivate::send_buffer
  recv,        \* IoPrivate::recv_buffer
  sock,        \* the asio socket; a connect is pending while "connecting"
  rd,          \* pending reads, oldest first
  wr,          \* pending writes, oldest first
  ready,       \* the loop's queue: completed operations and posted deletes
  phase,       \* "openFailed" while the user is inside ConnectError
  deleting,    \* DeleteLater was called
  opens,       \* how many times the socket was opened
  asked,       \* DisConnectFromHost was called since the last open
  errors,      \* Error emissions since the last open
  goneUse,     \* a callback was made through the null `q`
  accepted,    \* bytes Write took from the user; the k-th is the byte k
  wire,        \* the bytes sent to the peer
  acked,       \* bytes BytesWritten reported
  inbound,     \* bytes the peer sent; the k-th is the byte k
  got          \* the bytes the user read out of the receive buffer

ioVars   == <<stopped, closeCalled, alive, send, recv>>
asioVars == <<sock, rd, wr, ready>>
userVars == <<deleting, opens, asked, accepted, got>>
logVars  == <<errors, goneUse, wire, acked, inbound>>
vars     == <<ioVars, asioVars, phase, userVars, logVars>>

-----------------------------------------------------------------------------
\* Completions and what the operations leave in the loop's queue.

Completion(op, ok, n) == [op |-> op, ok |-> ok, n |-> n]

Failed(op) == Completion(op, FALSE, 0)

IsOpen == sock # "closed"

\* Closing cancels what is pending: reads, then the connect, then writes.
Aborted == [i \in 1..Len(rd) |-> Failed("read")]
             \o (IF sock = "connecting" THEN <<Failed("open")>> ELSE <<>>)
             \o [i \in 1..Len(wr) |-> Failed("write")]

\* What StartRead and StartWrite hand to asio.
\* `cap` tells allocations apart, for growing always makes it larger: the
\* operation's memory is the buffer's as long as the two agree.
ReadOp(b) == [at |-> b.widx, len |-> LeftSpace(b), cap |-> b.cap]

\* Mutant: from the front of the vector, not from the read cursor.
WriteOp_Front(b) == [at |-> 0, len |-> Unread(b), sent |-> 0, cap |-> b.cap]

WriteOp(b) == [at |-> b.ridx, len |-> Unread(b), sent |-> 0, cap |-> b.cap]

\* The receive buffer StartRead reads into.
Grown(b) == IF LeftSpace(b) < GrowSize THEN PrepareWrite(b, GrowSize) ELSE b

\* Mutant: a closed socket is not read from.
StartRead_IfOpen(b, rest) ==
  /\ recv' = Grown(b)
  /\ rd' = IF IsOpen THEN Append(rd, ReadOp(Grown(b))) ELSE rd
  /\ ready' = rest

\* StartRead on a stream that is not stopped, into buffer b. `rest` is the
\* loop's queue; an operation on a closed socket fails at once.
StartRead(b, rest) ==
  /\ recv' = Grown(b)
  /\ IF IsOpen THEN rd' = Append(rd, ReadOp(Grown(b))) /\ ready' = rest
               ELSE rd' = rd /\ ready' = Append(rest, Failed("read"))

\* StartWrite(stream) on a stream that is not stopped.
StartWrite(b, rest) ==
  /\ send' = b
  /\ IF Unread(b) > 0 /\ IsOpen
     THEN wr' = Append(wr, WriteOp(b)) /\ ready' = rest
     ELSE /\ wr' = wr
          /\ ready' = IF Unread(b) > 0 THEN Append(rest, Failed("write"))
                                       ELSE rest

\* Close(stream): the flag is never cleared again.
Close(rest) ==
  IF closeCalled
  THEN ready' = rest /\ UNCHANGED <<closeCalled, sock, rd, wr>>
  ELSE /\ closeCalled' = TRUE
       /\ sock' = "closed"
       /\ rd' = <<>>
       /\ wr' = <<>>
       /\ ready' = rest \o Aborted

\* Mutant: closes, but does not mark the stream stopped.
Stop_CloseOnly(rest) == stopped' = stopped /\ Close(rest)

Stop(rest) == stopped' = TRUE /\ Close(rest)

-----------------------------------------------------------------------------
\* What the user of the socket does.

ConnectToHost ==
  /\ alive /\ opens < MaxOpens
  /\ "noReuse" \in Rules => opens = 0
  /\ "closeFirst" \in Rules => ~deleting
  /\ ~IsOpen
  /\ stopped' = FALSE
  /\ sock' = "connecting"
  /\ opens' = opens + 1
  /\ asked' = FALSE
  /\ errors' = 0
  /\ UNCHANGED <<closeCalled, alive, send, recv, rd, wr, ready, phase,
                 deleting, accepted, got, goneUse, wire, acked, inbound>>

DisConnectFromHost ==
  /\ alive
  /\ "noReuse" \in Rules => opens > 0
  /\ Close(ready)
  /\ asked' = TRUE
  /\ UNCHANGED <<stopped, alive, send, recv, phase, deleting, opens, accepted,
                 got, logVars>>

\* Mutant: the write cursor mistaken for the length.
ShouldWrite_Fresh == send.widx = 0

ShouldWrite == Unread(send) = 0

\* On a stopped stream Write drops the data. Otherwise it starts a write
\* only when nothing was waiting in the buffer.
WriteData(n) ==
  /\ alive /\ accepted + n <= MaxOut
  /\ "oneWrite" \in Rules => acked = accepted
  /\ ~stopped
  /\ LET b == Write(send, [i \in 1..n |-> accepted + i])
     IN  IF ShouldWrite
         THEN StartWrite(b, ready)
         ELSE send' = b /\ UNCHANGED <<wr, ready>>
  /\ accepted' = accepted + n
  /\ UNCHANGED <<stopped, closeCalled, alive, recv, sock, rd, phase,
                 deleting, opens, asked, got, logVars>>

\* The user takes n bytes through the BufferReader of BytesRead.
ReadData(n) ==
  /\ alive /\ n <= Unread(recv)
  /\ got' = got \o BytesAt(recv, recv.ridx, n)
  /\ recv' = HasReaded(recv, n)
  /\ UNCHANGED <<stopped, closeCalled, alive, send, asioVars, phase,
                 deleting, opens, asked, accepted, logVars>>

\* Mutant: deletes at once.
DeleteLater_Now ==
  /\ alive /\ ~deleting
  /\ "closeFirst" \in Rules => ~IsOpen
  /\ deleting' = TRUE
  /\ alive' = FALSE
  /\ UNCHANGED <<stopped, closeCalled, send, recv, asioVars, phase, opens,
                 asked, accepted, got, logVars>>

DeleteLater ==
  /\ alive /\ ~deleting
  /\ "closeFirst" \in Rules => ~IsOpen
  /\ deleting' = TRUE
  /\ ready' = Append(ready, Completion("delete", TRUE, 0))
  /\ UNCHANGED <<ioVars, sock, rd, wr, phase, opens, asked, accepted, got,
                 logVars>>

User == \/ ConnectToHost
        \/ DisConnectFromHost
        \/ \E n \in 1..MaxOut : WriteData(n)
        \/ \E n \in {1, Unread(recv)} \ {0} : ReadData(n)
        \/ DeleteLater

-----------------------------------------------------------------------------
\* What the kernel and the peer do to the pending operations.

ConnectDone(ok) ==
  /\ sock = "connecting"
  /\ sock' = IF ok THEN "connected" ELSE "failed"
  /\ ready' = Append(ready, Completion("open", ok, 0))
  /\ UNCHANGED <<ioVars, rd, wr, phase, userVars, logVars>>

\* n bytes of the peer arrive in the memory of the oldest read.
PeerSends(n) ==
  /\ sock = "connected" /\ rd # <<>>
  /\ n <= Head(rd).len /\ inbound + n <= MaxIn
  /\ recv' = IF Head(rd).cap = recv.cap
             THEN Store(recv, Head(rd).at, [i \in 1..n |-> inbound + i])
             ELSE recv
  /\ inbound' = inbound + n
  /\ rd' = Tail(rd)
  /\ ready' = Append(ready, Completion("read", TRUE, n))
  /\ UNCHANGED <<stopped, closeCalled, alive, send, sock, wr, phase, userVars,
                 errors, goneUse, wire, acked>>

ReadFails ==
  /\ rd # <<>>
  /\ rd' = Tail(rd)
  /\ ready' = Append(ready, Failed("read"))
  /\ UNCHANGED <<ioVars, sock, wr, phase, userVars, logVars>>

\* async_write sends the memory of the oldest write k bytes at a time and
\* completes when all of it is sent. Memory that was freed reads as Zero.
Transmit(k) ==
  /\ sock = "connected" /\ wr # <<>>
  /\ LET w == Head(wr)
     IN  /\ k <= w.len - w.sent
         /\ wire' = wire \o (IF w.cap = send.cap
                             THEN BytesAt(send, w.at + w.sent, k)
                             ELSE [i \in 1..k |-> Zero])
         /\ IF w.sent + k = w.len
            THEN /\ wr' = Tail(wr)
                 /\ ready' = Append(ready, Completion("write", TRUE, w.len))
            ELSE /\ wr' = [wr EXCEPT ![1].sent = w.sent + k]
                 /\ UNCHANGED ready
  /\ UNCHANGED <<ioVars, sock, rd, phase, userVars, errors, goneUse, acked,
                 inbound>>

WriteFails ==
  /\ sock \in {"connected", "failed"} /\ wr # <<>>
  /\ wr' = Tail(wr)
  /\ ready' = Append(ready, Failed("write"))
  /\ UNCHANGED <<ioVars, sock, rd, phase, userVars, logVars>>

Kernel == \/ \E ok \in BOOLEAN : ConnectDone(ok)
          \/ \E n \in 1..MaxIn : PeerSends(n)
          \/ ReadFails
          \/ \E k \in 1..MaxOut : Transmit(k)
          \/ WriteFails

-----------------------------------------------------------------------------
\* The handlers, run by the event loop in the order of its queue.

Running(op) == phase = "idle" /\ ready # <<>> /\ Head(ready).op = op

Rest == Tail(ready)

\* Object::Emit tests its receiver, so a report to a deleted owner is lost.
ReportError == errors' = errors + (IF alive THEN 1 ELSE 0)

\* A handler of a stopped stream does nothing.
Dropped(op) ==
  /\ Running(op) /\ stopped
  /\ ready' = Rest
  /\ UNCHANGED <<ioVars, sock, rd, wr, phase, userVars, logVars>>

OpenOk ==
  /\ Running("open") /\ ~stopped /\ Head(ready).ok
  /\ StartRead(recv, Rest)
  /\ UNCHANGED <<stopped, closeCalled, alive, send, sock, wr, phase, userVars,
                 logVars>>

\* Reports ConnectError and then, when the user is done with it, Error.
OpenFails ==
  /\ Running("open") /\ ~stopped /\ ~Head(ready).ok
  /\ Stop(Rest)
  /\ phase' = IF alive THEN "openFailed" ELSE "idle"
  /\ UNCHANGED <<alive, send, recv, userVars, logVars>>

OpenFailsError ==
  /\ phase = "openFailed"
  /\ phase' = "idle"
  /\ ReportError
  /\ UNCHANGED <<ioVars, asioVars, userVars, goneUse, wire, acked, inbound>>

\* Mutant: the next read is started before this one is committed.
ReadOk_Swapped ==
  /\ Running("read") /\ ~stopped /\ Head(ready).ok
  /\ rd' = IF IsOpen THEN Append(rd, ReadOp(Grown(recv))) ELSE rd
  /\ ready' = IF IsOpen THEN Rest ELSE Append(Rest, Failed("read"))
  /\ recv' = CommitWrite(Grown(recv), Head(ready).n)
  /\ goneUse' = (goneUse \/ ~alive)
  /\ UNCHANGED <<stopped, closeCalled, alive, send, sock, wr, phase, userVars,
                 errors, wire, acked, inbound>>

\* The next read is started before BytesRead is emitted through `q`.
ReadOk ==
  /\ Running("read") /\ ~stopped /\ Head(ready).ok
  /\ StartRead(CommitWrite(recv, Head(ready).n), Rest)
  /\ goneUse' = (goneUse \/ ~alive)
  /\ UNCHANGED <<stopped, closeCalled, alive, send, sock, wr, phase, userVars,
                 errors, wire, acked, inbound>>

\* The next write is started before BytesWritten is emitted through `q`.
WriteOk ==
  /\ Running("write") /\ ~stopped /\ Head(ready).ok
  /\ StartWrite(ZeroCopyRead(send, Head(ready).n), Rest)
  /\ goneUse' = (goneUse \/ ~alive)
  /\ acked' = acked + Head(ready).n
  /\ UNCHANGED <<stopped, closeCalled, alive, recv, sock, rd, phase, userVars,
                 errors, wire, inbound>>

TransferFails(op) ==
  /\ Running(op) /\ ~stopped /\ ~Head(ready).ok
  /\ Stop(Rest)
  /\ ReportError
  /\ UNCHANGED <<alive, send, recv, phase, userVars, goneUse, wire, acked,
                 inbound>>

\* The posted delete runs ~TcpSocket, which only clears impl.q.
Delete ==
  /\ Running("delete")
  /\ alive' = FALSE
  /\ ready' = Rest
  /\ UNCHANGED <<stopped, closeCalled, send, recv, sock, rd, wr, phase,
                 userVars, logVars>>

Loop == \/ \E op \in {"open", "read", "write"} : Dropped(op)
        \/ OpenOk \/ OpenFails \/ OpenFailsError
        \/ ReadOk \/ WriteOk
        \/ \E op \in {"read", "write"} : TransferFails(op)
        \/ Delete

-----------------------------------------------------------------------------

Start ==
  /\ closeCalled = FALSE /\ alive = TRUE
  /\ send = NewBuffer(InitCap)
  /\ wr = <<>> /\ ready = <<>> /\ phase = "idle" /\ deleting = FALSE
  /\ asked = FALSE
  /\ errors = 0 /\ goneUse = FALSE /\ accepted = 0 /\ wire = <<>>
  /\ acked = 0 /\ inbound = 0 /\ got = <<>>

\* A socket the user makes, to connect it.
InitClient ==
  /\ Start
  /\ stopped = TRUE /\ recv = NewBuffer(InitCap)
  /\ sock = "closed" /\ rd = <<>> /\ opens = 0

\* A socket TcpServer accepted: it is not stopped and already reads.
InitAccepted ==
  /\ Start
  /\ stopped = FALSE /\ recv = Grown(NewBuffer(InitCap))
  /\ sock = "connected" /\ rd = <<ReadOp(recv)>> /\ opens = 1

Init == InitClient \/ InitAccepted

Next == User \/ Kernel \/ Loop

Spec == Init /\ [][Next]_vars

\* The loop runs whatever is queued; nothing is assumed of users and peers.
FairSpec == Spec /\ WF_vars(Loop)

-----------------------------------------------------------------------------

OpNames == {"open", "read", "write", "delete"}

\* Type invariant. The cursors of both buffers stay inside their vectors:
\* no commit exceeds the space its read was given, no acknowledged write the
\* data that waits.
TypeOK ==
  /\ stopped \in BOOLEAN /\ closeCalled \in BOOLEAN /\ alive \in BOOLEAN
  /\ BufferOK(send) /\ BufferOK(recv)
  /\ sock \in {"closed", "connecting", "connected", "failed"}
  /\ rd \in Seq([at : Nat, len : Nat, cap : Nat])
  /\ wr \in Seq([at : Nat, len : Nat, sent : Nat, cap : Nat])
  /\ ready \in Seq([op : OpNames, ok : BOOLEAN, n : Nat])
  /\ phase \in {"idle", "openFailed"}
  /\ deleting \in BOOLEAN /\ asked \in BOOLEAN /\ goneUse \in BOOLEAN
  /\ opens \in Nat /\ errors \in Nat /\ accepted \in Nat
  /\ acked \in Nat /\ inbound \in Nat
  /\ wire \in Seq(Nat) /\ got \in Seq(Nat)

InOrder(s) == \A i \in 1..Len(s) : s[i] = i

\* The peer gets the bytes handed to Write, in order, once, and none that
\* the buffer moved or freed under a write that was still being sent.
\* BytesWritten reports only bytes the user wrote and the peer was sent.
SentInOrder == InOrder(wire) /\ acked <= accepted /\ acked <= Len(wire)

\* What the user reads, followed by what waits in the receive buffer, is
\* what the peer sent: reads that run while the buffer is compacted, grown
\* or read from lose and overwrite nothing.
ReceivedInOrder ==
  InOrder(got \o BytesAt(recv, recv.ridx, Unread(recv)))

\* How many of the completions in queue s are of operations ops.
None(s, ops) == \A i \in 1..Len(s) : s[i].op \notin ops

One(s, ops) == \E i \in 1..Len(s) :
                 \A j \in 1..Len(s) : s[j].op \in ops <=> j = i

Watch == {"open", "read"}

\* While the stream runs exactly one operation can tell it that the peer is
\* gone or that the user closed it: the connect, or else the one read.
\* Handlers that were overtaken by a close are the hazard.
OneWatch ==
  ~stopped => \/ /\ Len(rd) = 1 /\ sock # "connecting"
                 /\ None(ready, Watch)
              \/ /\ rd = <<>> /\ sock = "connecting"
                 /\ None(ready, Watch)
              \/ /\ rd = <<>> /\ sock # "connecting"
                 /\ One(ready, Watch)

\* Data never waits in the send buffer of a running stream unless exactly
\* one write, pending or completed, will come back for it.
NoStalledWrite ==
  ~stopped => IF Unread(send) = 0
              THEN wr = <<>> /\ None(ready, {"write"})
              ELSE \/ Len(wr) = 1 /\ None(ready, {"write"})
                   \/ wr = <<>> /\ One(ready, {"write"})

\* One Error per connection, after which the stream is stopped: the aborted
\* read, write and connect of one close do not each report it.
ErrorOnce == errors <= 1 /\ (errors = 1 => stopped)

\* No handler reports BytesRead or BytesWritten through a null `q`.
NoGoneUse == ~goneUse

\* A connection that reported its Error reports nothing else, whatever was
\* still queued for it.
SilentAfterError ==
  [][errors = 1 /\ opens' = opens =>
       errors' = 1 /\ acked' = acked /\ recv'.widx = recv.widx]_vars

\* A user who disconnects hears of it: by Error, unless it was told before,
\* deletes the socket or opens it again.
DisconnectReported == (asked /\ ~stopped) ~> (stopped \/ ~alive \/ ~asked)

=============================================================================
