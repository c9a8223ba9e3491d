--------------------------- MODULE IoStreamProofs ---------------------------
(***************************************************************************)
(* Proofs about IoStream, for buffers of every size, for any number of     *)
(* connections, bytes and queued completions.  Each theorem names the      *)
(* rules of use it rests on.                                               *)
(***************************************************************************)
EXTENDS IoStream, ContainerLemmas

-----------------------------------------------------------------------------
\* Queues of completions: what they hold and how many of one kind.

Completions == [op : OpNames, ok : BOOLEAN, n : Nat]

Items(s) == {s[i] : i \in 1..Len(s)}

LEMMA CompletionType ==
  ASSUME NEW op \in OpNames, NEW ok \in BOOLEAN, NEW n \in Nat
  PROVE  /\ Completion(op, ok, n) \in Completions
         /\ Completion(op, ok, n).op = op
         /\ Completion(op, ok, n).ok = ok
         /\ Completion(op, ok, n).n = n
BY DEF Completion, Completions

LEMMA FailedType ==
  ASSUME NEW op \in OpNames
  PROVE  /\ Failed(op) \in Completions
         /\ Failed(op).op = op /\ ~Failed(op).ok /\ Failed(op).n = 0
BY DEF Failed, Completion, Completions

LEMMA AppendCompletion ==
  ASSUME NEW s \in Seq(Completions), NEW c \in Completions, NEW ops
  PROVE  /\ Append(s, c) \in Seq(Completions)
         /\ Items(Append(s, c)) \subseteq Items(s) \cup {c}
         /\ None(s, ops) /\ c.op \notin ops => None(Append(s, c), ops)
         /\ None(s, ops) /\ c.op \in ops => One(Append(s, c), ops)
         /\ One(s, ops) /\ c.op \notin ops => One(Append(s, c), ops)
<1> DEFINE t == Append(s, c)
<1>1. /\ t \in Seq(Completions) /\ Len(t) = Len(s) + 1 /\ Len(s) \in Nat
      /\ \A i \in 1..Len(s) : t[i] = s[i]
      /\ t[Len(s) + 1] = c
  OBVIOUS
<1>2. \A i \in 1..Len(t) : i \in 1..Len(s) \/ i = Len(s) + 1
  BY <1>1
<1> HIDE DEF t
<1>3. Items(t) \subseteq Items(s) \cup {c}
  BY <1>1, <1>2 DEF Items
<1>4. None(s, ops) /\ c.op \notin ops => None(t, ops)
  BY <1>1, <1>2 DEF None
<1>5. ASSUME None(s, ops), c.op \in ops PROVE One(t, ops)
  <2>1. \A j \in 1..Len(t) : t[j].op \in ops <=> j = Len(s) + 1
    BY <1>1, <1>2, <1>5 DEF None
  <2>2. Len(s) + 1 \in 1..Len(t)
    BY <1>1
  <2> QED BY <2>1, <2>2 DEF One
<1>6. ASSUME One(s, ops), c.op \notin ops PROVE One(t, ops)
  <2>1. PICK i \in 1..Len(s) : \A j \in 1..Len(s) : s[j].op \in ops <=> j = i
    BY <1>6 DEF One
  <2>2. i \in 1..Len(t) /\ \A j \in 1..Len(t) : t[j].op \in ops <=> j = i
    BY <1>1, <1>2, <1>6, <2>1
  <2> QED BY <2>2 DEF One
<1> QED BY <1>1, <1>3, <1>4, <1>5, <1>6 DEF t

LEMMA TailCompletions ==
  ASSUME NEW s \in Seq(Completions), s # <<>>, NEW ops
  PROVE  /\ Tail(s) \in Seq(Completions)
         /\ Head(s) \in Completions /\ Head(s) \in Items(s)
         /\ Items(Tail(s)) \subseteq Items(s)
         /\ None(s, ops) => Head(s).op \notin ops /\ None(Tail(s), ops)
         /\ One(s, ops) /\ Head(s).op \notin ops => One(Tail(s), ops)
         /\ One(s, ops) /\ Head(s).op \in ops => None(Tail(s), ops)
<1> DEFINE t == Tail(s)
<1>1. /\ t \in Seq(Completions) /\ Len(t) = Len(s) - 1
      /\ Len(s) \in Nat /\ Len(s) >= 1
      /\ \A i \in 1..Len(t) : t[i] = s[i + 1]
      /\ Head(s) = s[1] /\ s[1] \in Completions
  OBVIOUS
<1>2. \A i \in 1..Len(t) : i + 1 \in 1..Len(s) /\ i + 1 # 1
  BY <1>1
<1>3. 1 \in 1..Len(s)
  BY <1>1
<1> HIDE DEF t
<1>4. Items(t) \subseteq Items(s) /\ Head(s) \in Items(s)
  BY <1>1, <1>2, <1>3 DEF Items
<1>5. None(s, ops) => Head(s).op \notin ops /\ None(t, ops)
  BY <1>1, <1>2, <1>3 DEF None
<1>6. ASSUME One(s, ops), Head(s).op \notin ops PROVE One(t, ops)
  <2>1. PICK i \in 1..Len(s) : \A j \in 1..Len(s) : s[j].op \in ops <=> j = i
    BY <1>6 DEF One
  <2>2. i # 1
    BY <1>1, <1>3, <1>6, <2>1
  <2>3. i - 1 \in 1..Len(t)
    BY <1>1, <2>2
  <2>4. \A j \in 1..Len(t) : t[j].op \in ops <=> j = i - 1
    BY <1>1, <1>2, <2>1, SMTT(30)
  <2> QED BY <2>3, <2>4 DEF One
<1>7. ASSUME One(s, ops), Head(s).op \in ops PROVE None(t, ops)
  <2>1. PICK i \in 1..Len(s) : \A j \in 1..Len(s) : s[j].op \in ops <=> j = i
    BY <1>7 DEF One
  <2>2. i = 1
    BY <1>1, <1>3, <1>7, <2>1
  <2> QED BY <1>1, <1>2, <2>1, <2>2 DEF None
<1> QED BY <1>1, <1>4, <1>5, <1>6, <1>7 DEF t

LEMMA ConcatCompletions ==
  ASSUME NEW s \in Seq(Completions), NEW t \in Seq(Completions), NEW ops
  PROVE  /\ s \o t \in Seq(Completions)
         /\ Items(s \o t) \subseteq Items(s) \cup Items(t)
         /\ None(s, ops) /\ None(t, ops) => None(s \o t, ops)
         /\ One(s, ops) /\ None(t, ops) => One(s \o t, ops)
         /\ None(s, ops) /\ One(t, ops) => One(s \o t, ops)
<1> DEFINE u == s \o t
<1>1. /\ u \in Seq(Completions) /\ Len(u) = Len(s) + Len(t)
      /\ Len(s) \in Nat /\ Len(t) \in Nat
      /\ \A i \in 1..Len(u) : u[i] = IF i <= Len(s) THEN s[i]
                                                    ELSE t[i - Len(s)]
  OBVIOUS
<1>2. \A i \in 1..Len(u) : \/ i <= Len(s) /\ i \in 1..Len(s)
                           \/ ~(i <= Len(s)) /\ i - Len(s) \in 1..Len(t)
  BY <1>1
<1> HIDE DEF u
<1>3. Items(u) \subseteq Items(s) \cup Items(t)
  BY <1>1, <1>2 DEF Items
<1>4. None(s, ops) /\ None(t, ops) => None(u, ops)
  BY <1>1, <1>2 DEF None
<1>5. ASSUME One(s, ops), None(t, ops) PROVE One(u, ops)
  <2>1. PICK i \in 1..Len(s) : \A j \in 1..Len(s) : s[j].op \in ops <=> j = i
    BY <1>5 DEF One
  <2>2. i \in 1..Len(u) /\ i <= Len(s)
    BY <1>1
  <2>3. \A j \in 1..Len(u) : u[j].op \in ops <=> j = i
    BY <1>1, <1>2, <1>5, <2>1, <2>2 DEF None
  <2> QED BY <2>2, <2>3 DEF One
<1>6. ASSUME None(s, ops), One(t, ops) PROVE One(u, ops)
  <2>1. PICK i \in 1..Len(t) : \A j \in 1..Len(t) : t[j].op \in ops <=> j = i
    BY <1>6 DEF One
  <2>2. Len(s) + i \in 1..Len(u)
    BY <1>1
  <2>3. ASSUME NEW j \in 1..Len(u) PROVE u[j].op \in ops <=> j = Len(s) + i
    <3>1. CASE j <= Len(s)
      <4>1. u[j] = s[j] /\ j \in 1..Len(s) /\ j # Len(s) + i
        BY <1>1, <1>2, <2>1, <3>1
      <4> QED BY <1>6, <4>1 DEF None
    <3>2. CASE ~(j <= Len(s))
      <4>1. u[j] = t[j - Len(s)] /\ j - Len(s) \in 1..Len(t)
        BY <1>1, <1>2, <3>2
      <4>2. j - Len(s) = i <=> j = Len(s) + i
        BY <1>1
      <4> QED BY <2>1, <4>1, <4>2
    <3> QED BY <3>1, <3>2
  <2> QED BY <2>2, <2>3 DEF One
<1> QED BY <1>1, <1>3, <1>4, <1>5, <1>6 DEF u

\* A queue of none or of one failed operation, and any number of them.
LEMMA RepeatQueue ==
  ASSUME NEW k \in Nat, NEW op \in OpNames, NEW ops
  PROVE  LET s == [i \in 1..k |-> Failed(op)]
         IN  /\ s \in Seq(Completions)
             /\ Items(s) \subseteq {Failed(op)}
             /\ k = 0 \/ op \notin ops => None(s, ops)
             /\ k = 1 /\ op \in ops => One(s, ops)
<1> DEFINE s == [i \in 1..k |-> Failed(op)]
<1>1. Failed(op) \in Completions /\ Failed(op).op = op
  BY FailedType
<1>2. s \in Seq(Completions) /\ Len(s) = k /\ \A i \in 1..k : s[i] = Failed(op)
  BY <1>1
<1> HIDE DEF s
<1> QED BY <1>1, <1>2 DEF s, Items, None, One

LEMMA TailOfOne ==
  ASSUME NEW S, NEW s \in Seq(S), Len(s) = 1 PROVE Tail(s) = <<>>
<1>1. Tail(s) \in Seq(S) /\ Len(Tail(s)) = 0
  OBVIOUS
<1> DEFINE t == Tail(s)
<1>2. t \in Seq(S) /\ Len(t) = 0
  BY <1>1
<1> HIDE DEF t
<1>3. t = <<>>
  BY <1>2
<1> QED BY <1>3 DEF t

\* Byte sequences put together.
LEMMA ConcatBytes ==
  ASSUME NEW s \in Seq(Nat), NEW t \in Seq(Nat)
  PROVE  /\ s \o t \in Seq(Nat) /\ Len(s \o t) = Len(s) + Len(t)
         /\ \A k \in 1..Len(s \o t) :
              (s \o t)[k] = IF k <= Len(s) THEN s[k] ELSE t[k - Len(s)]
OBVIOUS

-----------------------------------------------------------------------------
\* The inductive invariant of a user who connects once.

Reads == [at : Nat, len : Nat, cap : Nat]

Writes == [at : Nat, len : Nat, sent : Nat, cap : Nat]

\* How many of the peer's bytes were committed to the receive buffer.
Committed == Len(got) + Unread(recv)

\* Before the first open nothing has happened.
Untouched ==
  opens = 0 => /\ stopped /\ ~closeCalled /\ errors = 0 /\ phase = "idle"
               /\ sock = "closed" /\ None(ready, Watch \cup {"write"})
               /\ inbound = Committed /\ Unread(send) = 0

\* A closed socket has no pending operations, and a stopped stream is closed.
Shut == /\ closeCalled => sock = "closed"
        /\ stopped => sock = "closed"
        /\ sock = "closed" => rd = <<>> /\ wr = <<>>

Reported == ErrorOnce /\ (phase = "openFailed" => stopped /\ errors = 0)

\* A completion that will be committed: its bytes are above the write cursor.
Received(c) == /\ c.op = "open" => c.n = 0
               /\ c.n <= LeftSpace(recv)
               /\ inbound = Committed + c.n
               /\ \A k \in 1..c.n : recv.mem[recv.widx + k - 1] = Committed + k

RecvInv ==
  /\ InOrder(got)
  /\ Holds(recv, Committed)
  /\ ~stopped =>
       /\ rd # <<>> => Head(rd) = ReadOp(recv)
       /\ rd # <<>> \/ sock = "connecting" => inbound = Committed
       /\ \A c \in Items(ready) : c.op \in Watch => Received(c)

Inv == /\ TypeOK
       /\ Untouched
       /\ Shut
       /\ Reported
       /\ OneWatch
       /\ NoStalledWrite
       /\ RecvInv
       /\ Holds(send, accepted)

LEMMA TypeFacts ==
  ASSUME TypeOK
  PROVE  /\ Unread(send) \in Nat /\ Unread(recv) \in Nat
         /\ LeftSpace(recv) \in Nat /\ Committed \in Nat
<1>1. /\ Unread(send) \in Nat /\ Unread(recv) \in Nat
      /\ LeftSpace(recv) \in Nat
  BY SMTT(30) DEF TypeOK, BufferOK, Unread, LeftSpace
<1>2. Len(got) \in Nat
  BY DEF TypeOK
<1> QED BY <1>1, <1>2 DEF Committed

\* What closing adds to the loop's queue.
LEMMA AbortedLemma ==
  ASSUME TypeOK
  PROVE  /\ Aborted \in Seq(Completions)
         /\ \A c \in Items(Aborted) :
              c \in {Failed("read"), Failed("open"), Failed("write")}
         /\ rd = <<>> /\ sock # "connecting" => None(Aborted, Watch)
         /\ Len(rd) = 1 /\ sock # "connecting" => One(Aborted, Watch)
         /\ rd = <<>> /\ sock = "connecting" => One(Aborted, Watch)
         /\ wr = <<>> => None(Aborted, {"write"})
         /\ Len(wr) = 1 => One(Aborted, {"write"})
<1> DEFINE r == [i \in 1..Len(rd) |-> Failed("read")]
           o == IF sock = "connecting" THEN <<Failed("open")>> ELSE <<>>
           w == [i \in 1..Len(wr) |-> Failed("write")]
<1>1. Len(rd) \in Nat /\ Len(wr) \in Nat
      /\ (rd = <<>> => Len(rd) = 0) /\ (wr = <<>> => Len(wr) = 0)
  BY DEF TypeOK
<1>2. /\ r \in Seq(Completions) /\ Items(r) \subseteq {Failed("read")}
      /\ None(r, {"write"})
      /\ Len(rd) = 0 => None(r, Watch)
      /\ Len(rd) = 1 => One(r, Watch)
  BY <1>1, RepeatQueue, ZenonT(30) DEF Watch, OpNames
<1>3. /\ w \in Seq(Completions) /\ Items(w) \subseteq {Failed("write")}
      /\ None(w, Watch)
      /\ Len(wr) = 0 => None(w, {"write"})
      /\ Len(wr) = 1 => One(w, {"write"})
  <2>1. "write" \in OpNames /\ "write" \notin Watch
    BY DEF Watch, OpNames
  <2>2. None(w, Watch)
    BY <1>1, <2>1, RepeatQueue
  <2> QED BY <1>1, <2>1, <2>2, RepeatQueue
<1>4. /\ o \in Seq(Completions) /\ Items(o) \subseteq {Failed("open")}
      /\ None(o, {"write"})
      /\ sock # "connecting" => None(o, Watch)
      /\ sock = "connecting" => One(o, Watch)
  BY FailedType DEF Watch, OpNames, Items, None, One
<1>5. Aborted = (r \o o) \o w
  BY DEF Aborted
<1> HIDE DEF r, o, w
<1>6. /\ r \o o \in Seq(Completions)
      /\ Items(r \o o) \subseteq Items(r) \cup Items(o)
      /\ None(r \o o, {"write"})
      /\ rd = <<>> /\ sock # "connecting" => None(r \o o, Watch)
      /\ Len(rd) = 1 /\ sock # "connecting" => One(r \o o, Watch)
      /\ rd = <<>> /\ sock = "connecting" => One(r \o o, Watch)
  BY <1>1, <1>2, <1>4, ConcatCompletions
<1>7. /\ Aborted \in Seq(Completions)
      /\ Items(Aborted) \subseteq Items(r \o o) \cup Items(w)
  BY <1>3, <1>5, <1>6, ConcatCompletions
<1>8. /\ rd = <<>> /\ sock # "connecting" => None(Aborted, Watch)
      /\ Len(rd) = 1 /\ sock # "connecting" => One(Aborted, Watch)
      /\ rd = <<>> /\ sock = "connecting" => One(Aborted, Watch)
  BY <1>3, <1>5, <1>6, ConcatCompletions
<1>9. /\ wr = <<>> => None(Aborted, {"write"})
      /\ Len(wr) = 1 => One(Aborted, {"write"})
  BY <1>1, <1>3, <1>5, <1>6, ConcatCompletions
<1> QED BY <1>2, <1>3, <1>4, <1>6, <1>7, <1>8, <1>9

\* Close leaves a closed socket without operations, whether it was closed
\* before or not.
LEMMA CloseLemma ==
  ASSUME TypeOK, Shut, NEW rest \in Seq(Completions), Close(rest)
  PROVE  /\ closeCalled' = TRUE /\ sock' = "closed" /\ rd' = <<>> /\ wr' = <<>>
         /\ ready' = rest \o Aborted
<1>1. CASE closeCalled
  <2>1. Aborted = <<>>
    BY <1>1 DEF Shut, Aborted
  <2> QED BY <1>1, <2>1 DEF Close, Shut
<1>2. CASE ~closeCalled
  BY <1>2 DEF Close
<1> QED BY <1>1, <1>2 DEF TypeOK

LEMMA GrownLemma ==
  ASSUME NEW b, BufferOK(b), NEW total \in Nat, Holds(b, total)
  PROVE  /\ BufferOK(Grown(b)) /\ Holds(Grown(b), total)
         /\ Unread(Grown(b)) = Unread(b)
BY StreamAssumption, PrepareWriteLemma DEF Grown

\* Starting a read on a stream that has no other watch.
LEMMA StartReadLemma ==
  ASSUME NEW b, BufferOK(b), NEW total \in Nat, Holds(b, total),
         NEW rest \in Seq(Completions), None(rest, Watch),
         rd = <<>>, StartRead(b, rest)
  PROVE  /\ BufferOK(recv') /\ Holds(recv', total) /\ Unread(recv') = Unread(b)
         /\ rd' \in Seq(Reads) /\ ready' \in Seq(Completions)
         /\ Items(ready') \subseteq Items(rest) \cup {Failed("read")}
         /\ None(rest, {"write"}) => None(ready', {"write"})
         /\ One(rest, {"write"}) => One(ready', {"write"})
         /\ IF IsOpen
            THEN /\ Len(rd') = 1 /\ Head(rd') = ReadOp(recv')
                 /\ None(ready', Watch) /\ ready' = rest
            ELSE rd' = <<>> /\ One(ready', Watch)
<1>1. /\ recv' = Grown(b)
      /\ BufferOK(recv') /\ Holds(recv', total) /\ Unread(recv') = Unread(b)
  BY GrownLemma DEF StartRead
<1>2. ReadOp(recv') \in Reads
  BY <1>1 DEF ReadOp, Reads, BufferOK, LeftSpace
<1>3. CASE IsOpen
  <2>1. rd' = Append(rd, ReadOp(recv')) /\ ready' = rest
    BY <1>1, <1>3 DEF StartRead
  <2>2. rd' \in Seq(Reads) /\ Len(rd') = 1 /\ Head(rd') = ReadOp(recv')
    BY <1>2, <2>1
  <2> QED BY <1>1, <1>3, <2>1, <2>2
<1>4. CASE ~IsOpen
  <2>1. /\ rd' = <<>> /\ ready' = Append(rest, Failed("read"))
    BY <1>4 DEF StartRead
  <2>2. /\ Failed("read") \in Completions /\ Failed("read").op = "read"
    BY FailedType DEF OpNames
  <2> QED BY <1>1, <1>4, <2>1, <2>2, AppendCompletion DEF Watch
<1> QED BY <1>3, <1>4

\* Starting a write when the last one is done.
LEMMA StartWriteLemma ==
  ASSUME NEW b, BufferOK(b), NEW rest \in Seq(Completions),
         None(rest, {"write"}), wr = <<>>, StartWrite(b, rest)
  PROVE  /\ send' = b
         /\ wr' \in Seq(Writes) /\ ready' \in Seq(Completions)
         /\ ~IsOpen => wr' = <<>>
         /\ Items(ready') \subseteq Items(rest) \cup {Failed("write")}
         /\ None(rest, Watch) => None(ready', Watch)
         /\ One(rest, Watch) => One(ready', Watch)
         /\ IF Unread(b) = 0
            THEN wr' = <<>> /\ None(ready', {"write"})
            ELSE \/ Len(wr') = 1 /\ None(ready', {"write"})
                 \/ wr' = <<>> /\ One(ready', {"write"})
<1>1. /\ Failed("write") \in Completions /\ Failed("write").op = "write"
  BY FailedType DEF OpNames
<1>2. Unread(b) \in Nat
  BY DEF BufferOK, Unread
<1>3. CASE Unread(b) = 0
  BY <1>3 DEF StartWrite
<1>4. CASE Unread(b) # 0 /\ IsOpen
  <2>1. WriteOp(b) \in Writes
    BY <1>2 DEF WriteOp, Writes, BufferOK
  <2>2. wr' = Append(wr, WriteOp(b)) /\ ready' = rest /\ send' = b
    BY <1>2, <1>4 DEF StartWrite
  <2> QED BY <1>4, <2>1, <2>2
<1>5. CASE Unread(b) # 0 /\ ~IsOpen
  <2>1. wr' = <<>> /\ ready' = Append(rest, Failed("write")) /\ send' = b
    BY <1>2, <1>5 DEF StartWrite
  <2> QED BY <1>1, <1>5, <2>1, AppendCompletion DEF Watch
<1> QED BY <1>3, <1>4, <1>5

\* A step that leaves the received bytes alone, and adds no completion that
\* watches but one without bytes for the read or connect it ends.
LEMMA RecvFrame ==
  ASSUME TypeOK, RecvInv,
         UNCHANGED <<got, recv, inbound>>,
         ~stopped' =>
           /\ ~stopped
           /\ rd' = rd \/ rd' = <<>>
           /\ sock' = "connecting" => sock = "connecting"
           /\ \A c \in Items(ready') : c.op \in Watch =>
                \/ c \in Items(ready)
                \/ c.n = 0 /\ (rd # <<>> \/ sock = "connecting")
  PROVE  RecvInv'
<1>1. Committed' = Committed
  BY DEF Committed
<1>2. InOrder(got') /\ Holds(recv', Committed')
  BY <1>1 DEF RecvInv
<1>3. ASSUME ~stopped'
      PROVE  /\ rd' # <<>> => Head(rd') = ReadOp(recv')
             /\ rd' # <<>> \/ sock' = "connecting" => inbound' = Committed'
  BY <1>1, <1>3 DEF RecvInv
<1>4. ASSUME ~stopped', NEW c \in Items(ready'), c.op \in Watch
      PROVE  Received(c)'
  <2>1. CASE c \in Items(ready)
    <3>1. Received(c)
      BY <1>4, <2>1 DEF RecvInv
    <3> QED BY <1>1, <3>1 DEF Received
  <2>2. CASE c.n = 0 /\ (rd # <<>> \/ sock = "connecting")
    <3>1. inbound = Committed /\ Committed \in Nat /\ LeftSpace(recv) \in Nat
      BY <1>4, <2>2, TypeFacts DEF RecvInv
    <3>2. /\ c.n <= LeftSpace(recv) /\ inbound = Committed + c.n
          /\ 1..c.n = {}
      BY <2>2, <3>1
    <3> QED BY <1>1, <2>2, <3>2 DEF Received
  <2> QED BY <1>4, <2>1, <2>2
<1> QED BY <1>2, <1>3, <1>4 DEF RecvInv

-----------------------------------------------------------------------------
\* Every action keeps the invariant. First the user's.

LEMMA ConnectToHostStep ==
  ASSUME Inv, "noReuse" \in Rules, ConnectToHost PROVE Inv'
<1>1. /\ opens = 0 /\ stopped' = FALSE /\ sock' = "connecting"
      /\ opens' = opens + 1 /\ asked' = FALSE /\ errors' = 0
      /\ UNCHANGED <<closeCalled, alive, send, recv, rd, wr, ready, phase,
                     deleting, accepted, got, goneUse, wire, acked, inbound>>
  BY DEF ConnectToHost
<1>2. /\ rd = <<>> /\ wr = <<>> /\ ~closeCalled /\ phase = "idle"
      /\ None(ready, Watch) /\ None(ready, {"write"})
      /\ inbound = Committed /\ Unread(send) = 0
  <2>1. Untouched /\ Shut
    BY DEF Inv
  <2>2. None(ready, Watch \cup {"write"})
    BY <1>1, <2>1 DEF Untouched
  <2>3. None(ready, Watch) /\ None(ready, {"write"})
    BY <2>2 DEF None
  <2> QED BY <1>1, <2>1, <2>3 DEF Untouched, Shut
<1>3. TypeOK'
  <2>1. TypeOK
    BY DEF Inv
  <2>2. opens' \in Nat /\ errors' \in Nat
    BY <1>1, <2>1 DEF TypeOK
  <2> QED BY <1>1, <2>1, <2>2 DEF TypeOK
<1>4. Untouched'
  BY <1>1 DEF Untouched
<1>5. Shut' /\ Reported'
  BY <1>1, <1>2 DEF Shut, Reported, ErrorOnce
<1>6. OneWatch' /\ NoStalledWrite'
  BY <1>1, <1>2 DEF OneWatch, NoStalledWrite, None
<1>7. RecvInv'
  <2>1. \A c \in Items(ready) : c.op \notin Watch
    BY <1>2 DEF None, Items
  <2> QED BY <1>1, <1>2, <2>1 DEF Inv, RecvInv, Committed
<1>8. Holds(send, accepted)'
  BY <1>1 DEF Inv
<1> QED BY <1>3, <1>4, <1>5, <1>6, <1>7, <1>8 DEF Inv

LEMMA DisConnectStep ==
  ASSUME Inv, "noReuse" \in Rules, DisConnectFromHost PROVE Inv'
<1>1. /\ opens > 0 /\ Close(ready) /\ asked' = TRUE
      /\ UNCHANGED <<stopped, alive, send, recv, phase, deleting, opens,
                     accepted, got, errors, goneUse, wire, acked, inbound>>
  BY DEF DisConnectFromHost, logVars
<1>2. TypeOK /\ Shut /\ ready \in Seq(Completions)
  BY DEF Inv, TypeOK, Completions
<1>3. /\ closeCalled' = TRUE /\ sock' = "closed" /\ rd' = <<>> /\ wr' = <<>>
      /\ ready' = ready \o Aborted
  BY <1>1, <1>2, CloseLemma
<1>4. Aborted \in Seq(Completions) /\ ready' \in Seq(Completions)
  BY <1>2, <1>3, AbortedLemma, ConcatCompletions
<1>5. TypeOK'
  BY <1>1, <1>3, <1>4 DEF Inv, TypeOK, Completions
<1>6. Untouched' /\ Shut' /\ Reported'
  BY <1>1, <1>3 DEF Inv, Untouched, Shut, Reported, ErrorOnce
<1>7. ASSUME ~stopped PROVE One(ready', Watch)
  BY <1>2, <1>3, <1>4, <1>7, AbortedLemma, ConcatCompletions DEF Inv, OneWatch
<1>8. ASSUME ~stopped
      PROVE  IF Unread(send) = 0 THEN None(ready', {"write"})
                                 ELSE One(ready', {"write"})
  BY <1>2, <1>3, <1>4, <1>8, AbortedLemma, ConcatCompletions DEF Inv, NoStalledWrite
<1>9. OneWatch' /\ NoStalledWrite'
  BY <1>1, <1>3, <1>7, <1>8 DEF OneWatch, NoStalledWrite
<1>10. RecvInv'
  <2>1. ASSUME ~stopped, NEW c \in Items(ready'), c.op \in Watch
        PROVE  \/ c \in Items(ready)
               \/ c.n = 0 /\ (rd # <<>> \/ sock = "connecting")
    <3>1. CASE c \in Items(ready)
      BY <3>1
    <3>2. CASE c \in Items(Aborted)
      <4>1. c.n = 0
        BY <1>2, <3>2, AbortedLemma, FailedType DEF OpNames
      <4>2. ~None(Aborted, Watch)
        BY <2>1, <3>2 DEF None, Items
      <4> QED BY <1>2, <4>1, <4>2, AbortedLemma
    <3> QED BY <1>2, <1>3, <1>4, <2>1, <3>1, <3>2, ConcatCompletions
  <2> QED BY <1>1, <1>2, <1>3, <2>1, RecvFrame DEF Inv
<1>11. Holds(send, accepted)'
  BY <1>1 DEF Inv
<1> QED BY <1>5, <1>6, <1>9, <1>10, <1>11 DEF Inv

LEMMA WriteDataStep ==
  ASSUME Inv, NEW n \in 1..MaxOut, WriteData(n) PROVE Inv'
<1> DEFINE data == [i \in 1..n |-> accepted + i]
           b    == Write(send, data)
<1>1. /\ ~stopped /\ accepted' = accepted + n
      /\ UNCHANGED <<stopped, closeCalled, alive, recv, sock, rd, phase,
                     deleting, opens, asked, got, errors, goneUse, wire, acked,
                     inbound>>
      /\ IF Unread(send) = 0 THEN StartWrite(b, ready)
         ELSE send' = b /\ UNCHANGED <<wr, ready>>
  BY DEF WriteData, ShouldWrite, logVars
<1>2. /\ TypeOK /\ BufferOK(send) /\ accepted \in Nat /\ n \in Nat /\ n > 0
      /\ ready \in Seq(Completions) /\ wr \in Seq(Writes)
      /\ Holds(send, accepted) /\ Unread(send) \in Nat
  BY StreamAssumption, TypeFacts DEF Inv, TypeOK, Completions, Writes
<1>3. BufferOK(b) /\ Holds(b, accepted + n) /\ Unread(b) = Unread(send) + n
  BY <1>2, WriteLemma
<1> HIDE DEF b
<1>4. /\ send' = b
      /\ wr' \in Seq(Writes) /\ ready' \in Seq(Completions)
      /\ Items(ready') \subseteq Items(ready) \cup {Failed("write")}
      /\ None(ready, Watch) => None(ready', Watch)
      /\ One(ready, Watch) => One(ready', Watch)
      /\ \/ Len(wr') = 1 /\ None(ready', {"write"})
         \/ wr' = <<>> /\ One(ready', {"write"})
  <2>1. CASE Unread(send) = 0
    <3>1. wr = <<>> /\ None(ready, {"write"}) /\ Unread(b) # 0
      BY <1>1, <1>2, <1>3, <2>1 DEF Inv, NoStalledWrite
    <3>2. StartWrite(b, ready)
      BY <1>1, <2>1
    <3> QED BY <1>2, <1>3, <3>1, <3>2, StartWriteLemma
  <2>2. CASE Unread(send) # 0
    BY <1>1, <1>2, <2>2 DEF Inv, NoStalledWrite
  <2> QED BY <2>1, <2>2
<1>5. TypeOK'
  <2>1. accepted' \in Nat
    BY <1>1, <1>2
  <2> QED BY <1>1, <1>2, <1>3, <1>4, <2>1 DEF TypeOK, Completions, Writes
<1>6. Untouched' /\ Shut' /\ Reported'
  <2>1. opens # 0
    BY <1>1 DEF Inv, Untouched
  <2>2. sock = "closed" => wr' = <<>>
    <3>1. CASE Unread(send) = 0
      BY <1>1, <1>2, <1>3, <3>1 DEF Inv, Shut, StartWrite, IsOpen
    <3>2. CASE Unread(send) # 0
      BY <1>1, <3>2 DEF Inv, Shut
    <3> QED BY <3>1, <3>2
  <2> QED BY <1>1, <2>1, <2>2
          DEF Inv, Untouched, Shut, Reported, ErrorOnce
<1>7. OneWatch'
  BY <1>1, <1>4 DEF Inv, OneWatch
<1>8. NoStalledWrite'
  <2>1. Unread(b) # 0
    BY <1>2, <1>3
  <2> QED BY <1>1, <1>4, <2>1 DEF NoStalledWrite
<1>9. RecvInv'
  <2>1. Failed("write").op \notin Watch
    BY FailedType DEF OpNames, Watch
  <2>2. \A c \in Items(ready') : c.op \in Watch => c \in Items(ready)
    BY <1>4, <2>1
  <2> QED BY <1>1, <1>2, <2>2, RecvFrame DEF Inv
<1>10. Holds(send, accepted)'
  BY <1>1, <1>3, <1>4
<1> QED BY <1>5, <1>6, <1>7, <1>8, <1>9, <1>10 DEF Inv

LEMMA ReadDataStep ==
  ASSUME Inv, NEW n \in {1, Unread(recv)} \ {0}, ReadData(n) PROVE Inv'
<1>1. /\ n <= Unread(recv)
      /\ got' = got \o BytesAt(recv, recv.ridx, n)
      /\ recv' = HasReaded(recv, n)
      /\ UNCHANGED <<stopped, closeCalled, alive, send, sock, rd, wr, ready,
                     phase, deleting, opens, asked, accepted, errors, goneUse,
                     wire, acked, inbound>>
  BY DEF ReadData, asioVars, logVars
<1>2. /\ TypeOK /\ BufferOK(recv) /\ n \in Nat /\ got \in Seq(Nat)
      /\ Committed \in Nat /\ Holds(recv, Committed) /\ InOrder(got)
  BY TypeFacts DEF Inv, TypeOK, RecvInv
<1>3. /\ BufferOK(recv') /\ Holds(recv', Committed)
      /\ Unread(recv') = Unread(recv) - n
  BY <1>1, <1>2, ReadLemma
<1>4. recv'.widx = recv.widx /\ recv'.cap = recv.cap /\ recv'.mem = recv.mem
  BY <1>1, <1>2 DEF HasReaded, BufferOK
<1>5. /\ recv.ridx \in Nat /\ recv.widx \in Nat
      /\ Unread(recv) = recv.widx - recv.ridx
      /\ recv.ridx + n <= recv.widx
      /\ Committed = Len(got) + Unread(recv) /\ Len(got) \in Nat
  BY <1>1, <1>2 DEF BufferOK, Unread, Committed
<1> DEFINE from == Committed - recv.widx + recv.ridx
           data == [k \in 1..n |-> from + k]
<1>6. BytesAt(recv, recv.ridx, n) = data /\ from = Len(got)
  <2>1. /\ BufferOK(recv) /\ Committed \in Nat /\ Holds(recv, Committed)
        /\ recv.ridx \in Nat /\ n \in Nat /\ recv.ridx + n <= recv.widx
    BY <1>2, <1>5
  <2>2. BytesAt(recv, recv.ridx, n) = data
    BY <2>1, BytesAtLemma
  <2>3. from = Len(got)
    BY <1>2, <1>5
  <2> QED BY <2>2, <2>3
<1>7. /\ data \in Seq(Nat) /\ Len(data) = n
      /\ \A k \in 1..n : data[k] = Len(got) + k
  BY <1>2, <1>5, <1>6, SMTT(30)
<1> HIDE DEF data, from
<1>8. /\ got' \in Seq(Nat) /\ Len(got') = Len(got) + n
      /\ \A k \in 1..Len(got') : got'[k] = IF k <= Len(got) THEN got[k]
                                           ELSE data[k - Len(got)]
  <2>1. got \in Seq(Nat) /\ data \in Seq(Nat) /\ Len(data) = n
    BY <1>2, <1>7
  <2>2. got' = got \o data
    BY <1>1, <1>6
  <2> QED BY <2>1, <2>2, ConcatBytes
<1>9. InOrder(got')
  <2>1. ASSUME NEW k \in 1..Len(got') PROVE got'[k] = k
    <3>1. CASE k <= Len(got)
      <4>1. k \in 1..Len(got)
        BY <1>5, <1>8, <3>1
      <4> QED BY <1>2, <1>8, <3>1, <4>1 DEF InOrder
    <3>2. CASE ~(k <= Len(got))
      <4>1. k - Len(got) \in 1..n
        BY <1>2, <1>5, <1>8, <3>2
      <4>2. data[k - Len(got)] = Len(got) + (k - Len(got))
        BY <1>7, <4>1
      <4> QED BY <1>5, <1>8, <3>2, <4>2
    <3> QED BY <3>1, <3>2
  <2> QED BY <2>1 DEF InOrder
<1>10. Committed' = Committed
  BY <1>2, <1>3, <1>5, <1>8 DEF Committed
<1>11. TypeOK'
  BY <1>1, <1>2, <1>3, <1>8 DEF TypeOK
<1>12. Untouched' /\ Shut' /\ Reported' /\ OneWatch' /\ NoStalledWrite'
  BY <1>1, <1>10 DEF Inv, Untouched, Shut, Reported, ErrorOnce, OneWatch,
                     NoStalledWrite
<1>13. RecvInv'
  <2>1. LeftSpace(recv') = LeftSpace(recv) /\ ReadOp(recv') = ReadOp(recv)
    BY <1>4 DEF LeftSpace, ReadOp
  <2>2. \A c : Received(c) => Received(c)'
    BY <1>1, <1>4, <1>10, <2>1 DEF Received
  <2> QED BY <1>1, <1>3, <1>9, <1>10, <2>1, <2>2 DEF Inv, RecvInv
<1>14. Holds(send, accepted)'
  BY <1>1 DEF Inv
<1> QED BY <1>11, <1>12, <1>13, <1>14 DEF Inv

LEMMA DeleteLaterStep ==
  ASSUME Inv, DeleteLater PROVE Inv'
<1> DEFINE c == Completion("delete", TRUE, 0)
<1>1. /\ deleting' = TRUE /\ ready' = Append(ready, c)
      /\ UNCHANGED <<stopped, closeCalled, alive, send, recv, sock, rd, wr,
                     phase, opens, asked, accepted, got, errors, goneUse, wire,
                     acked, inbound>>
  BY DEF DeleteLater, ioVars, logVars
<1>2. /\ c \in Completions /\ c.op \notin Watch /\ c.op \notin {"write"}
      /\ c.op \notin Watch \cup {"write"}
  BY DEF Completion, Completions, OpNames, Watch
<1> HIDE DEF c
<1>3. TypeOK /\ ready \in Seq(Completions)
  BY DEF Inv, TypeOK, Completions
<1>4. /\ ready' \in Seq(Completions)
      /\ Items(ready') \subseteq Items(ready) \cup {c}
      /\ \A ops : c.op \notin ops =>
           /\ None(ready, ops) => None(ready', ops)
           /\ One(ready, ops) => One(ready', ops)
  BY <1>1, <1>2, <1>3, AppendCompletion
<1>5. TypeOK'
  BY <1>1, <1>3, <1>4 DEF TypeOK, Completions
<1>6. Untouched' /\ Shut' /\ Reported'
  <2>1. Committed' = Committed
    BY <1>1 DEF Committed
  <2> QED BY <1>1, <1>2, <1>4, <2>1
          DEF Inv, Untouched, Shut, Reported, ErrorOnce
<1>7. OneWatch' /\ NoStalledWrite'
  BY <1>1, <1>2, <1>4 DEF Inv, OneWatch, NoStalledWrite
<1>8. RecvInv'
  BY <1>1, <1>2, <1>3, <1>4, RecvFrame DEF Inv
<1>9. Holds(send, accepted)'
  BY <1>1 DEF Inv
<1> QED BY <1>5, <1>6, <1>7, <1>8, <1>9 DEF Inv

-----------------------------------------------------------------------------
\* The kernel and the peer.

LEMMA ConnectDoneStep ==
  ASSUME Inv, NEW ok \in BOOLEAN, ConnectDone(ok) PROVE Inv'
<1> DEFINE c == Completion("open", ok, 0)
<1>1. /\ sock = "connecting" /\ sock' \in {"connected", "failed"}
      /\ ready' = Append(ready, c)
      /\ UNCHANGED <<stopped, closeCalled, alive, send, recv, rd, wr, phase,
                     deleting, opens, asked, accepted, got, errors, goneUse,
                     wire, acked, inbound>>
  BY DEF ConnectDone, ioVars, userVars, logVars
<1>2. c \in Completions /\ c.op \in Watch /\ c.op \notin {"write"} /\ c.n = 0
  BY DEF Completion, Completions, OpNames, Watch
<1> HIDE DEF c
<1>3. /\ TypeOK /\ ready \in Seq(Completions) /\ ~stopped /\ opens # 0
      /\ ~closeCalled /\ rd = <<>> /\ None(ready, Watch)
  BY <1>1 DEF Inv, TypeOK, Completions, Shut, Untouched, OneWatch
<1>4. /\ ready' \in Seq(Completions)
      /\ Items(ready') \subseteq Items(ready) \cup {c}
      /\ One(ready', Watch)
      /\ None(ready, {"write"}) => None(ready', {"write"})
      /\ One(ready, {"write"}) => One(ready', {"write"})
  BY <1>1, <1>2, <1>3, AppendCompletion
<1>5. TypeOK'
  BY <1>1, <1>3, <1>4 DEF TypeOK, Completions
<1>6. Untouched' /\ Shut' /\ Reported'
  BY <1>1, <1>3 DEF Inv, Untouched, Shut, Reported, ErrorOnce
<1>7. OneWatch' /\ NoStalledWrite'
  BY <1>1, <1>3, <1>4 DEF Inv, OneWatch, NoStalledWrite
<1>8. RecvInv'
  BY <1>1, <1>2, <1>3, <1>4, RecvFrame DEF Inv
<1>9. Holds(send, accepted)'
  BY <1>1 DEF Inv
<1> QED BY <1>5, <1>6, <1>7, <1>8, <1>9 DEF Inv

LEMMA PeerSendsStep ==
  ASSUME Inv, NEW n \in 1..MaxIn, PeerSends(n) PROVE Inv'
<1> DEFINE c == Completion("read", TRUE, n)
<1>1. /\ sock = "connected" /\ rd # <<>> /\ n <= Head(rd).len
      /\ recv' = IF Head(rd).cap = recv.cap
                 THEN Store(recv, Head(rd).at, [i \in 1..n |-> inbound + i])
                 ELSE recv
      /\ inbound' = inbound + n /\ rd' = Tail(rd) /\ ready' = Append(ready, c)
      /\ UNCHANGED <<stopped, closeCalled, alive, send, sock, wr, phase,
                     deleting, opens, asked, accepted, got, errors, goneUse,
                     wire, acked>>
  BY DEF PeerSends, userVars
<1>2. /\ n \in Nat /\ c \in Completions /\ c.op \in Watch
      /\ c.op \notin {"write"} /\ c.n = n /\ c.op = "read"
  BY StreamAssumption DEF Completion, Completions, OpNames, Watch
<1> HIDE DEF c
<1>3. /\ TypeOK /\ BufferOK(recv) /\ ready \in Seq(Completions)
      /\ rd \in Seq(Reads) /\ inbound \in Nat /\ ~stopped /\ opens # 0
      /\ ~closeCalled
  BY <1>1 DEF Inv, TypeOK, Completions, Reads, Shut, Untouched
<1>4. /\ Len(rd) = 1 /\ None(ready, Watch) /\ Head(rd) = ReadOp(recv)
      /\ inbound = Committed /\ Holds(recv, Committed)
  BY <1>1, <1>3 DEF Inv, OneWatch, RecvInv
<1>5. /\ recv' = Store(recv, recv.widx, [i \in 1..n |-> inbound + i])
      /\ n <= LeftSpace(recv) /\ rd' = <<>>
  <2>1. rd' = <<>>
    BY <1>1, <1>3, <1>4, SMTT(30)
  <2> QED BY <1>1, <1>4, <2>1 DEF ReadOp
<1>6. /\ BufferOK(recv') /\ Holds(recv', Committed)
      /\ recv'.cap = recv.cap /\ recv'.ridx = recv.ridx
      /\ recv'.widx = recv.widx
      /\ \A k \in 1..n : recv'.mem[recv'.widx + k - 1] = inbound + k
  <2> DEFINE data == [i \in 1..n |-> inbound + i]
             t    == Store(recv, recv.widx, data)
  <2>1. data \in Seq(Nat) /\ Len(data) = n /\ \A k \in 1..n : data[k] = inbound + k
    BY <1>2, <1>3
  <2>2. recv' = t
    BY <1>5
  <2> HIDE DEF data
  <2>3. Committed \in Nat /\ Len(data) <= LeftSpace(recv)
    BY <1>3, <1>4, <1>5, <2>1
  <2>4. /\ BufferOK(t) /\ Holds(t, Committed)
        /\ t.cap = recv.cap /\ t.ridx = recv.ridx /\ t.widx = recv.widx
        /\ \A k \in 1..Len(data) : t.mem[t.widx + k - 1] = data[k]
    BY <1>3, <1>4, <2>1, <2>3, StoreLemma
  <2> HIDE DEF t
  <2> QED BY <2>1, <2>2, <2>4
<1>7. Committed' = Committed /\ LeftSpace(recv') = LeftSpace(recv)
  BY <1>1, <1>6 DEF Committed, Unread, LeftSpace
<1>8. /\ ready' \in Seq(Completions)
      /\ Items(ready') \subseteq Items(ready) \cup {c}
      /\ One(ready', Watch)
      /\ None(ready, {"write"}) => None(ready', {"write"})
      /\ One(ready, {"write"}) => One(ready', {"write"})
  BY <1>1, <1>2, <1>3, <1>4, AppendCompletion
<1>9. TypeOK'
  <2>1. inbound' \in Nat
    BY <1>1, <1>2, <1>3
  <2>2. rd' \in Seq(Reads)
    BY <1>5
  <2> QED BY <1>1, <1>3, <1>6, <1>8, <2>1, <2>2 DEF TypeOK, Completions, Reads
<1>10. Untouched' /\ Shut' /\ Reported'
  BY <1>1, <1>3 DEF Inv, Untouched, Shut, Reported, ErrorOnce
<1>11. OneWatch' /\ NoStalledWrite'
  BY <1>1, <1>3, <1>5, <1>8 DEF Inv, OneWatch, NoStalledWrite
<1>12. RecvInv'
  <2>1. Received(c)'
    BY <1>1, <1>2, <1>4, <1>5, <1>6, <1>7 DEF Received
  <2>2. \A d \in Items(ready') : d.op \in Watch => d = c
    BY <1>4, <1>8 DEF None, Items
  <2> QED BY <1>1, <1>5, <1>6, <1>7, <2>1, <2>2 DEF Inv, RecvInv
<1>13. Holds(send, accepted)'
  BY <1>1 DEF Inv
<1> QED BY <1>9, <1>10, <1>11, <1>12, <1>13 DEF Inv

LEMMA ReadFailsStep ==
  ASSUME Inv, ReadFails PROVE Inv'
<1> DEFINE c == Failed("read")
<1>1. /\ rd # <<>> /\ rd' = Tail(rd) /\ ready' = Append(ready, c)
      /\ UNCHANGED <<stopped, closeCalled, alive, send, recv, sock, wr, phase,
                     deleting, opens, asked, accepted, got, errors, goneUse,
                     wire, acked, inbound>>
  BY DEF ReadFails, ioVars, userVars, logVars
<1>2. c \in Completions /\ c.op \in Watch /\ c.op \notin {"write"} /\ c.n = 0
  BY FailedType DEF OpNames, Watch
<1> HIDE DEF c
<1>3. /\ TypeOK /\ ready \in Seq(Completions) /\ rd \in Seq(Reads)
      /\ sock # "closed" /\ ~stopped /\ ~closeCalled /\ opens # 0
  BY <1>1 DEF Inv, TypeOK, Completions, Reads, Shut, Untouched
<1>4. Len(rd) = 1 /\ sock # "connecting" /\ None(ready, Watch)
  BY <1>1, <1>3 DEF Inv, OneWatch
<1>5. rd' = <<>>
  BY <1>1, <1>3, <1>4
<1>6. /\ ready' \in Seq(Completions)
      /\ Items(ready') \subseteq Items(ready) \cup {c}
      /\ One(ready', Watch)
      /\ None(ready, {"write"}) => None(ready', {"write"})
      /\ One(ready, {"write"}) => One(ready', {"write"})
  BY <1>1, <1>2, <1>3, <1>4, AppendCompletion
<1>7. TypeOK'
  BY <1>1, <1>3, <1>5, <1>6 DEF TypeOK, Completions
<1>8. Untouched' /\ Shut' /\ Reported'
  BY <1>1, <1>3 DEF Inv, Untouched, Shut, Reported, ErrorOnce
<1>9. OneWatch' /\ NoStalledWrite'
  BY <1>1, <1>3, <1>4, <1>5, <1>6 DEF Inv, OneWatch, NoStalledWrite
<1>10. RecvInv'
  BY <1>1, <1>2, <1>3, <1>5, <1>6, RecvFrame DEF Inv
<1>11. Holds(send, accepted)'
  BY <1>1 DEF Inv
<1> QED BY <1>7, <1>8, <1>9, <1>10, <1>11 DEF Inv

\* A write that ends, or goes on, with `wire` sent so far.
LEMMA WriteEndStep ==
  ASSUME Inv, wr # <<>>, sock # "closed", wire' \in Seq(Nat),
         UNCHANGED <<stopped, closeCalled, alive, send, recv, sock, rd, phase,
                     deleting, opens, asked, accepted, got, errors, goneUse,
                     acked, inbound>>,
         \/ \E c \in Completions : /\ c.op = "write"
                                   /\ ready' = Append(ready, c)
                                   /\ wr' = Tail(wr)
         \/ /\ ready' = ready
            /\ wr' \in Seq(Writes) /\ Len(wr') = Len(wr)
  PROVE  Inv'
<1>1. /\ TypeOK /\ ready \in Seq(Completions) /\ wr \in Seq(Writes)
      /\ ~stopped /\ ~closeCalled /\ opens # 0
  BY DEF Inv, TypeOK, Completions, Writes, Shut, Untouched
<1>2. Len(wr) = 1 /\ None(ready, {"write"}) /\ Unread(send) # 0
  BY <1>1 DEF Inv, NoStalledWrite
<1>3. /\ ready' \in Seq(Completions) /\ wr' \in Seq(Writes)
      /\ \A c \in Items(ready') : c.op \in Watch => c \in Items(ready)
      /\ None(ready, Watch) => None(ready', Watch)
      /\ One(ready, Watch) => One(ready', Watch)
      /\ \/ Len(wr') = 1 /\ None(ready', {"write"})
         \/ wr' = <<>> /\ One(ready', {"write"})
  <2>1. ASSUME NEW c \in Completions, c.op = "write",
               ready' = Append(ready, c), wr' = Tail(wr)
        PROVE  <1>3!:
    <3>1. wr' = <<>>
      BY <1>1, <1>2, <2>1, TailOfOne
    <3>2. c.op \notin Watch /\ c.op \in {"write"}
      BY <2>1 DEF Watch
    <3> QED BY <1>1, <1>2, <2>1, <3>1, <3>2, AppendCompletion
  <2>2. CASE ready' = ready /\ wr' \in Seq(Writes) /\ Len(wr') = Len(wr)
    BY <1>1, <1>2, <2>2
  <2> QED BY <2>1, <2>2
<1>4. TypeOK'
  BY <1>1, <1>3 DEF TypeOK, Completions, Writes
<1>5. Untouched' /\ Shut' /\ Reported'
  BY <1>1 DEF Inv, Untouched, Shut, Reported, ErrorOnce
<1>6. OneWatch' /\ NoStalledWrite'
  BY <1>2, <1>3 DEF Inv, OneWatch, NoStalledWrite
<1>7. RecvInv'
  BY <1>1, <1>3, RecvFrame DEF Inv
<1> QED BY <1>4, <1>5, <1>6, <1>7 DEF Inv

LEMMA TransmitStep ==
  ASSUME Inv, NEW k \in 1..MaxOut, Transmit(k) PROVE Inv'
<1> DEFINE w == Head(wr)
           bytes == IF w.cap = send.cap THEN BytesAt(send, w.at + w.sent, k)
                                        ELSE [i \in 1..k |-> Zero]
<1>1. /\ sock = "connected" /\ wr # <<>> /\ wire' = wire \o bytes
      /\ IF w.sent + k = w.len
         THEN wr' = Tail(wr) /\ ready' = Append(ready, Completion("write", TRUE, w.len))
         ELSE wr' = [wr EXCEPT ![1].sent = w.sent + k] /\ ready' = ready
      /\ UNCHANGED <<stopped, closeCalled, alive, send, recv, sock, rd, phase,
                     deleting, opens, asked, accepted, got, errors, goneUse,
                     acked, inbound>>
  BY DEF Transmit, ioVars, userVars
<1>2. /\ k \in Nat /\ wr \in Seq(Writes) /\ w \in Writes /\ BufferOK(send)
      /\ wire \in Seq(Nat) /\ 1 \in 1..Len(wr) /\ w = wr[1]
  <2>1. wr \in Seq(Writes) /\ BufferOK(send) /\ wire \in Seq(Nat)
    BY DEF Inv, TypeOK, Writes
  <2>2. w \in Writes /\ 1 \in 1..Len(wr) /\ w = wr[1]
    BY <1>1, <2>1
  <2>3. k \in Nat
    BY StreamAssumption
  <2> QED BY <2>1, <2>2, <2>3
<1>3. w.at + w.sent \in Nat /\ w.sent + k \in Nat /\ w.len \in Nat
  BY <1>2, SMTT(30) DEF Writes
<1>4. bytes \in Seq(Nat)
  <2>1. [i \in 1..k |-> Zero] \in Seq(Nat)
    BY <1>2 DEF Zero
  <2> QED BY <1>2, <1>3, <2>1, BytesType
<1> HIDE DEF bytes
<1>5. wire' \in Seq(Nat)
  BY <1>1, <1>2, <1>4
<1>6. CASE w.sent + k = w.len
  <2>1. /\ Completion("write", TRUE, w.len) \in Completions
        /\ Completion("write", TRUE, w.len).op = "write"
    BY <1>3, CompletionType DEF OpNames
  <2> QED BY <1>1, <1>5, <1>6, <2>1, WriteEndStep
<1>7. CASE w.sent + k # w.len
  <2> DEFINE r == [w EXCEPT !.sent = w.sent + k]
  <2>2. r \in Writes
    BY <1>2, <1>3 DEF Writes
  <2>3. wr' = [wr EXCEPT ![1] = r]
    BY <1>1, <1>2, <1>7
  <2> HIDE DEF r, w
  <2>1. wr' \in Seq(Writes) /\ Len(wr') = Len(wr)
    BY <1>2, <2>2, <2>3
  <2> QED BY <1>1, <1>5, <1>7, <2>1, WriteEndStep
<1> QED BY <1>6, <1>7

LEMMA WriteFailsStep ==
  ASSUME Inv, WriteFails PROVE Inv'
<1>1. /\ sock \in {"connected", "failed"} /\ wr # <<>> /\ wr' = Tail(wr)
      /\ ready' = Append(ready, Failed("write"))
      /\ UNCHANGED <<stopped, closeCalled, alive, send, recv, sock, rd, phase,
                     deleting, opens, asked, accepted, got, errors, goneUse,
                     wire, acked, inbound>>
  BY DEF WriteFails, ioVars, userVars, logVars
<1>2. Failed("write") \in Completions /\ Failed("write").op = "write"
  BY FailedType DEF OpNames
<1>3. wire' \in Seq(Nat)
  BY <1>1 DEF Inv, TypeOK
<1> QED BY <1>1, <1>2, <1>3, WriteEndStep

-----------------------------------------------------------------------------
\* The handlers.

\* The completion a handler takes from the queue.
LEMMA RunningLemma ==
  ASSUME Inv, NEW op \in OpNames, Running(op), NEW ops
  PROVE  /\ ready \in Seq(Completions) /\ Rest \in Seq(Completions)
         /\ Head(ready) \in Completions /\ Head(ready) \in Items(ready)
         /\ Head(ready).op = op
         /\ Items(Rest) \subseteq Items(ready)
         /\ None(ready, ops) => op \notin ops /\ None(Rest, ops)
         /\ One(ready, ops) /\ op \notin ops => One(Rest, ops)
         /\ One(ready, ops) /\ op \in ops => None(Rest, ops)
<1>1. ready \in Seq(Completions) /\ ready # <<>> /\ Head(ready).op = op
  BY DEF Inv, TypeOK, Completions, Running
<1> QED BY <1>1, TailCompletions DEF Rest

LEMMA DroppedStep ==
  ASSUME Inv, NEW op \in {"open", "read", "write"}, Dropped(op) PROVE Inv'
<1>1. /\ Running(op) /\ stopped /\ ready' = Rest
      /\ UNCHANGED <<stopped, closeCalled, alive, send, recv, sock, rd, wr,
                     phase, deleting, opens, asked, accepted, got, errors,
                     goneUse, wire, acked, inbound>>
  BY DEF Dropped, ioVars, userVars, logVars
<1>2. /\ ready' \in Seq(Completions)
      /\ \A ops : None(ready, ops) => None(ready', ops)
  BY <1>1, RunningLemma DEF OpNames
<1>3. TypeOK'
  BY <1>1, <1>2 DEF Inv, TypeOK, Completions
<1>4. Untouched' /\ Shut' /\ Reported'
  <2>1. Committed' = Committed
    BY <1>1 DEF Committed
  <2> QED BY <1>1, <1>2, <2>1
          DEF Inv, Untouched, Shut, Reported, ErrorOnce
<1>5. OneWatch' /\ NoStalledWrite'
  BY <1>1 DEF OneWatch, NoStalledWrite
<1>6. RecvInv'
  BY <1>1, RecvFrame DEF Inv
<1>7. Holds(send, accepted)'
  BY <1>1 DEF Inv
<1> QED BY <1>3, <1>4, <1>5, <1>6, <1>7 DEF Inv

\* The read that follows a connect or a read: b is the buffer with what the
\* completion brought.
LEMMA WatchStep ==
  ASSUME Inv, NEW op \in Watch, Running(op), ~stopped,
         NEW b, BufferOK(b), Holds(b, inbound),
         Unread(b) = inbound - Len(got),
         StartRead(b, Rest),
         goneUse' \in BOOLEAN,
         UNCHANGED <<stopped, closeCalled, alive, send, sock, wr, phase,
                     deleting, opens, asked, accepted, got, errors, wire,
                     acked, inbound>>
  PROVE  Inv'
<1>1. /\ TypeOK /\ ready \in Seq(Completions) /\ inbound \in Nat
      /\ opens # 0 /\ Len(got) \in Nat
  BY DEF Inv, TypeOK, Completions, Untouched
<1>2. /\ Rest \in Seq(Completions) /\ op \in OpNames /\ op \notin {"write"}
      /\ ~None(ready, Watch)
      /\ One(ready, Watch) => None(Rest, Watch)
      /\ None(ready, {"write"}) => None(Rest, {"write"})
      /\ One(ready, {"write"}) => One(Rest, {"write"})
  <2>1. op \in OpNames /\ op \notin {"write"}
    BY DEF Watch, OpNames
  <2> QED BY <2>1, RunningLemma
<1>3. rd = <<>> /\ sock # "connecting" /\ None(Rest, Watch)
  BY <1>2 DEF Inv, OneWatch
<1>4. /\ BufferOK(recv') /\ Holds(recv', inbound) /\ Unread(recv') = Unread(b)
      /\ rd' \in Seq(Reads) /\ ready' \in Seq(Completions)
      /\ Items(ready') \subseteq Items(Rest) \cup {Failed("read")}
      /\ None(Rest, {"write"}) => None(ready', {"write"})
      /\ One(Rest, {"write"}) => One(ready', {"write"})
      /\ IF IsOpen
         THEN /\ Len(rd') = 1 /\ Head(rd') = ReadOp(recv')
              /\ None(ready', Watch) /\ ready' = Rest
         ELSE rd' = <<>> /\ One(ready', Watch)
  BY <1>1, <1>2, <1>3, StartReadLemma
<1>5. TypeOK'
  BY <1>1, <1>4 DEF TypeOK, Completions, Reads
<1>6. Untouched' /\ Shut' /\ Reported'
  BY <1>1, <1>4 DEF Inv, Untouched, Shut, Reported, ErrorOnce, IsOpen
<1>7. OneWatch' /\ NoStalledWrite'
  <2>1. OneWatch'
    BY <1>3, <1>4 DEF OneWatch
  <2> QED BY <1>2, <1>4, <2>1 DEF Inv, NoStalledWrite
<1>8. Committed' = inbound
  BY <1>1, <1>4 DEF Committed
<1>9. ASSUME NEW c \in Items(ready'), c.op \in Watch
      PROVE  Received(c)'
  <2>1. c = Failed("read")
    BY <1>3, <1>4, <1>9 DEF None, Items
  <2>2. c.n = 0 /\ c.op = "read"
    BY <2>1, FailedType DEF OpNames
  <2>3. LeftSpace(recv') \in Nat /\ 1..c.n = {}
    BY <1>4, <2>2 DEF BufferOK, LeftSpace
  <2> QED BY <1>1, <1>8, <2>2, <2>3 DEF Received
<1>10. RecvInv'
  BY <1>3, <1>4, <1>8, <1>9 DEF Inv, RecvInv
<1>11. Holds(send, accepted)'
  BY DEF Inv
<1> QED BY <1>5, <1>6, <1>7, <1>10, <1>11 DEF Inv

LEMMA OpenOkStep ==
  ASSUME Inv, OpenOk PROVE Inv'
<1>1. /\ Running("open") /\ ~stopped /\ StartRead(recv, Rest)
      /\ UNCHANGED <<stopped, closeCalled, alive, send, sock, wr, phase,
                     deleting, opens, asked, accepted, got, errors, goneUse,
                     wire, acked, inbound>>
  BY DEF OpenOk, userVars, logVars
<1>2. /\ BufferOK(recv) /\ goneUse' \in BOOLEAN /\ Committed \in Nat
      /\ Unread(recv) \in Nat /\ Len(got) \in Nat
  BY <1>1, TypeFacts DEF Inv, TypeOK
<1>3. Received(Head(ready)) /\ Head(ready).op = "open" /\ Holds(recv, Committed)
  BY <1>1, RunningLemma DEF Inv, RecvInv, OpNames, Watch
<1>4. inbound = Committed /\ Unread(recv) = inbound - Len(got)
  BY <1>2, <1>3 DEF Received, Committed
<1> QED BY <1>1, <1>2, <1>3, <1>4, WatchStep DEF Watch

LEMMA ReadOkStep ==
  ASSUME Inv, ReadOk PROVE Inv'
<1> DEFINE n == Head(ready).n
           b == CommitWrite(recv, n)
<1>1. /\ Running("read") /\ ~stopped /\ StartRead(b, Rest)
      /\ goneUse' = (goneUse \/ ~alive)
      /\ UNCHANGED <<stopped, closeCalled, alive, send, sock, wr, phase,
                     deleting, opens, asked, accepted, got, errors, wire,
                     acked, inbound>>
  BY DEF ReadOk, userVars
<1>2. /\ BufferOK(recv) /\ goneUse' \in BOOLEAN /\ Committed \in Nat
      /\ Unread(recv) \in Nat /\ Len(got) \in Nat
      /\ Committed = Len(got) + Unread(recv)
  BY <1>1, TypeFacts DEF Inv, TypeOK, Committed
<1>3. /\ Received(Head(ready)) /\ Head(ready) \in Completions
      /\ Holds(recv, Committed)
  BY <1>1, RunningLemma DEF Inv, RecvInv, OpNames, Watch
<1>4. /\ n \in Nat /\ n <= LeftSpace(recv) /\ inbound = Committed + n
      /\ \A k \in 1..n : recv.mem[recv.widx + k - 1] = Committed + k
  BY <1>3 DEF Received, Completions
<1>5. /\ BufferOK(b) /\ Holds(b, Committed + n)
      /\ Unread(b) = Unread(recv) + n
  BY <1>2, <1>3, <1>4, CommitWriteLemma
<1> HIDE DEF b, n
<1>6. Holds(b, inbound) /\ Unread(b) = inbound - Len(got)
  BY <1>2, <1>4, <1>5
<1> QED BY <1>1, <1>2, <1>5, <1>6, WatchStep DEF Watch

LEMMA WriteOkStep ==
  ASSUME Inv, WriteOk PROVE Inv'
<1> DEFINE n == Head(ready).n
           b == ZeroCopyRead(send, n)
<1>1. /\ Running("write") /\ ~stopped /\ StartWrite(b, Rest)
      /\ goneUse' = (goneUse \/ ~alive) /\ acked' = acked + n
      /\ UNCHANGED <<stopped, closeCalled, alive, recv, sock, rd, phase,
                     deleting, opens, asked, accepted, got, errors, wire,
                     inbound>>
  BY DEF WriteOk, userVars
<1>2. /\ TypeOK /\ BufferOK(send) /\ accepted \in Nat /\ Holds(send, accepted)
      /\ opens # 0 /\ Unread(send) \in Nat /\ acked \in Nat
      /\ goneUse' \in BOOLEAN
  BY <1>1, TypeFacts DEF Inv, TypeOK, Untouched
<1>3. /\ Rest \in Seq(Completions) /\ n \in Nat
      /\ Items(Rest) \subseteq Items(ready)
      /\ ~None(ready, {"write"})
      /\ One(ready, {"write"}) => None(Rest, {"write"})
      /\ None(ready, Watch) => None(Rest, Watch)
      /\ One(ready, Watch) => One(Rest, Watch)
  <2>1. "write" \in OpNames /\ "write" \notin Watch
    BY DEF Watch, OpNames
  <2>2. Head(ready) \in Completions
    BY <1>1, <2>1, RunningLemma
  <2>3. n \in Nat
    BY <2>2 DEF Completions
  <2> QED BY <1>1, <2>1, <2>3, RunningLemma
<1>4. wr = <<>> /\ None(Rest, {"write"})
  BY <1>1, <1>3 DEF Inv, NoStalledWrite
<1>5. BufferOK(b) /\ Holds(b, accepted)
  <2>1. Clamped(send, n) \in Nat /\ Clamped(send, n) <= Unread(send)
    BY <1>2, <1>3 DEF Clamped
  <2> QED BY <1>2, <2>1, ReadLemma DEF ZeroCopyRead
<1> HIDE DEF b, n
<1>6. /\ send' = b
      /\ wr' \in Seq(Writes) /\ ready' \in Seq(Completions)
      /\ ~IsOpen => wr' = <<>>
      /\ Items(ready') \subseteq Items(Rest) \cup {Failed("write")}
      /\ None(Rest, Watch) => None(ready', Watch)
      /\ One(Rest, Watch) => One(ready', Watch)
      /\ IF Unread(b) = 0
         THEN wr' = <<>> /\ None(ready', {"write"})
         ELSE \/ Len(wr') = 1 /\ None(ready', {"write"})
              \/ wr' = <<>> /\ One(ready', {"write"})
  BY <1>1, <1>3, <1>4, <1>5, StartWriteLemma
<1>7. TypeOK'
  <2>1. acked' \in Nat
    BY <1>1, <1>2, <1>3
  <2> QED BY <1>1, <1>2, <1>5, <1>6, <2>1 DEF TypeOK, Completions, Writes
<1>8. Untouched' /\ Shut' /\ Reported'
  BY <1>1, <1>2, <1>6 DEF Inv, Untouched, Shut, Reported, ErrorOnce, IsOpen
<1>9. OneWatch' /\ NoStalledWrite'
  <2>1. OneWatch'
    BY <1>1, <1>3, <1>6 DEF Inv, OneWatch
  <2>2. NoStalledWrite'
    BY <1>1, <1>6 DEF NoStalledWrite
  <2> QED BY <2>1, <2>2
<1>10. RecvInv'
  <2>1. Failed("write").op \notin Watch
    BY FailedType DEF OpNames, Watch
  <2>2. \A c \in Items(ready') : c.op \in Watch => c \in Items(ready)
    BY <1>3, <1>6, <2>1
  <2> QED BY <1>1, <1>2, <2>2, RecvFrame DEF Inv
<1>11. Holds(send, accepted)'
  BY <1>1, <1>5, <1>6
<1> QED BY <1>7, <1>8, <1>9, <1>10, <1>11 DEF Inv

\* A handler that stops the stream, whatever it reports.
LEMMA StopStep ==
  ASSUME Inv, NEW op \in OpNames, Running(op), ~stopped, Stop(Rest),
         phase' \in {"idle", "openFailed"}, errors' \in {0, 1},
         phase' = "openFailed" => errors' = 0,
         UNCHANGED <<alive, send, recv, deleting, opens, asked, accepted, got,
                     goneUse, wire, acked, inbound>>
  PROVE  Inv'
<1>1. /\ TypeOK /\ Shut /\ Rest \in Seq(Completions) /\ opens # 0
  BY RunningLemma DEF Inv, Untouched
<1>2. /\ stopped' = TRUE /\ closeCalled' = TRUE /\ sock' = "closed"
      /\ rd' = <<>> /\ wr' = <<>> /\ ready' = Rest \o Aborted
  BY <1>1, CloseLemma DEF Stop
<1>3. ready' \in Seq(Completions)
  BY <1>1, <1>2, AbortedLemma, ConcatCompletions
<1>4. TypeOK'
  BY <1>1, <1>2, <1>3 DEF TypeOK, Completions
<1>5. Untouched' /\ Shut' /\ Reported'
  BY <1>1, <1>2 DEF Untouched, Shut, Reported, ErrorOnce
<1>6. OneWatch' /\ NoStalledWrite'
  BY <1>2 DEF OneWatch, NoStalledWrite
<1>7. RecvInv'
  BY <1>1, <1>2, RecvFrame DEF Inv
<1>8. Holds(send, accepted)'
  BY DEF Inv
<1> QED BY <1>4, <1>5, <1>6, <1>7, <1>8 DEF Inv

LEMMA OpenFailsStep ==
  ASSUME Inv, OpenFails PROVE Inv'
<1>1. /\ Running("open") /\ ~stopped /\ Stop(Rest)
      /\ phase' = (IF alive THEN "openFailed" ELSE "idle")
      /\ UNCHANGED <<alive, send, recv, deleting, opens, asked, accepted, got,
                     errors, goneUse, wire, acked, inbound>>
  BY DEF OpenFails, userVars, logVars
<1>2. errors = 0
  BY <1>1 DEF Inv, Reported, ErrorOnce, TypeOK
<1> QED BY <1>1, <1>2, StopStep DEF OpNames

LEMMA TransferFailsStep ==
  ASSUME Inv, NEW op \in {"read", "write"}, TransferFails(op) PROVE Inv'
<1>1. /\ Running(op) /\ ~stopped /\ Stop(Rest)
      /\ errors' = errors + (IF alive THEN 1 ELSE 0)
      /\ UNCHANGED <<alive, send, recv, phase, deleting, opens, asked,
                     accepted, got, goneUse, wire, acked, inbound>>
  BY DEF TransferFails, ReportError, userVars
<1>2. errors = 0 /\ phase = "idle"
  BY <1>1 DEF Inv, Reported, ErrorOnce, TypeOK, Running
<1>3. errors' \in {0, 1}
  BY <1>1, <1>2
<1> QED BY <1>1, <1>2, <1>3, StopStep DEF OpNames

LEMMA OpenFailsErrorStep ==
  ASSUME Inv, OpenFailsError PROVE Inv'
<1>1. /\ phase = "openFailed" /\ phase' = "idle"
      /\ errors' = errors + (IF alive THEN 1 ELSE 0)
      /\ UNCHANGED <<stopped, closeCalled, alive, send, recv, sock, rd, wr,
                     ready, deleting, opens, asked, accepted, got, goneUse,
                     wire, acked, inbound>>
  BY DEF OpenFailsError, ReportError, ioVars, asioVars, userVars
<1>2. TypeOK /\ stopped /\ errors = 0 /\ opens # 0
  BY <1>1 DEF Inv, Reported, Untouched
<1>3. errors' \in {0, 1}
  BY <1>1, <1>2
<1>4. TypeOK'
  BY <1>1, <1>2, <1>3 DEF TypeOK
<1>5. Untouched' /\ Shut' /\ Reported'
  BY <1>1, <1>2, <1>3 DEF Inv, Untouched, Shut, Reported, ErrorOnce
<1>6. OneWatch' /\ NoStalledWrite'
  BY <1>1, <1>2 DEF OneWatch, NoStalledWrite
<1>7. RecvInv'
  BY <1>1, <1>2, RecvFrame DEF Inv
<1>8. Holds(send, accepted)'
  BY <1>1 DEF Inv
<1> QED BY <1>4, <1>5, <1>6, <1>7, <1>8 DEF Inv

LEMMA DeleteStep ==
  ASSUME Inv, Delete PROVE Inv'
<1>1. /\ Running("delete") /\ alive' = FALSE /\ ready' = Rest
      /\ UNCHANGED <<stopped, closeCalled, send, recv, sock, rd, wr, phase,
                     deleting, opens, asked, accepted, got, errors, goneUse,
                     wire, acked, inbound>>
  BY DEF Delete, userVars, logVars
<1>2. /\ "delete" \in OpNames /\ "delete" \notin Watch
      /\ "delete" \notin {"write"} /\ "delete" \notin Watch \cup {"write"}
  BY DEF Watch, OpNames
<1>3. /\ TypeOK /\ ready' \in Seq(Completions)
      /\ Items(ready') \subseteq Items(ready)
      /\ \A ops : /\ None(ready, ops) => None(ready', ops)
                  /\ One(ready, ops) /\ "delete" \notin ops => One(ready', ops)
  BY <1>1, <1>2, RunningLemma DEF Inv
<1>4. TypeOK'
  BY <1>1, <1>3 DEF TypeOK, Completions
<1>5. Untouched' /\ Shut' /\ Reported'
  <2>1. Committed' = Committed
    BY <1>1 DEF Committed
  <2> QED BY <1>1, <1>3, <2>1
          DEF Inv, Untouched, Shut, Reported, ErrorOnce
<1>6. OneWatch' /\ NoStalledWrite'
  BY <1>1, <1>2, <1>3 DEF Inv, OneWatch, NoStalledWrite
<1>7. RecvInv'
  BY <1>1, <1>3, RecvFrame DEF Inv
<1>8. Holds(send, accepted)'
  BY <1>1 DEF Inv
<1> QED BY <1>4, <1>5, <1>6, <1>7, <1>8 DEF Inv

-----------------------------------------------------------------------------
\* The invariant holds at the start and every step keeps it.

LEMMA InitInv ==
  ASSUME Init PROVE Inv
<1>1. /\ closeCalled = FALSE /\ alive = TRUE /\ send = NewBuffer(InitCap)
      /\ wr = <<>> /\ ready = <<>> /\ phase = "idle" /\ deleting = FALSE
      /\ asked = FALSE /\ errors = 0 /\ goneUse = FALSE /\ accepted = 0
      /\ wire = <<>> /\ acked = 0 /\ inbound = 0 /\ got = <<>>
  BY DEF Init, InitClient, InitAccepted, Start
<1>2. /\ BufferOK(NewBuffer(InitCap)) /\ Holds(NewBuffer(InitCap), 0)
      /\ Unread(NewBuffer(InitCap)) = 0
  BY StreamAssumption, NewBufferLemma
<1>3. /\ BufferOK(recv) /\ Holds(recv, 0) /\ Unread(recv) = 0
  <2>1. CASE InitClient
    BY <1>2, <2>1 DEF InitClient
  <2>2. CASE InitAccepted
    BY <1>2, <2>2, GrownLemma DEF InitAccepted
  <2> QED BY <2>1, <2>2 DEF Init
<1>4. /\ opens \in Nat /\ sock \in {"closed", "connected"}
      /\ \/ stopped = TRUE /\ sock = "closed" /\ rd = <<>>
         \/ stopped = FALSE /\ sock = "connected" /\ opens = 1
            /\ rd = <<ReadOp(recv)>>
  <2>1. CASE InitClient
    BY <2>1 DEF InitClient
  <2>2. CASE InitAccepted
    BY <2>2 DEF InitAccepted
  <2> QED BY <2>1, <2>2 DEF Init
<1>5. ReadOp(recv) \in Reads
  BY <1>3 DEF ReadOp, Reads, BufferOK, LeftSpace
<1>6. rd \in Seq(Reads) /\ (~stopped => Len(rd) = 1 /\ Head(rd) = ReadOp(recv))
  <2> DEFINE r == ReadOp(recv)
  <2>1. r \in Reads
    BY <1>5
  <2> HIDE DEF r
  <2>2. \/ stopped = TRUE /\ rd = <<>>
        \/ stopped = FALSE /\ rd = <<r>>
    BY <1>4 DEF r
  <2>3. /\ <<>> \in Seq(Reads)
        /\ <<r>> \in Seq(Reads) /\ Len(<<r>>) = 1 /\ Head(<<r>>) = r
    BY <2>1
  <2>4. CASE stopped = TRUE /\ rd = <<>>
    BY <2>3, <2>4 DEF r
  <2>5. CASE stopped = FALSE /\ rd = <<r>>
    BY <2>3, <2>5 DEF r
  <2> QED BY <2>2, <2>4, <2>5
<1>7. /\ \A ops : None(ready, ops)
      /\ Items(ready) = {}
  BY <1>1 DEF None, Items
<1>8. TypeOK
  <2>1. ready \in Seq([op : OpNames, ok : BOOLEAN, n : Nat])
    BY <1>1
  <2>2. /\ wr \in Seq([at : Nat, len : Nat, sent : Nat, cap : Nat])
        /\ wire \in Seq(Nat) /\ got \in Seq(Nat)
    BY <1>1
  <2>3. BufferOK(send) /\ BufferOK(recv)
    BY <1>1, <1>2, <1>3
  <2>4. rd \in Seq([at : Nat, len : Nat, cap : Nat])
    BY <1>6 DEF Reads
  <2> QED BY <1>1, <1>4, <2>1, <2>2, <2>3, <2>4 DEF TypeOK
<1>9. Committed = 0 /\ InOrder(got)
  BY <1>1, <1>3 DEF Committed, InOrder
<1>10. Untouched /\ Shut /\ Reported
  BY <1>1, <1>2, <1>4, <1>7, <1>9 DEF Untouched, Shut, Reported, ErrorOnce
<1>11. OneWatch /\ NoStalledWrite
  BY <1>1, <1>2, <1>4, <1>6, <1>7 DEF OneWatch, NoStalledWrite
<1>12. RecvInv
  BY <1>1, <1>3, <1>6, <1>7, <1>9 DEF RecvInv
<1> QED BY <1>1, <1>2, <1>8, <1>10, <1>11, <1>12 DEF Inv

LEMMA StutterStep ==
  ASSUME Inv, UNCHANGED vars PROVE Inv'
<1>1. UNCHANGED <<stopped, closeCalled, alive, send, recv, sock, rd, wr, ready,
                  phase, deleting, opens, asked, accepted, got, errors,
                  goneUse, wire, acked, inbound>>
  BY DEF vars, ioVars, asioVars, userVars, logVars
<1>2. TypeOK' /\ Untouched' /\ Shut' /\ Reported'
  BY <1>1 DEF Inv, TypeOK, Untouched, Shut, Reported, ErrorOnce, Committed
<1>3. OneWatch' /\ NoStalledWrite'
  BY <1>1 DEF Inv, OneWatch, NoStalledWrite
<1>4. RecvInv'
  BY <1>1, RecvFrame DEF Inv
<1> QED BY <1>1, <1>2, <1>3, <1>4 DEF Inv

LEMMA NextStep ==
  ASSUME Inv, "noReuse" \in Rules, [Next]_vars PROVE Inv'
<1>1. CASE User
  BY <1>1, ConnectToHostStep, DisConnectStep, WriteDataStep, ReadDataStep,
     DeleteLaterStep DEF User
<1>2. CASE Kernel
  BY <1>2, ConnectDoneStep, PeerSendsStep, ReadFailsStep, TransmitStep,
     WriteFailsStep DEF Kernel
<1>3. CASE Loop
  BY <1>3, DroppedStep, OpenOkStep, OpenFailsStep, OpenFailsErrorStep,
     ReadOkStep, WriteOkStep, TransferFailsStep, DeleteStep DEF Loop
<1>4. CASE UNCHANGED vars
  BY <1>4, StutterStep
<1> QED BY <1>1, <1>2, <1>3, <1>4 DEF Next

\* The inductive invariant is an invariant of a stream connected once.
THEOREM Inductive ==
  ASSUME "noReuse" \in Rules PROVE Spec => []Inv
<1>1. Init => Inv
  BY InitInv
<1>2. Inv /\ [Next]_vars => Inv'
  BY NextStep
<1> QED BY <1>1, <1>2, PTL DEF Spec

-----------------------------------------------------------------------------
\* What follows for the user of a stream that is connected once.

\* The cursors of both buffers stay inside their vectors, whatever is
\* queued when a buffer is compacted, grown or read from.
THEOREM TypeSafety ==
  ASSUME "noReuse" \in Rules PROVE Spec => []TypeOK
<1>1. Inv => TypeOK
  BY DEF Inv
<1> QED BY <1>1, Inductive, PTL

\* Exactly one operation of a running stream watches the connection.
THEOREM WatchSafety ==
  ASSUME "noReuse" \in Rules PROVE Spec => []OneWatch
<1>1. Inv => OneWatch
  BY DEF Inv
<1> QED BY <1>1, Inductive, PTL

\* Data that waits in the send buffer has one write that comes back for it.
THEOREM WriteSafety ==
  ASSUME "noReuse" \in Rules PROVE Spec => []NoStalledWrite
<1>1. Inv => NoStalledWrite
  BY DEF Inv
<1> QED BY <1>1, Inductive, PTL

\* A connection reports at most one Error and is stopped when it did.
THEOREM ErrorSafety ==
  ASSUME "noReuse" \in Rules PROVE Spec => []ErrorOnce
<1>1. Inv => ErrorOnce
  BY DEF Inv, Reported
<1> QED BY <1>1, Inductive, PTL

\* What was read and what waits to be read is what the peer sent.
LEMMA RecvInOrder ==
  ASSUME TypeOK, RecvInv PROVE ReceivedInOrder
<1> DEFINE u    == Unread(recv)
           from == Committed - recv.widx + recv.ridx
           data == [k \in 1..u |-> from + k]
<1>1. /\ BufferOK(recv) /\ u \in Nat /\ got \in Seq(Nat) /\ InOrder(got)
      /\ Committed \in Nat /\ Holds(recv, Committed)
      /\ recv.ridx \in Nat /\ recv.widx \in Nat /\ recv.ridx + u <= recv.widx
      /\ Len(got) \in Nat /\ Committed = Len(got) + u
      /\ u = recv.widx - recv.ridx
  <2>1. /\ BufferOK(recv) /\ u \in Nat /\ got \in Seq(Nat) /\ InOrder(got)
        /\ Committed \in Nat /\ Holds(recv, Committed)
    BY TypeFacts DEF TypeOK, RecvInv
  <2>2. /\ recv.ridx \in Nat /\ recv.widx \in Nat
        /\ u = recv.widx - recv.ridx
    BY <2>1 DEF BufferOK, Unread
  <2>3. Len(got) \in Nat /\ Committed = Len(got) + u
    BY <2>1 DEF Committed
  <2> QED BY <2>1, <2>2, <2>3
<1>2. BytesAt(recv, recv.ridx, u) = data
  BY <1>1, BytesAtLemma
<1>3. from = Len(got)
  BY <1>1
<1>4. data \in Seq(Nat) /\ Len(data) = u /\ \A k \in 1..u : data[k] = Len(got) + k
  <2>1. u \in Nat /\ from \in Nat /\ from = Len(got)
    BY <1>1, <1>3
  <2> HIDE DEF u, from
  <2> QED BY <2>1
<1> HIDE DEF data, from, u
<1>5. /\ Len(got \o data) = Len(got) + u
      /\ \A k \in 1..Len(got \o data) :
           (got \o data)[k] = IF k <= Len(got) THEN got[k]
                                               ELSE data[k - Len(got)]
  BY <1>1, <1>4, ConcatBytes
<1>6. ASSUME NEW k \in 1..Len(got \o data) PROVE (got \o data)[k] = k
  <2>1. CASE k <= Len(got)
    <3>1. k \in 1..Len(got)
      BY <1>1, <1>5, <2>1
    <3> QED BY <1>1, <1>5, <2>1, <3>1 DEF InOrder
  <2>2. CASE ~(k <= Len(got))
    <3>1. k - Len(got) \in 1..u
      BY <1>1, <1>5, <2>2
    <3>2. data[k - Len(got)] = Len(got) + (k - Len(got))
      BY <1>4, <3>1
    <3> QED BY <1>1, <1>5, <2>2, <3>2
  <2> QED BY <2>1, <2>2
<1>7. InOrder(got \o data)
  BY <1>6 DEF InOrder
<1> QED BY <1>2, <1>7 DEF ReceivedInOrder, u

\* Reads that run while the receive buffer is compacted, grown or read from
\* lose and overwrite nothing of what the peer sent.
THEOREM ReceiveSafety ==
  ASSUME "noReuse" \in Rules PROVE Spec => []ReceivedInOrder
<1>1. Inv => ReceivedInOrder
  BY RecvInOrder DEF Inv
<1> QED BY <1>1, Inductive, PTL

\* Once the Error of a connection is reported nothing else of it is.
THEOREM Silence ==
  ASSUME "noReuse" \in Rules PROVE Spec => SilentAfterError
<1> DEFINE Silent == errors = 1 /\ opens' = opens =>
                       errors' = 1 /\ acked' = acked /\ recv'.widx = recv.widx
<1>1. ASSUME Inv, [Next]_vars PROVE [Silent]_vars
  <2> SUFFICES ASSUME errors = 1, opens' = opens, Next
               PROVE  errors' = 1 /\ acked' = acked /\ recv'.widx = recv.widx
    BY <1>1
  <2>1. /\ stopped /\ sock = "closed" /\ rd = <<>> /\ wr = <<>>
        /\ phase = "idle" /\ opens \in Nat /\ BufferOK(recv)
    BY <1>1 DEF Inv, Reported, ErrorOnce, Shut, TypeOK
  <2>2. CASE ConnectToHost
    BY <2>1, <2>2 DEF ConnectToHost
  <2>3. CASE DisConnectFromHost
    BY <2>3 DEF DisConnectFromHost, logVars
  <2>4. ASSUME NEW n \in {1, Unread(recv)} \ {0}, ReadData(n)
        PROVE  errors' = 1 /\ acked' = acked /\ recv'.widx = recv.widx
    BY <2>1, <2>4 DEF ReadData, logVars, HasReaded, BufferOK
  <2>5. CASE DeleteLater
    BY <2>5 DEF DeleteLater, ioVars, logVars
  <2>6. CASE \E n \in 1..MaxOut : WriteData(n)
    BY <2>1, <2>6 DEF WriteData
  <2>7. CASE User
    BY <2>2, <2>3, <2>4, <2>5, <2>6, <2>7 DEF User
  <2>8. CASE Kernel
    BY <2>1, <2>8 DEF Kernel, ConnectDone, PeerSends, ReadFails, Transmit,
                      WriteFails
  <2>9. CASE Loop
    <3>1. CASE \E op \in {"open", "read", "write"} : Dropped(op)
      BY <3>1 DEF Dropped, ioVars, logVars
    <3>2. CASE Delete
      BY <3>2 DEF Delete, logVars
    <3> QED BY <2>1, <2>9, <3>1, <3>2
            DEF Loop, OpenOk, OpenFails, OpenFailsError, ReadOk, WriteOk,
                TransferFails
  <2> QED BY <2>7, <2>8, <2>9 DEF Next
<1>2. Inv /\ [Next]_vars => [Silent]_vars
  BY <1>1
<1> QED BY <1>2, Inductive, PTL DEF Spec, SilentAfterError

-----------------------------------------------------------------------------
\* The bytes that are sent.

\* A write that completed had sent all that waits in the send buffer.
Sent(c) == c.op = "write" /\ c.ok => c.n = Unread(send) /\ Len(wire) = accepted

\* What waits in the send buffer is what was not acknowledged, and the
\* pending write has sent as much of it as the peer has beyond that.
SentInv ==
  /\ SentInOrder
  /\ opens = 0 => accepted = acked /\ Len(wire) = acked
  /\ ~stopped =>
       /\ Unread(send) = accepted - acked
       /\ Unread(send) = 0 => Len(wire) = acked
       /\ wr # <<>> => Head(wr) = [WriteOp(send) EXCEPT !.sent = Len(wire) - acked]
       /\ \A c \in Items(ready) : Sent(c)

\* A step that sends and acknowledges nothing, and completes no write but by
\* a failure.
LEMMA SentFrame ==
  ASSUME SentInv, UNCHANGED <<send, wire, accepted, acked>>,
         opens' = 0 => opens = 0,
         ~stopped' =>
           /\ ~stopped
           /\ wr' = wr \/ wr' = <<>>
           /\ \A c \in Items(ready') : c \in Items(ready) \/ c.op # "write" \/ ~c.ok
  PROVE  SentInv'
<1>1. SentInOrder' /\ (opens' = 0 => accepted' = acked' /\ Len(wire') = acked')
  BY DEF SentInv, SentInOrder, InOrder
<1>2. ASSUME ~stopped'
      PROVE  /\ Unread(send') = accepted' - acked'
             /\ Unread(send') = 0 => Len(wire') = acked'
             /\ wr' # <<>> =>
                  Head(wr') = [WriteOp(send') EXCEPT !.sent = Len(wire') - acked']
  BY <1>2 DEF SentInv
<1>3. ASSUME ~stopped', NEW c \in Items(ready') PROVE Sent(c)'
  BY <1>3 DEF SentInv, Sent
<1> QED BY <1>1, <1>2, <1>3 DEF SentInv

LEMMA SentConnect ==
  ASSUME Inv, SentInv, "noReuse" \in Rules, ConnectToHost PROVE SentInv'
<1>1. /\ opens = 0 /\ sock = "closed" /\ opens' = opens + 1 /\ stopped' = FALSE
      /\ UNCHANGED <<send, wr, ready, accepted, wire, acked>>
  BY DEF ConnectToHost, IsOpen
<1>2. /\ wr = <<>> /\ Unread(send) = 0 /\ None(ready, Watch \cup {"write"})
  BY <1>1 DEF Inv, Untouched, Shut
<1>3. \A c \in Items(ready) : c.op # "write"
  BY <1>2 DEF None, Items
<1>4. accepted = acked /\ Len(wire) = acked /\ accepted \in Nat /\ opens' # 0
  BY <1>1 DEF SentInv, Inv, TypeOK
<1>5. SentInOrder'
  BY <1>1 DEF SentInv, SentInOrder, InOrder
<1>6. /\ Unread(send') = accepted' - acked' /\ Len(wire') = acked'
      /\ \A c \in Items(ready') : Sent(c)'
  BY <1>1, <1>2, <1>3, <1>4 DEF Sent
<1> QED BY <1>1, <1>2, <1>4, <1>5, <1>6 DEF SentInv

LEMMA SentDisConnect ==
  ASSUME Inv, SentInv, DisConnectFromHost PROVE SentInv'
<1>1. /\ Close(ready)
      /\ UNCHANGED <<stopped, send, opens, accepted, wire, acked>>
  BY DEF DisConnectFromHost, logVars
<1>2. TypeOK /\ Shut /\ ready \in Seq(Completions)
  BY DEF Inv, TypeOK, Completions
<1>3. wr' = <<>> /\ ready' = ready \o Aborted
  BY <1>1, <1>2, CloseLemma
<1>4. /\ Aborted \in Seq(Completions)
      /\ \A c \in Items(Aborted) :
              c \in {Failed("read"), Failed("open"), Failed("write")}
  BY <1>2, AbortedLemma
<1>5. \A c \in Items(Aborted) : ~c.ok
  BY <1>4, FailedType DEF OpNames
<1>6. \A c \in Items(ready') : c \in Items(ready) \/ ~c.ok
  BY <1>2, <1>3, <1>4, <1>5, ConcatCompletions
<1> QED BY <1>1, <1>3, <1>6, SentFrame

LEMMA SentWriteData ==
  ASSUME Inv, SentInv, "oneWrite" \in Rules, NEW n \in 1..MaxOut, WriteData(n)
  PROVE  SentInv'
<1> DEFINE data == [i \in 1..n |-> accepted + i]
           b    == Write(send, data)
<1>1. /\ ~stopped /\ acked = accepted /\ accepted' = accepted + n
      /\ UNCHANGED <<stopped, opens, wire, acked>>
      /\ IF Unread(send) = 0 THEN StartWrite(b, ready)
         ELSE send' = b /\ UNCHANGED <<wr, ready>>
  BY DEF WriteData, ShouldWrite, logVars
<1>2. /\ TypeOK /\ BufferOK(send) /\ accepted \in Nat /\ n \in Nat /\ n > 0
      /\ ready \in Seq(Completions) /\ Holds(send, accepted)
      /\ Len(wire) \in Nat
  BY StreamAssumption DEF Inv, TypeOK, Completions
<1>3. Unread(send) = 0 /\ Len(wire) = acked /\ opens # 0
  BY <1>1, <1>2 DEF SentInv, Inv, Untouched
<1>4. BufferOK(b) /\ Unread(b) = n
  <2>1. BufferOK(b) /\ Unread(b) = Unread(send) + n
    BY <1>2, WriteLemma
  <2> QED BY <1>2, <1>3, <2>1
<1> HIDE DEF b
<1>5. wr = <<>> /\ None(ready, {"write"}) /\ send' = b
  BY <1>1, <1>3 DEF Inv, NoStalledWrite, StartWrite
<1>6. wr' # <<>> => Head(wr') = WriteOp(b)
  <2> DEFINE w == WriteOp(b)
  <2>1. wr' = <<>> \/ wr' = Append(<<>>, w)
    BY <1>1, <1>3, <1>5 DEF StartWrite
  <2> HIDE DEF w
  <2>2. Head(Append(<<>>, w)) = w
    OBVIOUS
  <2> QED BY <2>1, <2>2 DEF w
<1>7. \A c \in Items(ready') : c.op # "write" \/ ~c.ok
  <2>1. \A c \in Items(ready) : c.op # "write"
    BY <1>5 DEF None, Items
  <2>2. ready' = ready \/ ready' = Append(ready, Failed("write"))
    BY <1>1, <1>3 DEF StartWrite
  <2>3. Failed("write") \in Completions /\ ~Failed("write").ok
    BY FailedType DEF OpNames
  <2> QED BY <1>2, <2>1, <2>2, <2>3, AppendCompletion
<1>8. SentInOrder'
  BY <1>1, <1>2 DEF SentInv, SentInOrder, InOrder
<1>9. Head(wr') = WriteOp(b) =>
        Head(wr') = [WriteOp(send') EXCEPT !.sent = Len(wire') - acked']
  <2>1. Len(wire') - acked' = 0
    BY <1>1, <1>2, <1>3
  <2> QED BY <1>5, <2>1 DEF WriteOp
<1>10. \A c \in Items(ready') : Sent(c)'
  BY <1>7 DEF Sent
<1>11. Unread(send') = accepted' - acked' /\ Unread(send') # 0
  BY <1>1, <1>2, <1>4, <1>5
<1> QED BY <1>1, <1>3, <1>6, <1>8, <1>9, <1>10, <1>11 DEF SentInv

\* If what waits below widx is what was accepted and not acknowledged, byte
\* r + l - d of the buffer comes after the l that were sent.
LEMMA SentUpTo ==
  ASSUME NEW a \in Nat, NEW d \in Nat, NEW w \in Nat, NEW r \in Nat,
         NEW l \in Nat, w - r = a - d
  PROVE  a - w + (r + (l - d)) = l
OBVIOUS

LEMMA SentTransmit ==
  ASSUME Inv, SentInv, NEW k \in 1..MaxOut, Transmit(k) PROVE SentInv'
<1> DEFINE w == Head(wr)
           s == Len(wire) - acked
           from == accepted - send.widx + (send.ridx + s)
           bytes == BytesAt(send, send.ridx + s, k)
<1>1. /\ sock = "connected" /\ wr # <<>>
      /\ k <= w.len - w.sent
      /\ wire' = wire \o (IF w.cap = send.cap
                          THEN BytesAt(send, w.at + w.sent, k)
                          ELSE [i \in 1..k |-> Zero])
      /\ IF w.sent + k = w.len
         THEN wr' = Tail(wr) /\ ready' = Append(ready, Completion("write", TRUE, w.len))
         ELSE wr' = [wr EXCEPT ![1].sent = w.sent + k] /\ ready' = ready
      /\ UNCHANGED <<stopped, send, opens, accepted, acked>>
  BY DEF Transmit, ioVars, userVars
<1>2. /\ TypeOK /\ ~stopped /\ opens # 0 /\ BufferOK(send) /\ wire \in Seq(Nat)
      /\ wr \in Seq(Writes) /\ ready \in Seq(Completions) /\ Len(wire) \in Nat
      /\ accepted \in Nat /\ acked \in Nat /\ k \in Nat /\ k > 0
      /\ Holds(send, accepted)
  <2>1. ~stopped /\ opens # 0
    BY <1>1 DEF Inv, Shut, Untouched
  <2>2. TypeOK /\ Holds(send, accepted) /\ k \in Nat /\ k > 0
    BY StreamAssumption DEF Inv
  <2>3. /\ BufferOK(send) /\ wire \in Seq(Nat) /\ wr \in Seq(Writes)
        /\ ready \in Seq(Completions) /\ accepted \in Nat /\ acked \in Nat
    BY <2>2 DEF TypeOK, Writes, Completions
  <2>4. Len(wire) \in Nat
    BY <2>3
  <2> QED BY <2>1, <2>2, <2>3, <2>4
<1>3. Len(wr) = 1 /\ None(ready, {"write"})
  BY <1>1, <1>2 DEF Inv, NoStalledWrite
<1>4. /\ w = [WriteOp(send) EXCEPT !.sent = s]
      /\ Unread(send) = accepted - acked /\ InOrder(wire)
      /\ acked <= accepted /\ acked <= Len(wire)
  BY <1>1, <1>2 DEF SentInv, SentInOrder
<1>5. /\ w.at = send.ridx /\ w.len = Unread(send) /\ w.sent = s /\ w.cap = send.cap
  BY <1>4 DEF WriteOp
<1>6. /\ s \in Nat /\ send.ridx \in Nat /\ send.widx \in Nat
      /\ Unread(send) = send.widx - send.ridx
      /\ send.widx <= accepted
  BY <1>2, <1>4 DEF BufferOK, Unread, Holds
<1>7. /\ send.ridx + s + k <= send.widx /\ from = Len(wire)
      /\ s + k <= Unread(send)
  <2>1. s + k <= Unread(send)
    <3>1. k <= Unread(send) - s
      BY <1>1, <1>5
    <3>2. Unread(send) \in Int
      BY <1>2, <1>4
    <3> HIDE DEF s
    <3> QED BY <1>2, <1>6, <3>1, <3>2
  <2>2. send.ridx + s + k <= send.widx
    <3> HIDE DEF s
    <3> QED BY <1>2, <1>6, <2>1
  <2>3. from = Len(wire)
    <3>1. send.widx - send.ridx = accepted - acked
      BY <1>4, <1>6
    <3> QED BY <1>2, <1>6, <3>1, SentUpTo, SMTT(30)
  <2> QED BY <2>1, <2>2, <2>3
<1>8. bytes = [i \in 1..k |-> Len(wire) + i]
  <2>1. bytes = [i \in 1..k |-> (accepted - send.widx + (send.ridx + s)) + i]
    <3>1. send.ridx + s \in Nat /\ (send.ridx + s) + k <= send.widx
      BY <1>6, <1>7
    <3> HIDE DEF s
    <3> QED BY <1>2, <3>1, BytesAtLemma
  <2> QED BY <1>7, <2>1
<1>9. wire' = wire \o bytes
  BY <1>1, <1>5
<1> HIDE DEF from, bytes
<1>10. /\ bytes \in Seq(Nat) /\ Len(bytes) = k
       /\ \A i \in 1..k : bytes[i] = Len(wire) + i
  BY <1>2, <1>8
<1>11. /\ wire' \in Seq(Nat) /\ Len(wire') = Len(wire) + k
       /\ \A i \in 1..Len(wire') : wire'[i] = IF i <= Len(wire) THEN wire[i]
                                              ELSE bytes[i - Len(wire)]
  BY <1>2, <1>9, <1>10, ConcatBytes
<1>12. InOrder(wire')
  <2>1. ASSUME NEW i \in 1..Len(wire') PROVE wire'[i] = i
    <3>1. CASE i <= Len(wire)
      <4>1. i \in 1..Len(wire)
        BY <1>2, <1>11, <3>1
      <4> QED BY <1>4, <1>11, <3>1, <4>1 DEF InOrder
    <3>2. CASE ~(i <= Len(wire))
      <4>1. i - Len(wire) \in 1..k
        BY <1>2, <1>11, <3>2
      <4>2. bytes[i - Len(wire)] = Len(wire) + (i - Len(wire))
        BY <1>10, <4>1
      <4> QED BY <1>2, <1>11, <3>2, <4>2
    <3> QED BY <3>1, <3>2
  <2> QED BY <2>1 DEF InOrder
<1>13. SentInOrder'
  BY <1>1, <1>2, <1>4, <1>11, <1>12 DEF SentInOrder
<1>14. /\ Unread(send') = accepted' - acked' /\ Unread(send') # 0
  BY <1>1, <1>2, <1>4, <1>6, <1>7
<1>15. CASE w.sent + k = w.len
  <2>1. wr' = <<>>
    BY <1>1, <1>2, <1>3, <1>15, TailOfOne
  <2> DEFINE c == Completion("write", TRUE, w.len)
  <2>2. /\ ready' = Append(ready, c)
        /\ c \in Completions /\ c.n = Unread(send)
    <3>1. w.len \in Nat
      BY <1>2, <1>4, <1>5, TypeFacts
    <3> QED BY <1>1, <1>5, <1>15, <3>1, CompletionType, ZenonT(30) DEF OpNames
  <2> HIDE DEF c
  <2>3. Len(wire') = accepted'
    <3>1. s + k = accepted - acked
      BY <1>4, <1>5, <1>15
    <3>2. Len(wire) + k = accepted
      BY <1>2, <3>1
    <3> QED BY <1>1, <1>11, <3>2
  <2>4. \A d \in Items(ready) : d.op # "write"
    BY <1>3 DEF None, Items
  <2>5. \A d \in Items(ready') : d.op # "write" \/ d = c
    BY <1>2, <2>2, <2>4, AppendCompletion
  <2>6. \A d \in Items(ready') : Sent(d)'
    BY <1>1, <2>2, <2>3, <2>5 DEF Sent
  <2> QED BY <1>1, <1>2, <1>13, <1>14, <2>1, <2>6 DEF SentInv
<1>16. CASE w.sent + k # w.len
  <2> DEFINE r == [w EXCEPT !.sent = s + k]
  <2>1. w \in Writes /\ w = wr[1] /\ 1 \in 1..Len(wr)
    BY <1>1, <1>2, <1>3
  <2>2. wr' = [wr EXCEPT ![1] = r] /\ ready' = ready
    BY <1>1, <1>5, <1>16, <2>1
  <2>3. s + k = Len(wire') - acked'
    BY <1>1, <1>2, <1>11
  <2>4. r = [WriteOp(send') EXCEPT !.sent = Len(wire') - acked']
    BY <1>1, <1>4, <2>3 DEF WriteOp
  <2>5. r \in Writes
    <3>1. s + k \in Nat
      <4> HIDE DEF s
      <4> QED BY <1>2, <1>6
    <3> HIDE DEF s, w
    <3> QED BY <2>1, <3>1 DEF Writes
  <2> HIDE DEF r, w, s
  <2>6. Head(wr') = r
    <3>1. wr' \in Seq(Writes) /\ Len(wr') = Len(wr)
      <4>1. wr \in Seq(Writes)
        BY <1>2
      <4>2. 1 \in 1..Len(wr)
        BY <2>1
      <4> QED BY <2>2, <2>5, <4>1, <4>2
    <3>2. wr'[1] = r
      BY <1>2, <2>1, <2>2
    <3> QED BY <1>3, <3>1, <3>2
  <2>7. \A d \in Items(ready') : Sent(d)'
    <3>1. \A d \in Items(ready) : d.op # "write"
      BY <1>3 DEF None, Items
    <3> QED BY <2>2, <3>1 DEF Sent
  <2> QED BY <1>1, <1>2, <1>13, <1>14, <2>4, <2>6, <2>7 DEF SentInv
<1> QED BY <1>15, <1>16

\* A step that takes a completion from the queue or none, adds one or none
\* that is not of a finished write, and gives up the pending write or keeps it.
LEMMA SentQueue ==
  ASSUME SentInv, NEW q \in Seq(Completions), Items(q) \subseteq Items(ready),
         NEW c \in Completions, c.op # "write" \/ ~c.ok,
         ready' \in {q, Append(q, c)}, wr' \in {wr, <<>>},
         UNCHANGED <<stopped, send, opens, accepted, wire, acked>>
  PROVE  SentInv'
<1>1. Items(ready') \subseteq Items(ready) \cup {c}
  BY AppendCompletion
<1> QED BY <1>1, SentFrame

LEMMA SentStarted ==
  ASSUME Inv, SentInv, NEW op \in Watch, Running(op), NEW b, StartRead(b, Rest),
         UNCHANGED <<stopped, send, opens, accepted, wire, acked, wr>>
  PROVE  SentInv'
<1>1. Rest \in Seq(Completions) /\ Items(Rest) \subseteq Items(ready)
  BY RunningLemma DEF Watch, OpNames
<1>2. ready' \in {Rest, Append(Rest, Failed("read"))}
  BY DEF StartRead
<1>3. Failed("read") \in Completions /\ ~Failed("read").ok
  BY FailedType DEF OpNames
<1> QED BY <1>1, <1>2, <1>3, SentQueue

LEMMA SentWriteOk ==
  ASSUME Inv, SentInv, WriteOk PROVE SentInv'
<1> DEFINE n == Head(ready).n
           b == ZeroCopyRead(send, n)
<1>1. /\ Running("write") /\ ~stopped /\ Head(ready).ok /\ StartWrite(b, Rest)
      /\ acked' = acked + n
      /\ UNCHANGED <<stopped, opens, accepted, wire>>
  BY DEF WriteOk, userVars
<1>2. /\ BufferOK(send) /\ Holds(send, accepted) /\ Unread(send) \in Nat
      /\ accepted \in Nat /\ acked \in Nat /\ opens # 0
  BY <1>1, TypeFacts DEF Inv, TypeOK, Untouched
<1>3. /\ Head(ready) \in Items(ready) /\ Head(ready).op = "write"
      /\ ~None(ready, {"write"})
      /\ One(ready, {"write"}) => None(Rest, {"write"})
  BY <1>1, RunningLemma DEF OpNames
<1>4. /\ n = Unread(send) /\ Len(wire) = accepted
      /\ Unread(send) = accepted - acked /\ InOrder(wire)
  BY <1>1, <1>3 DEF SentInv, Sent, SentInOrder
<1>5. wr = <<>> /\ None(Rest, {"write"})
  BY <1>1, <1>3 DEF Inv, NoStalledWrite
<1>6. Unread(b) = 0
  <2>1. Clamped(send, n) = Unread(send)
    BY <1>2, <1>4 DEF Clamped
  <2> QED BY <1>2, <2>1, ReadLemma DEF ZeroCopyRead
<1> HIDE DEF b
<1>7. send' = b /\ wr' = <<>> /\ ready' = Rest
  BY <1>1, <1>5, <1>6 DEF StartWrite
<1>8. acked' = accepted
  BY <1>1, <1>2, <1>4
<1>9. \A c \in Items(ready') : c.op # "write"
  BY <1>5, <1>7 DEF None, Items
<1> QED BY <1>1, <1>2, <1>4, <1>6, <1>7, <1>8, <1>9
        DEF SentInv, SentInOrder, Sent

LEMMA SentUser ==
  ASSUME Inv, SentInv, "noReuse" \in Rules, "oneWrite" \in Rules, User
  PROVE  SentInv'
<1>1. ASSUME NEW n \in {1, Unread(recv)} \ {0}, ReadData(n) PROVE SentInv'
  BY <1>1, SentFrame DEF ReadData, asioVars, logVars
<1>2. CASE DeleteLater
  <2>1. /\ ready' = Append(ready, Completion("delete", TRUE, 0))
        /\ UNCHANGED <<stopped, send, opens, accepted, wire, acked, wr>>
    BY <1>2 DEF DeleteLater, ioVars, logVars
  <2>2. /\ Completion("delete", TRUE, 0) \in Completions
        /\ Completion("delete", TRUE, 0).op # "write"
    BY CompletionType DEF OpNames
  <2>3. ready \in Seq(Completions)
    BY DEF Inv, TypeOK, Completions
  <2> QED BY <2>1, <2>2, <2>3, SentQueue
<1> QED BY <1>1, <1>2, SentConnect, SentDisConnect, SentWriteData DEF User

LEMMA SentKernel ==
  ASSUME Inv, SentInv, Kernel PROVE SentInv'
<1>1. ready \in Seq(Completions) /\ wr \in Seq(Writes)
  BY DEF Inv, TypeOK, Completions, Writes
<1>2. ASSUME NEW ok \in BOOLEAN, ConnectDone(ok) PROVE SentInv'
  <2>1. /\ Completion("open", ok, 0) \in Completions
        /\ Completion("open", ok, 0).op # "write"
    BY CompletionType DEF OpNames
  <2> QED BY <1>1, <1>2, <2>1, SentQueue
          DEF ConnectDone, ioVars, userVars, logVars
<1>3. ASSUME NEW n \in 1..MaxIn, PeerSends(n) PROVE SentInv'
  <2>1. n \in Nat
    BY StreamAssumption
  <2>2. /\ Completion("read", TRUE, n) \in Completions
        /\ Completion("read", TRUE, n).op # "write"
    BY <2>1, CompletionType DEF OpNames
  <2> QED BY <1>1, <1>3, <2>2, SentQueue DEF PeerSends, userVars
<1>4. CASE ReadFails
  <2>1. Failed("read") \in Completions /\ ~Failed("read").ok
    BY FailedType DEF OpNames
  <2> QED BY <1>1, <1>4, <2>1, SentQueue
          DEF ReadFails, ioVars, userVars, logVars
<1>5. CASE WriteFails
  <2>1. Failed("write") \in Completions /\ ~Failed("write").ok
    BY FailedType DEF OpNames
  <2>2. Len(wr) = 1
    BY <1>1, <1>5 DEF WriteFails, Inv, Shut, NoStalledWrite
  <2>3. Tail(wr) = <<>>
    BY <1>1, <2>2, TailOfOne
  <2> QED BY <1>1, <1>5, <2>1, <2>3, SentQueue
          DEF WriteFails, ioVars, userVars, logVars
<1> QED BY <1>2, <1>3, <1>4, <1>5, SentTransmit DEF Kernel

LEMMA SentLoop ==
  ASSUME Inv, SentInv, Loop PROVE SentInv'
<1>1. ASSUME stopped', UNCHANGED <<send, opens, accepted, wire, acked>>
      PROVE  SentInv'
  BY <1>1, SentFrame
<1>2. ASSUME NEW op \in {"open", "read", "write"}, Dropped(op) PROVE SentInv'
  BY <1>1, <1>2 DEF Dropped, ioVars, userVars, logVars
<1>3. CASE OpenOk
  BY <1>3, SentStarted DEF OpenOk, userVars, logVars, Watch
<1>4. CASE OpenFails
  BY <1>1, <1>4 DEF OpenFails, Stop, userVars, logVars
<1>5. CASE OpenFailsError
  BY <1>5, SentFrame DEF OpenFailsError, ioVars, asioVars, userVars
<1>6. CASE ReadOk
  BY <1>6, SentStarted DEF ReadOk, userVars, Watch
<1>7. ASSUME NEW op \in {"read", "write"}, TransferFails(op) PROVE SentInv'
  BY <1>1, <1>7 DEF TransferFails, Stop, userVars
<1>8. CASE Delete
  <2>1. /\ ready' = Rest /\ Items(Rest) \subseteq Items(ready)
        /\ UNCHANGED <<stopped, send, opens, accepted, wire, acked, wr>>
    BY <1>8, RunningLemma DEF Delete, OpNames, userVars, logVars
  <2> QED BY <2>1, SentFrame
<1> QED BY <1>2, <1>3, <1>4, <1>5, <1>6, <1>7, <1>8, SentWriteOk DEF Loop

\* The peer gets what was written, in order and once, however the writes,
\* the buffer's moves and the acknowledgements interleave; only bytes that
\* were sent are reported as written.
THEOREM SentSafety ==
  ASSUME "noReuse" \in Rules, "oneWrite" \in Rules
  PROVE  Spec => []SentInOrder
<1>1. Init => Inv /\ SentInv
  <2> SUFFICES ASSUME Init PROVE SentInv
    BY InitInv
  <2>1. /\ wr = <<>> /\ ready = <<>> /\ accepted = 0 /\ wire = <<>> /\ acked = 0
        /\ send = NewBuffer(InitCap)
    BY DEF Init, InitClient, InitAccepted, Start
  <2>2. Unread(send) = 0
    BY <2>1, StreamAssumption, NewBufferLemma
  <2>3. Items(ready) = {} /\ Len(wire) = 0
    BY <2>1 DEF Items
  <2> QED BY <2>1, <2>2, <2>3 DEF SentInv, SentInOrder, InOrder
<1>2. Inv /\ SentInv /\ [Next]_vars => Inv' /\ SentInv'
  <2> SUFFICES ASSUME Inv, SentInv, [Next]_vars PROVE SentInv'
    BY NextStep
  <2>1. CASE UNCHANGED vars
    BY <2>1, SentFrame DEF vars, ioVars, asioVars, userVars, logVars
  <2> QED BY <2>1, SentUser, SentKernel, SentLoop DEF Next
<1>3. SentInv => SentInOrder
  BY DEF SentInv
<1> QED BY <1>1, <1>2, <1>3, PTL DEF Spec

-----------------------------------------------------------------------------
\* The owner's deletion.

\* A completion whose handler reports through `q`.
Carries(c) == c.op \in {"read", "write"} /\ c.ok

\* What reports runs before the delete that is queued.
Behind(s) ==
  \A i \in 1..Len(s) : Carries(s[i]) => \A j \in 1..i : s[j].op # "delete"

\* A socket that is being deleted is closed, so nothing of it is queued
\* behind the delete that would report; when it ran, nothing is left.
GoneInv ==
  /\ NoGoneUse
  /\ deleting => sock = "closed"
  /\ \A c \in Items(ready) : c.op = "delete" => deleting
  /\ ~alive => deleting /\ \A c \in Items(ready) : ~Carries(c)
  /\ Behind(ready)

LEMMA AppendBehind ==
  ASSUME NEW s \in Seq(Completions), NEW c \in Completions, Behind(s),
         Carries(c) => \A d \in Items(s) : d.op # "delete"
  PROVE  Behind(Append(s, c))
<1> DEFINE t == Append(s, c)
<1>1. /\ Len(t) = Len(s) + 1 /\ Len(s) \in Nat
      /\ \A i \in 1..Len(s) : t[i] = s[i]
      /\ t[Len(s) + 1] = c
  OBVIOUS
<1> HIDE DEF t
<1>2. ASSUME NEW i \in 1..Len(t), Carries(t[i]), NEW j \in 1..i
      PROVE  t[j].op # "delete"
  <2>1. CASE i \in 1..Len(s)
    <3>1. j \in 1..Len(s) /\ t[i] = s[i] /\ t[j] = s[j]
      BY <1>1, <2>1
    <3> QED BY <1>2, <2>1, <3>1 DEF Behind
  <2>2. CASE i = Len(s) + 1
    <3>1. t[i] = c /\ Carries(c)
      BY <1>1, <1>2, <2>2
    <3>2. CASE j \in 1..Len(s)
      BY <1>1, <3>1, <3>2 DEF Items
    <3>3. CASE j = i
      BY <3>1, <3>3 DEF Carries
    <3> QED BY <1>1, <2>2, <3>2, <3>3
  <2> QED BY <1>1, <2>1, <2>2
<1> QED BY <1>2 DEF Behind, t

LEMMA TailBehind ==
  ASSUME NEW s \in Seq(Completions), s # <<>>, Behind(s)
  PROVE  /\ Behind(Tail(s))
         /\ Head(s).op = "delete" => \A c \in Items(s) : ~Carries(c)
<1> DEFINE t == Tail(s)
<1>1. /\ Len(t) = Len(s) - 1 /\ Len(s) \in Nat /\ Len(s) >= 1
      /\ \A i \in 1..Len(t) : t[i] = s[i + 1]
      /\ Head(s) = s[1]
  OBVIOUS
<1> HIDE DEF t
<1>2. ASSUME NEW i \in 1..Len(t), Carries(t[i]), NEW j \in 1..i
      PROVE  t[j].op # "delete"
  <2>1. /\ i + 1 \in 1..Len(s) /\ j + 1 \in 1..(i + 1)
        /\ t[i] = s[i + 1] /\ t[j] = s[j + 1]
    BY <1>1
  <2> QED BY <1>2, <2>1 DEF Behind
<1>3. ASSUME Head(s).op = "delete", NEW i \in 1..Len(s) PROVE ~Carries(s[i])
  <2>1. 1 \in 1..i
    BY <1>1
  <2> QED BY <1>1, <1>3, <2>1 DEF Behind
<1> QED BY <1>2, <1>3 DEF Behind, Items, t

LEMMA ConcatBehind ==
  ASSUME NEW s \in Seq(Completions), NEW t \in Seq(Completions), Behind(s),
         \A c \in Items(t) : ~Carries(c)
  PROVE  Behind(s \o t)
<1> DEFINE u == s \o t
<1>1. /\ Len(u) = Len(s) + Len(t) /\ Len(s) \in Nat /\ Len(t) \in Nat
      /\ \A i \in 1..Len(u) : u[i] = IF i <= Len(s) THEN s[i]
                                                    ELSE t[i - Len(s)]
  OBVIOUS
<1> HIDE DEF u
<1>2. ASSUME NEW i \in 1..Len(u), Carries(u[i]), NEW j \in 1..i
      PROVE  u[j].op # "delete"
  <2>1. CASE i <= Len(s)
    <3>1. /\ i \in 1..Len(s) /\ j \in 1..Len(s) /\ u[i] = s[i]
          /\ u[j] = s[j]
      BY <1>1, <2>1
    <3> QED BY <1>2, <3>1 DEF Behind
  <2>2. CASE ~(i <= Len(s))
    <3>1. u[i] = t[i - Len(s)] /\ i - Len(s) \in 1..Len(t)
      BY <1>1, <2>2
    <3> QED BY <1>2, <3>1 DEF Items
  <2> QED BY <2>1, <2>2
<1> QED BY <1>2 DEF Behind, u

\* A step that takes a completion from the queue or none and adds one or none.
LEMMA GoneQueue ==
  ASSUME GoneInv, NEW q \in Seq(Completions), Items(q) \subseteq Items(ready),
         Behind(q), NEW c \in Completions, ready' \in {q, Append(q, c)},
         Carries(c) => ~deleting, c.op = "delete" => deleting',
         deleting => deleting', deleting' => sock' = "closed",
         alive' = alive, ~goneUse'
  PROVE  GoneInv'
<1>1. Items(ready') \subseteq Items(ready) \cup {c}
  BY AppendCompletion
<1>2. Carries(c) => \A d \in Items(q) : d.op # "delete"
  BY DEF GoneInv
<1>3. Behind(ready')
  BY <1>2, AppendBehind
<1>4. /\ \A d \in Items(ready') : d.op = "delete" => deleting'
      /\ ~alive' => deleting' /\ \A d \in Items(ready') : ~Carries(d)
  BY <1>1 DEF GoneInv
<1> QED BY <1>3, <1>4 DEF GoneInv, NoGoneUse

\* A step that closes the socket, after the completion it runs, if any.
LEMMA GoneClose ==
  ASSUME Inv, GoneInv, NEW q \in Seq(Completions),
         Items(q) \subseteq Items(ready), Behind(q), Close(q),
         UNCHANGED <<alive, deleting, goneUse>>
  PROVE  GoneInv'
<1>1. /\ sock' = "closed" /\ ready' = q \o Aborted
      /\ Aborted \in Seq(Completions)
      /\ \A c \in Items(Aborted) :
              c \in {Failed("read"), Failed("open"), Failed("write")}
  BY CloseLemma, AbortedLemma DEF Inv
<1>2. \A c \in Items(Aborted) : ~Carries(c) /\ c.op # "delete"
  BY <1>1, FailedType DEF OpNames, Carries
<1>3. Items(ready') \subseteq Items(ready) \cup Items(Aborted)
  BY <1>1, ConcatCompletions
<1>4. Behind(ready')
  BY <1>1, <1>2, ConcatBehind
<1> QED BY <1>1, <1>2, <1>3, <1>4 DEF GoneInv, NoGoneUse

LEMMA GoneRest ==
  ASSUME Inv, GoneInv, NEW op \in OpNames, Running(op)
  PROVE  /\ Rest \in Seq(Completions) /\ Items(Rest) \subseteq Items(ready)
         /\ Behind(Rest)
         /\ Head(ready).ok /\ op \in {"read", "write"} => alive
         /\ op = "delete" => deleting /\ \A c \in Items(ready) : ~Carries(c)
<1>1. /\ ready \in Seq(Completions) /\ ready # <<>> /\ Head(ready).op = op
      /\ Head(ready) \in Items(ready)
      /\ Rest \in Seq(Completions) /\ Items(Rest) \subseteq Items(ready)
  BY RunningLemma DEF Running
<1>2. /\ Behind(Rest)
      /\ op = "delete" => \A c \in Items(ready) : ~Carries(c)
  BY <1>1, TailBehind DEF Rest, GoneInv
<1> QED BY <1>1, <1>2 DEF GoneInv, Carries

LEMMA GoneUser ==
  ASSUME Inv, GoneInv, "closeFirst" \in Rules, User PROVE GoneInv'
<1>1. /\ ready \in Seq(Completions) /\ Behind(ready)
      /\ Failed("write") \in Completions /\ ~Carries(Failed("write"))
      /\ Failed("write").op # "delete"
  BY FailedType DEF Inv, GoneInv, TypeOK, Completions, Carries, OpNames
<1>2. CASE ConnectToHost
  BY <1>2 DEF ConnectToHost, GoneInv, NoGoneUse
<1>3. CASE DisConnectFromHost
  BY <1>1, <1>3, GoneClose DEF DisConnectFromHost, logVars
<1>4. ASSUME NEW n \in 1..MaxOut, WriteData(n) PROVE GoneInv'
  <2>1. /\ ready' \in {ready, Append(ready, Failed("write"))}
        /\ UNCHANGED <<alive, deleting, sock, goneUse>>
    BY <1>4 DEF WriteData, StartWrite, logVars
  <2> QED BY <1>1, <2>1, GoneQueue DEF GoneInv, NoGoneUse
<1>5. ASSUME NEW n \in {1, Unread(recv)} \ {0}, ReadData(n) PROVE GoneInv'
  BY <1>5 DEF ReadData, asioVars, logVars, GoneInv, NoGoneUse
<1>6. CASE DeleteLater
  <2> DEFINE c == Completion("delete", TRUE, 0)
  <2>1. c \in Completions /\ c.op = "delete" /\ ~Carries(c)
    BY CompletionType DEF OpNames, Carries
  <2>2. /\ ready' = Append(ready, c) /\ deleting' = TRUE /\ sock = "closed"
        /\ UNCHANGED <<alive, sock, goneUse>>
    BY <1>6 DEF DeleteLater, IsOpen, ioVars, logVars
  <2> HIDE DEF c
  <2> QED BY <1>1, <2>1, <2>2, GoneQueue DEF GoneInv, NoGoneUse
<1> QED BY <1>2, <1>3, <1>4, <1>5, <1>6 DEF User

LEMMA GoneKernel ==
  ASSUME Inv, GoneInv, Kernel PROVE GoneInv'
<1>1. ready \in Seq(Completions) /\ Behind(ready) /\ wr \in Seq(Writes)
  BY DEF Inv, GoneInv, TypeOK, Completions, Writes
<1>2. \A op \in {"read", "write"} :
        /\ Failed(op) \in Completions /\ ~Carries(Failed(op))
        /\ Failed(op).op # "delete"
  BY FailedType DEF OpNames, Carries
<1>3. ASSUME NEW ok \in BOOLEAN, ConnectDone(ok) PROVE GoneInv'
  <2> DEFINE c == Completion("open", ok, 0)
  <2>1. c \in Completions /\ c.op = "open" /\ ~Carries(c)
    BY CompletionType DEF OpNames, Carries
  <2>2. /\ ready' = Append(ready, c) /\ ~deleting
        /\ UNCHANGED <<alive, deleting, goneUse>>
    BY <1>3 DEF ConnectDone, ioVars, userVars, logVars, GoneInv
  <2> HIDE DEF c
  <2> QED BY <1>1, <2>1, <2>2, GoneQueue DEF GoneInv, NoGoneUse
<1>4. ASSUME NEW n \in 1..MaxIn, PeerSends(n) PROVE GoneInv'
  <2> DEFINE c == Completion("read", TRUE, n)
  <2>1. n \in Nat
    BY StreamAssumption
  <2>2. c \in Completions /\ c.op = "read"
    BY <2>1, CompletionType, ZenonT(30) DEF OpNames
  <2>3. /\ ready' = Append(ready, c) /\ ~deleting
        /\ UNCHANGED <<alive, deleting, goneUse>>
    BY <1>4 DEF PeerSends, userVars, GoneInv
  <2> HIDE DEF c
  <2> QED BY <1>1, <2>2, <2>3, GoneQueue DEF GoneInv, NoGoneUse
<1>5. CASE ReadFails
  <2>1. /\ ready' = Append(ready, Failed("read"))
        /\ UNCHANGED <<alive, deleting, sock, goneUse>>
    BY <1>5 DEF ReadFails, ioVars, userVars, logVars
  <2> QED BY <1>1, <1>2, <2>1, GoneQueue DEF GoneInv, NoGoneUse
<1>6. ASSUME NEW k \in 1..MaxOut, Transmit(k) PROVE GoneInv'
  <2> DEFINE c == Completion("write", TRUE, Head(wr).len)
  <2>1. Head(wr) \in Writes
    BY <1>1, <1>6 DEF Transmit
  <2>2. Head(wr).len \in Nat
    BY <2>1 DEF Writes
  <2>3. c \in Completions /\ c.op = "write"
    BY <2>2, CompletionType DEF OpNames
  <2>4. /\ ready' \in {ready, Append(ready, c)} /\ ~deleting
        /\ UNCHANGED <<alive, deleting, goneUse>>
    BY <1>6 DEF Transmit, ioVars, userVars, GoneInv
  <2> HIDE DEF c
  <2> QED BY <1>1, <2>3, <2>4, GoneQueue DEF GoneInv, NoGoneUse
<1>7. CASE WriteFails
  <2>1. /\ ready' = Append(ready, Failed("write"))
        /\ UNCHANGED <<alive, deleting, sock, goneUse>>
    BY <1>7 DEF WriteFails, ioVars, userVars, logVars
  <2> QED BY <1>1, <1>2, <2>1, GoneQueue DEF GoneInv, NoGoneUse
<1> QED BY <1>3, <1>4, <1>5, <1>6, <1>7 DEF Kernel

LEMMA GoneLoop ==
  ASSUME Inv, GoneInv, Loop PROVE GoneInv'
<1>1. \A op \in {"read", "write"} :
        /\ Failed(op) \in Completions /\ ~Carries(Failed(op))
        /\ Failed(op).op # "delete"
  BY FailedType DEF OpNames, Carries
\* A handler that adds at most a failed operation to the queue.
<1>2. ASSUME NEW op \in OpNames, Running(op), NEW f \in {"read", "write"},
             ready' \in {Rest, Append(Rest, Failed(f))},
             UNCHANGED <<alive, deleting, sock>>, ~goneUse'
      PROVE  GoneInv'
  BY <1>1, <1>2, GoneRest, GoneQueue DEF GoneInv
<1>3. ASSUME NEW op \in OpNames, Running(op), Stop(Rest),
             UNCHANGED <<alive, deleting, goneUse>>
      PROVE  GoneInv'
  BY <1>3, GoneRest, GoneClose DEF Stop
<1>4. ~goneUse
  BY DEF GoneInv, NoGoneUse
<1>5. ASSUME NEW op \in {"open", "read", "write"}, Dropped(op) PROVE GoneInv'
  BY <1>2, <1>4, <1>5 DEF Dropped, OpNames, ioVars, userVars, logVars
<1>6. CASE OpenOk
  BY <1>2, <1>4, <1>6 DEF OpenOk, StartRead, OpNames, userVars, logVars
<1>7. CASE OpenFails
  BY <1>3, <1>7 DEF OpenFails, OpNames, userVars, logVars
<1>8. CASE OpenFailsError
  BY <1>8 DEF OpenFailsError, ioVars, asioVars, userVars, GoneInv, NoGoneUse
<1>9. CASE ReadOk
  <2>1. /\ Running("read") /\ alive
        /\ ready' \in {Rest, Append(Rest, Failed("read"))}
        /\ UNCHANGED <<alive, deleting, sock>> /\ goneUse' = (goneUse \/ ~alive)
    BY <1>9, GoneRest DEF ReadOk, StartRead, OpNames, userVars
  <2> QED BY <1>2, <1>4, <2>1 DEF OpNames
<1>10. CASE WriteOk
  <2>1. /\ Running("write") /\ alive
        /\ ready' \in {Rest, Append(Rest, Failed("write"))}
        /\ UNCHANGED <<alive, deleting, sock>> /\ goneUse' = (goneUse \/ ~alive)
    BY <1>10, GoneRest DEF WriteOk, StartWrite, OpNames, userVars
  <2> QED BY <1>2, <1>4, <2>1 DEF OpNames
<1>11. ASSUME NEW op \in {"read", "write"}, TransferFails(op) PROVE GoneInv'
  BY <1>3, <1>11 DEF TransferFails, OpNames, userVars
<1>12. CASE Delete
  <2>1. /\ Running("delete") /\ alive' = FALSE /\ ready' = Rest
        /\ UNCHANGED <<deleting, sock, goneUse>>
    BY <1>12 DEF Delete, userVars, logVars
  <2>2. /\ Items(Rest) \subseteq Items(ready) /\ Behind(Rest) /\ deleting
        /\ \A c \in Items(ready) : ~Carries(c)
    BY <2>1, GoneRest DEF OpNames
  <2> QED BY <2>1, <2>2 DEF GoneInv, NoGoneUse
<1> QED BY <1>5, <1>6, <1>7, <1>8, <1>9, <1>10, <1>11, <1>12 DEF Loop

\* A user who closes a socket before deleting it is reported nothing through
\* an owner that is gone, whatever was queued when it was closed.
THEOREM GoneSafety ==
  ASSUME "noReuse" \in Rules, "closeFirst" \in Rules
  PROVE  Spec => []NoGoneUse
<1>1. Init => Inv /\ GoneInv
  <2> SUFFICES ASSUME Init PROVE GoneInv
    BY InitInv
  <2>1. ready = <<>> /\ alive = TRUE /\ goneUse = FALSE /\ deleting = FALSE
    BY DEF Init, InitClient, InitAccepted, Start
  <2> QED BY <2>1 DEF GoneInv, NoGoneUse, Behind, Items
<1>2. Inv /\ GoneInv /\ [Next]_vars => Inv' /\ GoneInv'
  <2> SUFFICES ASSUME Inv, GoneInv, [Next]_vars PROVE GoneInv'
    BY NextStep
  <2>1. CASE UNCHANGED vars
    BY <2>1 DEF vars, ioVars, asioVars, userVars, logVars, GoneInv, NoGoneUse
  <2> QED BY <2>1, GoneUser, GoneKernel, GoneLoop DEF Next
<1>3. GoneInv => NoGoneUse
  BY DEF GoneInv
<1> QED BY <1>1, <1>2, <1>3, PTL DEF Spec

=============================================================================
