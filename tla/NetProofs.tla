------------------------------ MODULE NetProofs ------------------------------
(***************************************************************************)
(* Proofs about the sockets and what makes them, for any number of         *)
(* attempts and any length of the loop's queue.                            *)
(***************************************************************************)
EXTENDS MCNet, ContainerLemmas

-----------------------------------------------------------------------------
\* The connector: what its queue holds.

Objects == {Itself} \cup {TimerOf(a) : a \in Attempts}
                    \cup {SocketOf(a) : a \in Attempts}

Entries == [op : {"open"}, what : Objects, ok : BOOLEAN]
             \cup [op : {"fired", "delete"}, what : Objects, ok : {TRUE}]

Entry(op, what) == {c \in Entries : c.op = op /\ c.what = what}

Opens(a)   == Entry("open", SocketOf(a))
Firings(a) == Entry("fired", TimerOf(a))
Deletes(x) == Entry("delete", x)

LEMMA ObjectFacts ==
  /\ Itself \in Objects
  /\ \A a \in Attempts : TimerOf(a) \in Objects /\ SocketOf(a) \in Objects
  /\ \A x \in Objects : \/ x = Itself
                        \/ \E a \in Attempts : x = TimerOf(a) \/ x = SocketOf(a)
  /\ \A a, b : /\ TimerOf(a) # SocketOf(b)
               /\ TimerOf(a) # Itself /\ SocketOf(a) # Itself
               /\ TimerOf(a) = TimerOf(b) <=> a = b
               /\ SocketOf(a) = SocketOf(b) <=> a = b
BY DEF Objects, Itself, TimerOf, SocketOf

LEMMA EntryFacts ==
  /\ \A a \in Attempts, ok \in BOOLEAN :
       /\ Opened(a, ok) \in Entries
       /\ \A b : Opened(a, ok) \in Opens(b) <=> a = b
       /\ \A b : Opened(a, ok) \notin Firings(b) /\ Opened(a, ok) \notin Deletes(b)
  /\ \A a \in Attempts :
       /\ Fired(a) \in Entries
       /\ \A b : Fired(a) \in Firings(b) <=> a = b
       /\ \A b : Fired(a) \notin Opens(b) /\ Fired(a) \notin Deletes(b)
  /\ \A x \in Objects :
       /\ Deletion(x) \in Entries
       /\ \A y : Deletion(x) \in Deletes(y) <=> x = y
       /\ \A b : Deletion(x) \notin Opens(b) /\ Deletion(x) \notin Firings(b)
<1>1. ASSUME NEW a \in Attempts, NEW ok \in BOOLEAN
      PROVE  /\ Opened(a, ok) \in Entries
             /\ \A b : Opened(a, ok) \in Opens(b) <=> a = b
             /\ \A b : Opened(a, ok) \notin Firings(b) /\ Opened(a, ok) \notin Deletes(b)
  BY ObjectFacts DEF Opened, Entries, Entry, Opens, Firings, Deletes
<1>2. ASSUME NEW a \in Attempts
      PROVE  /\ Fired(a) \in Entries
             /\ \A b : Fired(a) \in Firings(b) <=> a = b
             /\ \A b : Fired(a) \notin Opens(b) /\ Fired(a) \notin Deletes(b)
  BY ObjectFacts DEF Fired, Entries, Entry, Opens, Firings, Deletes
<1>3. ASSUME NEW x \in Objects
      PROVE  /\ Deletion(x) \in Entries
             /\ \A y : Deletion(x) \in Deletes(y) <=> x = y
             /\ \A b : Deletion(x) \notin Opens(b) /\ Deletion(x) \notin Firings(b)
  BY DEF Deletion, Entries, Entry, Opens, Firings, Deletes
<1> QED BY <1>1, <1>2, <1>3

\* What runs is the head of the queue.
LEMMA RunsFacts ==
  ASSUME ready \in Seq(Entries), NEW op, NEW what, Runs(op, what)
  PROVE  /\ ready # <<>> /\ ~fault /\ Head(ready) \in Entries
         /\ \A op2, what2 : Head(ready) \in Entry(op2, what2)
                              <=> (op = op2 /\ what = what2)
BY TailQueue DEF Runs, Entry

-----------------------------------------------------------------------------
\* The connector's invariant.

Follows(rules) == rules \cap broken = {}

\* An attempt has one answer: the connect is pending, or its completion is
\* queued, or a signal was emitted.
OpenInv ==
  \A a \in Attempts :
    /\ Has(ready, Opens(a)) =>
         sock[a] \notin {"unopened", "connecting"} /\ answers[a] = <<>>
    /\ Never(ready, Opens(a), Opens(a))
    /\ sock[a] = "connecting" => answers[a] = <<>>
    /\ a > begun => sock[a] = "unopened" /\ answers[a] = <<>>
    /\ pending = a => answers[a] = <<>>

\* The timer runs until the answer, and no expiry is behind its delete.
TimerInv ==
  \A a \in Attempts :
    /\ a \in running => answers[a] = <<>>
    /\ a \in waiting => ~Has(ready, Firings(a))
    /\ Has(ready, Firings(a)) => a <= begun /\ TimerOf(a) \in alive
    /\ Never(ready, Deletes(TimerOf(a)), Firings(a))

\* Nothing of an attempt is deleted before it is answered.
DeleteInv ==
  /\ \A a \in Attempts : answers[a] = <<>> =>
       /\ ~Has(ready, Deletes(TimerOf(a))) /\ ~Has(ready, Deletes(SocketOf(a)))
       /\ a <= begun => TimerOf(a) \in alive /\ SocketOf(a) \in alive
  /\ Has(ready, Deletes(Itself)) => deleting

\* Nothing is answered or deleted twice.
OnceInv ==
  Follows({"noOptions"}) =>
    /\ \A a \in Attempts : Len(answers[a]) <= 1
    /\ \A x \in Objects : /\ Never(ready, Deletes(x), Deletes(x))
                          /\ Has(ready, Deletes(x)) => x \in alive

\* One attempt is in flight, and the connect that is pending is the one that
\* CancelConnect can reach.
WaitInv ==
  Follows({"waitForAnswer"}) =>
    \A a, b \in Attempts : InFlight(a) /\ InFlight(b) => a = b

ConnectInv ==
  Follows({"waitForAnswer", "noOptions"}) =>
    \A a \in Attempts : sock[a] = "connecting" => pending = a

\* No answer is behind the delete of the connector.
LifeInv ==
  Follows({"waitForAnswer", "noOptions", "deleteIdle"}) =>
    /\ ~fault
    /\ deleting => pending = 0
    /\ \A a \in Attempts : Never(ready, Deletes(Itself), Opens(a))
    /\ Itself \notin alive =>
         deleting /\ \A a \in Attempts : ~Has(ready, Opens(a))

ConnectorInv ==
  /\ TypeOK /\ ready \in Seq(Entries)
  /\ OpenInv /\ TimerInv /\ DeleteInv /\ OnceInv /\ WaitInv /\ ConnectInv
  /\ LifeInv /\ PendingIsCurrent

LEMMA ConnectorInit == Init => ConnectorInv
<1> SUFFICES ASSUME Init PROVE ConnectorInv
  OBVIOUS
<1>1. /\ pending \in 0..begun /\ begun \in 0..MaxAttempts
      /\ sock \in [Attempts -> {"unopened", "connecting", "connected", "failed", "closed"}]
  BY ConnectorAssumption DEF Init
<1>2. answers \in [Attempts -> Seq(Signals)] /\ ready \in Seq(Entries)
  BY DEF Init
<1>3. TypeOK
  BY <1>1, <1>2 DEF Init, TypeOK
<1>4. OpenInv
  BY EmptyQueue DEF Init, OpenInv
<1>5. TimerInv /\ DeleteInv
  <2>1. \A a \in Attempts : ~(a <= begun)
    BY ConnectorAssumption DEF Init, Attempts
  <2>2. TimerInv
    BY EmptyQueue DEF Init, TimerInv
  <2>3. DeleteInv
    BY <2>1, EmptyQueue DEF Init, DeleteInv
  <2> QED BY <2>2, <2>3
<1>6. OnceInv /\ LifeInv
  BY EmptyQueue DEF Init, OnceInv, LifeInv
<1>7. WaitInv /\ ConnectInv /\ PendingIsCurrent
  BY ConnectorAssumption
  DEF Init, WaitInv, ConnectInv, PendingIsCurrent, InFlight, Attempts
<1> QED BY <1>2, <1>3, <1>4, <1>5, <1>6, <1>7 DEF ConnectorInv

LEMMA ConnectToHostStep ==
  ASSUME ConnectorInv, NEW good \in BOOLEAN, ConnectToHost(good)
  PROVE  ConnectorInv'
<1> DEFINE a == begun + 1
<1>1. /\ Itself \in alive /\ ~fault /\ pending = 0 /\ begun < MaxAttempts
      /\ broken' = broken \cup BrokenBy(good)
      /\ begun' = a /\ pending' = a
      /\ sock' = [sock EXCEPT ![a] = IF good THEN "connecting" ELSE @]
      /\ waiting' = waiting \cup {a} /\ running' = running \cup {a}
      /\ alive' = alive \cup {TimerOf(a), SocketOf(a)}
      /\ UNCHANGED <<ready, deleting, cancelled, answers, fault>>
  BY DEF ConnectToHost, MayCall
<1>2. /\ begun \in Nat /\ MaxAttempts \in Nat
      /\ a \in Attempts /\ a \in 1..a /\ a > begun /\ a # 0
      /\ sock[a] = "unopened" /\ answers[a] = <<>>
      /\ a \notin cancelled /\ a \notin running
  BY <1>1, ConnectorAssumption DEF ConnectorInv, TypeOK, Attempts, OpenInv
<1>3. /\ \A b \in Attempts : b # a => sock'[b] = sock[b]
      /\ sock'[a] = IF good THEN "connecting" ELSE "unopened"
      /\ \A b \in Attempts : b # a => (b <= begun' <=> b <= begun)
  BY <1>1, <1>2 DEF ConnectorInv, TypeOK, Attempts
<1> HIDE DEF a
<1>4. TypeOK'
  <2>1. /\ pending' \in 0..begun' /\ begun' \in 0..MaxAttempts
        /\ waiting' \subseteq running' /\ running' \subseteq 1..begun'
        /\ cancelled' \subseteq 1..begun'
    <3>1. 1..begun \subseteq 1..a /\ a \in 1..a /\ a \in 0..MaxAttempts /\ a \in 0..a
      BY <1>1, <1>2 DEF a
    <3> QED BY <1>1, <3>1 DEF ConnectorInv, TypeOK
  <2>2. sock' \in [Attempts -> {"unopened", "connecting", "connected", "failed", "closed"}]
    BY <1>1, <1>2 DEF ConnectorInv, TypeOK
  <2>3. alive' \subseteq {Itself} \cup {TimerOf(b) : b \in 1..begun'}
                                \cup {SocketOf(b) : b \in 1..begun'}
    <3>1. \A b \in 1..begun : b \in 1..begun'
      BY <1>1, <1>2
    <3> QED BY <1>1, <1>2, <3>1 DEF ConnectorInv, TypeOK
  <2>4. broken' \subseteq AllRules
    BY <1>1 DEF ConnectorInv, TypeOK, BrokenBy
  <2> QED BY <1>1, <2>1, <2>2, <2>3, <2>4 DEF ConnectorInv, TypeOK
<1>5. OpenInv'
  <2>1. a # 0 /\ \A b \in Attempts : b > a => b > begun /\ b # a
    BY <1>1, <1>2 DEF Attempts
  <2>2. ~Has(ready, Opens(a))
    BY <1>2 DEF ConnectorInv, OpenInv
  <2> QED BY <1>1, <1>2, <1>3, <2>1, <2>2 DEF ConnectorInv, OpenInv
<1>6. TimerInv'
  BY <1>1, <1>2, <1>3 DEF ConnectorInv, TimerInv
<1>7. DeleteInv' /\ OnceInv'
  BY <1>1, <1>2, <1>3 DEF ConnectorInv, DeleteInv, OnceInv, Follows
<1>8. WaitInv'
  BY <1>1, <1>2, <1>3
  DEF ConnectorInv, WaitInv, InFlight, Follows, BrokenBy, AllRules
<1>9. ConnectInv'
  BY <1>1, <1>2, <1>3
  DEF ConnectorInv, OpenInv, ConnectInv, InFlight, Follows, BrokenBy, AllRules, Attempts
<1>10. LifeInv'
  BY <1>1 DEF ConnectorInv, LifeInv, Follows, BrokenBy, AllRules
<1>11. PendingIsCurrent'
  BY <1>1, <1>2, <1>3, SMTT(30)
  DEF ConnectorInv, PendingIsCurrent, InFlight, BrokenBy, AllRules
<1> QED BY <1>1, <1>4, <1>5, <1>6, <1>7, <1>8, <1>9, <1>10, <1>11 DEF ConnectorInv

LEMMA DeleteLaterStep ==
  ASSUME ConnectorInv, DeleteLater PROVE ConnectorInv'
<1>1. /\ Itself \in alive /\ ~fault /\ ~deleting
      /\ broken' = IF pending # 0 THEN broken \cup {"deleteIdle"} ELSE broken
      /\ deleting' = TRUE
      /\ ready' = Append(ready, Deletion(Itself))
      /\ UNCHANGED <<pending, begun, sock, waiting, running, alive, cancelled,
                     answers, fault>>
  BY DEF DeleteLater, MayCall, Breaks
<1>2. /\ ready' \in Seq(Entries)
      /\ \A P : Has(ready', P) <=> (Has(ready, P) \/ Deletion(Itself) \in P)
      /\ \A P, Q : Never(ready', P, Q)
                     <=> (Never(ready, P, Q) /\ ~(Has(ready, P) /\ Deletion(Itself) \in Q))
      /\ \A y : Deletion(Itself) \in Deletes(y) <=> Itself = y
      /\ \A b : Deletion(Itself) \notin Opens(b) /\ Deletion(Itself) \notin Firings(b)
  BY <1>1, AppendQueue, EntryFacts, ObjectFacts DEF ConnectorInv
<1>3. TypeOK'
  BY <1>1 DEF ConnectorInv, TypeOK, AllRules
<1>4. OpenInv' /\ TimerInv' /\ DeleteInv'
  BY <1>1, <1>2, ObjectFacts DEF ConnectorInv, OpenInv, TimerInv, DeleteInv
<1>5. OnceInv'
  BY <1>1, <1>2 DEF ConnectorInv, DeleteInv, OnceInv, Follows
<1>6. WaitInv' /\ ConnectInv' /\ PendingIsCurrent'
  BY <1>1 DEF ConnectorInv, WaitInv, ConnectInv, PendingIsCurrent, InFlight, Follows
<1>7. LifeInv'
  BY <1>1, <1>2 DEF ConnectorInv, LifeInv, Follows
<1> QED BY <1>2, <1>3, <1>4, <1>5, <1>6, <1>7 DEF ConnectorInv

LEMMA DestroyStep ==
  ASSUME ConnectorInv, Destroy PROVE ConnectorInv'
<1>1. /\ Itself \in alive /\ ~fault /\ ~deleting
      /\ broken' = broken \cup {"deleteIdle"}
      /\ alive' = alive \ {Itself}
      /\ fault' = (fault \/ pending # 0)
      /\ UNCHANGED <<pending, begun, sock, waiting, running, ready, deleting,
                     cancelled, answers>>
  BY DEF Destroy, MayCall, Breaks
<1>2. TypeOK'
  BY <1>1 DEF ConnectorInv, TypeOK, AllRules
<1>3. OpenInv' /\ TimerInv' /\ DeleteInv'
  BY <1>1, ObjectFacts DEF ConnectorInv, OpenInv, TimerInv, DeleteInv
<1>4. OnceInv'
  BY <1>1 DEF ConnectorInv, DeleteInv, OnceInv, Follows
<1>5. WaitInv' /\ ConnectInv' /\ PendingIsCurrent'
  BY <1>1 DEF ConnectorInv, WaitInv, ConnectInv, PendingIsCurrent, InFlight, Follows
<1>6. LifeInv'
  BY <1>1 DEF LifeInv, Follows
<1> QED BY <1>1, <1>2, <1>3, <1>4, <1>5, <1>6 DEF ConnectorInv

LEMMA UserDeletesStep ==
  ASSUME ConnectorInv, NEW a \in Attempts, UserDeletes(a) PROVE ConnectorInv'
<1> DEFINE c == Deletion(SocketOf(a))
<1>1. /\ ~fault /\ answers[a] = <<"established">> /\ SocketOf(a) \in alive
      /\ \A i \in DOMAIN ready : ready[i] # c
      /\ ready' = Append(ready, c)
      /\ UNCHANGED <<pending, begun, sock, waiting, running, alive, deleting,
                     cancelled, answers, fault, broken>>
  BY DEF UserDeletes, HandedOut
<1>2. /\ c \in Entries /\ SocketOf(a) \in Objects
      /\ \A y : c \in Deletes(y) <=> SocketOf(a) = y
      /\ \A b : c \notin Opens(b) /\ c \notin Firings(b)
  BY EntryFacts, ObjectFacts
<1>3. ~Has(ready, Deletes(SocketOf(a)))
  <2>1. ASSUME NEW e \in Deletes(SocketOf(a)) PROVE e = c
    <3>1. /\ e \in [op : {"fired", "delete"}, what : Objects, ok : {TRUE}]
          /\ e.op = "delete" /\ e.what = SocketOf(a)
      BY <2>1 DEF Deletes, Entry, Entries
    <3>2. e = [op |-> "delete", what |-> SocketOf(a), ok |-> TRUE]
      BY <3>1
    <3> QED BY <3>2 DEF Deletion
  <2> QED BY <1>1, <2>1 DEF Has, ConnectorInv
<1> HIDE DEF c
<1>4. /\ ready' \in Seq(Entries)
      /\ \A P : Has(ready', P) <=> (Has(ready, P) \/ c \in P)
      /\ \A P, Q : Never(ready', P, Q)
                     <=> (Never(ready, P, Q) /\ ~(Has(ready, P) /\ c \in Q))
  BY <1>1, <1>2, AppendQueue DEF ConnectorInv
<1>5. TypeOK'
  BY <1>1 DEF ConnectorInv, TypeOK
<1>6. OpenInv' /\ TimerInv' /\ DeleteInv'
  <2>1. /\ c \notin Deletes(Itself)
        /\ \A b : c \notin Deletes(TimerOf(b))
        /\ \A b : a # b => c \notin Deletes(SocketOf(b))
        /\ answers[a] # <<>>
    <3>1. /\ SocketOf(a) # Itself
          /\ \A b : SocketOf(a) # TimerOf(b)
          /\ \A b : a # b => SocketOf(a) # SocketOf(b)
      BY ObjectFacts
    <3>2. answers[a] # <<>>
      BY <1>1
    <3> QED BY <1>2, <3>1, <3>2
  <2>2. OpenInv'
    BY <1>1, <1>2, <1>4 DEF ConnectorInv, OpenInv
  <2>3. TimerInv'
    BY <1>1, <1>2, <1>4, <2>1 DEF ConnectorInv, TimerInv
  <2>4. DeleteInv'
    BY <1>1, <1>4, <2>1 DEF ConnectorInv, DeleteInv
  <2> QED BY <2>2, <2>3, <2>4
<1>7. OnceInv'
  BY <1>1, <1>2, <1>3, <1>4 DEF ConnectorInv, OnceInv, Follows
<1>8. WaitInv' /\ ConnectInv' /\ PendingIsCurrent'
  BY <1>1 DEF ConnectorInv, WaitInv, ConnectInv, PendingIsCurrent, InFlight, Follows
<1>9. LifeInv'
  <2>1. \A b : /\ Has(ready', Opens(b)) => Has(ready, Opens(b))
               /\ Never(ready, Deletes(Itself), Opens(b))
                    => Never(ready', Deletes(Itself), Opens(b))
    BY <1>2, <1>4
  <2> SUFFICES ASSUME Follows({"waitForAnswer", "noOptions", "deleteIdle"})
               PROVE  LifeInv'
    BY <1>1 DEF LifeInv, Follows
  <2> QED BY <1>1, <2>1 DEF ConnectorInv, LifeInv
<1> QED BY <1>4, <1>5, <1>6, <1>7, <1>8, <1>9 DEF ConnectorInv

LEMMA ConnectDoneStep ==
  ASSUME ConnectorInv, NEW a \in Attempts, NEW ok \in BOOLEAN, ConnectDone(a, ok)
  PROVE  ConnectorInv'
<1> DEFINE c == Opened(a, ok)
<1>1. /\ sock[a] = "connecting" /\ ~fault
      /\ sock' = [sock EXCEPT ![a] = IF ok THEN "connected" ELSE "failed"]
      /\ ready' = Append(ready, c)
      /\ UNCHANGED <<pending, begun, waiting, running, alive, deleting, cancelled,
                     answers, fault, broken>>
  BY DEF ConnectDone
<1>2. /\ c \in Entries
      /\ \A b : c \in Opens(b) <=> a = b
      /\ \A b : c \notin Firings(b) /\ c \notin Deletes(b)
  BY EntryFacts
<1> HIDE DEF c
<1>3. /\ ready' \in Seq(Entries)
      /\ \A P : Has(ready', P) <=> (Has(ready, P) \/ c \in P)
      /\ \A P, Q : Never(ready', P, Q)
                     <=> (Never(ready, P, Q) /\ ~(Has(ready, P) /\ c \in Q))
  BY <1>1, <1>2, AppendQueue DEF ConnectorInv
<1>4. /\ \A b \in Attempts : b # a => sock'[b] = sock[b]
      /\ sock'[a] \in {"connected", "failed"}
      /\ answers[a] = <<>> /\ ~Has(ready, Opens(a)) /\ a <= begun
  BY <1>1 DEF ConnectorInv, TypeOK, OpenInv, Attempts
<1>5. TypeOK'
  BY <1>1 DEF ConnectorInv, TypeOK
<1>6. OpenInv'
  BY <1>1, <1>2, <1>3, <1>4 DEF ConnectorInv, OpenInv
<1>7. TimerInv' /\ DeleteInv'
  BY <1>1, <1>2, <1>3 DEF ConnectorInv, TimerInv, DeleteInv
<1>8. OnceInv'
  BY <1>1, <1>2, <1>3 DEF ConnectorInv, OnceInv, Follows
<1>9. WaitInv' /\ PendingIsCurrent'
  BY <1>1, <1>4 DEF ConnectorInv, WaitInv, PendingIsCurrent, InFlight, Follows
<1>10. ConnectInv'
  BY <1>1, <1>4 DEF ConnectorInv, ConnectInv, Follows
<1>11. LifeInv'
  <2> SUFFICES ASSUME Follows({"waitForAnswer", "noOptions", "deleteIdle"})
               PROVE  LifeInv'
    BY <1>1 DEF LifeInv, Follows
  <2>1. ~deleting /\ Itself \in alive /\ ~Has(ready, Deletes(Itself))
    BY <1>1 DEF ConnectorInv, LifeInv, ConnectInv, DeleteInv, Follows, TypeOK, Attempts
  <2> QED BY <1>1, <1>2, <1>3, <2>1 DEF ConnectorInv, LifeInv, Follows
<1> QED BY <1>3, <1>5, <1>6, <1>7, <1>8, <1>9, <1>10, <1>11 DEF ConnectorInv

LEMMA ExpireStep ==
  ASSUME ConnectorInv, NEW a \in Attempts, Expire(a) PROVE ConnectorInv'
<1> DEFINE c == Fired(a)
<1>1. /\ a \in waiting /\ ~fault
      /\ waiting' = waiting \ {a}
      /\ ready' = Append(ready, c)
      /\ UNCHANGED <<pending, begun, sock, running, alive, deleting, cancelled,
                     answers, fault, broken>>
  BY DEF Expire
<1>2. /\ c \in Entries
      /\ \A b : c \in Firings(b) <=> a = b
      /\ \A b : c \notin Opens(b) /\ c \notin Deletes(b)
  BY EntryFacts
<1> HIDE DEF c
<1>3. /\ ready' \in Seq(Entries)
      /\ \A P : Has(ready', P) <=> (Has(ready, P) \/ c \in P)
      /\ \A P, Q : Never(ready', P, Q)
                     <=> (Never(ready, P, Q) /\ ~(Has(ready, P) /\ c \in Q))
  BY <1>1, <1>2, AppendQueue DEF ConnectorInv
<1>4. /\ a \in running /\ a <= begun /\ answers[a] = <<>>
      /\ TimerOf(a) \in alive /\ ~Has(ready, Deletes(TimerOf(a)))
  <2>1. a \in running /\ a <= begun
    BY <1>1 DEF ConnectorInv, TypeOK
  <2> QED BY <2>1 DEF ConnectorInv, TimerInv, DeleteInv
<1>5. TypeOK'
  BY <1>1 DEF ConnectorInv, TypeOK
<1>6. OpenInv' /\ DeleteInv'
  BY <1>1, <1>2, <1>3 DEF ConnectorInv, OpenInv, DeleteInv
<1>7. TimerInv'
  BY <1>1, <1>2, <1>3, <1>4 DEF ConnectorInv, TimerInv
<1>8. OnceInv'
  BY <1>1, <1>2, <1>3 DEF ConnectorInv, OnceInv, Follows
<1>9. WaitInv' /\ ConnectInv' /\ PendingIsCurrent'
  BY <1>1 DEF ConnectorInv, WaitInv, ConnectInv, PendingIsCurrent, InFlight, Follows
<1>10. LifeInv'
  BY <1>1, <1>2, <1>3 DEF ConnectorInv, LifeInv, Follows
<1> QED BY <1>3, <1>5, <1>6, <1>7, <1>8, <1>9, <1>10 DEF ConnectorInv

LEMMA DeleteStep ==
  ASSUME ConnectorInv, NEW what \in Objects, Delete(what) PROVE ConnectorInv'
<1>1. /\ ready # <<>> /\ ~fault /\ Runs("delete", what)
      /\ ready' = Tail(ready)
      /\ alive' = alive \ {what}
      /\ waiting' = {a \in waiting : TimerOf(a) # what}
      /\ fault' = (fault \/ what \notin alive \/ (what = Itself /\ pending # 0))
      /\ UNCHANGED <<pending, begun, sock, running, deleting, cancelled, answers,
                     broken>>
  BY DEF Delete, Runs
<1>2. /\ Head(ready) \in Deletes(what)
      /\ \A y : y # what => Head(ready) \notin Deletes(y)
      /\ \A b : Head(ready) \notin Opens(b) /\ Head(ready) \notin Firings(b)
  BY <1>1, RunsFacts DEF ConnectorInv, Deletes, Opens, Firings
<1>3. /\ ready' \in Seq(Entries)
      /\ \A P : Has(ready, P) <=> (Head(ready) \in P \/ Has(ready', P))
      /\ \A P, Q : Never(ready, P, Q)
                     <=> (/\ Never(ready', P, Q)
                          /\ ~(Head(ready) \in P /\ Has(ready', Q)))
  BY <1>1, TailQueue DEF ConnectorInv
<1>4. TypeOK'
  BY <1>1 DEF ConnectorInv, TypeOK
<1>5. OpenInv'
  BY <1>1, <1>2, <1>3 DEF ConnectorInv, OpenInv
<1>6. TimerInv'
  BY <1>1, <1>2, <1>3 DEF ConnectorInv, TimerInv
<1>7. DeleteInv'
  BY <1>1, <1>2, <1>3, ObjectFacts DEF ConnectorInv, DeleteInv
<1>8. OnceInv'
  BY <1>1, <1>2, <1>3 DEF ConnectorInv, OnceInv, Follows
<1>9. WaitInv' /\ ConnectInv' /\ PendingIsCurrent'
  BY <1>1 DEF ConnectorInv, WaitInv, ConnectInv, PendingIsCurrent, InFlight, Follows
<1>10. LifeInv'
  <2> SUFFICES ASSUME Follows({"waitForAnswer", "noOptions", "deleteIdle"})
               PROVE  LifeInv'
    BY <1>1 DEF LifeInv, Follows
  <2>1. what \in alive
    BY <1>2, <1>3 DEF ConnectorInv, OnceInv, Follows
  <2>2. what = Itself => deleting /\ pending = 0
    BY <1>2, <1>3 DEF ConnectorInv, DeleteInv, LifeInv
  <2> QED BY <1>1, <1>2, <1>3, <2>1, <2>2 DEF ConnectorInv, LifeInv, Follows
<1> QED BY <1>3, <1>4, <1>5, <1>6, <1>7, <1>8, <1>9, <1>10 DEF ConnectorInv

\* A socket is closed by its user or its deadline; `rest` is what stays
\* queued of the loop's queue.
LEMMA ClosedStep ==
  ASSUME ConnectorInv, NEW a \in Attempts, NEW rest \in Seq(Entries),
         \A P : Has(rest, P) => Has(ready, P),
         \A P, Q : Never(ready, P, Q) => Never(rest, P, Q),
         Closed(a, rest),
         pending' = pending \/ (pending = a /\ pending' = 0),
         running' \subseteq running, waiting' = waiting,
         UNCHANGED <<begun, alive, deleting, answers, broken>>,
         Follows({"waitForAnswer", "noOptions", "deleteIdle"}) => ~fault'
  PROVE  /\ ready' \in Seq(Entries)
         /\ sock' \in [Attempts -> {"unopened", "connecting", "connected", "failed", "closed"}]
         /\ \A b \in Attempts : InFlight(b)' <=> InFlight(b)
         /\ OpenInv' /\ TimerInv' /\ DeleteInv' /\ OnceInv' /\ WaitInv'
         /\ ConnectInv' /\ LifeInv'
<1> DEFINE c == Opened(a, FALSE)
<1>1. /\ sock' = [sock EXCEPT ![a] = IF @ = "unopened" THEN @ ELSE "closed"]
      /\ ready' = IF sock[a] = "connecting" THEN Append(rest, c) ELSE rest
  BY DEF Closed
<1>2. /\ c \in Entries
      /\ \A b : c \in Opens(b) <=> a = b
      /\ \A b : c \notin Firings(b) /\ c \notin Deletes(b)
  BY EntryFacts
<1> HIDE DEF c
<1>3. /\ ready' \in Seq(Entries)
      /\ \A P : Has(ready', P)
                  => (Has(ready, P) \/ (sock[a] = "connecting" /\ c \in P))
      /\ \A P, Q : (/\ Never(ready, P, Q)
                    /\ ~(Has(ready, P) /\ sock[a] = "connecting" /\ c \in Q))
                     => Never(ready', P, Q)
  <2>1. CASE sock[a] = "connecting"
    <3>1. ready' = Append(rest, c)
      BY <1>1, <2>1
    <3>2. /\ ready' \in Seq(Entries)
          /\ \A P : Has(ready', P) <=> (Has(rest, P) \/ c \in P)
          /\ \A P, Q : Never(ready', P, Q)
                         <=> (Never(rest, P, Q) /\ ~(Has(rest, P) /\ c \in Q))
      BY <1>2, <3>1, AppendQueue
    <3> QED BY <2>1, <3>2
  <2>2. CASE sock[a] # "connecting"
    BY <1>1, <2>2
  <2> QED BY <2>1, <2>2
<1>4. /\ sock' \in [Attempts -> {"unopened", "connecting", "connected", "failed", "closed"}]
      /\ \A b \in Attempts : b # a => sock'[b] = sock[b]
      /\ sock'[a] # "connecting"
      /\ sock'[a] = "unopened" <=> sock[a] = "unopened"
  BY <1>1 DEF ConnectorInv, TypeOK
<1>5. \A b \in Attempts : InFlight(b)' <=> InFlight(b)
  BY <1>4 DEF InFlight
<1>6. pending' = pending \/ pending' = 0
  OBVIOUS
<1>7. OpenInv'
  <2> SUFFICES ASSUME NEW b \in Attempts
               PROVE  /\ Has(ready', Opens(b)) =>
                           /\ sock'[b] \notin {"unopened", "connecting"}
                           /\ answers[b] = <<>>
                      /\ Never(ready', Opens(b), Opens(b))
                      /\ sock'[b] = "connecting" => answers[b] = <<>>
                      /\ b > begun => sock'[b] = "unopened" /\ answers[b] = <<>>
                      /\ pending' = b => answers[b] = <<>>
    BY DEF OpenInv
  <2>1. /\ Has(ready, Opens(b)) =>
             sock[b] \notin {"unopened", "connecting"} /\ answers[b] = <<>>
        /\ Never(ready, Opens(b), Opens(b))
        /\ sock[b] = "connecting" => answers[b] = <<>>
        /\ b > begun => sock[b] = "unopened" /\ answers[b] = <<>>
        /\ pending = b => answers[b] = <<>>
    BY DEF ConnectorInv, OpenInv
  <2>2. b = 0 => FALSE
    BY ConnectorAssumption DEF Attempts
  <2>3. CASE b = a
    BY <1>2, <1>3, <1>4, <1>6, <2>1, <2>2, <2>3
  <2>4. CASE b # a
    BY <1>2, <1>3, <1>4, <1>6, <2>1, <2>2, <2>4
  <2> QED BY <2>3, <2>4
<1>8. TimerInv'
  BY <1>2, <1>3 DEF ConnectorInv, TimerInv
<1>9. DeleteInv'
  BY <1>2, <1>3 DEF ConnectorInv, DeleteInv
<1>10. OnceInv'
  BY <1>2, <1>3 DEF ConnectorInv, OnceInv, Follows
<1>11. WaitInv'
  BY <1>5 DEF ConnectorInv, WaitInv, Follows
<1>12. ConnectInv'
  BY <1>4 DEF ConnectorInv, ConnectInv, Follows
<1>13. LifeInv'
  <2> SUFFICES ASSUME Follows({"waitForAnswer", "noOptions", "deleteIdle"})
               PROVE  LifeInv'
    BY DEF LifeInv, Follows
  <2>1. sock[a] = "connecting" =>
          ~deleting /\ Itself \in alive /\ ~Has(ready, Deletes(Itself))
    <3>1. a # 0
      BY ConnectorAssumption DEF Attempts
    <3> QED BY <3>1 DEF ConnectorInv, LifeInv, ConnectInv, DeleteInv, Follows
  <2> QED BY <1>2, <1>3, <1>6, <2>1 DEF ConnectorInv, LifeInv, Follows
<1> QED BY <1>3, <1>4, <1>5, <1>7, <1>8, <1>9, <1>10, <1>11, <1>12, <1>13

LEMMA CancelConnectStep ==
  ASSUME ConnectorInv, CancelConnect PROVE ConnectorInv'
<1>1. /\ ~fault /\ pending # 0 /\ pending' = 0
      /\ Closed(pending, ready)
      /\ cancelled' = cancelled \cup {pending}
      /\ UNCHANGED <<begun, waiting, running, alive, deleting, answers, fault, broken>>
  BY DEF CancelConnect, MayCall
<1>2. pending \in Attempts /\ pending \in 1..begun /\ ready \in Seq(Entries)
  BY <1>1, ConnectorAssumption DEF ConnectorInv, TypeOK, Attempts
<1>3. Follows({"waitForAnswer", "noOptions", "deleteIdle"}) => ~fault'
  BY <1>1
<1>4. /\ ready' \in Seq(Entries)
      /\ sock' \in [Attempts -> {"unopened", "connecting", "connected", "failed", "closed"}]
      /\ \A b \in Attempts : InFlight(b)' <=> InFlight(b)
      /\ OpenInv' /\ TimerInv' /\ DeleteInv' /\ OnceInv' /\ WaitInv'
      /\ ConnectInv' /\ LifeInv'
  BY <1>1, <1>2, <1>3, ClosedStep
<1>5. TypeOK'
  BY <1>1, <1>2, <1>4, SMTT(30) DEF ConnectorInv, TypeOK
<1>6. PendingIsCurrent'
  <2>1. \A b \in Attempts : b # 0
    BY ConnectorAssumption DEF Attempts
  <2> QED BY <1>1, <1>4, <2>1 DEF ConnectorInv, PendingIsCurrent
<1> QED BY <1>4, <1>5, <1>6 DEF ConnectorInv

LEMMA HandleFiredStep ==
  ASSUME ConnectorInv, NEW a \in Attempts, HandleFired(a) PROVE ConnectorInv'
<1>1. /\ ready # <<>> /\ ~fault /\ Runs("fired", TimerOf(a))
      /\ running' = running \ {a}
      /\ IF a \in running THEN Closed(a, Tail(ready))
                          ELSE ready' = Tail(ready) /\ sock' = sock
      /\ fault' = (fault \/ TimerOf(a) \notin alive
                         \/ (a \in running /\ SocketOf(a) \notin alive))
      /\ UNCHANGED <<pending, begun, waiting, alive, deleting, cancelled, answers, broken>>
  BY DEF HandleFired, Runs
<1>2. Head(ready) \in Firings(a)
  BY <1>1, RunsFacts DEF ConnectorInv, Firings
<1>3. /\ Tail(ready) \in Seq(Entries)
      /\ \A P : Has(ready, P) <=> (Head(ready) \in P \/ Has(Tail(ready), P))
      /\ \A P, Q : Never(ready, P, Q)
                     <=> (/\ Never(Tail(ready), P, Q)
                          /\ ~(Head(ready) \in P /\ Has(Tail(ready), Q)))
  BY <1>1, TailQueue DEF ConnectorInv
<1>4. /\ Has(ready, Firings(a)) /\ a \notin waiting
      /\ TimerOf(a) \in alive /\ a <= begun
      /\ a \in running => SocketOf(a) \in alive
  <2>1. Has(ready, Firings(a))
    BY <1>2, <1>3
  <2> QED BY <2>1 DEF ConnectorInv, TimerInv, DeleteInv
<1>5. ~fault' /\ waiting' \subseteq running'
  BY <1>1, <1>4 DEF ConnectorInv, TypeOK
<1>6. CASE a \in running
  <2>1. Closed(a, Tail(ready))
    BY <1>1, <1>6
  <2>2. running' \subseteq running /\ waiting' = waiting /\ pending' = pending
    BY <1>1
  <2>3. UNCHANGED <<begun, alive, deleting, answers, broken>>
    BY <1>1
  <2>4. /\ ready' \in Seq(Entries)
        /\ sock' \in [Attempts -> {"unopened", "connecting", "connected", "failed", "closed"}]
        /\ \A b \in Attempts : InFlight(b)' <=> InFlight(b)
        /\ OpenInv' /\ TimerInv' /\ DeleteInv' /\ OnceInv' /\ WaitInv'
        /\ ConnectInv' /\ LifeInv'
    BY <1>3, <1>5, <2>1, <2>2, <2>3, ClosedStep
  <2>5. TypeOK'
    BY <1>1, <1>5, <2>4 DEF ConnectorInv, TypeOK
  <2>6. PendingIsCurrent'
    BY <1>1, <2>4 DEF ConnectorInv, PendingIsCurrent
  <2> QED BY <2>4, <2>5, <2>6 DEF ConnectorInv
<1>7. CASE a \notin running
  <2>1. ready' = Tail(ready) /\ sock' = sock /\ running' = running
    BY <1>1, <1>7
  <2>2. TypeOK'
    BY <1>1, <1>5, <2>1 DEF ConnectorInv, TypeOK
  <2>3. OpenInv' /\ TimerInv' /\ DeleteInv'
    BY <1>1, <1>3, <2>1 DEF ConnectorInv, OpenInv, TimerInv, DeleteInv
  <2>4. OnceInv' /\ LifeInv'
    BY <1>1, <1>3, <1>5, <2>1 DEF ConnectorInv, OnceInv, LifeInv, Follows
  <2>5. WaitInv' /\ ConnectInv' /\ PendingIsCurrent'
    BY <1>1, <2>1
    DEF ConnectorInv, WaitInv, ConnectInv, PendingIsCurrent, InFlight, Follows
  <2> QED BY <1>3, <2>1, <2>2, <2>3, <2>4, <2>5 DEF ConnectorInv
<1> QED BY <1>6, <1>7

LEMMA DeletionsQueue ==
  ASSUME NEW a \in Attempts, NEW signal, NEW rest \in Seq(Entries)
  PROVE  /\ rest \o Deletions(a, signal) \in Seq(Entries)
         /\ \A P : Has(rest \o Deletions(a, signal), P) =>
              \/ Has(rest, P)
              \/ Deletion(TimerOf(a)) \in P
              \/ Deletion(SocketOf(a)) \in P
         /\ \A P, Q :
              /\ Never(rest, P, Q)
              /\ Has(rest, P) => /\ Deletion(TimerOf(a)) \notin Q
                                  /\ Deletion(SocketOf(a)) \notin Q
              /\ ~(Deletion(TimerOf(a)) \in P /\ Deletion(SocketOf(a)) \in Q)
              => Never(rest \o Deletions(a, signal), P, Q)
<1> DEFINE t == Deletion(TimerOf(a))
           c == Deletion(SocketOf(a))
           one == Append(rest, t)
           two == Append(one, c)
<1>1. t \in Entries /\ c \in Entries
  BY EntryFacts, ObjectFacts
<1> HIDE DEF t, c
<1>2. /\ one \in Seq(Entries)
      /\ \A P : Has(one, P) <=> (Has(rest, P) \/ t \in P)
      /\ \A P, Q : Never(one, P, Q)
                     <=> (Never(rest, P, Q) /\ ~(Has(rest, P) /\ t \in Q))
  BY <1>1, AppendQueue
<1>3. two = rest \o <<t, c>> /\ one = rest \o <<t>>
  BY <1>1
<1> HIDE DEF one
<1>4. /\ two \in Seq(Entries)
      /\ \A P : Has(two, P) <=> (Has(one, P) \/ c \in P)
      /\ \A P, Q : Never(two, P, Q)
                     <=> (Never(one, P, Q) /\ ~(Has(one, P) /\ c \in Q))
  BY <1>1, <1>2, AppendQueue
<1> HIDE DEF two
<1>5. \/ rest \o Deletions(a, signal) = one
      \/ rest \o Deletions(a, signal) = two
  BY <1>3 DEF Deletions, t, c
<1> DEFINE r == rest \o Deletions(a, signal)
<1>6. /\ r \in Seq(Entries)
      /\ \A P : Has(r, P) => Has(rest, P) \/ t \in P \/ c \in P
      /\ \A P, Q :
           /\ Never(rest, P, Q)
           /\ Has(rest, P) => t \notin Q /\ c \notin Q
           /\ ~(t \in P /\ c \in Q)
           => Never(r, P, Q)
  <2> HIDE DEF r
  <2>1. r = one \/ r = two
    BY <1>5 DEF r
  <2>2. CASE r = one
    BY <1>2, <2>2
  <2>3. CASE r = two
    BY <1>2, <1>4, <2>3
  <2> QED BY <2>1, <2>2, <2>3
<1> QED BY <1>6 DEF t, c

\* An attempt is answered.
LEMMA SlotStep ==
  ASSUME ConnectorInv, NEW a \in Attempts, NEW rest \in Seq(Entries),
         NEW signal \in Signals,
         \A P : Has(rest, P) => Has(ready, P),
         \A P, Q : Never(ready, P, Q) => Never(rest, P, Q),
         ~Has(rest, Opens(a)),
         Slot(a, signal, rest),
         a <= begun,
         "noOptions" \notin broken' => InFlight(a),
         sock' \in [Attempts -> {"unopened", "connecting", "connected", "failed", "closed"}],
         \A b \in Attempts : b # a => sock'[b] = sock[b],
         sock'[a] # "connecting",
         UNCHANGED <<begun, alive, deleting, cancelled>>,
         broken \subseteq broken', broken' \subseteq AllRules,
         broken' \cap {"waitForAnswer", "noOptions", "deleteIdle"} = {} => ~fault'
  PROVE  ConnectorInv'
<1> DEFINE t == Deletion(TimerOf(a))
           c == Deletion(SocketOf(a))
<1>1. /\ fault' = (fault \/ ~({Itself, TimerOf(a)} \subseteq alive))
      /\ pending' = 0
      /\ running' = running \ {a} /\ waiting' = waiting \ {a}
      /\ answers' = [answers EXCEPT ![a] = Append(@, signal)]
      /\ ready' = rest \o Deletions(a, signal)
  BY DEF Slot, Signalled
<1>2. /\ \A b : t \notin Opens(b) /\ t \notin Firings(b)
      /\ \A b : c \notin Opens(b) /\ c \notin Firings(b)
      /\ \A y : t \in Deletes(y) <=> y = TimerOf(a)
      /\ \A y : c \in Deletes(y) <=> y = SocketOf(a)
      /\ TimerOf(a) \in Objects /\ SocketOf(a) \in Objects
      /\ TimerOf(a) # Itself /\ SocketOf(a) # Itself
      /\ \A b : TimerOf(a) # SocketOf(b) /\ SocketOf(a) # TimerOf(b)
      /\ \A b : a # b => TimerOf(a) # TimerOf(b) /\ SocketOf(a) # SocketOf(b)
  BY EntryFacts, ObjectFacts
<1> HIDE DEF t, c
<1>3. /\ ready' \in Seq(Entries)
      /\ \A P : Has(ready', P) => Has(rest, P) \/ t \in P \/ c \in P
      /\ \A P, Q :
           /\ Never(rest, P, Q)
           /\ Has(rest, P) => t \notin Q /\ c \notin Q
           /\ ~(t \in P /\ c \in Q)
           => Never(ready', P, Q)
  BY <1>1, DeletionsQueue DEF t, c
<1>4. /\ answers \in [Attempts -> Seq(Signals)]
      /\ answers' \in [Attempts -> Seq(Signals)]
      /\ \A b \in Attempts : b # a => answers'[b] = answers[b]
      /\ answers'[a] # <<>>
      /\ Len(answers'[a]) = Len(answers[a]) + 1
  BY <1>1, SMTT(30) DEF ConnectorInv, TypeOK
<1>5. "noOptions" \notin broken' => answers[a] = <<>>
  BY DEF InFlight
<1>6. TypeOK'
  <2>1. pending' \in 0..begun' /\ fault' \in BOOLEAN
    BY <1>1 DEF ConnectorInv, TypeOK
  <2>2. waiting' \subseteq running' /\ running' \subseteq 1..begun'
    BY <1>1 DEF ConnectorInv, TypeOK
  <2> QED BY <1>4, <2>1, <2>2 DEF ConnectorInv, TypeOK
<1>7. OpenInv'
  <2>1. \A b \in Attempts : b # 0
    BY ConnectorAssumption DEF Attempts
  <2>2. /\ \A b : Has(ready', Opens(b)) => Has(ready, Opens(b)) /\ b # a
        /\ \A b : Never(ready, Opens(b), Opens(b)) => Never(ready', Opens(b), Opens(b))
    BY <1>2, <1>3
  <2>3. ~(a > begun)
    BY DEF ConnectorInv, TypeOK, Attempts
  <2> QED BY <1>1, <1>4, <2>1, <2>2, <2>3 DEF ConnectorInv, OpenInv
<1>8. TimerInv'
  <2>1. /\ \A b : Has(ready', Firings(b)) => Has(ready, Firings(b))
        /\ \A b : Never(ready, Deletes(TimerOf(b)), Firings(b))
                    => Never(ready', Deletes(TimerOf(b)), Firings(b))
    BY <1>2, <1>3
  <2> QED BY <1>1, <1>4, <2>1 DEF ConnectorInv, TimerInv
<1>9. DeleteInv'
  <2>1. /\ \A b : a # b =>
             /\ Has(ready', Deletes(TimerOf(b))) => Has(ready, Deletes(TimerOf(b)))
             /\ Has(ready', Deletes(SocketOf(b))) => Has(ready, Deletes(SocketOf(b)))
        /\ Has(ready', Deletes(Itself)) => Has(ready, Deletes(Itself))
    BY <1>2, <1>3
  <2> QED BY <1>4, <2>1 DEF ConnectorInv, DeleteInv
<1>10. OnceInv'
  <2> SUFFICES ASSUME "noOptions" \notin broken' PROVE OnceInv'
    BY DEF OnceInv, Follows
  <2>1. /\ answers[a] = <<>>
        /\ ~Has(ready, Deletes(TimerOf(a))) /\ ~Has(ready, Deletes(SocketOf(a)))
        /\ TimerOf(a) \in alive /\ SocketOf(a) \in alive
    BY <1>5 DEF ConnectorInv, DeleteInv
  <2>2. /\ \A b \in Attempts : Len(answers[b]) <= 1
        /\ \A x \in Objects : /\ Never(ready, Deletes(x), Deletes(x))
                              /\ Has(ready, Deletes(x)) => x \in alive
    BY DEF ConnectorInv, OnceInv, Follows
  <2>3. \A b \in Attempts : Len(answers'[b]) <= 1
    <3>1. Len(answers'[a]) = 1
      BY <1>4, <2>1
    <3> QED BY <1>4, <2>2, <3>1
  <2>4. ASSUME NEW x \in Objects
        PROVE  /\ Never(ready', Deletes(x), Deletes(x))
               /\ Has(ready', Deletes(x)) => x \in alive
    BY <1>2, <1>3, <2>1, <2>2
  <2> QED BY <2>3, <2>4 DEF OnceInv
<1>11. \A b \in Attempts : InFlight(b)' => InFlight(b) /\ b # a
  BY <1>4 DEF InFlight
<1>12. WaitInv'
  BY <1>11 DEF ConnectorInv, WaitInv, Follows
<1>13. ConnectInv'
  <2> SUFFICES ASSUME broken' \cap {"waitForAnswer", "noOptions"} = {},
                      NEW b \in Attempts, sock'[b] = "connecting"
               PROVE  FALSE
    BY DEF ConnectInv, Follows
  <2>1. b # a /\ sock[b] = "connecting" /\ InFlight(b)
    BY DEF ConnectorInv, OpenInv, InFlight, TypeOK, Attempts
  <2> QED BY <2>1 DEF ConnectorInv, WaitInv, Follows
<1>14. LifeInv'
  <2>1. /\ \A b : Has(ready', Opens(b)) => Has(ready, Opens(b))
        /\ \A b : Never(ready, Deletes(Itself), Opens(b))
                    => Never(ready', Deletes(Itself), Opens(b))
    BY <1>2, <1>3
  <2> QED BY <1>1, <2>1 DEF ConnectorInv, LifeInv, Follows
<1>15. PendingIsCurrent'
  <2> SUFFICES ASSUME broken' \cap {"goodAddress", "waitForAnswer", "noOptions"} = {},
                      NEW b \in Attempts
               PROVE  ~InFlight(b)' /\ b # 0
    BY <1>1 DEF PendingIsCurrent
  <2>1. b # 0
    BY ConnectorAssumption DEF Attempts
  <2> QED BY <1>11, <2>1 DEF ConnectorInv, WaitInv, Follows
<1> QED BY <1>3, <1>6, <1>7, <1>8, <1>9, <1>10, <1>12, <1>13, <1>14, <1>15
        DEF ConnectorInv

LEMMA HandleOpenStep ==
  ASSUME ConnectorInv, NEW a \in Attempts, HandleOpen(a) PROVE ConnectorInv'
<1> DEFINE signal == IF Head(ready).ok THEN "established" ELSE "error"
<1>1. /\ ready # <<>> /\ ~fault /\ Runs("open", SocketOf(a))
      /\ Slot(a, signal, Tail(ready))
      /\ sock' = [sock EXCEPT ![a] = IF Head(ready).ok THEN @ ELSE "closed"]
      /\ UNCHANGED <<begun, alive, deleting, cancelled, broken>>
  BY DEF HandleOpen, Runs
<1>2. signal \in Signals
  BY DEF Signals
<1> HIDE DEF signal
<1>3. Head(ready) \in Opens(a)
  BY <1>1, RunsFacts DEF ConnectorInv, Opens
<1>4. /\ Tail(ready) \in Seq(Entries)
      /\ \A P : Has(ready, P) <=> (Head(ready) \in P \/ Has(Tail(ready), P))
      /\ \A P, Q : Never(ready, P, Q)
                     <=> (/\ Never(Tail(ready), P, Q)
                          /\ ~(Head(ready) \in P /\ Has(Tail(ready), Q)))
  BY <1>1, TailQueue DEF ConnectorInv
<1>5. /\ Has(ready, Opens(a)) /\ ~Has(Tail(ready), Opens(a))
      /\ sock[a] \notin {"unopened", "connecting"} /\ answers[a] = <<>>
      /\ a <= begun
  BY <1>3, <1>4 DEF ConnectorInv, OpenInv, TypeOK, Attempts
<1>6. /\ sock' \in [Attempts -> {"unopened", "connecting", "connected", "failed", "closed"}]
      /\ \A b \in Attempts : b # a => sock'[b] = sock[b]
      /\ sock'[a] # "connecting"
  BY <1>1, <1>5 DEF ConnectorInv, TypeOK
<1>7. InFlight(a)
  BY <1>5 DEF InFlight
<1>8. broken' \cap {"waitForAnswer", "noOptions", "deleteIdle"} = {} => ~fault'
  <2>1. TimerOf(a) \in alive
    BY <1>5 DEF ConnectorInv, DeleteInv
  <2>2. broken' \cap {"waitForAnswer", "noOptions", "deleteIdle"} = {} => Itself \in alive
    BY <1>1, <1>5 DEF ConnectorInv, LifeInv, Follows
  <2> QED BY <1>1, <2>1, <2>2 DEF Slot
<1>9. UNCHANGED <<begun, alive, deleting, cancelled>>
      /\ broken \subseteq broken' /\ broken' \subseteq AllRules
  BY <1>1 DEF ConnectorInv, TypeOK
<1>10. /\ \A P : Has(Tail(ready), P) => Has(ready, P)
       /\ \A P, Q : Never(ready, P, Q) => Never(Tail(ready), P, Q)
  BY <1>4
<1> QED BY <1>1, <1>2, <1>4, <1>5, <1>6, <1>7, <1>8, <1>9, <1>10, SlotStep

LEMMA OptionFailsStep ==
  ASSUME ConnectorInv, NEW a \in Attempts, OptionFails(a) PROVE ConnectorInv'
<1>1. /\ answers[a] = <<"established">>
      /\ broken' = broken \cup {"noOptions"}
      /\ Slot(a, "optionError", ready)
      /\ UNCHANGED <<begun, sock, alive, deleting, cancelled>>
  BY DEF OptionFails, HandedOut, Breaks
<1>2. /\ "optionError" \in Signals /\ ready \in Seq(Entries)
      /\ broken \subseteq broken' /\ broken' \subseteq AllRules /\ "noOptions" \in broken'
  BY <1>1 DEF ConnectorInv, TypeOK, Signals, AllRules
<1>3. answers[a] # <<>>
  BY <1>1
<1>4. ~Has(ready, Opens(a)) /\ sock[a] # "connecting" /\ a <= begun
  BY <1>3 DEF ConnectorInv, OpenInv, TypeOK, Attempts
<1>5. sock' \in [Attempts -> {"unopened", "connecting", "connected", "failed", "closed"}]
  BY <1>1 DEF ConnectorInv, TypeOK
<1>6. broken' \cap {"waitForAnswer", "noOptions", "deleteIdle"} = {} => ~fault'
  BY <1>2
<1> QED BY <1>1, <1>2, <1>4, <1>5, <1>6, SlotStep

LEMMA ConnectorNext == ASSUME ConnectorInv, [Next]_vars PROVE ConnectorInv'
<1>1. CASE User
  BY <1>1, ConnectToHostStep, CancelConnectStep, DeleteLaterStep, DestroyStep,
     UserDeletesStep, OptionFailsStep DEF User
<1>2. CASE Loop
  <2>1. ASSUME NEW what \in Objects, Delete(what) PROVE ConnectorInv'
    BY <2>1, DeleteStep
  <2> QED BY <1>2, <2>1, HandleOpenStep, HandleFiredStep, ObjectFacts DEF Loop
<1>3. CASE \E a \in Attempts : Expire(a) \/ \E ok \in BOOLEAN : ConnectDone(a, ok)
  BY <1>3, ExpireStep, ConnectDoneStep
<1>4. CASE UNCHANGED vars
  BY <1>4
  DEF vars, ConnectorInv, TypeOK, OpenInv, TimerInv, DeleteInv, OnceInv, WaitInv,
      ConnectInv, LifeInv, PendingIsCurrent, InFlight, Follows
<1> QED BY <1>1, <1>2, <1>3, <1>4 DEF Next

LEMMA ConnectorInductive == Spec => []ConnectorInv
<1>1. ConnectorInv /\ [Next]_vars => ConnectorInv'
  BY ConnectorNext
<1> QED BY <1>1, ConnectorInit, PTL DEF Spec

\* For any number of attempts: the connector answers each attempt once at
\* most, its `pending` is the attempt under way, and none of its slots uses an
\* object that was deleted, as long as the user keeps the rules each of these
\* rests on.
THEOREM ConnectorSafety == Spec => []AttemptsAnswered
<1>1. ConnectorInv => AttemptsAnswered
  <2> SUFFICES ASSUME ConnectorInv PROVE AttemptsAnswered
    OBVIOUS
  <2>1. NoFault
    BY DEF ConnectorInv, LifeInv, Follows, NoFault, TypeOK, AllRules
  <2>2. AnsweredOnce
    BY DEF ConnectorInv, OnceInv, Follows, AnsweredOnce, TypeOK
  <2> QED BY <2>1, <2>2 DEF ConnectorInv, AttemptsAnswered
<1> QED BY <1>1, ConnectorInductive, PTL

\* A socket that was handed out is not touched again by the deadline, a cancel
\* or an answer, though the timer and the connects of other attempts go on.
THEOREM EstablishedSafety == Spec => KeepsEstablished
<1>1. ASSUME ConnectorInv, [Next]_vars
      PROVE  [\A a \in Attempts : answers[a] = <<"established">> => sock'[a] = sock[a]]_vars
  <2> SUFFICES ASSUME NEW a \in Attempts, answers[a] = <<"established">>, Next
               PROVE  sock'[a] = sock[a]
    BY <1>1
  <2>1. /\ answers[a] # <<>> /\ pending # a /\ a \notin running
        /\ sock[a] # "connecting" /\ ~Has(ready, Opens(a))
        /\ ~(a > begun) /\ sock \in [Attempts -> {"unopened", "connecting",
                                                  "connected", "failed", "closed"}]
    <3>1. answers[a] # <<>>
      OBVIOUS
    <3> QED BY <1>1, <3>1 DEF ConnectorInv, OpenInv, TimerInv, TypeOK
  <2>2. CASE User
    <3>1. ASSUME NEW good \in BOOLEAN, ConnectToHost(good) PROVE sock'[a] = sock[a]
      <4>1. begun + 1 # a
        BY <1>1, <2>1 DEF ConnectorInv, TypeOK, Attempts
      <4> QED BY <2>1, <3>1, <4>1 DEF ConnectToHost
    <3>2. CASE CancelConnect
      BY <2>1, <3>2 DEF CancelConnect, Closed
    <3> QED BY <2>2, <3>1, <3>2
            DEF User, DeleteLater, Destroy, UserDeletes, OptionFails
  <2>3. ASSUME NEW b \in Attempts, Expire(b) \/ \E ok \in BOOLEAN : ConnectDone(b, ok)
        PROVE  sock'[a] = sock[a]
    BY <2>1, <2>3 DEF Expire, ConnectDone
  <2>4. CASE Loop
    <3>1. ASSUME NEW b \in Attempts, HandleOpen(b) PROVE sock'[a] = sock[a]
      <4>1. Head(ready) \in Opens(b) /\ Has(ready, Opens(b))
        BY <1>1, <3>1, RunsFacts, TailQueue DEF HandleOpen, ConnectorInv, Opens
      <4> QED BY <2>1, <3>1, <4>1 DEF HandleOpen
    <3>2. ASSUME NEW b \in Attempts, HandleFired(b) PROVE sock'[a] = sock[a]
      BY <2>1, <3>2 DEF HandleFired, Closed
    <3> QED BY <2>4, <3>1, <3>2 DEF Loop, Delete
  <2> QED BY <2>2, <2>3, <2>4 DEF Next
<1> QED BY <1>1, ConnectorInductive, PTL DEF Spec, KeepsEstablished

-----------------------------------------------------------------------------
\* The server: what its queue holds.

Tasks == [op : {"accept", "delete"}, c : Serve!Clients, ok : BOOLEAN]

TaskOf(c)      == {t \in Tasks : t.c = c}
AcceptOf(c)    == {t \in Tasks : t.op = "accept" /\ t.c = c}
DeletionOf(c)  == {t \in Tasks : t.op = "delete" /\ t.c = c}
AcceptTasks    == {t \in Tasks : t.op = "accept"}
Successes      == {t \in Tasks : t.op = "accept" /\ t.ok}
Failures       == {t \in Tasks : t.op = "accept" /\ ~t.ok}

LEMMA TaskFacts ==
  /\ \A c \in Serve!Clients, ok \in BOOLEAN :
       /\ Serve!Accepted(c, ok) \in Tasks /\ Serve!Accepted(c, ok) \in AcceptTasks
       /\ Serve!Accepted(c, ok) \in Successes <=> ok
       /\ Serve!Accepted(c, ok) \in Failures <=> ~ok
       /\ \A b : /\ Serve!Accepted(c, ok) \in TaskOf(b) <=> b = c
                 /\ Serve!Accepted(c, ok) \in AcceptOf(b) <=> b = c
                 /\ Serve!Accepted(c, ok) \notin DeletionOf(b)
  /\ \A c \in Serve!Clients :
       /\ [op |-> "delete", c |-> c, ok |-> TRUE] \in Tasks
       /\ [op |-> "delete", c |-> c, ok |-> TRUE] \notin AcceptTasks \cup Failures \cup Successes
       /\ \A b : /\ [op |-> "delete", c |-> c, ok |-> TRUE] \in TaskOf(b) <=> b = c
                 /\ [op |-> "delete", c |-> c, ok |-> TRUE] \notin AcceptOf(b)
                 /\ [op |-> "delete", c |-> c, ok |-> TRUE] \in DeletionOf(b) <=> b = c
  /\ \A t \in Tasks :
       /\ t.c \in Serve!Clients
       /\ t \in AcceptTasks <=> t.op = "accept"
       /\ t \in Successes <=> (t.op = "accept" /\ t.ok)
       /\ t \in Failures <=> (t.op = "accept" /\ ~t.ok)
       /\ \A b : /\ t \in TaskOf(b) <=> b = t.c
                 /\ t \in AcceptOf(b) <=> (t.op = "accept" /\ b = t.c)
                 /\ t \in DeletionOf(b) <=> (t.op = "delete" /\ b = t.c)
  /\ \A b \in Serve!Clients : TaskOf(b) = AcceptOf(b) \cup DeletionOf(b)
<1> DEFINE Is(t, op, c, ok) == t \in Tasks /\ t.op = op /\ t.c = c /\ t.ok = ok
<1>1. \A c \in Serve!Clients, ok \in BOOLEAN : Is(Serve!Accepted(c, ok), "accept", c, ok)
  BY DEF Serve!Accepted, Tasks
<1>2. \A c \in Serve!Clients : Is([op |-> "delete", c |-> c, ok |-> TRUE], "delete", c, TRUE)
  BY DEF Tasks
<1>3. \A t \in Tasks : t.op \in {"accept", "delete"} /\ t.c \in Serve!Clients
  BY DEF Tasks
<1>4. \A t \in Tasks :
       /\ t \in AcceptTasks <=> t.op = "accept"
       /\ t \in Successes <=> (t.op = "accept" /\ t.ok)
       /\ t \in Failures <=> (t.op = "accept" /\ ~t.ok)
       /\ \A b : /\ t \in TaskOf(b) <=> b = t.c
                 /\ t \in AcceptOf(b) <=> (t.op = "accept" /\ b = t.c)
                 /\ t \in DeletionOf(b) <=> (t.op = "delete" /\ b = t.c)
  BY DEF TaskOf, AcceptOf, DeletionOf, AcceptTasks, Successes, Failures
<1>5. \A b \in Serve!Clients : TaskOf(b) = AcceptOf(b) \cup DeletionOf(b)
  BY <1>3 DEF TaskOf, AcceptOf, DeletionOf
<1>6. ASSUME NEW c \in Serve!Clients, NEW ok \in BOOLEAN
      PROVE  LET t == Serve!Accepted(c, ok)
             IN  /\ t \in Tasks /\ t \in AcceptTasks
                 /\ t \in Successes <=> ok
                 /\ t \in Failures <=> ~ok
                 /\ \A b : /\ t \in TaskOf(b) <=> b = c
                           /\ t \in AcceptOf(b) <=> b = c
                           /\ t \notin DeletionOf(b)
  <2> DEFINE t == Serve!Accepted(c, ok)
  <2>1. t \in Tasks /\ t.op = "accept" /\ t.c = c /\ t.ok = ok
    BY <1>1
  <2> HIDE DEF t
  <2>2. /\ t \in Tasks /\ t \in AcceptTasks
        /\ t \in Successes <=> ok
        /\ t \in Failures <=> ~ok
        /\ \A b : /\ t \in TaskOf(b) <=> b = c
                  /\ t \in AcceptOf(b) <=> b = c
                  /\ t \notin DeletionOf(b)
    BY <1>4, <2>1
  <2> QED BY <2>2 DEF t
<1>7. ASSUME NEW c \in Serve!Clients
      PROVE  LET t == [op |-> "delete", c |-> c, ok |-> TRUE]
             IN  /\ t \in Tasks /\ t \notin AcceptTasks \cup Failures \cup Successes
                 /\ \A b : /\ t \in TaskOf(b) <=> b = c
                           /\ t \notin AcceptOf(b)
                           /\ t \in DeletionOf(b) <=> b = c
  <2> DEFINE t == [op |-> "delete", c |-> c, ok |-> TRUE]
  <2>1. t \in Tasks /\ t.op = "delete" /\ t.c = c
    BY <1>2
  <2> HIDE DEF t
  <2>2. /\ t \in Tasks /\ t \notin AcceptTasks \cup Failures \cup Successes
        /\ \A b : /\ t \in TaskOf(b) <=> b = c
                  /\ t \notin AcceptOf(b)
                  /\ t \in DeletionOf(b) <=> b = c
    BY <1>4, <2>1
  <2> QED BY <2>2 DEF t
<1> QED BY <1>3, <1>4, <1>5, <1>6, <1>7

-----------------------------------------------------------------------------
\* The server's invariant, as long as no rule is broken.

ServerTypes ==
  /\ serving \in BOOLEAN
  /\ acceptor \in {"closed", "open", "listening"}
  /\ accepts \in Seq(Serve!Clients) /\ tasks \in Seq(Tasks)
  /\ client \in [Serve!Clients -> {"none", "waits", "given", "dying"}]

\* One accept is pending or answered, and only where the acceptor listens is
\* there one that must be.
AcceptInv ==
  /\ accepts = <<>> \/ (\E c \in Serve!Clients : accepts = <<c>>)
  /\ Never(tasks, Successes, Successes)
  /\ acceptor # "listening" => accepts = <<>>
  /\ acceptor = "open" => ~Has(tasks, AcceptTasks)
  /\ acceptor = "listening" => (Has(tasks, Successes) <=> accepts = <<>>)
  /\ acceptor = "listening" => ~Has(tasks, Failures)
  /\ ~serving => acceptor = "closed" /\ ~Has(tasks, AcceptTasks)

\* Each client is in one place.
ClientInv ==
  \A c \in Serve!Clients :
    /\ client[c] = "waits" <=> (accepts = <<c>> \/ Has(tasks, AcceptOf(c)))
    /\ client[c] = "dying" <=> Has(tasks, DeletionOf(c))
    /\ Never(tasks, TaskOf(c), TaskOf(c))
    /\ accepts = <<c>> => ~Has(tasks, TaskOf(c))

ServerInv == unserved = {} => ServerTypes /\ AcceptInv /\ ClientInv

LEMMA ServerInit == ASSUME Serve!Init PROVE ServerInv
<1>1. ServerTypes
  BY DEF Serve!Init, ServerTypes
<1>2. AcceptInv /\ ClientInv
  BY EmptyQueue DEF Serve!Init, AcceptInv, ClientInv
<1> QED BY <1>1, <1>2 DEF ServerInv

LEMMA PendingFacts ==
  ASSUME tasks \in Seq(Tasks)
  PROVE  Serve!Pending <=> (accepts # <<>> \/ Has(tasks, AcceptTasks))
<1>1. \A i \in 1..Len(tasks) : tasks[i] \in AcceptTasks <=> tasks[i].op = "accept"
  BY TaskFacts
<1>2. DOMAIN tasks = 1..Len(tasks)
  OBVIOUS
<1> QED BY <1>1, <1>2 DEF Serve!Pending, Has

LEMMA OneElement == \A c, b : /\ <<c>> = <<b>> <=> c = b
                              /\ <<c>> # <<>>
OBVIOUS

\* A client that is used nowhere.
LEMMA FreshFacts ==
  ASSUME ServerTypes, ClientInv, NEW c \in Serve!Clients, client[c] = "none"
  PROVE  ~Has(tasks, TaskOf(c))
<1>1. ~Has(tasks, AcceptOf(c)) /\ ~Has(tasks, DeletionOf(c))
  BY DEF ServerTypes, ClientInv
<1>2. \A i \in 1..Len(tasks) : tasks[i] \notin TaskOf(c)
  BY <1>1, TaskFacts DEF Has
<1> QED BY <1>2 DEF Has

LEMMA ListenStep ==
  ASSUME ServerInv, unserved = {}, NEW result \in {"listening", "open", "closed"},
         Serve!ListenAndServ(result)
  PROVE  ServerInv'
<1> SUFFICES ASSUME unserved' = {} PROVE (ServerTypes /\ AcceptInv /\ ClientInv)'
  BY DEF ServerInv
<1>1. ServerTypes /\ AcceptInv /\ ClientInv
  BY DEF ServerInv
<1>2. serving /\ UNCHANGED <<serving, backlog, peers, tasks>>
  BY DEF Serve!ListenAndServ
<1>3. CASE acceptor # "closed"
  <2>1. UNCHANGED <<acceptor, accepts, client>>
    BY <1>3 DEF Serve!ListenAndServ
  <2> QED BY <1>1, <1>2, <2>1 DEF ServerTypes, AcceptInv, ClientInv
<1>4. CASE acceptor = "closed" /\ result # "listening"
  <2>1. /\ UNCHANGED <<accepts, client>> /\ acceptor' \in {"open", "closed"}
        /\ ~Serve!Pending
    BY <1>4 DEF Serve!ListenAndServ, Serve!Breaks
  <2>2. accepts = <<>> /\ ~Has(tasks, AcceptTasks)
    BY <1>1, <2>1, PendingFacts DEF ServerTypes
  <2> QED BY <1>1, <1>2, <1>4, <2>1, <2>2 DEF ServerTypes, AcceptInv, ClientInv
<1>5. CASE acceptor = "closed" /\ result = "listening"
  <2>1. /\ acceptor' = "listening" /\ ~Serve!Pending
        /\ Serve!StartAccept(TRUE, client)
    BY <1>5 DEF Serve!ListenAndServ, Serve!Breaks
  <2>2. accepts = <<>> /\ ~Has(tasks, AcceptTasks)
    BY <1>1, <2>1, PendingFacts DEF ServerTypes
  <2>3. PICK c \in Serve!Clients : /\ client[c] = "none"
                                   /\ accepts' = Append(accepts, c)
                                   /\ client' = [client EXCEPT ![c] = "waits"]
    BY <1>2, <2>1 DEF Serve!StartAccept, Serve!Fresh
  <2>4. accepts' = <<c>> /\ ~Has(tasks, TaskOf(c))
    BY <1>1, <2>2, <2>3, FreshFacts
  <2>5. ~Has(tasks, Successes) /\ ~Has(tasks, Failures)
    BY <2>2 DEF Has, AcceptTasks, Successes, Failures
  <2>6. ServerTypes'
    BY <1>1, <1>2, <2>1, <2>3, <2>4 DEF ServerTypes
  <2>7. AcceptInv'
    BY <1>1, <1>2, <2>1, <2>2, <2>4, <2>5, OneElement DEF AcceptInv
  <2>8. ClientInv'
    BY <1>1, <1>2, <2>2, <2>3, <2>4, OneElement DEF ServerTypes, ClientInv
  <2> QED BY <2>6, <2>7, <2>8
<1> QED BY <1>3, <1>4, <1>5

LEMMA StopStep ==
  ASSUME ServerInv, unserved = {}, Serve!Stop PROVE ServerInv'
<1>1. ServerTypes /\ AcceptInv /\ ClientInv
  BY DEF ServerInv
<1>2. /\ serving /\ acceptor' = "closed" /\ accepts' = <<>>
      /\ tasks' = tasks \o [i \in DOMAIN accepts |-> Serve!Accepted(accepts[i], FALSE)]
      /\ UNCHANGED <<serving, client, unserved>>
  BY DEF Serve!Stop
<1>3. CASE accepts = <<>>
  <2>1. [i \in DOMAIN accepts |-> Serve!Accepted(accepts[i], FALSE)] = <<>>
    BY <1>3
  <2>2. tasks' = tasks
    BY <1>1, <1>2, <2>1 DEF ServerTypes
  <2> QED BY <1>1, <1>2, <1>3, <2>2 DEF ServerInv, ServerTypes, AcceptInv, ClientInv
<1>4. CASE accepts # <<>>
  <2>1. PICK c \in Serve!Clients : accepts = <<c>>
    BY <1>1, <1>4 DEF AcceptInv
  <2> DEFINE t == Serve!Accepted(c, FALSE)
  <2> DEFINE f == [i \in DOMAIN accepts |-> Serve!Accepted(accepts[i], FALSE)]
  <2>2. t \in Tasks
    BY TaskFacts
  <2>3. tasks' = Append(tasks, t)
    <3>1. DOMAIN accepts = 1..1 /\ accepts[1] = c
      BY <2>1
    <3>2. ASSUME NEW g, g = [i \in DOMAIN accepts |-> Serve!Accepted(accepts[i], FALSE)]
          PROVE  DOMAIN g = 1..1 /\ g[1] = t /\ g \in [1..1 -> Tasks]
      <4>1. DOMAIN g = 1..1
        BY <3>1, <3>2
      <4>3. g[1] = t
        <5>1. 1 \in DOMAIN accepts
          BY <3>1
        <5>2. g[1] = Serve!Accepted(accepts[1], FALSE)
          BY <3>2, <5>1
        <5> QED BY <3>1, <5>2
      <4>2. \A i \in 1..1 : i = 1
        OBVIOUS
      <4> QED BY <2>2, <3>2, <4>1, <4>2, <4>3
    <3>3. f \in [1..1 -> Tasks] /\ f[1] = t
      BY <3>2
    <3> HIDE DEF f, t
    <3>4. f \in Seq(Tasks) /\ Len(f) = 1
      BY <3>3, IsSequence
    <3> QED BY <1>1, <1>2, <3>3, <3>4, OneItem DEF ServerTypes, f
  <2>4. /\ t \in Tasks /\ t \in AcceptTasks /\ t \notin Successes
        /\ \A b : /\ t \in TaskOf(b) <=> b = c
                  /\ t \in AcceptOf(b) <=> b = c
                  /\ t \notin DeletionOf(b)
    BY TaskFacts
  <2> HIDE DEF t
  <2>5. /\ tasks' \in Seq(Tasks)
        /\ \A P : Has(tasks', P) <=> (Has(tasks, P) \/ t \in P)
        /\ \A P, Q : Never(tasks', P, Q)
                       <=> (Never(tasks, P, Q) /\ ~(Has(tasks, P) /\ t \in Q))
    BY <1>1, <2>3, <2>4, AppendQueue DEF ServerTypes
  <2>6. ServerTypes'
    BY <1>1, <1>2, <2>5 DEF ServerTypes
  <2>7. AcceptInv'
    BY <1>1, <1>2, <2>4, <2>5 DEF AcceptInv
  <2>8. ClientInv'
    <3>1. \A b : accepts' # <<b>> /\ (accepts = <<b>> <=> b = c)
      BY <1>2, <2>1, OneElement
    <3> QED BY <1>1, <1>2, <2>4, <2>5, <3>1 DEF ClientInv
  <2> QED BY <2>6, <2>7, <2>8 DEF ServerInv
<1> QED BY <1>3, <1>4

LEMMA ServerDestroyStep ==
  ASSUME ServerInv, unserved = {}, Serve!Destroy PROVE ServerInv'
<1> SUFFICES ASSUME unserved' = {} PROVE (ServerTypes /\ AcceptInv /\ ClientInv)'
  BY DEF ServerInv
<1>1. ServerTypes /\ AcceptInv /\ ClientInv
  BY DEF ServerInv
<1>2. /\ serving' = FALSE /\ ~Serve!Pending /\ acceptor' = "closed"
      /\ UNCHANGED <<accepts, tasks, client>>
  BY DEF Serve!Destroy, Serve!Breaks
<1>3. accepts = <<>> /\ ~Has(tasks, AcceptTasks)
  BY <1>1, <1>2, PendingFacts DEF ServerTypes
<1> QED BY <1>1, <1>2, <1>3 DEF ServerTypes, AcceptInv, ClientInv

LEMMA AcceptDoneStep ==
  ASSUME ServerInv, unserved = {}, NEW ok \in BOOLEAN, Serve!AcceptDone(ok)
  PROVE  ServerInv'
<1> SUFFICES ASSUME unserved' = {} PROVE (ServerTypes /\ AcceptInv /\ ClientInv)'
  BY DEF ServerInv
<1>1. ServerTypes /\ AcceptInv /\ ClientInv
  BY DEF ServerInv
<1>2. /\ accepts # <<>> /\ ok
      /\ accepts' = Tail(accepts)
      /\ tasks' = Append(tasks, Serve!Accepted(Head(accepts), ok))
      /\ UNCHANGED <<serving, acceptor, client>>
  BY DEF Serve!AcceptDone, Serve!Breaks
<1>3. PICK c \in Serve!Clients : accepts = <<c>>
  BY <1>1, <1>2 DEF AcceptInv
<1> DEFINE t == Serve!Accepted(c, TRUE)
<1>4. accepts' = <<>> /\ tasks' = Append(tasks, t)
  <2>1. Head(<<c>>) = c /\ Tail(<<c>>) = <<>>
    OBVIOUS
  <2> QED BY <1>2, <1>3, <2>1
<1>5. /\ t \in Tasks /\ t \in AcceptTasks /\ t \in Successes /\ t \notin Failures
      /\ \A b : /\ t \in TaskOf(b) <=> b = c
                /\ t \in AcceptOf(b) <=> b = c
                /\ t \notin DeletionOf(b)
  BY TaskFacts
<1> HIDE DEF t
<1>6. /\ tasks' \in Seq(Tasks)
      /\ \A P : Has(tasks', P) <=> (Has(tasks, P) \/ t \in P)
      /\ \A P, Q : Never(tasks', P, Q)
                     <=> (Never(tasks, P, Q) /\ ~(Has(tasks, P) /\ t \in Q))
  BY <1>1, <1>4, <1>5, AppendQueue DEF ServerTypes
<1>7. ServerTypes'
  <2>1. <<>> \in Seq(Serve!Clients)
    OBVIOUS
  <2> QED BY <1>1, <1>2, <1>4, <1>6, <2>1 DEF ServerTypes
<1>8. AcceptInv'
  BY <1>1, <1>2, <1>4, <1>5, <1>6 DEF AcceptInv, ServerTypes
<1>9. ClientInv'
  <2>1. \A b : accepts' # <<b>> /\ (accepts = <<b>> <=> b = c)
    BY <1>3, <1>4, OneElement
  <2> QED BY <1>1, <1>2, <1>5, <1>6, <2>1 DEF ClientInv
<1> QED BY <1>7, <1>8, <1>9

LEMMA DeleteClientStep ==
  ASSUME ServerInv, unserved = {}, Serve!DeleteClient PROVE ServerInv'
<1> DEFINE t == Head(tasks)
<1>1. ServerTypes /\ AcceptInv /\ ClientInv
  BY DEF ServerInv
<1>2. /\ tasks # <<>> /\ t.op = "delete"
      /\ client' = [client EXCEPT ![t.c] = "none"]
      /\ tasks' = Tail(tasks)
      /\ UNCHANGED <<serving, acceptor, accepts, unserved>>
  BY DEF Serve!DeleteClient
<1>3. /\ t \in Tasks /\ tasks' \in Seq(Tasks)
      /\ \A P : Has(tasks, P) <=> (t \in P \/ Has(tasks', P))
      /\ \A P, Q : Never(tasks, P, Q)
                     <=> (/\ Never(tasks', P, Q)
                          /\ ~(t \in P /\ Has(tasks', Q)))
  BY <1>1, <1>2, TailQueue DEF ServerTypes
<1> HIDE DEF t
<1>4. /\ t.c \in Serve!Clients /\ t \notin AcceptTasks /\ t \notin Successes
      /\ \A b : /\ t \in TaskOf(b) <=> b = t.c
                /\ t \notin AcceptOf(b)
                /\ t \in DeletionOf(b) <=> b = t.c
  BY <1>2, <1>3, TaskFacts
<1>5. ServerTypes'
  BY <1>1, <1>2, <1>3 DEF ServerTypes
<1>6. AcceptInv'
  BY <1>1, <1>2, <1>3, <1>4 DEF AcceptInv
<1>7. ~Has(tasks', TaskOf(t.c)) /\ accepts # <<t.c>>
  BY <1>1, <1>3, <1>4 DEF ClientInv
<1>8. ~Has(tasks', AcceptOf(t.c)) /\ ~Has(tasks', DeletionOf(t.c))
  <2>1. \A i \in 1..Len(tasks') : tasks'[i] \notin TaskOf(t.c)
    BY <1>7 DEF Has
  <2>2. TaskOf(t.c) = AcceptOf(t.c) \cup DeletionOf(t.c)
    BY <1>4, TaskFacts
  <2> QED BY <2>1, <2>2 DEF Has
<1>9. ClientInv'
  BY <1>1, <1>2, <1>3, <1>4, <1>7, <1>8 DEF ServerTypes, ClientInv
<1> QED BY <1>5, <1>6, <1>9 DEF ServerInv

LEMMA HandleAcceptStep ==
  ASSUME ServerInv, unserved = {}, Serve!HandleAccept PROVE ServerInv'
<1> DEFINE t == Head(tasks)
<1> DEFINE d == [op |-> "delete", c |-> t.c, ok |-> TRUE]
<1>1. ServerTypes /\ AcceptInv /\ ClientInv
  BY DEF ServerInv
<1>2. /\ tasks # <<>> /\ t.op = "accept"
      /\ t.ok => /\ Serve!StartAccept(acceptor # "closed",
                                      [client EXCEPT ![t.c] = Serve!Handed])
                 /\ tasks' = Tail(tasks)
      /\ ~t.ok => /\ client' = [client EXCEPT ![t.c] = "dying"]
                  /\ tasks' = Append(Tail(tasks), d)
                  /\ accepts' = accepts
      /\ (serving \/ accepts' # <<>>) => acceptor' = acceptor
      /\ UNCHANGED <<serving, unserved>>
  BY DEF Serve!HandleAccept
<1>3. /\ t \in Tasks /\ Tail(tasks) \in Seq(Tasks)
      /\ \A P : Has(tasks, P) <=> (t \in P \/ Has(Tail(tasks), P))
      /\ \A P, Q : Never(tasks, P, Q)
                     <=> (/\ Never(Tail(tasks), P, Q)
                          /\ ~(t \in P /\ Has(Tail(tasks), Q)))
  BY <1>1, <1>2, TailQueue DEF ServerTypes
<1> DEFINE c == t.c
<1>4. /\ c \in Serve!Clients /\ t \in AcceptTasks
      /\ t \in Successes <=> t.ok
      /\ t \in Failures <=> ~t.ok
      /\ \A b : /\ t \in TaskOf(b) <=> b = c
                /\ t \in AcceptOf(b) <=> b = c
                /\ t \notin DeletionOf(b)
  BY <1>2, <1>3, TaskFacts
<1>5. d \in Tasks /\ d \notin AcceptTasks \cup Failures \cup Successes
      /\ \A b : /\ d \in TaskOf(b) <=> b = c
                /\ d \notin AcceptOf(b)
                /\ d \in DeletionOf(b) <=> b = c
  BY <1>4, TaskFacts
<1>ok. t.ok = TRUE \/ t.ok = FALSE
  BY <1>3 DEF Tasks
<1> HIDE DEF t, d, c
<1>6. /\ serving /\ acceptor' = acceptor
      /\ ~Has(Tail(tasks), TaskOf(c)) /\ accepts # <<c>> /\ client[c] = "waits"
  <2>1. serving
    BY <1>1, <1>3, <1>4 DEF AcceptInv
  <2> QED BY <1>1, <1>2, <1>3, <1>4, <2>1 DEF ClientInv
<1>7. ~Has(Tail(tasks), AcceptOf(c)) /\ ~Has(Tail(tasks), DeletionOf(c))
  <2>1. \A i \in 1..Len(Tail(tasks)) : Tail(tasks)[i] \notin TaskOf(c)
    BY <1>6 DEF Has
  <2>2. TaskOf(c) = AcceptOf(c) \cup DeletionOf(c)
    BY <1>4, TaskFacts
  <2> QED BY <2>1, <2>2 DEF Has
<1>8. CASE ~t.ok
  <2>1. /\ client' = [client EXCEPT ![c] = "dying"]
        /\ tasks' = Append(Tail(tasks), d)
        /\ UNCHANGED <<accepts, acceptor, serving>>
    BY <1>2, <1>6, <1>8 DEF c
  <2>2. /\ tasks' \in Seq(Tasks)
        /\ \A P : Has(tasks', P) <=> (Has(Tail(tasks), P) \/ d \in P)
        /\ \A P, Q : Never(tasks', P, Q)
                       <=> (Never(Tail(tasks), P, Q) /\ ~(Has(Tail(tasks), P) /\ d \in Q))
    <3> DEFINE s == Tail(tasks)
    <3>1. s \in Seq(Tasks) /\ d \in Tasks /\ tasks' = Append(s, d)
      BY <1>3, <1>5, <2>1
    <3> HIDE DEF s
    <3>2. /\ tasks' \in Seq(Tasks)
          /\ \A P : Has(tasks', P) <=> (Has(s, P) \/ d \in P)
          /\ \A P, Q : Never(tasks', P, Q) <=> (Never(s, P, Q) /\ ~(Has(s, P) /\ d \in Q))
      BY <3>1, AppendQueue
    <3> QED BY <3>2 DEF s
  <2>3. ServerTypes'
    BY <1>1, <1>4, <2>1, <2>2 DEF ServerTypes
  <2>4. AcceptInv'
    BY <1>1, <1>3, <1>4, <1>5, <1>6, <1>8, <2>1, <2>2 DEF AcceptInv
  <2>5. ClientInv'
    BY <1>1, <1>3, <1>4, <1>5, <1>6, <1>7, <2>1, <2>2 DEF ServerTypes, ClientInv
  <2> QED BY <2>3, <2>4, <2>5 DEF ServerInv
<1>9. CASE t.ok /\ acceptor = "closed"
  <2>1. /\ client' = [client EXCEPT ![c] = "given"]
        /\ tasks' = Tail(tasks)
        /\ UNCHANGED <<accepts, acceptor, serving>>
    BY <1>2, <1>6, <1>9 DEF Serve!StartAccept, Serve!Handed, c
  <2>2. ServerTypes'
    BY <1>1, <1>3, <1>4, <2>1 DEF ServerTypes
  <2>3. AcceptInv'
    BY <1>1, <1>3, <1>4, <1>6, <1>9, <2>1 DEF AcceptInv
  <2>4. ClientInv'
    BY <1>1, <1>3, <1>4, <1>6, <1>7, <2>1 DEF ServerTypes, ClientInv
  <2> QED BY <2>2, <2>3, <2>4 DEF ServerInv
<1>10. CASE t.ok /\ acceptor # "closed"
  <2>1. acceptor = "listening"
    BY <1>1, <1>3, <1>4, <1>10 DEF ServerTypes, AcceptInv
  <2>2. accepts = <<>> /\ ~Has(Tail(tasks), Successes) /\ ~Has(Tail(tasks), Failures)
    BY <1>1, <1>3, <1>4, <1>10, <2>1 DEF AcceptInv
  <2>3. PICK b \in Serve!Clients :
               /\ client[b] = "none"
               /\ accepts' = Append(accepts, b)
               /\ client' = [[client EXCEPT ![c] = "given"] EXCEPT ![b] = "waits"]
    BY <1>2, <1>6, <1>10 DEF Serve!StartAccept, Serve!Handed, Serve!Fresh, c
  <2>4. /\ accepts' = <<b>> /\ b # c /\ ~Has(Tail(tasks), TaskOf(b))
        /\ tasks' = Tail(tasks) /\ UNCHANGED <<acceptor, serving>>
    BY <1>1, <1>2, <1>3, <1>6, <1>10, <2>2, <2>3, FreshFacts
  <2>5. ServerTypes'
    BY <1>1, <1>3, <1>4, <2>3, <2>4 DEF ServerTypes
  <2>6. AcceptInv'
    BY <1>1, <1>3, <1>6, <2>1, <2>2, <2>4, OneElement DEF AcceptInv
  <2>7. ClientInv'
    <3>1. \A x : accepts' = <<x>> <=> x = b
      BY <2>4, OneElement
    <3>2. \A x : accepts # <<x>>
      BY <2>2, OneElement
    <3> QED BY <1>1, <1>3, <1>4, <1>6, <1>7, <2>3, <2>4, <3>1, <3>2
            DEF ServerTypes, ClientInv
  <2> QED BY <2>5, <2>6, <2>7 DEF ServerInv
<1> QED BY <1>8, <1>9, <1>10

LEMMA ServerNext ==
  ASSUME ServerInv, [Serve!Next]_(Serve!vars) PROVE ServerInv'
<1>1. CASE Serve!Next
  <2>1. unserved = {}
    BY <1>1 DEF Serve!Next
  <2>2. CASE Serve!PeerConnects
    BY <2>2 DEF Serve!PeerConnects, ServerInv, ServerTypes, AcceptInv, ClientInv
  <2> QED BY <1>1, <2>1, <2>2, ListenStep, StopStep, ServerDestroyStep,
             AcceptDoneStep, HandleAcceptStep, DeleteClientStep DEF Serve!Next
<1>2. CASE UNCHANGED Serve!vars
  BY <1>2 DEF Serve!vars, ServerInv, ServerTypes, AcceptInv, ClientInv
<1> QED BY <1>1, <1>2

LEMMA ServerInductive == Serve!Spec => []ServerInv
<1>1. Serve!Init => ServerInv
  BY ServerInit
<1>2. ServerInv /\ [Serve!Next]_(Serve!vars) => ServerInv'
  BY ServerNext
<1> QED BY <1>1, <1>2, PTL DEF Serve!Spec

\* The instance's cardinality is the library's.
LEMMA CardinalityOfServer == \A S : Serve!Cardinality(S) = Cardinality(S)
BY DEF Serve!Cardinality, Cardinality

\* No connection falls between server and user, and a server that listens
\* always has one accept pending or answered, however it was stopped,
\* restarted or destroyed around one.
THEOREM ServerSafety == Serve!Spec => []ClientsHandedOver
<1>1. ServerInv => Serve!NoOrphan
  <2> SUFFICES ASSUME ServerInv, unserved = {}, NEW c \in Serve!Clients
               PROVE  /\ client[c] # "orphan"
                      /\ client[c] \in {"waits", "dying"} <=> c \in Serve!Owed
    BY DEF Serve!NoOrphan
  <2>1. ServerTypes /\ AcceptInv /\ ClientInv
    BY DEF ServerInv
  <2>2. Serve!Contains(accepts, c) <=> accepts = <<c>>
    <3>1. CASE accepts = <<>>
      BY <3>1, OneElement DEF Serve!Contains
    <3>2. CASE \E b \in Serve!Clients : accepts = <<b>>
      BY <3>2, OneElement DEF Serve!Contains
    <3> QED BY <2>1, <3>1, <3>2 DEF AcceptInv
  <2>3. (\E i \in DOMAIN tasks : tasks[i].c = c) <=> Has(tasks, TaskOf(c))
    <3>1. \A i \in 1..Len(tasks) : tasks[i] \in TaskOf(c) <=> tasks[i].c = c
      BY <2>1, TaskFacts DEF ServerTypes
    <3>2. DOMAIN tasks = 1..Len(tasks)
      BY <2>1 DEF ServerTypes
    <3> QED BY <3>1, <3>2 DEF Has
  <2>4. Has(tasks, TaskOf(c)) <=> (Has(tasks, AcceptOf(c)) \/ Has(tasks, DeletionOf(c)))
    <3>1. TaskOf(c) = AcceptOf(c) \cup DeletionOf(c)
      BY TaskFacts
    <3> QED BY <3>1 DEF Has
  <2>5. c \in Serve!Owed <=> (client[c] = "waits" \/ client[c] = "dying")
    BY <2>1, <2>2, <2>3, <2>4 DEF ClientInv, Serve!Owed
  <2> QED BY <2>1, <2>5 DEF ServerTypes
<1>2. ServerInv => Serve!OneAccept
  <2> SUFFICES ASSUME ServerInv, unserved = {}, acceptor = "listening"
               PROVE  Len(accepts) + Serve!Cardinality(
                        {i \in DOMAIN tasks : tasks[i].op = "accept" /\ tasks[i].ok}) = 1
    BY DEF Serve!OneAccept
  <2>1. ServerTypes /\ AcceptInv
    BY DEF ServerInv
  <2>2. Len(accepts) = IF accepts = <<>> THEN 0 ELSE 1
    BY <2>1 DEF AcceptInv
  <2>3. Has(tasks, Successes) <=> accepts = <<>>
    BY <2>1 DEF AcceptInv
  <2> DEFINE S == {i \in DOMAIN tasks : tasks[i].op = "accept" /\ tasks[i].ok}
  <2>4. \A i : i \in S <=> (i \in 1..Len(tasks) /\ tasks[i] \in Successes)
    BY <2>1, TaskFacts DEF ServerTypes
  <2> HIDE DEF S
  <2>5. Cardinality(S) = IF Has(tasks, Successes) THEN 1 ELSE 0
    BY <2>1, <2>4, OneIndex DEF ServerTypes, AcceptInv
  <2> QED BY <2>2, <2>3, <2>5, CardinalityOfServer DEF S
<1> QED BY <1>1, <1>2, ServerInductive, PTL DEF ClientsHandedOver

-----------------------------------------------------------------------------
\* The datagram socket's invariant: it is opened once, runs from then until it
\* is stopped for good, and has one receive at most, pending or answered.

Completions == [op : {"read", "send"}, ok : BOOLEAN]
Receipts    == {t \in Completions : t.op = "read"}

UdpOpened ==
  /\ binds \in Nat
  /\ binds = 0 => /\ ~hasFd /\ ~bound /\ halted /\ ~closeCalled
                  /\ receives = 0 /\ sends = 0 /\ done = <<>>
  /\ halted => ~hasFd
  /\ closeCalled => halted

OneReceive ==
  /\ done \in Seq(Completions) /\ receives \in {0, 1}
  /\ Never(done, Receipts, Receipts)
  /\ receives = 1 => ~Has(done, Receipts)
  /\ ~bound => receives = 0 /\ ~Has(done, Receipts)

UdpInv ==
  /\ ~udpFault
  /\ ~exists => halted
  /\ reopened = {} => /\ UdpOpened
                      /\ ~halted => OneReceive

LEMMA CompletionFacts ==
  /\ \A op \in {"read", "send"}, ok \in BOOLEAN :
       /\ Udp!Completion(op, ok) \in Completions
       /\ Udp!Completion(op, ok) \in Receipts <=> op = "read"
  /\ \A t \in Completions : t \in Receipts <=> t.op = "read"
BY DEF Udp!Completion, Completions, Receipts

\* An answered receive leaves the pending ones.
LEMMA Answered1 ==
  ASSUME NEW s \in Seq(Completions), NEW op \in {"read", "send"}, NEW ok \in BOOLEAN,
         NEW s1, s1 = Append(s, Udp!Completion(op, ok))
  PROVE  /\ s1 \in Seq(Completions)
         /\ Has(s1, Receipts) <=> (Has(s, Receipts) \/ op = "read")
         /\ Never(s1, Receipts, Receipts)
              <=> (/\ Never(s, Receipts, Receipts)
                   /\ ~(Has(s, Receipts) /\ op = "read"))
<1> DEFINE t == Udp!Completion(op, ok)
<1>1. t \in Completions /\ (t \in Receipts <=> op = "read")
  BY CompletionFacts
<1> HIDE DEF t
<1>2. s1 = Append(s, t)
  BY DEF t
<1> QED BY <1>1, <1>2, AppendQueue

LEMMA Handled ==
  ASSUME NEW s \in Seq(Completions), s # <<>>
  PROVE  /\ Head(s) \in Completions /\ Tail(s) \in Seq(Completions)
         /\ Has(s, Receipts) <=> (Head(s).op = "read" \/ Has(Tail(s), Receipts))
         /\ Never(s, Receipts, Receipts)
              <=> (/\ Never(Tail(s), Receipts, Receipts)
                   /\ ~(Head(s).op = "read" /\ Has(Tail(s), Receipts)))
<1>1. Head(s) \in Completions
  OBVIOUS
<1>2. Head(s) \in Receipts <=> Head(s).op = "read"
  BY <1>1, CompletionFacts
<1> QED BY <1>1, <1>2, TailQueue

\* StartRead where no receive is pending or answered.
LEMMA StartReadStep ==
  ASSUME NEW rest \in Seq(Completions), Udp!StartRead(rest), receives = 0,
         ~Has(rest, Receipts), Never(rest, Receipts, Receipts)
  PROVE  /\ done' \in Seq(Completions) /\ receives' \in {0, 1}
         /\ Never(done', Receipts, Receipts)
         /\ receives' = 1 => ~Has(done', Receipts)
<1>1. CASE receives' = receives + 1 /\ done' = rest
  BY <1>1
<1>2. CASE done' = Append(rest, Udp!Completion("read", TRUE)) /\ UNCHANGED receives
  <2> DEFINE t == Udp!Completion("read", TRUE)
  <2>1. t \in Completions
    BY CompletionFacts
  <2>2. done' = Append(rest, t) /\ receives' = 0
    BY <1>2
  <2> HIDE DEF t
  <2>3. /\ Append(rest, t) \in Seq(Completions)
        /\ Never(Append(rest, t), Receipts, Receipts)
    BY <2>1, AppendQueue
  <2> QED BY <2>2, <2>3
<1> QED BY <1>1, <1>2 DEF Udp!StartRead

LEMMA UdpInit == ASSUME Udp!Init PROVE UdpInv
BY EmptyQueue DEF Udp!Init, UdpInv, UdpOpened

LEMMA UdpClosing ==
  ASSUME UdpInv, NEW rest, Udp!CloseSocket(rest), halted' = TRUE,
         udpFault' = udpFault, reopened' = reopened, binds' = binds,
         rest = done \/ done # <<>>,
         binds = 0 => closeCalled' = closeCalled
  PROVE  UdpInv'
<1> SUFFICES ASSUME reopened = {} PROVE UdpOpened'
  BY DEF UdpInv
<1>1. UdpOpened
  BY DEF UdpInv
<1>2. /\ hasFd' = FALSE /\ bound' = FALSE
      /\ receives' = 0 /\ sends' = 0
      /\ done' = rest \o Udp!Failed("read", receives) \o Udp!Failed("send", sends)
  BY DEF Udp!CloseSocket
<1>3. CASE binds = 0
  <2>1. receives = 0 /\ sends = 0 /\ done = <<>> /\ rest = <<>>
    BY <1>1, <1>3 DEF UdpOpened
  <2>2. Udp!Failed("read", 0) = <<>> /\ Udp!Failed("send", 0) = <<>>
    BY DEF Udp!Failed
  <2>3. <<>> \o <<>> = <<>>
    OBVIOUS
  <2>4. done' = <<>>
    BY <1>2, <2>1, <2>2, <2>3
  <2> QED BY <1>1, <1>2, <1>3, <2>4 DEF UdpOpened
<1> QED BY <1>1, <1>2, <1>3 DEF UdpOpened

LEMMA UdpNext == ASSUME UdpInv, [Udp!Next]_(Udp!vars) PROVE UdpInv'
<1>1. CASE Udp!Open
  <2> SUFFICES ASSUME reopened' = {} PROVE UdpOpened' /\ (OneReceive /\ ~udpFault)'
    BY <1>1 DEF Udp!Open, UdpInv
  <2>1. binds = 0 /\ reopened = {} /\ UdpOpened
    BY <1>1 DEF Udp!Open, UdpInv, UdpOpened
  <2>2. /\ done' = <<>> /\ receives' = 0 /\ ~closeCalled' /\ halted' = FALSE
        /\ ~bound' /\ binds' = 1 /\ udpFault' = udpFault
    BY <1>1, <2>1 DEF Udp!Open, UdpOpened, Udp!asioVars
  <2>3. done' \in Seq(Completions)
    BY <2>2
  <2> QED BY <2>2, <2>3, EmptyQueue DEF UdpInv, UdpOpened, OneReceive
<1>2. CASE Udp!Bind
  <2>1. /\ hasFd /\ ~bound /\ bound' = TRUE
        /\ ~halted => Udp!StartRead(done)
        /\ UNCHANGED <<hasFd, halted, closeCalled, binds, udpFault, exists, reopened>>
    BY <1>2 DEF Udp!Bind, Udp!logVars
  <2> SUFFICES ASSUME reopened = {} PROVE UdpOpened' /\ OneReceive'
    BY <2>1 DEF UdpInv
  <2>2. /\ UdpOpened /\ ~halted /\ OneReceive /\ binds # 0
    BY <2>1 DEF UdpInv, UdpOpened
  <2> QED BY <2>1, <2>2, StartReadStep DEF UdpOpened, OneReceive
<1>3. CASE Udp!SendTo
  <2>1. /\ UNCHANGED <<exists, hasFd, halted, closeCalled, receives, binds,
                       udpFault, reopened>>
        /\ halted => UNCHANGED <<bound, sends, done>>
        /\ \/ UNCHANGED done
           \/ done' = Append(done, Udp!Completion("send", FALSE))
        /\ bound' \in {bound, TRUE}
    BY <1>3 DEF Udp!SendTo
  <2> SUFFICES ASSUME reopened = {} PROVE UdpOpened' /\ (~halted => OneReceive')
    BY <2>1 DEF UdpInv
  <2>2. CASE halted
    BY <2>1, <2>2 DEF UdpInv, UdpOpened
  <2>3. CASE ~halted
    <3>1. UdpOpened /\ OneReceive
      BY <2>3 DEF UdpInv
    <3>2. /\ done' \in Seq(Completions)
          /\ Has(done', Receipts) <=> Has(done, Receipts)
          /\ Never(done', Receipts, Receipts) <=> Never(done, Receipts, Receipts)
      BY <2>1, <3>1, Answered1 DEF OneReceive
    <3> QED BY <2>1, <2>3, <3>1, <3>2 DEF UdpOpened, OneReceive
  <2> QED BY <2>2, <2>3
<1>4. ASSUME NEW gone \in BOOLEAN, Udp!Close(gone) PROVE UdpInv'
  <2>1. /\ Udp!CloseSocket(done) /\ halted' = TRUE
        /\ UNCHANGED <<closeCalled, binds, udpFault, reopened>>
    BY <1>4 DEF Udp!Close
  <2> QED BY <2>1, UdpClosing
<1>5. CASE Udp!Arrive
  BY <1>5 DEF Udp!Arrive, Udp!socketVars, UdpInv, UdpOpened, OneReceive
<1>6. ASSUME NEW op \in {"read", "send"}, NEW ok \in BOOLEAN,
             done' = Append(done, Udp!Completion(op, ok)),
             op = "read" => receives > 0 /\ receives' = receives - 1,
             op = "send" => sends > 0 /\ receives' = receives,
             UNCHANGED <<Udp!socketVars, Udp!logVars, udpFault, reopened>>
      PROVE  UdpInv'
  <2>1. UNCHANGED <<exists, hasFd, bound, halted, closeCalled, binds>>
    BY <1>6 DEF Udp!socketVars, Udp!logVars
  <2> SUFFICES ASSUME reopened = {} PROVE UdpOpened' /\ (~halted => OneReceive')
    BY <1>6, <2>1 DEF UdpInv
  <2>2. UdpOpened /\ binds # 0
    BY <1>6 DEF UdpInv, UdpOpened
  <2>3. ASSUME ~halted PROVE OneReceive'
    <3>1. OneReceive
      BY <2>3 DEF UdpInv
    <3>2. /\ done' \in Seq(Completions)
          /\ Has(done', Receipts) <=> (Has(done, Receipts) \/ op = "read")
          /\ Never(done', Receipts, Receipts)
               <=> (/\ Never(done, Receipts, Receipts)
                    /\ ~(Has(done, Receipts) /\ op = "read"))
      BY <1>6, <3>1, Answered1 DEF OneReceive
    <3> QED BY <1>6, <2>1, <3>1, <3>2 DEF OneReceive
  <2> QED BY <2>1, <2>2, <2>3 DEF UdpOpened
<1>7. CASE \/ Udp!Receive \/ Udp!ReceiveFails
           \/ \E ok \in BOOLEAN : Udp!SendDone(ok)
  BY <1>6, <1>7 DEF Udp!Receive, Udp!ReceiveFails, Udp!SendDone
<1>8. CASE Udp!Dropped
  BY <1>8 DEF Udp!Dropped, Udp!socketVars, Udp!logVars, UdpInv, UdpOpened
<1>9. CASE Udp!HandleReceive
  <2>1. /\ done # <<>> /\ Head(done).op = "read" /\ ~halted
        /\ Udp!StartRead(Tail(done))
        /\ udpFault' = (udpFault \/ ~exists)
        /\ UNCHANGED <<exists, hasFd, bound, halted, closeCalled, binds, reopened>>
    BY <1>9 DEF Udp!HandleReceive, Udp!Runs, Udp!Emits, Udp!socketVars
  <2>2. ~udpFault' /\ (~exists' => halted')
    BY <2>1 DEF UdpInv
  <2>3. ASSUME reopened = {} PROVE UdpOpened' /\ OneReceive'
    <3>1. UdpOpened /\ OneReceive
      BY <2>1, <2>3 DEF UdpInv
    <3>2. /\ Tail(done) \in Seq(Completions) /\ ~Has(Tail(done), Receipts)
          /\ Never(Tail(done), Receipts, Receipts) /\ Has(done, Receipts)
      BY <2>1, <3>1, Handled DEF OneReceive
    <3>3. bound /\ receives = 0
      BY <3>1, <3>2 DEF OneReceive
    <3> QED BY <2>1, <3>1, <3>2, <3>3, StartReadStep DEF UdpOpened, OneReceive
  <2> QED BY <2>1, <2>2, <2>3 DEF UdpInv
<1>10. CASE Udp!HandleWrite
  <2>1. /\ done # <<>> /\ Head(done).op = "send" /\ ~halted
        /\ done' = Tail(done)
        /\ udpFault' = (udpFault \/ ~exists)
        /\ UNCHANGED <<exists, hasFd, bound, halted, closeCalled, binds, reopened,
                       receives, sends>>
    BY <1>10 DEF Udp!HandleWrite, Udp!Runs, Udp!Emits, Udp!socketVars
  <2>2. ~udpFault' /\ (~exists' => halted')
    BY <2>1 DEF UdpInv
  <2>3. ASSUME reopened = {} PROVE UdpOpened' /\ OneReceive'
    <3>1. UdpOpened /\ OneReceive
      BY <2>1, <2>3 DEF UdpInv
    <3>2. /\ done' \in Seq(Completions)
          /\ Has(done, Receipts) <=> Has(done', Receipts)
          /\ Never(done', Receipts, Receipts)
      BY <2>1, <3>1, Handled DEF OneReceive
    <3> QED BY <2>1, <3>1, <3>2 DEF UdpOpened, OneReceive
  <2> QED BY <2>1, <2>2, <2>3 DEF UdpInv
<1>11. CASE Udp!OperationFails
  <2>1. /\ done # <<>> /\ ~halted /\ Udp!Stop(Tail(done))
        /\ udpFault' = (udpFault \/ ~exists)
        /\ UNCHANGED <<exists, binds, reopened>>
    BY <1>11 DEF Udp!OperationFails, Udp!Emits
  <2>2. ~udpFault' /\ halted' = TRUE /\ closeCalled' = TRUE
    BY <2>1 DEF UdpInv, Udp!Stop
  <2>3. ASSUME reopened = {} PROVE UdpOpened'
    <3>1. UdpOpened /\ ~closeCalled /\ binds # 0
      BY <2>1, <2>3 DEF UdpInv, UdpOpened
    <3>2. hasFd' = FALSE
      BY <2>1, <3>1 DEF Udp!Stop, Udp!CloseSocket
    <3> QED BY <2>1, <2>2, <3>1, <3>2 DEF UdpOpened
  <2> QED BY <2>1, <2>2, <2>3 DEF UdpInv
<1>12. CASE UNCHANGED Udp!vars
  BY <1>12 DEF Udp!vars, Udp!socketVars, Udp!asioVars, Udp!logVars, UdpInv,
               UdpOpened, OneReceive
<1> QED BY <1>1, <1>2, <1>3, <1>4, <1>5, <1>7, <1>8, <1>9, <1>10, <1>11, <1>12
        DEF Udp!Next

LEMMA CardinalityOfUdp == \A S : Udp!Cardinality(S) = Cardinality(S)
BY DEF Udp!Cardinality, Cardinality

LEMMA UdpClosed == UdpInv => Udp!StoppedIsClosed
<1> SUFFICES ASSUME UdpInv, reopened = {}, ~halted
             PROVE  receives + Udp!ReadsIn(done) <= 1
  BY DEF UdpInv, UdpOpened, Udp!StoppedIsClosed
<1>1. OneReceive
  BY DEF UdpInv
<1> DEFINE S == {i \in DOMAIN done : done[i].op = "read"}
<1>2. \A i : i \in S <=> (i \in 1..Len(done) /\ done[i] \in Receipts)
  BY <1>1, CompletionFacts DEF OneReceive
<1> HIDE DEF S
<1>3. Cardinality(S) = IF Has(done, Receipts) THEN 1 ELSE 0
  BY <1>1, <1>2, OneIndex DEF OneReceive
<1> QED BY <1>1, <1>3, CardinalityOfUdp DEF S, Udp!ReadsIn, OneReceive

LEMMA UdpSafety == Udp!Spec => []Udp!StoppedIsClosed
<1>1. Udp!Init => UdpInv
  BY UdpInit
<1>2. UdpInv /\ [Udp!Next]_(Udp!vars) => UdpInv'
  BY UdpNext
<1> QED BY <1>1, <1>2, UdpClosed, PTL DEF Udp!Spec

-----------------------------------------------------------------------------
\* The other owners of a stream, used by the rules: a device is opened once,
\* and what it reports with is queued before its deletion.

LEMMA CardinalityOfDevice == \A S : Dev!Cardinality(S) = Cardinality(S)
BY DEF Dev!Cardinality, Cardinality

\* What SetToSeq makes of a finite set.
LEMMA IsListed ==
  ASSUME NEW S, IsFiniteSet(S)
  PROVE  Dev!SetToSeq(S) \in Seq(S)
<1>1. Cardinality(S) \in Nat /\ ExistsBijection(1..Cardinality(S), S)
  BY FS_CardinalityType
<1>2. PICK f \in [1..Cardinality(S) -> S] : Dev!IsInjective(f)
  BY <1>1 DEF ExistsBijection, Bijection, Injection, IsInjective, Dev!IsInjective
<1>3. Dev!SetToSeq(S) \in [1..Cardinality(S) -> S]
  BY <1>2, CardinalityOfDevice DEF Dev!SetToSeq
<1> QED BY <1>1, <1>3, IsSequence

Operations  == {"open", "read", "write"}
Items       == [op : Operations \cup {"delete"}, on : {1}, ok : BOOLEAN]
DeleteItems == {t \in Items : t.op = "delete"}
Reports     == {t \in Items : t.op \in {"read", "write"} /\ t.ok}

LEMMA ItemFacts ==
  /\ \A t \in Items : /\ t.op \in Operations \cup {"delete"} /\ t.on = 1
                      /\ t \in DeleteItems <=> t.op = "delete"
                      /\ t \in Reports <=> (t.op \in {"read", "write"} /\ t.ok)
  /\ stream = 1 =>
       \A op \in Operations \cup {"delete"}, ok \in BOOLEAN :
         /\ Dev!Done(op, ok) \in Items
         /\ Dev!Done(op, ok) \in DeleteItems <=> op = "delete"
         /\ Dev!Done(op, ok) \in Reports <=> (op \in {"read", "write"} /\ ok)
BY DEF Dev!Done, Operations, Items, DeleteItems, Reports

DeviceTypes ==
  /\ kind \in {"uds", "port", "can"} /\ ops \subseteq Operations
  /\ queue \in Seq(Items) /\ opens \in {0, 1}

OpenedOnce ==
  /\ opens = 0 => /\ queue = <<>> /\ ~close_called /\ stopped /\ ~open
                  /\ stream = IF kind = "can" THEN 0 ELSE 1
  /\ opens = 1 => stream = 1
  /\ ~open => ops = {}
  /\ stopped \/ close_called => ~open

DeletedClosed ==
  /\ dying => ~open /\ opens = 1
  /\ Has(queue, DeleteItems) \/ ~q => dying
  /\ Never(queue, DeleteItems, Reports)
  /\ ~q => ~Has(queue, Reports)

DeviceInv == ~dangled /\ DeviceTypes /\ OpenedOnce /\ DeletedClosed

LEMMA DeviceInit == ASSUME Dev!Init PROVE DeviceInv
<1>1. queue = <<>> /\ <<>> \in Seq(Items) /\ ~dangled /\ ~dying /\ q
  BY DEF Dev!Init
<1>2. CASE Dev!InitUser
  <2>1. DeviceTypes /\ OpenedOnce
    BY <1>1, <1>2 DEF Dev!Init, Dev!InitUser, DeviceTypes, OpenedOnce
  <2> QED BY <1>1, <2>1, EmptyQueue DEF DeviceInv, DeletedClosed
<1>3. CASE Dev!InitAccepted
  <2>1. DeviceTypes /\ OpenedOnce
    BY <1>1, <1>3 DEF Dev!Init, Dev!InitAccepted, DeviceTypes, OpenedOnce, Operations
  <2> QED BY <1>1, <2>1, EmptyQueue DEF DeviceInv, DeletedClosed
<1> QED BY <1>2, <1>3 DEF Dev!Init

\* The queue s1 has what s had, and nothing more that deletes or reports.
Harmless(s1, s) ==
  /\ s1 \in Seq(Items)
  /\ Has(s1, DeleteItems) <=> Has(s, DeleteItems)
  /\ Has(s1, Reports) <=> Has(s, Reports)
  /\ Never(s, DeleteItems, Reports) => Never(s1, DeleteItems, Reports)

LEMMA FailureQueued ==
  ASSUME stream = 1, NEW s \in Seq(Items), NEW op \in Operations, NEW ok \in BOOLEAN,
         ok => op = "open"
  PROVE  Harmless(Append(s, Dev!Done(op, ok)), s)
<1> DEFINE t == Dev!Done(op, ok)
<1>1. t \in Items /\ t \notin DeleteItems /\ t \notin Reports
  BY ItemFacts DEF Operations
<1> HIDE DEF t
<1>2. Harmless(Append(s, t), s)
  BY <1>1, AppendQueue DEF Harmless
<1> QED BY <1>2 DEF t

LEMMA AbortedQueued ==
  ASSUME stream = 1, ops \subseteq Operations, NEW s \in Seq(Items)
  PROVE  Harmless(s \o Dev!Aborted, s)
<1> DEFINE F == {Dev!Done(op, FALSE) : op \in ops}
<1>1. \A t \in F : t \in Items /\ t \notin DeleteItems /\ t \notin Reports
  <2> TAKE t \in F
  <2>1. PICK op \in ops : t = Dev!Done(op, FALSE)
    OBVIOUS
  <2>2. op \in Operations \cup {"delete"} /\ op # "delete"
    BY DEF Operations
  <2>3. /\ Dev!Done(op, FALSE) \in Items
        /\ Dev!Done(op, FALSE) \notin DeleteItems
        /\ Dev!Done(op, FALSE) \notin Reports
    BY <2>2, ItemFacts
  <2> QED BY <2>1, <2>3
<1>2. IsFiniteSet(F)
  <2>1. IsFiniteSet(ops)
    <3>1. IsFiniteSet({"open"}) /\ IsFiniteSet({"open"} \cup {"read"})
      BY FS_Singleton, FS_AddElement
    <3>2. IsFiniteSet(({"open"} \cup {"read"}) \cup {"write"})
      BY <3>1, FS_AddElement
    <3>3. ops \in SUBSET (({"open"} \cup {"read"}) \cup {"write"})
      BY DEF Operations
    <3> QED BY <3>2, <3>3, FS_Subset
  <2>2. F \in SUBSET (({Dev!Done("open", FALSE)} \cup {Dev!Done("read", FALSE)})
                      \cup {Dev!Done("write", FALSE)})
    BY DEF Operations
  <2>3. IsFiniteSet(({Dev!Done("open", FALSE)} \cup {Dev!Done("read", FALSE)})
                      \cup {Dev!Done("write", FALSE)})
    <3>1. IsFiniteSet({Dev!Done("open", FALSE)})
      BY FS_Singleton
    <3>2. IsFiniteSet({Dev!Done("open", FALSE)} \cup {Dev!Done("read", FALSE)})
      BY <3>1, FS_AddElement
    <3> QED BY <3>2, FS_AddElement
  <2> QED BY <2>2, <2>3, FS_Subset
<1> HIDE DEF F
<1>3. Dev!SetToSeq(F) \in Seq(F)
  BY <1>2, IsListed
<1> DEFINE r == Dev!SetToSeq(F)
<1> HIDE DEF r
<1>4. /\ r \in Seq(Items) /\ ~Has(r, DeleteItems) /\ ~Has(r, Reports)
  <2>1. r \in Seq(F)
    BY <1>3 DEF r
  <2>2. \A i \in 1..Len(r) : r[i] \in F
    BY <2>1
  <2>3. r \in Seq(Items)
    BY <1>1, <2>1
  <2> QED BY <1>1, <2>2, <2>3 DEF Has
<1>5. Harmless(s \o r, s)
  BY <1>4, ConcatQueue DEF Harmless
<1> QED BY <1>5 DEF r, F, Dev!Aborted

LEMMA CloseStep ==
  ASSUME stream = 1, ops \subseteq Operations, NEW s \in Seq(Items), Dev!Close(s),
         close_called => ~open, ~open => ops = {}
  PROVE  /\ Harmless(queue', s) /\ close_called' = TRUE /\ open' = FALSE
         /\ ops' = {}
<1>1. CASE close_called
  BY <1>1 DEF Dev!Close, Harmless
<1>2. CASE ~close_called
  BY <1>2, AbortedQueued DEF Dev!Close
<1> QED BY <1>1, <1>2

LEMMA StartsStep ==
  ASSUME stream = 1, NEW s \in Seq(Items), NEW op \in Operations, Dev!Starts(op, s)
  PROVE  /\ Harmless(queue', s)
         /\ ops' = IF open THEN ops \cup {op} ELSE ops
<1>1. CASE open
  BY <1>1 DEF Dev!Starts, Harmless
<1>2. CASE ~open
  BY <1>2, FailureQueued DEF Dev!Starts
<1> QED BY <1>1, <1>2

LEMMA OpenStep ==
  ASSUME DeviceInv, Dev!AllDeviceRules \subseteq DeviceRules, NEW ok \in BOOLEAN,
         Dev!Open(ok)
  PROVE  DeviceInv'
<1>1. /\ ~dangled /\ DeviceTypes /\ OpenedOnce /\ DeletedClosed
      /\ opens = 0 /\ queue = <<>> /\ ~close_called /\ ~open /\ ops = {}
      /\ stream = (IF kind = "can" THEN 0 ELSE 1) /\ ~dying /\ q
  BY DEF DeviceInv, Dev!Open, Dev!AllDeviceRules, OpenedOnce, DeletedClosed, DeviceTypes
<1>2. /\ stopped' = FALSE /\ opens' = 1 /\ open' = (ok \/ kind # "port")
      /\ UNCHANGED <<kind, close_called, q, dying, dangled>>
      /\ \/ /\ kind = "uds" /\ ok /\ ops' = {"open"} /\ UNCHANGED <<stream, queue>>
         \/ /\ kind = "port" /\ queue' = Append(queue, Dev!Done("open", ok))
            /\ UNCHANGED <<stream, ops>>
         \/ /\ kind = "can" /\ stream' = stream + 1 /\ ops' = {}
            /\ queue' = Append(queue \o Dev!Aborted,
                               [Dev!Done("open", ok) EXCEPT !.on = stream + 1])
  BY <1>1 DEF Dev!Open
<1> DEFINE t == [op |-> "open", on |-> 1, ok |-> ok]
<1>3. t \in Items /\ t \notin DeleteItems /\ t \notin Reports
  BY DEF Items, Operations, DeleteItems, Reports
<1>4. ASSUME kind = "can"
      PROVE  queue' = Append(<<>>, t) /\ stream' = 1 /\ ops' = {} /\ open'
  <2>1. [Dev!Done("open", ok) EXCEPT !.on = stream + 1] = t
    BY <1>1, <1>4 DEF Dev!Done
  <2>2. Dev!Aborted = <<>>
    <3>1. {Dev!Done(op, FALSE) : op \in ops} = {}
      BY <1>1
    <3>2. Dev!SetToSeq({}) \in Seq({})
      BY FS_EmptySet, IsListed
    <3>3. \A r \in Seq({}) : r = <<>>
      OBVIOUS
    <3> QED BY <3>1, <3>2, <3>3 DEF Dev!Aborted
  <2>3. <<>> \o <<>> = <<>>
    OBVIOUS
  <2>4. queue' = Append(<<>>, t)
    BY <1>1, <1>2, <1>4, <2>1, <2>2, <2>3
  <2>5. stream' = 1 /\ ops' = {}
    BY <1>1, <1>2, <1>4
  <2>6. ok \/ kind # "port"
    BY <1>4
  <2>7. open'
    BY <1>2, <2>6
  <2> QED BY <2>4, <2>5, <2>7
<1>5. ASSUME kind # "can"
      PROVE  /\ queue' = <<>> \/ queue' = Append(<<>>, t)
             /\ stream' = 1 /\ ops' \subseteq {"open"} /\ (~open' => ops' = {})
  <2>1. Dev!Done("open", ok) = t
    BY <1>1, <1>5 DEF Dev!Done
  <2>2. queue' = <<>> \/ queue' = Append(<<>>, t)
    BY <1>1, <1>2, <1>5, <2>1
  <2> QED BY <1>1, <1>2, <1>5, <2>2
<1>6. /\ queue' = <<>> \/ queue' = Append(<<>>, t)
      /\ stream' = 1 /\ ops' \subseteq Operations /\ (~open' => ops' = {})
  BY <1>1, <1>2, <1>4, <1>5 DEF Operations
<1> HIDE DEF t
<1>7. queue' \in Seq(Items) /\ Never(queue', DeleteItems, Reports) /\ ~Has(queue', DeleteItems)
  <2>1. <<>> \in Seq(Items)
    OBVIOUS
  <2>2. /\ ~Has(<<>>, DeleteItems) /\ ~Has(<<>>, Reports)
        /\ Never(<<>>, DeleteItems, Reports)
    BY EmptyQueue
  <2>3. CASE queue' = <<>>
    BY <2>1, <2>2, <2>3
  <2>4. CASE queue' = Append(<<>>, t)
    <3>1. /\ Append(<<>>, t) \in Seq(Items) /\ ~Has(Append(<<>>, t), DeleteItems)
          /\ Never(Append(<<>>, t), DeleteItems, Reports)
      BY <1>3, <2>1, <2>2, AppendQueue
    <3> QED BY <2>4, <3>1
  <2> QED BY <1>6, <2>3, <2>4
<1>8. DeviceTypes' /\ OpenedOnce' /\ DeletedClosed'
  BY <1>1, <1>2, <1>6, <1>7 DEF DeviceTypes, OpenedOnce, DeletedClosed
<1> QED BY <1>1, <1>2, <1>8 DEF DeviceInv

LEMMA UserCloseStep ==
  ASSUME DeviceInv, Dev!AllDeviceRules \subseteq DeviceRules, Dev!UserClose
  PROVE  DeviceInv'
<1>1. /\ ~dangled /\ DeviceTypes /\ OpenedOnce /\ DeletedClosed
      /\ opens = 1 /\ stream = 1
  BY DEF DeviceInv, DeviceTypes, OpenedOnce, Dev!UserClose, Dev!AllDeviceRules
<1>2. /\ Dev!Close(queue)
      /\ UNCHANGED <<kind, stream, stopped, q, dying, opens, dangled>>
  BY <1>1 DEF Dev!UserClose
<1>3. Harmless(queue', queue) /\ close_called' = TRUE /\ open' = FALSE /\ ops' = {}
  BY <1>1, <1>2, CloseStep DEF DeviceTypes, OpenedOnce
<1> QED BY <1>1, <1>2, <1>3
        DEF DeviceInv, DeviceTypes, OpenedOnce, DeletedClosed, Harmless

LEMMA WriteStep == ASSUME DeviceInv, Dev!Write PROVE DeviceInv'
<1>1. /\ ~dangled /\ DeviceTypes /\ OpenedOnce /\ DeletedClosed
      /\ opens = 1 /\ stream = 1 /\ ~stopped
  BY DEF DeviceInv, DeviceTypes, OpenedOnce, Dev!Write
<1>2. /\ Dev!Starts("write", queue) \/ UNCHANGED <<ops, queue>>
      /\ UNCHANGED <<kind, stream, open, stopped, close_called, q, dying, opens, dangled>>
  BY DEF Dev!Write
<1>3. Harmless(queue', queue) /\ ops' \in {ops, IF open THEN ops \cup {"write"} ELSE ops}
  <2>1. CASE Dev!Starts("write", queue)
    <3>1. "write" \in Operations
      BY DEF Operations
    <3> QED BY <1>1, <2>1, <3>1, StartsStep DEF DeviceTypes
  <2>2. CASE UNCHANGED <<ops, queue>>
    BY <1>1, <2>2 DEF Harmless, DeviceTypes
  <2> QED BY <1>2, <2>1, <2>2
<1>4. DeviceTypes'
  BY <1>1, <1>2, <1>3 DEF DeviceTypes, Harmless, Operations
<1> QED BY <1>1, <1>2, <1>3, <1>4 DEF DeviceInv, OpenedOnce, DeletedClosed, Harmless

LEMMA DeviceDeleteStep ==
  ASSUME DeviceInv, Dev!AllDeviceRules \subseteq DeviceRules, Dev!DeleteLater
  PROVE  DeviceInv'
<1> DEFINE t == Dev!Done("delete", TRUE)
<1>1. /\ ~dangled /\ DeviceTypes /\ OpenedOnce /\ DeletedClosed
      /\ opens = 1 /\ stream = 1 /\ ~open /\ q /\ ~dying /\ dying' = TRUE
      /\ queue' = Append(queue, t)
      /\ UNCHANGED <<kind, stream, open, stopped, close_called, q, ops, opens, dangled>>
  BY DEF DeviceInv, DeviceTypes, OpenedOnce, Dev!DeleteLater, Dev!AllDeviceRules
<1>2. t \in Items /\ t \notin Reports
  BY <1>1, ItemFacts
<1> HIDE DEF t
<1>3. /\ queue' \in Seq(Items)
      /\ Never(queue', DeleteItems, Reports)
  BY <1>1, <1>2, AppendQueue DEF DeviceTypes, DeletedClosed
<1> QED BY <1>1, <1>3 DEF DeviceInv, DeviceTypes, OpenedOnce, DeletedClosed

LEMMA CompletesStep ==
  ASSUME DeviceInv, NEW op \in Operations, NEW ok \in BOOLEAN, Dev!Completes(op, ok)
  PROVE  DeviceInv'
<1> DEFINE t == Dev!Done(op, ok)
<1>1. /\ ~dangled /\ DeviceTypes /\ OpenedOnce /\ DeletedClosed
      /\ op \in ops /\ ops' = ops \ {op} /\ queue' = Append(queue, t)
      /\ UNCHANGED <<kind, stream, open, stopped, close_called, q, dying, opens, dangled>>
  BY DEF DeviceInv, Dev!Completes
<1>2. open /\ opens = 1 /\ stream = 1
  BY <1>1 DEF OpenedOnce, DeviceTypes
<1>3. t \in Items /\ t \notin DeleteItems
  BY <1>2, ItemFacts DEF Operations
<1> HIDE DEF t
<1>4. ~dying /\ q /\ ~Has(queue, DeleteItems)
  BY <1>1, <1>2 DEF DeletedClosed
<1>5. /\ queue' \in Seq(Items) /\ ~Has(queue', DeleteItems)
      /\ Never(queue', DeleteItems, Reports)
  BY <1>1, <1>3, <1>4, AppendQueue DEF DeviceTypes, DeletedClosed
<1> QED BY <1>1, <1>2, <1>4, <1>5 DEF DeviceInv, DeviceTypes, OpenedOnce, DeletedClosed

\* The first of the queue, of a device whose invariant holds.
LEMMA DeviceHead ==
  ASSUME DeviceInv, queue # <<>>
  PROVE  /\ Head(queue) \in Items /\ Tail(queue) \in Seq(Items)
         /\ Never(Tail(queue), DeleteItems, Reports)
         /\ Has(Tail(queue), DeleteItems) => Has(queue, DeleteItems)
         /\ Has(Tail(queue), Reports) => Has(queue, Reports)
         /\ Head(queue) \in DeleteItems => /\ Has(queue, DeleteItems)
                                         /\ ~Has(Tail(queue), Reports)
         /\ Head(queue) \in Reports => Has(queue, Reports)
         /\ opens = 1 /\ stream = 1
<1>1. DeviceTypes /\ DeletedClosed /\ OpenedOnce
  BY DEF DeviceInv
<1> QED BY <1>1, TailQueue DEF DeviceTypes, DeletedClosed, OpenedOnce

LEMMA DeletedStep == ASSUME DeviceInv, Dev!Deleted PROVE DeviceInv'
<1>1. /\ ~dangled /\ DeviceTypes /\ OpenedOnce /\ DeletedClosed
      /\ queue # <<>> /\ Head(queue).op = "delete" /\ q' = FALSE
      /\ queue' = Tail(queue)
      /\ UNCHANGED <<kind, stream, open, stopped, close_called, ops, dying, opens, dangled>>
  BY DEF DeviceInv, Dev!Deleted, Dev!Running, Dev!Rest
<1>2. Head(queue) \in DeleteItems
  BY <1>1, DeviceHead, ItemFacts
<1> QED BY <1>1, <1>2, DeviceHead
        DEF DeviceInv, DeviceTypes, OpenedOnce, DeletedClosed

\* A handler starts an operation, stops, or does neither, and reports only
\* through what it was queued for.
LEMMA DeviceHandlerStep ==
  ASSUME DeviceInv, queue # <<>>,
         \/ /\ \E op \in Operations : Dev!Starts(op, Dev!Rest)
            /\ UNCHANGED <<stopped, close_called, open>>
         \/ queue' = Dev!Rest /\ UNCHANGED <<stopped, close_called, open, ops>>
         \/ Dev!Stop(Dev!Rest),
         dangled' \in {dangled, dangled \/ Dev!Dangling,
                       dangled \/ Dev!Dangling
                               \/ (Head(queue) \in Reports /\ ~q)},
         UNCHANGED <<kind, stream, q, dying, opens>>
  PROVE  DeviceInv'
<1>1. ~dangled /\ DeviceTypes /\ OpenedOnce /\ DeletedClosed
  BY DEF DeviceInv
<1>2. ~dangled'
  <2>1. ~Dev!Dangling
    BY DeviceHead, ItemFacts DEF Dev!Dangling
  <2>2. ~(Head(queue) \in Reports /\ ~q)
    BY <1>1, DeviceHead DEF DeletedClosed
  <2> QED BY <1>1, <2>1, <2>2
<1>3. /\ Harmless(queue', Tail(queue)) /\ ops' \subseteq Operations
      /\ ~open' => ops' = {}
      /\ stopped' \/ close_called' => ~open'
      /\ ~open => ~open'
  <2>1. CASE /\ \E op \in Operations : Dev!Starts(op, Dev!Rest)
             /\ UNCHANGED <<stopped, close_called, open>>
    <3>1. PICK op \in Operations : Dev!Starts(op, Tail(queue))
      BY <2>1 DEF Dev!Rest
    <3>2. Harmless(queue', Tail(queue)) /\ ops' = IF open THEN ops \cup {op} ELSE ops
      BY <3>1, DeviceHead, StartsStep
    <3> QED BY <1>1, <2>1, <3>2 DEF DeviceTypes, OpenedOnce
  <2>2. CASE queue' = Dev!Rest /\ UNCHANGED <<stopped, close_called, open, ops>>
    <3>1. Harmless(queue', Tail(queue))
      BY <2>2, DeviceHead DEF Dev!Rest, Harmless
    <3> QED BY <1>1, <2>2, <3>1 DEF DeviceTypes, OpenedOnce
  <2>3. CASE Dev!Stop(Dev!Rest)
    BY <1>1, <2>3, DeviceHead, CloseStep DEF Dev!Stop, Dev!Rest, DeviceTypes, OpenedOnce
  <2> QED BY <2>1, <2>2, <2>3
<1>4. DeletedClosed'
  BY <1>1, <1>3, DeviceHead DEF DeletedClosed, Harmless
<1>5. DeviceTypes' /\ OpenedOnce'
  BY <1>1, <1>3, DeviceHead DEF DeviceTypes, OpenedOnce, Harmless
<1> QED BY <1>2, <1>4, <1>5 DEF DeviceInv

LEMMA DeviceNext ==
  ASSUME DeviceInv, Dev!AllDeviceRules \subseteq DeviceRules,
         [Dev!Next]_(Dev!deviceVars)
  PROVE  DeviceInv'
<1>1. CASE Dev!User
  BY <1>1, OpenStep, UserCloseStep, WriteStep, DeviceDeleteStep DEF Dev!User
<1>2. CASE Dev!Kernel
  BY <1>2, CompletesStep DEF Dev!Kernel, Operations
<1>3. CASE Dev!Dropped
  <2>1. /\ queue # <<>> /\ queue' = Dev!Rest
        /\ UNCHANGED <<stopped, close_called, open, ops>>
        /\ UNCHANGED <<kind, stream, q, dying, opens, dangled>>
    BY <1>3 DEF Dev!Dropped
  <2> QED BY <2>1, DeviceHandlerStep
<1>4. CASE Dev!HandleOpen
  <2>1. /\ queue # <<>>
        /\ \/ /\ Dev!Starts("read", Dev!Rest)
              /\ UNCHANGED <<stopped, close_called, open>>
           \/ Dev!Stop(Dev!Rest)
        /\ dangled' = (dangled \/ Dev!Dangling)
        /\ UNCHANGED <<kind, stream, q, dying, opens>>
    BY <1>4 DEF Dev!HandleOpen, Dev!Running
  <2> QED BY <2>1, DeviceHandlerStep DEF Operations
<1>5. CASE Dev!HandleRead
  <2>1. /\ queue # <<>> /\ Head(queue).op = "read"
        /\ \/ /\ Dev!Starts("read", Dev!Rest)
              /\ UNCHANGED <<stopped, close_called, open>>
           \/ Dev!Stop(Dev!Rest)
        /\ dangled' = (dangled \/ Dev!Dangling \/ (Head(queue).ok /\ ~q))
        /\ UNCHANGED <<kind, stream, q, dying, opens>>
    BY <1>5 DEF Dev!HandleRead, Dev!Running
  <2>2. Head(queue).ok <=> Head(queue) \in Reports
    BY <2>1, DeviceHead, ItemFacts
  <2> QED BY <2>1, <2>2, DeviceHandlerStep DEF Operations
<1>6. CASE Dev!HandleWrite
  <2>1. /\ queue # <<>> /\ Head(queue).op = "write"
        /\ \/ /\ Dev!Starts("write", Dev!Rest)
              /\ UNCHANGED <<stopped, close_called, open>>
           \/ queue' = Dev!Rest /\ UNCHANGED <<stopped, close_called, open, ops>>
           \/ Dev!Stop(Dev!Rest)
        /\ dangled' = (dangled \/ Dev!Dangling \/ (Head(queue).ok /\ ~q))
        /\ UNCHANGED <<kind, stream, q, dying, opens>>
    BY <1>6 DEF Dev!HandleWrite, Dev!Running
  <2>2. Head(queue).ok <=> Head(queue) \in Reports
    BY <2>1, DeviceHead, ItemFacts
  <2> QED BY <2>1, <2>2, DeviceHandlerStep DEF Operations
<1>7. CASE UNCHANGED Dev!deviceVars
  BY <1>7 DEF Dev!deviceVars, Dev!streamVars, DeviceInv, DeviceTypes, OpenedOnce,
              DeletedClosed
<1> QED BY <1>1, <1>2, <1>3, <1>4, <1>5, <1>6, <1>7, DeletedStep
        DEF Dev!Next, Dev!Loop

LEMMA DeviceSafety ==
  ASSUME Dev!AllDeviceRules \subseteq DeviceRules
  PROVE  Dev!Spec => []Dev!ClosedInTheEnd
<1>1. Dev!Init => DeviceInv
  BY DeviceInit
<1>2. DeviceInv /\ [Dev!Next]_(Dev!deviceVars) => DeviceInv'
  BY DeviceNext
<1>3. DeviceInv => Dev!ClosedInTheEnd
  BY DEF DeviceInv, OpenedOnce, Dev!ClosedInTheEnd
<1> QED BY <1>1, <1>2, <1>3, PTL DEF Dev!Spec

\* A datagram socket and the other owners of a stream end closed: opened once,
\* a stopped one has given its descriptor back and nothing pending, never
\* reports through an owner that is gone, and has one receive at most.
THEOREM EndsClosedSafety ==
  ASSUME Dev!AllDeviceRules \subseteq DeviceRules
  PROVE  Udp!Spec /\ Dev!Spec => []EndsClosed
<1>1. Udp!StoppedIsClosed /\ Dev!ClosedInTheEnd => EndsClosed
  BY DEF EndsClosed
<1> QED BY <1>1, UdpSafety, DeviceSafety, PTL

=============================================================================
