---------------------------- MODULE ProcessProofs ----------------------------
(***************************************************************************)
(* Proofs about Process and the child it runs, for any number of children, *)
(* of calls inside callbacks and of bytes.                                 *)
(***************************************************************************)
EXTENDS MCStreams, ContainerLemmas

-----------------------------------------------------------------------------
\* The calls that are inside a callback, the innermost first.

Labels == {"create", "attach", "return", "kill", "stopped"}

\* What calls may be begun from: Start that failed and the report of the end,
\* which is the outermost.
Under(s) ==
  \A i \in 1..Len(s) : /\ s[i] \in {"return", "stopped"}
                       /\ s[i] = "stopped" => i = Len(s)

\* Nothing is being created or killed.
Resting(s) ==
  \/ Under(s)
  \/ s # <<>> /\ Head(s) = "attach" /\ Under(Tail(s))

Nested(s) ==
  /\ s \in Seq(Labels)
  /\ \/ Resting(s)
     \/ s # <<>> /\ Head(s) = "create" /\ Under(Tail(s))
     \/ s # <<>> /\ Head(s) = "kill" /\ Resting(Tail(s))

-----------------------------------------------------------------------------
\* The loop's queue.

Items == [op : {"read", "delete"}, fd : Child!Fds, n : Nat] \cup {Child!Poll}

ReadsOf(fd)   == {t \in Items : t.op = "read" /\ t.fd = fd}
DeletesOf(fd) == {t \in Items : t.op = "delete" /\ t.fd = fd}
Polls         == {t \in Items : t.op = "poll"}

-----------------------------------------------------------------------------
\* The invariant.

ProcessRules == {"destroyIdle", "destroyStarted", "assign"}

\* The Process is destroyed only when it was started and does not run.
Orderly == broken \cap {"destroyIdle", "destroyStarted"} = {}

Runs == state \in {"running", "stopping"}

Attaching == Has(stack, {"attach"})

ChildTypes ==
  /\ Child!SubprocessTypes
  /\ state \in Child!States
  /\ att \in [Child!Channels -> 0..MaxStarts]
  /\ poll \in {"off", "waiting", "queued"}
  /\ gone \in BOOLEAN /\ fault \in BOOLEAN
  /\ reading \subseteq Child!Fds /\ fdStopped \subseteq Child!Fds
  /\ released \subseteq Child!Fds /\ fdGone \subseteq Child!Fds
  /\ tasks \in Seq(Items)
  /\ broken \subseteq ProcessRules
  /\ starts \in 0..MaxStarts /\ stops \in Nat
  /\ pipe \in [Child!Channels -> Nat] /\ wrote \in [Child!Channels -> Nat]
  /\ brought \in [Child!Channels -> Nat] /\ writers \subseteq Child!Channels

StackInv ==
  /\ Nested(stack)
  /\ state = "starting" <=> stack # <<>> /\ Head(stack) = "create"
  /\ spawn = Child!Idle <=> state # "starting"
  /\ state = "starting" => starts < MaxStarts
  /\ stack # <<>> /\ Head(stack) = "kill" => state = "stopping"
  /\ Attaching => starts >= 1 /\ Runs

\* A child is there from posix_spawn until it is reaped, and what creating it
\* opened is closed by the time it runs or has failed.
KidInv ==
  /\ Runs => /\ ends = {} /\ proc.child = proc.alive
             /\ proc.alive <=> kid # "none"
  /\ ~Runs => ~proc.child /\ ~proc.alive
  /\ state = "notRunning" \/ spawn = Child!Failed =>
       ends = {} /\ kid = "none" /\ proc.files = {}
  /\ spawn \in {<<"file", p>> : p \in Child!Pipes} \cup {Child!Created} =>
       kid # "none"
  /\ spawn = <<"file", "out">> => ends \cap Child!Both("in") = {}
  /\ spawn = <<"file", "err">> =>
       ends \cap (Child!Both("in") \cup Child!Both("out")) = {}
  /\ spawn = Child!Created => ends = {}

\* A ProcessFd that reads has its read pending or queued, one that stopped is
\* deleted once.
FdRight(fd) ==
  /\ fd \in reading \/ Has(tasks, ReadsOf(fd)) =>
       att[fd[2]] = fd[1] /\ fd \notin fdStopped
  /\ fd \in reading => ~Has(tasks, ReadsOf(fd))
  /\ Never(tasks, ReadsOf(fd), ReadsOf(fd))
  /\ Has(tasks, DeletesOf(fd)) => fd \in fdStopped /\ fd \notin fdGone
  /\ Never(tasks, DeletesOf(fd), DeletesOf(fd))
  /\ fd \in fdGone \cup released => fd \in fdStopped
  /\ fd \in fdStopped => fd[1] <= starts

FdInv == \A fd \in Child!Fds : FdRight(fd)

AttInv ==
  \A ch \in Child!Channels :
    /\ att[ch] \in {0, starts}
    /\ ~Runs \/ Attaching => att[ch] = 0
    /\ Attaching => <<starts, ch>> \notin fdStopped

PollInv ==
  /\ poll = "queued" <=> Has(tasks, Polls)
  /\ Never(tasks, Polls, Polls)
  /\ poll # "off" => Runs /\ ~Attaching

\* What a queued read brings is what the child wrote and nobody has read yet;
\* it brings nothing when the pipe has ended.
Brings(ch) ==
  {t \in Items : /\ wrote[ch] = pipe[ch] + brought[ch] + t.n
                 /\ t.n = 0 => ch \notin writers /\ pipe[ch] = 0}

OutputRight(ch) ==
  LET reads == ReadsOf(<<starts, ch>>)
  IN  /\ ~Has(tasks, reads) => wrote[ch] = pipe[ch] + brought[ch]
      /\ ~Has(tasks, reads \ Brings(ch))
      /\ ~Attaching /\ att[ch] = 0 => ch \notin writers /\ pipe[ch] = 0

OutputInv == Runs => \A ch \in Child!Channels : OutputRight(ch)

\* Each child that was created runs, was reported, or is being reported.
CountInv ==
  starts = stops + (IF Runs THEN 1 ELSE 0)
                 + (IF Has(stack, {"stopped"}) THEN 1 ELSE 0)

Tidy ==
  /\ ~fault /\ (gone => state = "notRunning")
  /\ KidInv /\ FdInv /\ AttInv /\ PollInv /\ OutputInv /\ CountInv

ChildInv == ChildTypes /\ StackInv /\ (Orderly => Tidy)

-----------------------------------------------------------------------------
\* The steps of creating a child.

LEMMA StepsAre ==
  /\ {Child!Steps[i] : i \in 1..Len(Child!Steps)}
       = {<<"pipe", "in">>, <<"pipe", "out">>, <<"pipe", "err">>,
          <<"actions", "all">>, <<"spawn", "all">>,
          <<"file", "in">>, <<"file", "out">>, <<"file", "err">>}
  /\ Child!Steps[1] = <<"pipe", "in">>
<1> DEFINE S == Child!Steps
<1>1. /\ Len(S) = 8
      /\ S[1] = <<"pipe", "in">> /\ S[2] = <<"pipe", "out">>
      /\ S[3] = <<"pipe", "err">> /\ S[4] = <<"actions", "all">>
      /\ S[5] = <<"spawn", "all">> /\ S[6] = <<"file", "in">>
      /\ S[7] = <<"file", "out">> /\ S[8] = <<"file", "err">>
  BY DEF Child!Steps
<1> HIDE DEF S
<1>2. \A i : i \in 1..8 <=> i \in {1, 2, 3, 4, 5, 6, 7, 8}
  OBVIOUS
<1>3. \A s : s \in {S[i] : i \in 1..Len(S)}
               <=> s \in {S[1], S[2], S[3], S[4], S[5], S[6], S[7], S[8]}
  BY <1>1, <1>2
<1> QED BY <1>1, <1>3 DEF S

LEMMA StepsAfter ==
  /\ Child!StepAfter(<<"pipe", "in">>) = <<"pipe", "out">>
  /\ Child!StepAfter(<<"pipe", "out">>) = <<"pipe", "err">>
  /\ Child!StepAfter(<<"pipe", "err">>) = <<"actions", "all">>
  /\ Child!StepAfter(<<"actions", "all">>) = <<"spawn", "all">>
  /\ Child!StepAfter(<<"spawn", "all">>) = <<"file", "in">>
  /\ Child!StepAfter(<<"file", "in">>) = <<"file", "out">>
  /\ Child!StepAfter(<<"file", "out">>) = <<"file", "err">>
  /\ Child!StepAfter(<<"file", "err">>) = Child!Created
<1> DEFINE S == Child!Steps
<1>1. /\ Len(S) = 8
      /\ S[1] = <<"pipe", "in">> /\ S[2] = <<"pipe", "out">>
      /\ S[3] = <<"pipe", "err">> /\ S[4] = <<"actions", "all">>
      /\ S[5] = <<"spawn", "all">> /\ S[6] = <<"file", "in">>
      /\ S[7] = <<"file", "out">> /\ S[8] = <<"file", "err">>
  BY DEF Child!Steps
<1>2. \A s : Child!StepAfter(s)
               = LET i == CHOOSE i \in 1..Len(S) : S[i] = s
                 IN  IF i = Len(S) THEN Child!Created ELSE S[i + 1]
  BY DEF Child!StepAfter
<1> HIDE DEF S
<1>3. \A i : i \in 1..8 <=> i \in {1, 2, 3, 4, 5, 6, 7, 8}
  OBVIOUS
<1>4. ASSUME NEW i \in 1..8, NEW j \in 1..8, i < j PROVE S[i] # S[j]
  <2>1. /\ S[1][1] = "pipe" /\ S[2][1] = "pipe" /\ S[3][1] = "pipe"
        /\ S[4][1] = "actions" /\ S[5][1] = "spawn"
        /\ S[6][1] = "file" /\ S[7][1] = "file" /\ S[8][1] = "file"
    BY <1>1
  <2>2. /\ S[1][2] = "in" /\ S[2][2] = "out" /\ S[3][2] = "err"
        /\ S[6][2] = "in" /\ S[7][2] = "out" /\ S[8][2] = "err"
    BY <1>1
  <2>6. i \in {1, 2, 3, 4, 5, 6, 7, 8} /\ j \in {1, 2, 3, 4, 5, 6, 7, 8}
    BY <1>3
  <2>7. CASE i \in {1, 2, 3, 4}
    BY <1>4, <2>1, <2>2, <2>6, <2>7
  <2>8. CASE i \in {5, 6, 7, 8}
    BY <1>4, <2>1, <2>2, <2>6, <2>8
  <2> QED BY <2>6, <2>7, <2>8
<1>5. ASSUME NEW k \in 1..8
      PROVE  Child!StepAfter(S[k]) = IF k = 8 THEN Child!Created ELSE S[k + 1]
  <2>1. \A i \in 1..8 : S[i] = S[k] => i = k
    <3> TAKE i \in 1..8
    <3>1. i = k \/ i < k \/ k < i
      OBVIOUS
    <3> QED BY <1>4, <3>1
  <2>2. (CHOOSE i \in 1..Len(S) : S[i] = S[k]) = k
    BY <1>1, <2>1
  <2>3. PICK c : c = CHOOSE i \in 1..Len(S) : S[i] = S[k]
    OBVIOUS
  <2>4. Child!StepAfter(S[k]) = IF c = Len(S) THEN Child!Created ELSE S[c + 1]
    BY <1>2, <2>3
  <2> QED BY <1>1, <2>2, <2>3, <2>4
<1>6. \A k \in 1..8 : Child!StepAfter(S[k])
                        = IF k = 8 THEN Child!Created ELSE S[k + 1]
  BY <1>5
<1>7. 1 + 1 = 2 /\ 2 + 1 = 3 /\ 3 + 1 = 4 /\ 4 + 1 = 5 /\ 5 + 1 = 6
      /\ 6 + 1 = 7 /\ 7 + 1 = 8
  OBVIOUS
<1>8. /\ Child!StepAfter(S[1]) = S[2] /\ Child!StepAfter(S[2]) = S[3]
      /\ Child!StepAfter(S[3]) = S[4] /\ Child!StepAfter(S[4]) = S[5]
      /\ Child!StepAfter(S[5]) = S[6] /\ Child!StepAfter(S[6]) = S[7]
      /\ Child!StepAfter(S[7]) = S[8] /\ Child!StepAfter(S[8]) = Child!Created
  BY <1>3, <1>6, <1>7
<1> QED BY <1>1, <1>8

-----------------------------------------------------------------------------
\* Calls that are begun from inside a callback, and end.

LEMMA PushCall ==
  ASSUME NEW s \in Seq(Labels), NEW l \in Labels
  PROVE  /\ <<l>> \o s \in Seq(Labels) /\ <<l>> \o s # <<>>
         /\ Head(<<l>> \o s) = l /\ Tail(<<l>> \o s) = s
         /\ \A P : Has(<<l>> \o s, P) <=> (l \in P \/ Has(s, P))
         /\ l = "return" /\ Under(s) => Under(<<l>> \o s)
<1> DEFINE t == <<l>> \o s
<1>1. /\ t \in Seq(Labels) /\ t # <<>> /\ Head(t) = l /\ Tail(t) = s
      /\ Len(t) = Len(s) + 1 /\ Len(s) \in Nat /\ t[1] = l
      /\ \A i \in 1..Len(t) : i # 1 => i - 1 \in 1..Len(s) /\ t[i] = s[i - 1]
  OBVIOUS
<1> HIDE DEF t
<1>2. \A P : Has(t, P) <=> (l \in P \/ Has(s, P))
  BY <1>1, TailQueue
<1>3. ASSUME l = "return", Under(s) PROVE Under(t)
  <2> SUFFICES ASSUME NEW i \in 1..Len(t)
               PROVE  /\ t[i] \in {"return", "stopped"}
                      /\ t[i] = "stopped" => i = Len(t)
    BY DEF Under
  <2>1. CASE i = 1
    BY <1>1, <1>3, <2>1
  <2>2. CASE i # 1
    <3>1. i - 1 \in 1..Len(s) /\ t[i] = s[i - 1]
      BY <1>1, <2>2
    <3>2. /\ s[i - 1] \in {"return", "stopped"}
          /\ s[i - 1] = "stopped" => i - 1 = Len(s)
      BY <1>3, <3>1 DEF Under
    <3> QED BY <1>1, <3>1, <3>2
  <2> QED BY <2>1, <2>2
<1> QED BY <1>1, <1>2, <1>3 DEF t

LEMMA PopCall ==
  ASSUME NEW s \in Seq(Labels), s # <<>>
  PROVE  /\ Head(s) \in Labels /\ Tail(s) \in Seq(Labels)
         /\ \A P : Has(s, P) <=> (Head(s) \in P \/ Has(Tail(s), P))
         /\ Under(s) => /\ Head(s) \in {"return", "stopped"} /\ Under(Tail(s))
                        /\ Head(s) = "stopped" => Tail(s) = <<>>
<1> DEFINE t == Tail(s)
<1>1. /\ t \in Seq(Labels) /\ Len(t) = Len(s) - 1 /\ Len(s) \in Nat
      /\ Len(s) >= 1 /\ Head(s) = s[1] /\ 1 \in 1..Len(s)
      /\ \A i \in 1..Len(t) : i + 1 \in 1..Len(s) /\ t[i] = s[i + 1]
      /\ Len(t) = 0 => t = <<>>
  OBVIOUS
<1> HIDE DEF t
<1>2. ASSUME Under(s) PROVE Under(t)
  <2> SUFFICES ASSUME NEW i \in 1..Len(t)
               PROVE  /\ t[i] \in {"return", "stopped"}
                      /\ t[i] = "stopped" => i = Len(t)
    BY DEF Under
  <2>1. /\ s[i + 1] \in {"return", "stopped"}
        /\ s[i + 1] = "stopped" => i + 1 = Len(s)
    BY <1>1, <1>2 DEF Under
  <2> QED BY <1>1, <2>1
<1>3. ASSUME Under(s) PROVE /\ Head(s) \in {"return", "stopped"}
                            /\ Head(s) = "stopped" => t = <<>>
  BY <1>1, <1>3 DEF Under
<1> QED BY <1>1, <1>2, <1>3, TailQueue DEF t

LEMMA UnderHas ==
  ASSUME NEW s \in Seq(Labels), Under(s)
  PROVE  ~Has(s, {"attach"}) /\ ~Has(s, {"create"})
BY DEF Under, Has

\* The report of an end that is not the only call is under others.
LEMMA EmptyCalls == /\ <<>> \in Seq(Labels) /\ Under(<<>>)
                    /\ \A P : ~Has(<<>>, P)
BY EmptyQueue DEF Under

-----------------------------------------------------------------------------
\* The types of the state.

LEMMA ItemTypes ==
  ASSUME NEW fd \in Child!Fds, NEW n \in Nat
  PROVE  /\ Child!ReadDone(fd, n) \in Items
         /\ Child!ReadDone(fd, n).op = "read"
         /\ Child!ReadDone(fd, n).fd = fd /\ Child!ReadDone(fd, n).n = n
         /\ Child!ReadFailed(fd) = Child!ReadDone(fd, 0)
         /\ Child!DeleteFd(fd) \in Items
         /\ Child!DeleteFd(fd).op = "delete" /\ Child!DeleteFd(fd).fd = fd
BY DEF Child!ReadDone, Child!ReadFailed, Child!DeleteFd, Child!Item, Items

LEMMA PollType == Child!Poll \in Items /\ Child!Poll.op = "poll"
BY DEF Child!Poll, Child!Item, Items

\* What a handler finds at the head of the queue.
LEMMA HeadTypes ==
  ASSUME tasks \in Seq(Items), tasks # <<>>
  PROVE  /\ Head(tasks) \in Items /\ Tail(tasks) \in Seq(Items)
         /\ Head(tasks).op \in {"read", "delete", "poll"}
         /\ Head(tasks).op # "poll" =>
              /\ Head(tasks).fd \in Child!Fds /\ Head(tasks).n \in Nat
              /\ Head(tasks).fd[1] \in 1..MaxStarts
              /\ Head(tasks).fd[2] \in Child!Channels
<1>1. Head(tasks) \in Items /\ Tail(tasks) \in Seq(Items)
  BY TailQueue
<1>2. PICK t : t = Head(tasks)
  OBVIOUS
<1>3. t \in Items
  BY <1>1, <1>2
<1>4. /\ t.op \in {"read", "delete", "poll"}
      /\ t.op # "poll" => t.fd \in Child!Fds /\ t.n \in Nat
  BY <1>3, PollType DEF Items
<1>5. \A fd \in Child!Fds : fd[1] \in 1..MaxStarts /\ fd[2] \in Child!Channels
  BY DEF Child!Fds
<1> QED BY <1>1, <1>2, <1>4, <1>5

Structs == [init : BOOLEAN, child : BOOLEAN, alive : BOOLEAN,
            files : SUBSET Child!Pipes]

AllEnds == UNION {Child!Both(p) : p \in Child!Pipes}

LEMMA StructTypes ==
  ASSUME NEW s \in Structs
  PROVE  /\ Child!Garbage \in Structs /\ Child!Zeroed \in Structs
         /\ ~Child!Zeroed.child /\ ~Child!Zeroed.alive
         /\ [s EXCEPT !.files = {}] \in Structs
         /\ [s EXCEPT !.child = TRUE, !.alive = TRUE] \in Structs
         /\ Child!Destroyed(s) \in Structs
         /\ Child!AliveAfter(s) \in Structs
BY DEF Structs, Child!Garbage, Child!Zeroed, Child!Destroyed,
       Child!AliveAfter, Child!Pipes

\* One step of creating a child: before posix_spawn, posix_spawn, the wrapping
\* of a pipe, or the cleanup after a failure.
LEMMA CreateSteps ==
  ASSUME Child!SubprocessTypes, Child!CreateStep
  PROVE  /\ groupKill' = groupKill
         /\ \/ /\ spawn' \in {<<"pipe", "out">>, <<"pipe", "err">>,
                              <<"actions", "all">>, <<"spawn", "all">>}
               /\ ends' \subseteq AllEnds /\ proc' = proc /\ kid' = kid
            \/ /\ spawn' = <<"file", "in">>
               /\ ends' = ends /\ proc' = proc /\ kid' = "running"
            \/ /\ spawn = <<"file", "in">> /\ spawn' = <<"file", "out">>
               /\ ends' = ends \ Child!Both("in") /\ kid' = kid
               /\ proc' = [proc EXCEPT !.files = @ \cup {"in"}]
            \/ /\ spawn = <<"file", "out">> /\ spawn' = <<"file", "err">>
               /\ ends' = ends \ Child!Both("out") /\ kid' = kid
               /\ proc' = [proc EXCEPT !.files = @ \cup {"out"}]
            \/ /\ spawn = <<"file", "err">> /\ spawn' = Child!Created
               /\ ends' = ends \ Child!Both("err") /\ kid' = kid
               /\ proc' = [proc EXCEPT !.files = @ \cup {"err"}]
            \/ /\ spawn' = Child!Failed /\ ends' = {} /\ kid' = "none"
               /\ proc' = [proc EXCEPT !.files = {}]
<1>1. Child!Pipes = {"in", "out", "err"}
  BY DEF Child!Pipes
<1>2. CASE Child!PipeMade("in") \/ Child!PipeMade("out") \/ Child!PipeMade("err")
  BY <1>1, <1>2, StepsAfter DEF Child!PipeMade, Child!SubprocessTypes, AllEnds
<1>3. CASE Child!ActionsMade
  BY <1>3, StepsAfter DEF Child!ActionsMade, Child!SubprocessTypes, AllEnds
<1>4. CASE Child!Spawned
  BY <1>4, StepsAfter DEF Child!Spawned
<1>5. CASE \/ Child!FileOpened("in") \/ Child!FileOpened("out")
           \/ Child!FileOpened("err")
  BY <1>5, StepsAfter DEF Child!FileOpened
<1>6. CASE Child!CreateFails
  BY <1>6 DEF Child!CreateFails
<1> QED BY <1>1, <1>2, <1>3, <1>4, <1>5, <1>6 DEF Child!CreateStep

LEMMA SpawnTypes ==
  Child!SubprocessTypes <=>
    /\ proc \in Structs /\ ends \subseteq AllEnds
    /\ kid \in {"none", "running", "killed", "zombie"}
    /\ spawn \in {<<"pipe", "in">>, <<"pipe", "out">>, <<"pipe", "err">>,
                  <<"actions", "all">>, <<"spawn", "all">>,
                  <<"file", "in">>, <<"file", "out">>, <<"file", "err">>,
                  Child!Idle, Child!Created, Child!Failed}
    /\ groupKill \in BOOLEAN
BY StepsAre DEF Child!SubprocessTypes, Structs, AllEnds

LEMMA SubprocessStep ==
  ASSUME ChildTypes, Child!Next
  PROVE  Child!SubprocessTypes'
<1>1. /\ proc \in Structs /\ ends \subseteq AllEnds
      /\ kid \in {"none", "running", "killed", "zombie"}
      /\ groupKill \in BOOLEAN
  BY SpawnTypes DEF ChildTypes
<1>2. /\ Child!SubprocessTypes
      /\ Child!Stored \in Structs /\ Child!Destroyed(proc) \in Structs
      /\ Child!AliveAfter(proc) \in Structs
      /\ Child!Destroyed(Child!AliveAfter(proc)) \in Structs
      /\ Child!Zeroed \in Structs
      /\ \A p \in Child!Pipes : [proc EXCEPT !.files = @ \cup {p}] \in Structs
      /\ [proc EXCEPT !.files = {}] \in Structs
  BY <1>1, StructTypes DEF Child!Stored, ChildTypes, Structs
<1>3. CASE UNCHANGED <<proc, ends, kid, spawn, groupKill>>
  BY <1>2, <1>3 DEF Child!SubprocessTypes
<1>4. CASE Child!Start
  <2>1. Child!Steps[1] = <<"pipe", "in">>
    BY StepsAre
  <2> QED BY <1>1, <1>2, <1>4, <2>1, SpawnTypes, StepsAre
          DEF Child!Start, Child!CreateBegins, Child!SubprocessTypes, Structs
<1>5. CASE Child!Destroy
  BY <1>1, <1>2, <1>5 DEF Child!Destroy, Child!SubprocessTypes, Structs
<1>6. CASE Child!Creating
  <2>1. Child!CreateStep
    BY <1>6 DEF Child!Creating
  <2>2. proc' \in Structs
    BY <1>1, <1>2, <2>1, CreateSteps DEF Child!Pipes
  <2>3. ends' \subseteq AllEnds /\ kid' \in {"none", "running", "killed", "zombie"}
    BY <1>1, <1>2, <2>1, CreateSteps
  <2>4. groupKill' \in BOOLEAN
    BY <1>1, <1>2, <2>1, CreateSteps
  <2>5. spawn' \in {<<"pipe", "in">>, <<"pipe", "out">>, <<"pipe", "err">>,
                    <<"actions", "all">>, <<"spawn", "all">>,
                    <<"file", "in">>, <<"file", "out">>, <<"file", "err">>,
                    Child!Idle, Child!Created, Child!Failed}
    BY <1>2, <2>1, CreateSteps
  <2> QED BY <2>2, <2>3, <2>4, <2>5, StepsAre
          DEF Child!SubprocessTypes, Structs, AllEnds
<1>7. CASE Child!CreateOk
  BY <1>1, <1>2, <1>7 DEF Child!CreateOk, Child!SubprocessTypes, Structs
<1>8. CASE Child!CreateFailed
  BY <1>1, <1>2, <1>8 DEF Child!CreateFailed, Child!SubprocessTypes, Structs
<1>9. CASE Child!Kill
  BY <1>1, <1>2, <1>9 DEF Child!Kill, Child!Terminate, Child!SubprocessTypes, Structs
<1>10. CASE Child!Exits
  BY <1>1, <1>2, <1>10 DEF Child!Exits, Child!KidExits, Child!SubprocessTypes
<1>11. CASE Child!PollAgain \/ Child!PollFinishes
  BY <1>1, <1>2, <1>11 DEF Child!PollAgain, Child!PollFinishes,
     Child!SubprocessTypes, Structs
<1> QED
  BY <1>3, <1>4, <1>5, <1>6, <1>7, <1>8, <1>9, <1>10, <1>11
  DEF Child!Next, Child!User, Child!Calls, Child!Kernel, Child!Loop,
      Child!AsyncStop, Child!Return, Child!Attach, Child!ReportStopped,
      Child!Writes, Child!PipeEnds, Child!ReadCompletes, Child!PollExpires,
      Child!Dropped, Child!ReadOk, Child!ReadFails, Child!Delete,
      Child!PollGone, Child!spawnVars

LEMMA QueueStep ==
  ASSUME ChildTypes, Child!Next
  PROVE  tasks' \in Seq(Items)
<1>1. tasks \in Seq(Items)
  BY DEF ChildTypes
<1>2. ASSUME NEW ch \in Child!Channels, att[ch] # 0
      PROVE  Child!Attached(ch) \in Child!Fds
  BY <1>2 DEF Child!Attached, Child!Fds, ChildTypes
<1>3. CASE Child!Destroy
  <2> DEFINE Of(ch) == IF att[ch] = 0 THEN <<>>
                       ELSE (IF Child!Attached(ch) \in reading
                             THEN <<Child!ReadFailed(Child!Attached(ch))>>
                             ELSE <<>>)
                            \o <<Child!DeleteFd(Child!Attached(ch))>>
  <2>1. ASSUME NEW ch \in Child!Channels PROVE Of(ch) \in Seq(Items)
    <3>1. CASE att[ch] = 0
      BY <3>1
    <3>2. CASE att[ch] # 0
      <4>1. /\ Child!ReadFailed(Child!Attached(ch)) \in Items
            /\ Child!DeleteFd(Child!Attached(ch)) \in Items
        BY <1>2, <3>2, ItemTypes
      <4>2. PICK a, b : /\ a = Child!ReadFailed(Child!Attached(ch))
                        /\ b = Child!DeleteFd(Child!Attached(ch))
        OBVIOUS
      <4>3. \A r \in Seq(Items) : r \o <<b>> \in Seq(Items)
        BY <4>1, <4>2
      <4>4. <<a>> \in Seq(Items) /\ <<>> \in Seq(Items)
        BY <4>1, <4>2
      <4> QED BY <3>2, <4>2, <4>3, <4>4
    <3> QED BY <3>1, <3>2
  <2>2. tasks' = tasks \o Of("out") \o Of("err")
    BY <1>3 DEF Child!Destroy
  <2>3. Of("out") \in Seq(Items) /\ Of("err") \in Seq(Items)
    BY <2>1 DEF Child!Channels
  <2> HIDE DEF Of
  <2>4. tasks \o Of("out") \in Seq(Items)
    BY <1>1, <2>3, ConcatQueue
  <2> QED BY <2>2, <2>3, <2>4, ConcatQueue
<1>4. CASE \E ch \in Child!Channels : Child!ReadCompletes(ch)
  <2>1. PICK ch \in Child!Channels : Child!ReadCompletes(ch)
    BY <1>4
  <2>2. att[ch] # 0 /\ pipe[ch] \in Nat
    BY <2>1 DEF Child!ReadCompletes, ChildTypes
  <2>3. Child!ReadDone(Child!Attached(ch), pipe[ch]) \in Items
    BY <1>2, <2>2, ItemTypes
  <2> QED BY <1>1, <2>1, <2>3, AppendQueue DEF Child!ReadCompletes
<1>5. CASE Child!PollExpires
  BY <1>1, <1>5, PollType, AppendQueue DEF Child!PollExpires
<1>6. CASE Child!Loop
  <2>1. /\ tasks # <<>>
        /\ \/ tasks' = Tail(tasks)
           \/ /\ tasks' = Append(Tail(tasks), Child!ReadFailed(Head(tasks).fd))
              /\ Head(tasks).op = "read"
           \/ /\ tasks' = Append(Tail(tasks), Child!DeleteFd(Head(tasks).fd))
              /\ Head(tasks).op = "read"
    BY <1>6 DEF Child!Loop, Child!Running, Child!Rest, Child!Fd, Child!Dropped,
       Child!ReadOk, Child!ReadFails, Child!Delete, Child!PollGone,
       Child!PollAgain, Child!PollFinishes
  <2>2. /\ Tail(tasks) \in Seq(Items)
        /\ Head(tasks).op = "read" => Head(tasks).fd \in Child!Fds
    BY <1>1, <2>1, HeadTypes
  <2>3. ASSUME Head(tasks).op = "read"
        PROVE  /\ Child!ReadFailed(Head(tasks).fd) \in Items
               /\ Child!DeleteFd(Head(tasks).fd) \in Items
    BY <2>2, <2>3, ItemTypes
  <2> QED BY <2>1, <2>2, <2>3, AppendQueue
<1> QED
  BY <1>1, <1>3, <1>4, <1>5, <1>6
  DEF Child!Next, Child!User, Child!Calls, Child!Kernel, Child!Start,
      Child!AsyncStop, Child!Creating, Child!CreateOk, Child!CreateFailed,
      Child!Return, Child!Attach, Child!Kill, Child!ReportStopped,
      Child!Exits, Child!Writes, Child!PipeEnds

LEMMA TypesStep ==
  ASSUME ChildTypes, StackInv, Child!Next
  PROVE  ChildTypes'
<1>1. Child!SubprocessTypes' /\ tasks' \in Seq(Items)
  BY SubprocessStep, QueueStep
<1>2. /\ state \in Child!States /\ att \in [Child!Channels -> 0..MaxStarts]
      /\ poll \in {"off", "waiting", "queued"}
      /\ gone \in BOOLEAN /\ fault \in BOOLEAN
      /\ reading \subseteq Child!Fds /\ fdStopped \subseteq Child!Fds
      /\ released \subseteq Child!Fds /\ fdGone \subseteq Child!Fds
      /\ broken \subseteq ProcessRules
      /\ starts \in 0..MaxStarts /\ stops \in Nat /\ MaxStarts \in Nat
      /\ pipe \in [Child!Channels -> Nat] /\ wrote \in [Child!Channels -> Nat]
      /\ brought \in [Child!Channels -> Nat] /\ writers \subseteq Child!Channels
      /\ tasks \in Seq(Items)
  BY StreamsAssumption DEF ChildTypes
<1> DEFINE Typed ==
      /\ state \in Child!States /\ att \in [Child!Channels -> 0..MaxStarts]
      /\ poll \in {"off", "waiting", "queued"}
      /\ gone \in BOOLEAN /\ fault \in BOOLEAN
      /\ reading \subseteq Child!Fds /\ fdStopped \subseteq Child!Fds
      /\ released \subseteq Child!Fds /\ fdGone \subseteq Child!Fds
      /\ broken \subseteq ProcessRules
      /\ starts \in 0..MaxStarts /\ stops \in Nat
      /\ pipe \in [Child!Channels -> Nat] /\ wrote \in [Child!Channels -> Nat]
      /\ brought \in [Child!Channels -> Nat] /\ writers \subseteq Child!Channels
<1> SUFFICES Typed'
  BY <1>1 DEF ChildTypes
<1>3. CASE Child!Start \/ Child!AsyncStop
  BY <1>2, <1>3 DEF Child!Start, Child!AsyncStop, Child!fdVars,
     Child!pipeVars, Child!logVars, Child!States
<1>4. CASE Child!Destroy
  <2>1. \A ch \in Child!Channels : att[ch] # 0 => Child!Attached(ch) \in Child!Fds
    BY <1>2 DEF Child!Attached, Child!Fds
  <2>2. /\ att' \in [Child!Channels -> 0..MaxStarts]
        /\ poll' \in {"off", "waiting", "queued"} /\ gone' \in BOOLEAN
        /\ fault' \in BOOLEAN /\ starts' = starts /\ stops' = stops
        /\ fdStopped' = fdStopped /\ fdGone' = fdGone
        /\ broken' \subseteq ProcessRules
    BY <1>2, <1>4, SpawnTypes DEF Child!Destroy, ProcessRules, ChildTypes, Structs
  <2>3. /\ pipe' = pipe /\ wrote' = wrote /\ brought' = brought
        /\ writers' = writers /\ state' \in Child!States
    BY <1>2, <1>4 DEF Child!Destroy, Child!pipeVars, Child!States
  <2>4. reading' \subseteq Child!Fds /\ released' \subseteq Child!Fds
    BY <1>2, <1>4, <2>1 DEF Child!Destroy
  <2> QED BY <1>2, <2>2, <2>3, <2>4
<1>5. CASE \/ Child!Creating \/ Child!CreateFailed \/ Child!Return
           \/ Child!Kill \/ Child!ReportStopped
  BY <1>2, <1>5 DEF Child!Creating, Child!CreateFailed, Child!Return,
     Child!Kill, Child!ReportStopped, Child!fdVars, Child!pipeVars,
     Child!logVars, Child!States
<1>6. CASE Child!CreateOk
  <2>1. state = "starting"
    BY <1>6 DEF Child!CreateOk, Child!Top, StackInv
  <2>2. starts < MaxStarts
    BY <2>1 DEF StackInv
  <2> QED BY <1>2, <1>6, <2>2 DEF Child!CreateOk, Child!fdVars, Child!States
<1>7. CASE Child!Attach
  <2>1. starts \in 1..MaxStarts
    <3>1. Attaching
      <4>1. Len(stack) \in Nat /\ Len(stack) >= 1 /\ stack[1] = "attach"
        BY <1>7 DEF Child!Attach, Child!Top, StackInv, Nested
      <4> QED BY <4>1 DEF Attaching, Has
    <3> QED BY <1>2, <3>1 DEF StackInv
  <2>2. \A ch \in Child!Channels : <<starts, ch>> \in Child!Fds
    BY <2>1 DEF Child!Fds
  <2>3. reading' \subseteq Child!Fds /\ fdStopped' \subseteq Child!Fds
        /\ broken' \subseteq ProcessRules
    BY <1>2, <1>7, <2>2 DEF Child!Attach, ProcessRules, Child!Fds
  <2> QED BY <1>2, <1>7, <2>1, <2>3 DEF Child!Attach, Child!pipeVars
<1>8. CASE Child!Kernel
  <2>1. CASE Child!Exits \/ Child!PollExpires
    BY <1>2, <2>1 DEF Child!Exits, Child!PollExpires, Child!fdVars,
       Child!pipeVars, Child!logVars
  <2>2. ASSUME NEW ch \in Child!Channels,
               Child!Writes(ch) \/ Child!PipeEnds(ch) \/ Child!ReadCompletes(ch)
        PROVE  Typed'
    <3>1. CASE Child!Writes(ch)
      BY <1>2, <3>1 DEF Child!Writes, Child!fdVars, Child!logVars
    <3>2. CASE Child!PipeEnds(ch)
      BY <1>2, <3>2 DEF Child!PipeEnds, Child!fdVars, Child!logVars
    <3>3. CASE Child!ReadCompletes(ch)
      BY <1>2, <3>3 DEF Child!ReadCompletes, Child!logVars
    <3> QED BY <2>2, <3>1, <3>2, <3>3
  <2> QED BY <1>8, <2>1, <2>2 DEF Child!Kernel
<1>9. CASE \/ Child!Dropped \/ Child!PollGone \/ Child!PollAgain
           \/ Child!PollFinishes
  BY <1>2, <1>9 DEF Child!Dropped, Child!PollGone, Child!PollAgain,
     Child!PollFinishes, Child!fdVars, Child!pipeVars, Child!logVars, Child!States
<1>10. CASE Child!ReadOk \/ Child!ReadFails \/ Child!Delete
  <2>1. tasks # <<>> /\ Head(tasks).op # "poll"
    BY <1>10 DEF Child!ReadOk, Child!ReadFails, Child!Delete, Child!Running
  <2>2. /\ Head(tasks).fd \in Child!Fds /\ Head(tasks).n \in Nat
        /\ Head(tasks).fd[2] \in Child!Channels
    BY <1>2, <2>1, HeadTypes
  <2>3. CASE Child!ReadOk
    BY <1>2, <2>2, <2>3 DEF Child!ReadOk, Child!Fd, Child!logVars
  <2>4. CASE Child!ReadFails
    <3>1. fdStopped' \subseteq Child!Fds /\ released' \subseteq Child!Fds
      BY <1>2, <2>2, <2>4 DEF Child!ReadFails, Child!Fd
    <3>2. PICK ch : ch = Child!Fd[2]
      OBVIOUS
    <3>3. att' = att \/ att' = [att EXCEPT ![ch] = 0]
      BY <2>4, <3>2 DEF Child!ReadFails
    <3>4. att \in [Child!Channels -> 0..MaxStarts] /\ 0 \in 0..MaxStarts
      BY <1>2
    <3>5. att' \in [Child!Channels -> 0..MaxStarts]
      BY <3>3, <3>4
    <3>6. fault' \in {fault, gone}
      BY <2>4 DEF Child!ReadFails
    <3>7. fault' \in BOOLEAN
      BY <1>2, <3>6
    <3> QED BY <1>2, <2>4, <3>1, <3>5, <3>7
            DEF Child!ReadFails, Child!pipeVars, Child!logVars
  <2>5. CASE Child!Delete
    BY <1>2, <2>2, <2>5 DEF Child!Delete, Child!Fd, Child!pipeVars, Child!logVars
  <2> QED BY <1>10, <2>3, <2>4, <2>5
<1> QED
  BY <1>3, <1>4, <1>5, <1>6, <1>7, <1>8, <1>9, <1>10
  DEF Child!Next, Child!User, Child!Calls, Child!Kernel, Child!Loop

-----------------------------------------------------------------------------
\* The calls that are inside a callback.

LEMMA StackStep ==
  ASSUME ChildTypes, StackInv, Child!Next
  PROVE  StackInv'
<1>1. /\ stack \in Seq(Labels) /\ Nested(stack)
      /\ state = "starting" <=> stack # <<>> /\ Head(stack) = "create"
      /\ spawn = Child!Idle <=> state # "starting"
      /\ state = "starting" => starts < MaxStarts
      /\ stack # <<>> /\ Head(stack) = "kill" => state = "stopping"
      /\ Attaching => starts >= 1 /\ Runs
  BY DEF StackInv, Nested
<1>2. /\ stack # <<>> =>
           /\ Tail(stack) \in Seq(Labels) /\ Head(stack) \in Labels
           /\ \A P : Has(stack, P) <=> (Head(stack) \in P \/ Has(Tail(stack), P))
      /\ Under(<<>>) /\ <<>> \in Seq(Labels) /\ \A P : ~Has(<<>>, P)
  BY <1>1, PopCall, EmptyCalls
\* What is left of the calls is in order again when the innermost one is done.
<1>3. /\ stack # <<>> /\ Head(stack) \in {"create", "attach", "return", "stopped"} =>
           Under(Tail(stack)) /\ Resting(Tail(stack))
      /\ stack # <<>> /\ Head(stack) = "kill" => Resting(Tail(stack))
      /\ stack # <<>> /\ Head(stack) = "stopped" => Tail(stack) = <<>>
  BY <1>1, PopCall DEF Nested, Resting
<1>4. ASSUME NEW s \in Seq(Labels), Under(s)
      PROVE  Nested(s) /\ (s # <<>> => Head(s) \in {"return", "stopped"})
             /\ ~Has(s, {"attach"})
  BY <1>4, PopCall, UnderHas DEF Nested, Resting
<1>5. ASSUME NEW s \in Seq(Labels), Resting(s)
      PROVE  Nested(s) /\ (s # <<>> => Head(s) \in {"return", "stopped", "attach"})
  BY <1>5, PopCall DEF Nested, Resting
<1>6. ASSUME Child!UserTurn, stack # <<>>
      PROVE  Head(stack) # "create"
  <2>1. Head(stack) = stack[1] /\ 1 \in 1..Len(stack)
    BY <1>1, <1>6
  <2> QED BY <1>6, <2>1 DEF Child!UserTurn
<1>7. /\ Child!Idle # <<"pipe", "in">> /\ Child!Idle # Child!Failed
      /\ Child!Idle # Child!Created
  <2>1. \A a, b, c, d : <<a, b>> = <<c, d>> => a = c
    OBVIOUS
  <2> QED BY <2>1 DEF Child!Idle, Child!Failed, Child!Created
<1>8. CASE Child!Start
  <2>1. /\ state = "notRunning" /\ state' = "starting"
        /\ stack' = <<"create">> \o stack /\ starts < MaxStarts /\ starts' = starts
    BY <1>8 DEF Child!Start, Child!logVars
  <2>2. spawn' # Child!Idle
    BY <1>7, <1>8, StepsAre DEF Child!Start, Child!CreateBegins
  <2>3. ~Attaching
    BY <1>1, <2>1 DEF Runs
  <2>4. stack # <<>> => Head(stack) \in {"return", "stopped"}
    <3>1. ASSUME stack # <<>>
          PROVE  Head(stack) # "create" /\ Head(stack) # "kill"
                 /\ Head(stack) # "attach"
      BY <1>1, <1>2, <2>1, <2>3, <3>1 DEF Attaching
    <3> QED BY <1>2, <3>1 DEF Labels
  <2>5. Under(stack)
    BY <1>1, <1>2, <2>4 DEF Nested, Resting
  <2>6. /\ stack' \in Seq(Labels) /\ stack' # <<>> /\ Head(stack') = "create"
        /\ Tail(stack') = stack
        /\ \A P : Has(stack', P) <=> ("create" \in P \/ Has(stack, P))
    BY <1>1, <2>1, PushCall DEF Labels
  <2>7. Nested(stack') /\ ~Attaching'
    BY <2>3, <2>5, <2>6 DEF Nested, Attaching
  <2> QED BY <2>1, <2>2, <2>6, <2>7 DEF StackInv
<1>9. CASE Child!AsyncStop
  <2>1. /\ state = "running" /\ state' = "stopping"
        /\ stack' = <<"kill">> \o stack /\ starts' = starts /\ spawn' = spawn
    BY <1>9 DEF Child!AsyncStop, Child!logVars, Child!spawnVars
  <2>2. Resting(stack)
    <3>1. stack # <<>> => Head(stack) # "create" /\ Head(stack) # "kill"
      BY <1>1, <2>1
    <3> QED BY <1>1, <1>2, <3>1 DEF Nested
  <2>3. /\ stack' \in Seq(Labels) /\ stack' # <<>> /\ Head(stack') = "kill"
        /\ Tail(stack') = stack
        /\ \A P : Has(stack', P) <=> ("kill" \in P \/ Has(stack, P))
    BY <1>1, <2>1, PushCall DEF Labels
  <2>4. Nested(stack') /\ (Attaching' <=> Attaching)
    BY <2>2, <2>3 DEF Nested, Attaching
  <2> QED BY <1>1, <2>1, <2>3, <2>4 DEF StackInv, Runs
<1>10. CASE Child!Destroy
  <2>1. /\ stack = <<>> /\ stack' = <<>> /\ spawn' = spawn /\ starts' = starts
        /\ state' \in {state, "notRunning"}
    BY <1>10 DEF Child!Destroy
  <2> QED BY <1>1, <1>2, <2>1 DEF StackInv, Nested, Resting, Attaching
<1>11. CASE Child!Creating
  <2>1. /\ state' = state /\ stack' = stack /\ starts' = starts
        /\ Child!CreateStep /\ state = "starting"
    BY <1>1, <1>11 DEF Child!Creating, Child!logVars, Child!Top
  <2>2. spawn' # Child!Idle
    <3>1. \A a, b, c, d : <<a, b>> = <<c, d>> => a = c
      OBVIOUS
    <3> QED BY <2>1, <3>1, CreateSteps
            DEF ChildTypes, Child!Idle, Child!Failed, Child!Created
  <2> QED BY <1>1, <2>1, <2>2 DEF StackInv, Attaching, Runs
<1>12. CASE Child!CreateOk
  <2>1. /\ state' = "running" /\ starts' = starts + 1 /\ starts \in Nat
        /\ stack # <<>> /\ Head(stack) = "create" /\ spawn' = Child!Idle
        /\ stack' = <<"attach">> \o Tail(stack)
    BY <1>12 DEF Child!CreateOk, Child!Top, Child!Pop, ChildTypes
  <2>2. /\ stack' \in Seq(Labels) /\ stack' # <<>> /\ Head(stack') = "attach"
        /\ Tail(stack') = Tail(stack)
    BY <1>2, <2>1, PushCall DEF Labels
  <2>3. Nested(stack')
    BY <1>3, <2>1, <2>2 DEF Nested, Resting
  <2> QED BY <2>1, <2>2, <2>3 DEF StackInv, Runs
<1>13. CASE Child!CreateFailed
  <2>1. /\ state' = "notRunning" /\ spawn' = Child!Idle
        /\ stack # <<>> /\ Head(stack) = "create"
        /\ stack' = <<"return">> \o Tail(stack)
    BY <1>13 DEF Child!CreateFailed, Child!Top, Child!Pop
  <2>2. stack' \in Seq(Labels) /\ Under(stack')
    BY <1>2, <1>3, <2>1, PushCall DEF Labels
  <2>3. PICK t : t = stack'
    OBVIOUS
  <2>4. Nested(t) /\ (t # <<>> => Head(t) \in {"return", "stopped"})
        /\ ~Has(t, {"attach"})
    BY <1>4, <2>2, <2>3
  <2> QED BY <2>1, <2>3, <2>4 DEF StackInv, Attaching
<1>14. CASE Child!Return \/ Child!Attach \/ Child!ReportStopped
  <2>1. /\ state' = state /\ spawn' = spawn /\ starts' = starts
        /\ stack # <<>> /\ stack' = Tail(stack)
        /\ Head(stack) \in {"return", "attach", "stopped"}
    BY <1>14 DEF Child!Return, Child!Attach, Child!ReportStopped, Child!Top,
       Child!Pop, Child!spawnVars, Child!logVars
  <2>2. stack' \in Seq(Labels) /\ Under(stack')
    BY <1>2, <1>3, <2>1
  <2>3. PICK t : t = stack'
    OBVIOUS
  <2>4. Nested(t) /\ (t # <<>> => Head(t) \in {"return", "stopped"})
        /\ ~Has(t, {"attach"})
    BY <1>4, <2>2, <2>3
  <2> QED BY <1>1, <2>1, <2>3, <2>4 DEF StackInv, Attaching
<1>15. CASE Child!Kill
  <2>1. /\ state' = state /\ spawn' = spawn /\ starts' = starts
        /\ stack # <<>> /\ stack' = Tail(stack) /\ Head(stack) = "kill"
    BY <1>15 DEF Child!Kill, Child!Terminate, Child!Top, Child!Pop, Child!logVars
  <2>2. PICK t : t = stack'
    OBVIOUS
  <2>3. t \in Seq(Labels) /\ Resting(t) /\ (Has(t, {"attach"}) => Attaching)
    BY <1>2, <1>3, <2>1, <2>2 DEF Attaching
  <2>4. Nested(t) /\ (t # <<>> => Head(t) \in {"return", "stopped", "attach"})
    BY <1>5, <2>3
  <2> QED BY <1>1, <2>1, <2>2, <2>3, <2>4 DEF StackInv, Attaching, Runs
<1>16. CASE Child!PollFinishes
  <2>1. /\ stack = <<>> /\ stack' = <<"stopped">> /\ state' = "notRunning"
        /\ spawn' = spawn /\ starts' = starts
    BY <1>16 DEF Child!PollFinishes, Child!Running, Child!logVars
  <2>2. PICK t : t = <<"stopped">>
    OBVIOUS
  <2>3. /\ t \in Seq(Labels) /\ t # <<>> /\ Head(t) = "stopped" /\ Len(t) = 1
        /\ \A i \in 1..Len(t) : i = Len(t) /\ t[i] = "stopped"
    BY <2>2 DEF Labels
  <2>4. Nested(t) /\ ~Has(t, {"attach"})
    BY <1>4, <2>3 DEF Under
  <2> QED BY <1>1, <2>1, <2>2, <2>3, <2>4 DEF StackInv, Attaching
<1>17. CASE UNCHANGED <<stack, state, spawn, starts>>
  BY <1>1, <1>17 DEF StackInv, Attaching, Runs
<1> QED
  BY <1>8, <1>9, <1>10, <1>11, <1>12, <1>13, <1>14, <1>15, <1>16, <1>17
  DEF Child!Next, Child!User, Child!Calls, Child!Kernel, Child!Loop,
      Child!Exits, Child!KidExits, Child!Writes, Child!PipeEnds,
      Child!ReadCompletes, Child!PollExpires, Child!Dropped, Child!ReadOk,
      Child!ReadFails, Child!Delete, Child!PollGone, Child!PollAgain,
      Child!spawnVars, Child!logVars

-----------------------------------------------------------------------------
\* What the rules of use give.

LEMMA RulesStayBroken == Child!Next /\ Orderly' => Orderly
<1> SUFFICES ASSUME Child!Next PROVE broken \subseteq broken'
  BY DEF Orderly
<1>1. CASE Child!Destroy
  BY <1>1 DEF Child!Destroy
<1>2. CASE Child!Attach
  BY <1>2 DEF Child!Attach
<1>3. CASE broken' = broken
  BY <1>3
<1> QED
  BY <1>1, <1>2, <1>3
  DEF Child!Next, Child!User, Child!Calls, Child!Kernel, Child!Loop,
      Child!Start, Child!AsyncStop, Child!Creating, Child!CreateOk,
      Child!CreateFailed, Child!Return, Child!Kill, Child!ReportStopped,
      Child!Exits, Child!Writes, Child!PipeEnds, Child!ReadCompletes,
      Child!PollExpires, Child!Dropped, Child!ReadOk, Child!ReadFails,
      Child!Delete, Child!PollGone, Child!PollAgain, Child!PollFinishes,
      Child!logVars

\* A Process that does not run has nothing to release.
LEMMA IdleDestroy ==
  ASSUME ChildTypes, Tidy, Child!Destroy, Orderly'
  PROVE  /\ state = "notRunning" /\ state' = "notRunning" /\ ~fault'
         /\ UNCHANGED <<ends, spawn, kid, groupKill, att, fdStopped, fdGone,
                        reading, released, tasks, poll, stack, pipe, writers,
                        wrote, brought, starts, stops>>
         /\ proc' = [proc EXCEPT !.files = {}]
<1>1. state = "notRunning" /\ proc.init
  BY DEF Child!Destroy, Orderly
<1>2. ~Runs
  BY <1>1 DEF Runs
<1>3. /\ att \in [Child!Channels -> 0..MaxStarts]
      /\ \A ch \in Child!Channels : att[ch] = 0
      /\ poll = "off" /\ ~proc.alive /\ tasks \in Seq(Items)
  BY <1>2 DEF Tidy, AttInv, PollInv, KidInv, ChildTypes
<1>4. /\ att' = [ch \in Child!Channels |-> 0] /\ poll' = poll
      /\ UNCHANGED <<ends, spawn, groupKill, fdStopped, fdGone, stack, pipe,
                     writers, wrote, brought, starts, stops>>
  BY <1>3 DEF Child!Destroy, Child!pipeVars
<1>5. att' = att
  BY <1>3, <1>4
<1>6. tasks' = tasks
  <2>1. att["out"] = 0 /\ att["err"] = 0
    BY <1>3 DEF Child!Channels
  <2>2. tasks' = tasks \o <<>> \o <<>>
    BY <2>1 DEF Child!Destroy
  <2>3. \A t \in Seq(Items) : t \o <<>> = t
    OBVIOUS
  <2>4. tasks \o <<>> = tasks
    BY <1>3, <2>3
  <2> QED BY <2>2, <2>4
<1>7. reading' = reading /\ released' = released
  BY <1>3 DEF Child!Destroy
<1>8. ~Child!IsAlive(proc) /\ ~Child!Reaps(proc)
  BY <1>3 DEF Child!IsAlive, Child!Reaps
<1>9. /\ proc' = [proc EXCEPT !.files = {}] /\ kid' = kid
      /\ state' = "notRunning" /\ ~fault'
  BY <1>1, <1>8 DEF Child!Destroy, Child!AliveAfter, Child!Destroyed
<1> QED BY <1>1, <1>4, <1>5, <1>6, <1>7, <1>9

\* Nothing is queued for a Process that is gone, and its poll for none that
\* does not run.
LEMMA PollRuns ==
  ASSUME ChildTypes, Tidy, Child!Running("poll")
  PROVE  /\ Runs /\ ~gone /\ stack = <<>> /\ poll = "queued" /\ ~Attaching
         /\ Head(tasks) \in Polls
<1>1. tasks # <<>> /\ tasks \in Seq(Items) /\ Head(tasks).op = "poll"
      /\ stack = <<>>
  BY DEF Child!Running, ChildTypes
<1>2. Head(tasks) \in Polls
  BY <1>1, HeadTypes DEF Polls
<1>3. Has(tasks, Polls)
  BY <1>1, <1>2, TailQueue
<1>4. poll = "queued" /\ Runs /\ ~Attaching
  BY <1>3 DEF Tidy, PollInv
<1>5. ~gone
  BY <1>4 DEF Tidy, Runs
<1> QED BY <1>1, <1>2, <1>4, <1>5

\* The ProcessFd of a queued read is attached to a child that runs.
LEMMA ReadRuns ==
  ASSUME ChildTypes, Tidy, Child!Running("read"),
         NEW fd, fd = Child!Fd, NEW n, n = Head(tasks).n
  PROVE  /\ fd \in Child!Fds /\ fd = <<starts, fd[2]>> /\ n \in Nat
         /\ fd[1] = starts /\ starts # 0
         /\ fd[2] \in Child!Channels /\ att[fd[2]] = starts
         /\ fd \notin fdStopped /\ fd \notin fdGone /\ fd \notin released
         /\ fd \notin reading
         /\ Runs /\ ~gone /\ stack = <<>> /\ ~Attaching
         /\ Head(tasks) \in ReadsOf(fd) /\ ~Has(Tail(tasks), ReadsOf(fd))
<1>1. tasks # <<>> /\ tasks \in Seq(Items) /\ Head(tasks).op = "read"
      /\ stack = <<>> /\ Child!Fd = Head(tasks).fd
  BY DEF Child!Running, ChildTypes, Child!Fd
<1>2. /\ fd \in Child!Fds /\ fd[1] \in 1..MaxStarts /\ n \in Nat
      /\ fd[2] \in Child!Channels /\ Head(tasks) \in ReadsOf(fd)
  BY <1>1, HeadTypes DEF ReadsOf
<1>3. /\ Has(tasks, ReadsOf(fd))
      /\ Never(tasks, ReadsOf(fd), ReadsOf(fd))
         => ~Has(Tail(tasks), ReadsOf(fd))
  BY <1>1, <1>2, TailQueue
<1>4. /\ att[fd[2]] = fd[1] /\ fd \notin fdStopped /\ fd \notin reading
      /\ fd \notin fdGone /\ fd \notin released
      /\ Never(tasks, ReadsOf(fd), ReadsOf(fd))
  BY <1>2, <1>3 DEF Tidy, FdInv, FdRight
<1>5. att[fd[2]] \in {0, starts} /\ (~Runs => att[fd[2]] = 0)
  BY <1>2 DEF Tidy, AttInv
<1>6. fd[1] # 0
  BY <1>2
<1>7. Runs /\ fd[1] = starts /\ starts # 0
  BY <1>4, <1>5, <1>6
<1>8. ~gone
  BY <1>7 DEF Tidy, Runs
<1>9. ~Attaching
  BY <1>1, EmptyQueue DEF Attaching
<1>10. fd = <<fd[1], fd[2]>>
  BY <1>2 DEF Child!Fds
<1> QED BY <1>1, <1>2, <1>3, <1>4, <1>7, <1>8, <1>9, <1>10

-----------------------------------------------------------------------------
\* The child and what creating it opened.

LEMMA KidStep ==
  ASSUME ChildTypes, StackInv, Tidy, Child!Next, Orderly'
  PROVE  KidInv'
<1>1. /\ proc \in Structs /\ Child!SubprocessTypes /\ ends \subseteq AllEnds
  BY SpawnTypes DEF ChildTypes
<1>2. /\ Runs => ends = {} /\ proc.child = proc.alive /\ (proc.alive <=> kid # "none")
      /\ ~Runs => ~proc.child /\ ~proc.alive
      /\ state = "notRunning" \/ spawn = Child!Failed =>
           ends = {} /\ kid = "none" /\ proc.files = {}
      /\ spawn \in {<<"file", p>> : p \in Child!Pipes} \cup {Child!Created} =>
           kid # "none"
      /\ spawn = <<"file", "out">> => ends \cap Child!Both("in") = {}
      /\ spawn = <<"file", "err">> =>
           ends \cap (Child!Both("in") \cup Child!Both("out")) = {}
      /\ spawn = Child!Created => ends = {}
  BY DEF Tidy, KidInv
<1>3. spawn = Child!Idle <=> state # "starting"
  BY DEF StackInv
<1>4. /\ \A p : Child!Idle # <<"file", p>> /\ <<"pipe", "in">> # <<"file", p>>
                /\ Child!Failed # <<"file", p>>
      /\ Child!Idle # Child!Created /\ Child!Idle # Child!Failed
      /\ Child!Failed # Child!Created
      /\ <<"pipe", "in">> # Child!Created /\ <<"pipe", "in">> # Child!Failed
  <2>1. \A a, b, c, d : <<a, b>> = <<c, d>> => a = c
    OBVIOUS
  <2> QED BY <2>1 DEF Child!Idle, Child!Created, Child!Failed
<1>5. CASE Child!Start
  <2>1. /\ state = "notRunning" /\ state' = "starting"
        /\ ends' = ends /\ kid' = kid
        /\ \/ spawn' = Child!Failed /\ proc' = proc
           \/ spawn' = <<"pipe", "in">> /\ proc' = Child!Zeroed
    BY <1>5, StepsAre DEF Child!Start, Child!CreateBegins
  <2>2. ~proc'.child /\ ~proc'.alive
    BY <1>1, <1>2, <2>1, StructTypes DEF Runs
  <2>3. CASE spawn' = Child!Failed /\ proc' = proc
    BY <1>2, <1>4, <2>1, <2>2, <2>3 DEF KidInv, Runs
  <2>4. CASE spawn' = <<"pipe", "in">>
    <3>1. /\ \A p : spawn' # <<"file", p>>
          /\ spawn' # Child!Created /\ spawn' # Child!Failed
      BY <1>4, <2>4
    <3> QED BY <2>1, <2>2, <3>1 DEF KidInv, Runs
  <2> QED BY <2>1, <2>3, <2>4
<1>6. CASE Child!AsyncStop
  BY <1>2, <1>6 DEF Child!AsyncStop, KidInv, Runs, Child!spawnVars
<1>7. CASE Child!Destroy
  <2>1. /\ state = "notRunning" /\ state' = "notRunning" /\ ends' = ends
        /\ spawn' = spawn /\ kid' = kid /\ proc' = [proc EXCEPT !.files = {}]
    BY <1>7, IdleDestroy
  <2>2. ~proc'.child /\ ~proc'.alive /\ proc'.files = {}
    BY <1>1, <1>2, <2>1 DEF Structs, Runs
  <2>3. ends = {} /\ kid = "none" /\ spawn = Child!Idle
    BY <1>2, <1>3, <2>1
  <2> QED BY <1>4, <2>1, <2>2, <2>3 DEF KidInv, Runs
<1>8. CASE Child!Creating
  <2>1. /\ state = "starting" /\ state' = "starting" /\ Child!CreateStep
    BY <1>8 DEF Child!Creating, Child!Top, StackInv
  <2>2. ~proc.child /\ ~proc.alive
    BY <1>2, <2>1 DEF Runs
  <2>3. ~proc'.child /\ ~proc'.alive
        /\ (spawn' = Child!Failed => proc'.files = {} /\ ends' = {} /\ kid' = "none")
    <3>1. \A a, b, c, d : <<a, b>> = <<c, d>> => a = c
      OBVIOUS
    <3> QED BY <1>1, <2>1, <2>2, <3>1, CreateSteps
            DEF Structs, Child!Failed, Child!Created
  <2>4. /\ spawn' \in {<<"file", p>> : p \in Child!Pipes} \cup {Child!Created} =>
             kid' # "none"
        /\ spawn' = <<"file", "out">> => ends' \cap Child!Both("in") = {}
        /\ spawn' = <<"file", "err">> =>
             ends' \cap (Child!Both("in") \cup Child!Both("out")) = {}
        /\ spawn' = Child!Created => ends' = {}
    <3>1. \A a, b, c, d : <<a, b>> = <<c, d>> => a = c /\ b = d
      OBVIOUS
    <3>2. CASE /\ spawn' \in {<<"pipe", "out">>, <<"pipe", "err">>,
                              <<"actions", "all">>, <<"spawn", "all">>}
      <4>1. spawn' # Child!Created /\ \A p : spawn' # <<"file", p>>
        BY <3>1, <3>2 DEF Child!Created
      <4> QED BY <4>1
    <3>3. CASE spawn' = <<"file", "in">> /\ kid' = "running"
      <4>1. /\ spawn' # Child!Created /\ spawn' # <<"file", "out">>
            /\ spawn' # <<"file", "err">>
        BY <3>1, <3>3 DEF Child!Created
      <4> QED BY <3>3, <4>1
    <3>4. CASE /\ spawn = <<"file", "in">> /\ spawn' = <<"file", "out">>
               /\ ends' = ends \ Child!Both("in") /\ kid' = kid
      <4>1. /\ spawn' # Child!Created /\ spawn' # <<"file", "err">>
            /\ kid # "none"
        BY <1>2, <3>1, <3>4 DEF Child!Created, Child!Pipes
      <4> QED BY <3>4, <4>1
    <3>5. CASE /\ spawn = <<"file", "out">> /\ spawn' = <<"file", "err">>
               /\ ends' = ends \ Child!Both("out") /\ kid' = kid
      <4>1. /\ spawn' # Child!Created /\ spawn' # <<"file", "out">>
            /\ kid # "none" /\ ends \cap Child!Both("in") = {}
        BY <1>2, <3>1, <3>5 DEF Child!Created, Child!Pipes
      <4> QED BY <3>5, <4>1
    <3>6. CASE /\ spawn = <<"file", "err">> /\ spawn' = Child!Created
               /\ ends' = ends \ Child!Both("err") /\ kid' = kid
      <4>1. /\ \A p : spawn' # <<"file", p>>
            /\ kid # "none"
            /\ ends \cap (Child!Both("in") \cup Child!Both("out")) = {}
        BY <1>2, <3>1, <3>6 DEF Child!Created, Child!Pipes
      <4>2. AllEnds = Child!Both("in") \cup Child!Both("out") \cup Child!Both("err")
        BY DEF AllEnds, Child!Pipes
      <4> QED BY <1>1, <3>6, <4>1, <4>2
    <3>7. CASE spawn' = Child!Failed
      BY <1>4, <3>7
    <3> QED BY <1>1, <2>1, <3>2, <3>3, <3>4, <3>5, <3>6, <3>7, CreateSteps
  <2> QED BY <2>1, <2>3, <2>4 DEF KidInv, Runs
<1>9. CASE Child!CreateOk
  <2>1. /\ spawn = Child!Created /\ spawn' = Child!Idle /\ state' = "running"
        /\ ends' = ends /\ kid' = kid /\ proc' = Child!Stored
    BY <1>9 DEF Child!CreateOk
  <2>2. proc'.child /\ proc'.alive
    BY <1>1, <2>1 DEF Child!Stored, Structs
  <2>3. ends = {} /\ kid # "none"
    BY <1>2, <2>1
  <2> QED BY <1>4, <2>1, <2>2, <2>3 DEF KidInv, Runs
<1>10. CASE Child!CreateFailed
  <2>1. /\ spawn = Child!Failed /\ spawn' = Child!Idle /\ state' = "notRunning"
        /\ ends' = ends /\ kid' = kid /\ proc' = proc
    BY <1>10 DEF Child!CreateFailed
  <2>2. state = "starting"
    BY <1>3, <1>4, <2>1
  <2> QED BY <1>2, <1>4, <2>1, <2>2 DEF KidInv, Runs
<1>11. CASE Child!Kill
  <2>1. /\ state' = state /\ proc' = proc /\ ends' = ends /\ spawn' = spawn
        /\ kid' \in {kid, "killed"} /\ (kid = "none" => kid' = "none")
        /\ state = "stopping"
    BY <1>11 DEF Child!Kill, Child!Terminate, Child!Top, StackInv
  <2> QED BY <1>2, <2>1 DEF KidInv, Runs
<1>12. CASE Child!Exits
  <2>1. /\ state' = state /\ proc' = proc /\ ends' = ends /\ spawn' = spawn
        /\ kid # "none" /\ kid' # "none"
    BY <1>12 DEF Child!Exits, Child!KidExits
  <2> QED BY <1>2, <2>1 DEF KidInv, Runs
<1>13. CASE Child!PollAgain \/ Child!PollFinishes
  <2>1. /\ Runs /\ ends' = ends /\ spawn' = spawn /\ Child!Running("poll")
        /\ kid' = IF Child!Reaps(proc) THEN "none" ELSE kid
    BY <1>13, PollRuns DEF Child!PollAgain, Child!PollFinishes
  <2>2. /\ spawn = Child!Idle /\ ends = {} /\ proc.child = proc.alive
        /\ proc.alive <=> kid # "none"
    BY <1>2, <1>3, <2>1 DEF Runs
  <2>3. CASE Child!PollAgain
    <3>1. state' = state /\ proc' = Child!AliveAfter(proc)
      BY <2>3 DEF Child!PollAgain
    <3>2. proc'.child = proc'.alive /\ (proc'.alive <=> kid' # "none")
      BY <1>1, <2>1, <2>2, <3>1 DEF Child!AliveAfter, Child!Reaps, Structs
    <3> QED BY <1>4, <2>1, <2>2, <3>1, <3>2 DEF KidInv, Runs
  <2>4. CASE Child!PollFinishes
    <3>1. /\ state' = "notRunning" /\ ~Child!IsAlive(proc)
          /\ proc' = Child!Destroyed(Child!AliveAfter(proc))
      BY <2>4 DEF Child!PollFinishes, Child!CleansUp
    <3>2. ~proc'.child /\ ~proc'.alive /\ proc'.files = {} /\ kid' = "none"
      BY <1>1, <2>1, <2>2, <3>1
      DEF Child!AliveAfter, Child!Destroyed, Child!IsAlive, Child!Reaps, Structs
    <3> QED BY <1>4, <2>1, <2>2, <3>1, <3>2 DEF KidInv, Runs
  <2> QED BY <1>13, <2>3, <2>4
<1>14. CASE UNCHANGED <<proc, ends, kid, spawn, state>>
  BY <1>2, <1>14 DEF KidInv, Runs
<1> QED
  BY <1>5, <1>6, <1>7, <1>8, <1>9, <1>10, <1>11, <1>12, <1>13, <1>14
  DEF Child!Next, Child!User, Child!Calls, Child!Kernel, Child!Loop,
      Child!Return, Child!Attach, Child!ReportStopped, Child!Writes,
      Child!PipeEnds, Child!ReadCompletes, Child!PollExpires, Child!Dropped,
      Child!ReadOk, Child!ReadFails, Child!Delete, Child!PollGone,
      Child!spawnVars

-----------------------------------------------------------------------------
\* When a ProcessFd is to be attached, or an end to be reported.

LEMMA CallsStep ==
  ASSUME ChildTypes, StackInv, Child!Next, NEW l \in {"attach", "stopped"}
  PROVE  \/ Has(stack', {l}) <=> Has(stack, {l})
         \/ l = "attach" /\ (Child!CreateOk \/ Child!Attach)
         \/ l = "stopped" /\ (Child!PollFinishes \/ Child!ReportStopped)
<1>1. stack \in Seq(Labels)
  BY DEF StackInv, Nested
<1>2. stack # <<>> =>
        /\ Tail(stack) \in Seq(Labels)
        /\ Has(stack, {l}) <=> (Head(stack) = l \/ Has(Tail(stack), {l}))
  BY <1>1, PopCall
<1>3. ASSUME NEW k \in Labels, k # l, NEW s \in Seq(Labels)
      PROVE  Has(<<k>> \o s, {l}) <=> Has(s, {l})
  BY <1>3, PushCall
<1>4. CASE Child!Start
  <2>1. stack' = <<"create">> \o stack
    BY <1>4 DEF Child!Start
  <2> QED BY <1>1, <1>3, <2>1 DEF Labels
<1>5. CASE Child!AsyncStop
  <2>1. stack' = <<"kill">> \o stack
    BY <1>5 DEF Child!AsyncStop
  <2> QED BY <1>1, <1>3, <2>1 DEF Labels
<1>6. CASE Child!CreateOk
  <2>1. /\ stack # <<>> /\ Head(stack) = "create"
        /\ stack' = <<"attach">> \o Tail(stack)
    BY <1>6 DEF Child!CreateOk, Child!Top, Child!Pop
  <2> QED BY <1>2, <1>3, <1>6, <2>1 DEF Labels
<1>7. CASE Child!CreateFailed
  <2>1. /\ stack # <<>> /\ Head(stack) = "create"
        /\ stack' = <<"return">> \o Tail(stack)
    BY <1>7 DEF Child!CreateFailed, Child!Top, Child!Pop
  <2> QED BY <1>2, <1>3, <2>1 DEF Labels
<1>8. CASE \/ Child!Return \/ Child!Attach \/ Child!Kill \/ Child!ReportStopped
  <2>1. /\ stack # <<>> /\ stack' = Tail(stack)
        /\ \/ Head(stack) \notin {"attach", "stopped"}
           \/ Head(stack) = "attach" /\ Child!Attach
           \/ Head(stack) = "stopped" /\ Child!ReportStopped
    BY <1>8 DEF Child!Return, Child!Attach, Child!Kill, Child!ReportStopped,
       Child!Top, Child!Pop
  <2> QED BY <1>2, <2>1
<1>9. CASE Child!PollFinishes
  <2>1. stack = <<>> /\ stack' = <<"stopped">>
    BY <1>9 DEF Child!PollFinishes, Child!Running
  <2>2. ~Has(stack', {"attach"}) /\ ~Has(stack, {"attach"})
    BY <2>1 DEF Has
  <2> QED BY <1>9, <2>2
<1>10. CASE stack' = stack
  BY <1>10
<1> QED
  BY <1>4, <1>5, <1>6, <1>7, <1>8, <1>9, <1>10
  DEF Child!Next, Child!User, Child!Calls, Child!Kernel, Child!Loop,
      Child!Destroy, Child!Creating, Child!Exits, Child!Writes,
      Child!PipeEnds, Child!ReadCompletes, Child!PollExpires, Child!Dropped,
      Child!ReadOk, Child!ReadFails, Child!Delete, Child!PollGone,
      Child!PollAgain

LEMMA AttachingStep ==
  ASSUME ChildTypes, StackInv, Child!Next, ~Child!CreateOk
  PROVE  /\ Attaching' => Attaching
         /\ Child!Attach => Attaching /\ ~Attaching'
         /\ ~Child!Attach => (Attaching' <=> Attaching)
<1>1. ~Child!Attach => (Attaching' <=> Attaching)
  BY CallsStep DEF Attaching
<1>2. ASSUME Child!Attach PROVE Attaching /\ ~Attaching'
  <2>1. /\ stack \in Seq(Labels) /\ stack # <<>> /\ Head(stack) = "attach"
        /\ stack' = Tail(stack)
    BY <1>2 DEF Child!Attach, Child!Top, Child!Pop, StackInv, Nested
  <2>2. Has(stack, {"attach"}) /\ Tail(stack) \in Seq(Labels)
    BY <2>1, PopCall
  <2>3. Under(Tail(stack))
    BY <2>1, PopCall DEF StackInv, Nested, Resting
  <2>4. ~Has(Tail(stack), {"attach"})
    BY <2>2, <2>3, UnderHas
  <2> QED BY <2>1, <2>2, <2>4 DEF Attaching
<1> QED BY <1>1, <1>2

LEMMA AttStep ==
  ASSUME ChildTypes, StackInv, Tidy, Child!Next, Orderly'
  PROVE  AttInv'
<1>1. /\ att \in [Child!Channels -> 0..MaxStarts] /\ starts \in Nat
      /\ fdStopped \subseteq Child!Fds
  BY StreamsAssumption DEF ChildTypes
<1>2. /\ \A ch \in Child!Channels : att[ch] \in {0, starts}
      /\ \A ch \in Child!Channels : ~Runs \/ Attaching => att[ch] = 0
      /\ \A ch \in Child!Channels : Attaching => <<starts, ch>> \notin fdStopped
  BY DEF Tidy, AttInv
<1>3. CASE Child!CreateOk
  <2>1. /\ state = "starting" /\ starts' = starts + 1 /\ att' = att
        /\ fdStopped' = fdStopped
    BY <1>3 DEF Child!CreateOk, Child!Top, StackInv, Child!fdVars
  <2>2. \A ch \in Child!Channels : att[ch] = 0
    BY <1>2, <2>1 DEF Runs
  <2>3. ASSUME NEW ch \in Child!Channels PROVE <<starts + 1, ch>> \notin fdStopped
    <3>1. \A fd \in fdStopped : fd[1] <= starts
      BY <1>1 DEF Tidy, FdInv, FdRight
    <3>2. PICK fd : fd = <<starts + 1, ch>>
      OBVIOUS
    <3>3. fd[1] = starts + 1 /\ ~(starts + 1 <= starts)
      BY <1>1, <3>2
    <3> QED BY <3>1, <3>2, <3>3
  <2> QED BY <2>1, <2>2, <2>3 DEF AttInv
<1>4. CASE Child!Attach
  <2>1. /\ Attaching /\ ~Attaching' /\ state' = state /\ starts' = starts
        /\ att' = [ch \in Child!Channels |-> starts]
    BY <1>4, AttachingStep DEF Child!Attach, Child!CreateOk, Child!Top
  <2>2. Runs' /\ \A ch \in Child!Channels : att'[ch] = starts
    BY <2>1 DEF StackInv, Runs
  <2> QED BY <2>1, <2>2 DEF AttInv
<1>5. CASE Child!ReadFails
  <2>1. /\ Child!Running("read") /\ state' = state /\ starts' = starts
        /\ (att' = att \/ att' = [att EXCEPT ![Child!Fd[2]] = 0])
        /\ stack = <<>> /\ stack' = <<>>
    BY <1>5 DEF Child!ReadFails, Child!Running, Child!logVars
  <2>2. PICK ch : ch = Child!Fd[2]
    OBVIOUS
  <2>3. att' = att \/ att' = [att EXCEPT ![ch] = 0]
    BY <2>1, <2>2
  <2>4. \A c \in Child!Channels : att'[c] \in {0, att[c]}
    BY <1>1, <2>3
  <2>5. ~Attaching' /\ (Runs' <=> Runs)
    BY <2>1, EmptyQueue DEF Attaching, Runs
  <2> QED BY <1>2, <2>1, <2>4, <2>5 DEF AttInv
<1>6. CASE Child!PollFinishes
  <2>1. /\ att' = att /\ fdStopped' = fdStopped /\ starts' = starts
        /\ \A ch \in Child!Channels : att[ch] = 0
        /\ stack = <<>>
    BY <1>6 DEF Child!PollFinishes, Child!CleansUp, Child!Running, Child!fdVars,
       Child!logVars
  <2>2. ~Attaching'
    BY <1>6, <2>1, EmptyQueue, AttachingStep
    DEF Attaching, Child!PollFinishes, Child!CreateOk, Child!Top
  <2> QED BY <1>2, <2>1, <2>2 DEF AttInv
<1>7. CASE Child!Start \/ Child!CreateFailed
  <2>1. /\ ~Runs /\ ~Runs' /\ att' = att /\ fdStopped' = fdStopped
        /\ starts' = starts
    BY <1>7 DEF Child!Start, Child!CreateFailed, Child!Top, StackInv, Runs,
       Child!fdVars, Child!logVars
  <2>2. ~Attaching'
    <3>1. ~Attaching /\ ~Child!CreateOk
      BY <1>7, <2>1 DEF StackInv, Child!CreateOk, Runs
    <3> QED BY <3>1, AttachingStep
  <2> QED BY <1>2, <2>1, <2>2 DEF AttInv
<1>8. CASE Child!Destroy
  <2>1. UNCHANGED <<att, fdStopped, starts, stack, state>>
    BY <1>8, IdleDestroy
  <2> QED BY <1>2, <2>1 DEF AttInv, Runs, Attaching
<1>9. CASE /\ ~Child!CreateOk /\ ~Child!Attach
           /\ att' = att /\ fdStopped' = fdStopped /\ starts' = starts
           /\ Runs' = Runs
  <2>1. Attaching' <=> Attaching
    BY <1>9, AttachingStep
  <2> QED BY <1>2, <1>9, <2>1 DEF AttInv
<1> QED
  BY <1>3, <1>4, <1>5, <1>6, <1>7, <1>8, <1>9
  DEF Child!Next, Child!User, Child!Calls, Child!Kernel, Child!Loop,
      Child!AsyncStop, Child!Creating, Child!Return, Child!Kill,
      Child!ReportStopped, Child!Exits, Child!Writes, Child!PipeEnds,
      Child!ReadCompletes, Child!PollExpires, Child!Dropped, Child!ReadOk,
      Child!Delete, Child!PollGone, Child!PollAgain,
      Child!fdVars, Child!logVars, Runs

-----------------------------------------------------------------------------
\* The poll for the child's exit.

LEMMA PollStep ==
  ASSUME ChildTypes, StackInv, Tidy, Child!Next, Orderly'
  PROVE  PollInv'
<1>1. /\ tasks \in Seq(Items)
      /\ poll = "queued" <=> Has(tasks, Polls)
      /\ Never(tasks, Polls, Polls)
      /\ poll # "off" => Runs /\ ~Attaching
  BY DEF ChildTypes, Tidy, PollInv
<1>2. tasks # <<>> =>
        /\ Head(tasks) \in Items /\ Tail(tasks) \in Seq(Items)
        /\ Has(tasks, Polls) <=> (Head(tasks) \in Polls \/ Has(Tail(tasks), Polls))
        /\ Never(Tail(tasks), Polls, Polls)
        /\ Head(tasks) \in Polls => ~Has(Tail(tasks), Polls)
  BY <1>1, TailQueue
\* What is queued for a ProcessFd is no poll.
<1>3. ASSUME NEW s \in Seq(Items), NEW c \in Items, c.op # "poll"
      PROVE  /\ Has(Append(s, c), Polls) <=> Has(s, Polls)
             /\ Never(s, Polls, Polls) => Never(Append(s, c), Polls, Polls)
  BY <1>3, AppendQueue DEF Polls
<1>4. CASE Child!Attach
  <2>1. Attaching /\ ~Attaching' /\ state' = state /\ tasks' = tasks
        /\ poll' = "waiting"
    BY <1>4, AttachingStep DEF Child!Attach, Child!CreateOk, Child!Top
  <2>2. Runs' /\ poll = "off"
    BY <1>1, <2>1 DEF StackInv, Runs, ChildTypes
  <2> QED BY <1>1, <2>1, <2>2 DEF PollInv
<1>5. CASE Child!PollExpires
  <2>1. /\ poll = "waiting" /\ poll' = "queued"
        /\ tasks' = Append(tasks, Child!Poll) /\ state' = state /\ stack' = stack
    BY <1>5 DEF Child!PollExpires
  <2>2. Child!Poll \in Polls /\ Child!Poll \in Items
    BY PollType DEF Polls
  <2>3. Has(tasks', Polls) /\ Never(tasks', Polls, Polls)
    BY <1>1, <2>1, <2>2, AppendQueue
  <2> QED BY <1>1, <2>1, <2>3 DEF PollInv, Runs, Attaching
<1>6. CASE Child!PollAgain \/ Child!PollFinishes
  <2>1. /\ Child!Running("poll") /\ tasks # <<>> /\ tasks' = Tail(tasks)
    BY <1>6 DEF Child!PollAgain, Child!PollFinishes, Child!Running, Child!Rest
  <2>2. Runs /\ ~Attaching /\ Head(tasks) \in Polls
    BY <2>1, PollRuns
  <2>3. ~Has(tasks', Polls) /\ Never(tasks', Polls, Polls)
    BY <1>2, <2>1, <2>2
  <2>4. \/ poll' = "off"
        \/ poll' = "waiting" /\ state' = state /\ stack' = stack
    BY <1>6 DEF Child!PollAgain, Child!PollFinishes
  <2> QED BY <2>2, <2>3, <2>4 DEF PollInv, Runs, Attaching
<1>7. CASE Child!Start \/ Child!CreateOk \/ Child!CreateFailed
  <2>1. ~Runs /\ tasks' = tasks /\ poll' = poll
    BY <1>7 DEF Child!Start, Child!CreateOk, Child!CreateFailed, Child!Top,
       StackInv, Runs
  <2>2. poll = "off"
    BY <1>1, <2>1
  <2> QED BY <1>1, <2>1, <2>2 DEF PollInv
<1>8. CASE Child!Destroy
  <2>1. UNCHANGED <<tasks, poll, stack, state>>
    BY <1>8, IdleDestroy
  <2> QED BY <1>1, <2>1 DEF PollInv, Runs, Attaching
<1>9. CASE Child!PollGone
  BY <1>9, PollRuns DEF Child!PollGone
<1>10. CASE \E ch \in Child!Channels : Child!ReadCompletes(ch)
  <2>1. PICK ch \in Child!Channels : Child!ReadCompletes(ch)
    BY <1>10
  <2>2. /\ att[ch] # 0 /\ pipe[ch] \in Nat /\ Child!Attached(ch) \in Child!Fds
        /\ tasks' = Append(tasks, Child!ReadDone(Child!Attached(ch), pipe[ch]))
        /\ poll' = poll /\ state' = state /\ stack' = stack
    BY <2>1 DEF Child!ReadCompletes, ChildTypes
  <2>3. /\ Has(tasks', Polls) <=> Has(tasks, Polls)
        /\ Never(tasks', Polls, Polls)
    BY <1>1, <1>3, <2>2, ItemTypes
  <2> QED BY <1>1, <2>2, <2>3 DEF PollInv, Runs, Attaching
<1>11. CASE Child!Dropped \/ Child!ReadOk \/ Child!ReadFails \/ Child!Delete
  <2>1. /\ tasks # <<>> /\ Head(tasks).op # "poll"
        /\ \/ tasks' = Tail(tasks)
           \/ /\ tasks' = Append(Tail(tasks), Child!ReadFailed(Head(tasks).fd))
           \/ /\ tasks' = Append(Tail(tasks), Child!DeleteFd(Head(tasks).fd))
        /\ poll' = poll /\ state' = state /\ stack' = stack
    BY <1>11 DEF Child!Dropped, Child!ReadOk, Child!ReadFails, Child!Delete,
       Child!Running, Child!Rest, Child!Fd
  <2>2. Head(tasks) \notin Polls
    BY <2>1 DEF Polls
  <2>3. PICK t : t = Tail(tasks)
    OBVIOUS
  <2>4. /\ t \in Seq(Items) /\ Never(t, Polls, Polls)
        /\ Has(tasks, Polls) <=> Has(t, Polls)
    BY <1>2, <2>1, <2>2, <2>3
  <2>5. Head(tasks).fd \in Child!Fds
    BY <1>1, <2>1, HeadTypes
  <2>6. /\ Has(tasks', Polls) <=> Has(t, Polls)
        /\ Never(tasks', Polls, Polls)
    <3>1. PICK c, d : /\ c = Child!ReadFailed(Head(tasks).fd)
                      /\ d = Child!DeleteFd(Head(tasks).fd)
      OBVIOUS
    <3>2. /\ c \in Items /\ c.op = "read" /\ d \in Items /\ d.op = "delete"
      BY <2>5, <3>1, ItemTypes
    <3>3. /\ Has(Append(t, c), Polls) <=> Has(t, Polls)
          /\ Never(Append(t, c), Polls, Polls)
          /\ Has(Append(t, d), Polls) <=> Has(t, Polls)
          /\ Never(Append(t, d), Polls, Polls)
      BY <1>3, <2>4, <3>2
    <3>4. tasks' \in {t, Append(t, c), Append(t, d)}
      BY <2>1, <2>3, <3>1
    <3> QED BY <2>4, <3>3, <3>4
  <2> QED BY <1>1, <2>1, <2>4, <2>6 DEF PollInv, Runs, Attaching
<1>12. CASE ~Child!CreateOk /\ ~Child!Attach
            /\ tasks' = tasks /\ poll' = poll /\ Runs' = Runs
  <2>1. Attaching' <=> Attaching
    BY <1>12, AttachingStep
  <2> QED BY <1>1, <1>12, <2>1 DEF PollInv
<1> QED
  BY <1>4, <1>5, <1>6, <1>7, <1>8, <1>9, <1>10, <1>11, <1>12
  DEF Child!Next, Child!User, Child!Calls, Child!Kernel, Child!Loop,
      Child!AsyncStop, Child!Creating, Child!Return, Child!Kill,
      Child!ReportStopped, Child!Exits, Child!Writes, Child!PipeEnds, Runs

-----------------------------------------------------------------------------
\* The ProcessFds.

\* What a queue keeps of one ProcessFd when its head is run, and gets with an
\* item.
LEMMA FdQueue ==
  ASSUME NEW s \in Seq(Items), NEW fd
  PROVE  /\ s # <<>> =>
              /\ Head(s) \in Items /\ Tail(s) \in Seq(Items)
              /\ Has(s, ReadsOf(fd)) <=> (Head(s) \in ReadsOf(fd)
                                            \/ Has(Tail(s), ReadsOf(fd)))
              /\ Has(s, DeletesOf(fd)) <=> (Head(s) \in DeletesOf(fd)
                                              \/ Has(Tail(s), DeletesOf(fd)))
              /\ Never(s, ReadsOf(fd), ReadsOf(fd)) =>
                   /\ Never(Tail(s), ReadsOf(fd), ReadsOf(fd))
                   /\ Head(s) \in ReadsOf(fd) => ~Has(Tail(s), ReadsOf(fd))
              /\ Never(s, DeletesOf(fd), DeletesOf(fd)) =>
                   /\ Never(Tail(s), DeletesOf(fd), DeletesOf(fd))
                   /\ Head(s) \in DeletesOf(fd) => ~Has(Tail(s), DeletesOf(fd))
         /\ \A c \in Items :
              /\ Append(s, c) \in Seq(Items)
              /\ Has(Append(s, c), ReadsOf(fd))
                   <=> (Has(s, ReadsOf(fd)) \/ c \in ReadsOf(fd))
              /\ Has(Append(s, c), DeletesOf(fd))
                   <=> (Has(s, DeletesOf(fd)) \/ c \in DeletesOf(fd))
              /\ /\ Never(s, ReadsOf(fd), ReadsOf(fd))
                 /\ c \in ReadsOf(fd) => ~Has(s, ReadsOf(fd))
                 => Never(Append(s, c), ReadsOf(fd), ReadsOf(fd))
              /\ /\ Never(s, DeletesOf(fd), DeletesOf(fd))
                 /\ c \in DeletesOf(fd) => ~Has(s, DeletesOf(fd))
                 => Never(Append(s, c), DeletesOf(fd), DeletesOf(fd))
<1>1. CASE s = <<>>
  BY <1>1, AppendQueue
<1>2. CASE s # <<>>
  <2>1. \A P : Has(s, P) <=> (Head(s) \in P \/ Has(Tail(s), P))
    BY <1>2, TailQueue
  <2>2. \A P : Never(s, P, P) => /\ Never(Tail(s), P, P)
                                 /\ Head(s) \in P => ~Has(Tail(s), P)
    BY <1>2, TailQueue
  <2>3. Head(s) \in Items /\ Tail(s) \in Seq(Items)
    BY <1>2, TailQueue
  <2>4. ASSUME NEW c \in Items
        PROVE  /\ Append(s, c) \in Seq(Items)
               /\ \A P : Has(Append(s, c), P) <=> (Has(s, P) \/ c \in P)
               /\ \A P : Never(s, P, P) /\ (c \in P => ~Has(s, P))
                           => Never(Append(s, c), P, P)
    BY AppendQueue
  <2> QED BY <2>1, <2>2, <2>3, <2>4
<1> QED BY <1>1, <1>2

LEMMA FdStep ==
  ASSUME ChildTypes, StackInv, Tidy, Child!Next, Orderly'
  PROVE  FdInv'
<1> SUFFICES ASSUME NEW fd \in Child!Fds PROVE FdRight(fd)'
  BY DEF FdInv
<1>1. /\ fd[1] \in 1..MaxStarts /\ fd[2] \in Child!Channels
      /\ fd = <<fd[1], fd[2]>>
  BY DEF Child!Fds
<1>2. tasks \in Seq(Items) /\ starts \in Nat
      /\ att \in [Child!Channels -> 0..MaxStarts]
  BY StreamsAssumption DEF ChildTypes
<1>3. FdRight(fd)
  BY DEF Tidy, FdInv
<1>4. /\ fd \in reading \/ Has(tasks, ReadsOf(fd)) =>
           att[fd[2]] = fd[1] /\ fd \notin fdStopped
      /\ fd \in reading => ~Has(tasks, ReadsOf(fd))
      /\ Never(tasks, ReadsOf(fd), ReadsOf(fd))
      /\ Has(tasks, DeletesOf(fd)) => fd \in fdStopped /\ fd \notin fdGone
      /\ Never(tasks, DeletesOf(fd), DeletesOf(fd))
      /\ fd \in fdGone \cup released => fd \in fdStopped
      /\ fd \in fdStopped => fd[1] <= starts
  BY <1>3 DEF FdRight
\* The same ProcessFds, and of the queue at most the head is gone.
<1>5. ASSUME UNCHANGED <<att, reading, fdStopped, released, fdGone>>,
             starts' = starts \/ starts' = starts + 1,
             \/ tasks' = tasks
             \/ tasks # <<>> /\ tasks' = Tail(tasks)
             \/ tasks' = Append(tasks, Child!Poll)
      PROVE  FdRight(fd)'
  <2>1. PICK q : q = tasks'
    OBVIOUS
  <2>2. Child!Poll \in Items /\ Child!Poll \notin ReadsOf(fd)
        /\ Child!Poll \notin DeletesOf(fd)
    BY PollType DEF ReadsOf, DeletesOf
  <2>3. /\ Has(q, ReadsOf(fd)) => Has(tasks, ReadsOf(fd))
        /\ Has(q, DeletesOf(fd)) => Has(tasks, DeletesOf(fd))
        /\ Never(q, ReadsOf(fd), ReadsOf(fd))
        /\ Never(q, DeletesOf(fd), DeletesOf(fd))
    <3>1. CASE q = tasks
      BY <1>4, <3>1
    <3>2. CASE tasks # <<>> /\ q = Tail(tasks)
      BY <1>2, <1>4, <3>2, FdQueue
    <3>3. CASE q = Append(tasks, Child!Poll)
      <4>1. PICK c : c = Child!Poll
        OBVIOUS
      <4> QED BY <1>2, <1>4, <2>2, <3>3, <4>1, FdQueue
    <3> QED BY <1>5, <2>1, <3>1, <3>2, <3>3
  <2>4. fd \in fdStopped => fd[1] <= starts'
    BY <1>1, <1>2, <1>4, <1>5
  <2> QED BY <1>4, <1>5, <2>1, <2>3, <2>4 DEF FdRight
<1>6. CASE Child!Attach
  <2>1. Attaching /\ tasks' = tasks /\ starts' = starts
        /\ released' = released /\ fdGone' = fdGone
    BY <1>6, AttachingStep DEF Child!Attach, Child!CreateOk, Child!Top
  <2>2. /\ att[fd[2]] = 0 /\ <<starts, fd[2]>> \notin fdStopped
        /\ att' = [ch \in Child!Channels |-> starts] /\ att'[fd[2]] = starts
    BY <1>1, <1>6, <2>1 DEF Tidy, AttInv, Child!Attach
  <2>3. fd \notin reading /\ ~Has(tasks, ReadsOf(fd))
    BY <1>1, <1>4, <2>2
  <2>4. PICK ok \in SUBSET Child!Channels :
          /\ reading' = reading \cup {<<starts, ch>> : ch \in ok}
          /\ fdStopped' = fdStopped \cup ({starts} \X (Child!Channels \ ok))
    BY <1>6 DEF Child!Attach
  <2>5. fd \in reading' => fd[1] = starts /\ fd[2] \in ok
    BY <2>3, <2>4
  <2>6. fd \in fdStopped' => fd \in fdStopped \/ (fd[1] = starts /\ fd[2] \notin ok)
    BY <2>4
  <2>7. fdStopped \subseteq fdStopped'
    BY <2>4
  <2>8. fd \in reading' => fd \notin fdStopped'
    BY <1>1, <2>2, <2>5, <2>6
  <2>9. fd \in fdStopped' => fd[1] <= starts
    BY <1>1, <1>2, <1>4, <2>6
  <2> QED BY <1>4, <2>1, <2>2, <2>3, <2>5, <2>7, <2>8, <2>9 DEF FdRight
<1>7. CASE \E ch \in Child!Channels : Child!ReadCompletes(ch)
  <2>1. PICK ch \in Child!Channels : Child!ReadCompletes(ch)
    BY <1>7
  <2>2. PICK f, c : /\ f = Child!Attached(ch)
                    /\ c = Child!ReadDone(Child!Attached(ch), pipe[ch])
    OBVIOUS
  <2>3. /\ f = <<att[ch], ch>> /\ f \in Child!Fds /\ pipe[ch] \in Nat
        /\ f \in reading
    BY <2>1, <2>2 DEF Child!ReadCompletes, Child!Attached, ChildTypes
  <2>4. c \in Items /\ c.op = "read" /\ c.fd = f
    BY <2>2, <2>3, ItemTypes
  <2>5. /\ tasks' = Append(tasks, c) /\ reading' = reading \ {f}
        /\ UNCHANGED <<att, fdStopped, released, fdGone, starts>>
    BY <2>1, <2>2 DEF Child!ReadCompletes, Child!logVars
  <2>6. (c \in ReadsOf(fd) <=> fd = f) /\ c \notin DeletesOf(fd)
    BY <2>4 DEF ReadsOf, DeletesOf
  <2>7. PICK q : q = tasks'
    OBVIOUS
  <2>8. /\ Has(q, ReadsOf(fd)) <=> (Has(tasks, ReadsOf(fd)) \/ fd = f)
        /\ Has(q, DeletesOf(fd)) <=> Has(tasks, DeletesOf(fd))
        /\ Never(q, ReadsOf(fd), ReadsOf(fd))
        /\ Never(q, DeletesOf(fd), DeletesOf(fd))
    BY <1>2, <1>4, <2>3, <2>4, <2>5, <2>6, <2>7, FdQueue
  <2>9. fd \in reading' <=> fd \in reading /\ fd # f
    BY <2>5
  <2> QED BY <1>4, <2>3, <2>5, <2>7, <2>8, <2>9 DEF FdRight
<1>8. CASE Child!ReadOk
  <2>1. Child!Running("read") /\ tasks # <<>>
    BY <1>8 DEF Child!ReadOk, Child!Running
  <2>2. PICK f : f = Child!Fd
    OBVIOUS
  <2>3. /\ f \in Child!Fds /\ att[f[2]] = starts /\ f[1] = starts
        /\ f \notin fdStopped /\ f \notin released
        /\ ~Has(Tail(tasks), ReadsOf(f))
    BY <2>1, <2>2, ReadRuns
  <2>4. /\ tasks' = Tail(tasks) /\ reading' = reading \cup {f}
        /\ UNCHANGED <<att, fdStopped, released, fdGone, starts>>
    BY <1>8, <2>2, <2>3 DEF Child!ReadOk, Child!Rest, Child!logVars
  <2>5. PICK q : q = tasks'
    OBVIOUS
  <2>6. /\ Has(q, ReadsOf(fd)) => Has(tasks, ReadsOf(fd)) /\ fd # f
        /\ Has(q, DeletesOf(fd)) => Has(tasks, DeletesOf(fd))
        /\ Never(q, ReadsOf(fd), ReadsOf(fd))
        /\ Never(q, DeletesOf(fd), DeletesOf(fd))
    BY <1>2, <1>4, <2>1, <2>3, <2>4, <2>5, FdQueue
  <2>7. fd \in reading' <=> fd \in reading \/ fd = f
    BY <2>4
  <2> QED BY <1>4, <2>3, <2>4, <2>5, <2>6, <2>7 DEF FdRight
<1>9. CASE Child!ReadFails
  <2>1. Child!Running("read") /\ tasks # <<>>
    BY <1>9 DEF Child!ReadFails, Child!Running
  <2>2. PICK f, d : f = Child!Fd /\ d = Child!DeleteFd(f)
    OBVIOUS
  <2>3. /\ f \in Child!Fds /\ att[f[2]] = starts /\ f[1] = starts
        /\ f \notin fdStopped /\ f \notin fdGone /\ f \notin reading
        /\ Has(tasks, ReadsOf(f)) /\ ~Has(Tail(tasks), ReadsOf(f))
        /\ f = <<starts, f[2]>>
    BY <1>2, <2>1, <2>2, ReadRuns, FdQueue
  <2>4. /\ tasks' = Append(Tail(tasks), d)
        /\ released' = released \cup {f} /\ fdStopped' = fdStopped \cup {f}
        /\ att' = [att EXCEPT ![f[2]] = 0]
        /\ UNCHANGED <<reading, fdGone, starts>>
    BY <1>9, <2>2, <2>3 DEF Child!ReadFails, Child!Rest, Child!logVars
  <2>5. d \in Items /\ d.op = "delete" /\ d.fd = f
    BY <2>2, <2>3, ItemTypes
  <2>6. d \notin ReadsOf(fd) /\ (d \in DeletesOf(fd) <=> fd = f)
    BY <2>5 DEF ReadsOf, DeletesOf
  <2>7. PICK q, t : q = tasks' /\ t = Tail(tasks)
    OBVIOUS
  <2>8. /\ t \in Seq(Items)
        /\ Has(t, ReadsOf(fd)) => Has(tasks, ReadsOf(fd)) /\ fd # f
        /\ Has(t, DeletesOf(fd)) => Has(tasks, DeletesOf(fd))
        /\ Never(t, ReadsOf(fd), ReadsOf(fd))
        /\ Never(t, DeletesOf(fd), DeletesOf(fd))
    BY <1>2, <1>4, <2>1, <2>3, <2>7, FdQueue
  <2>9. fd = f => ~Has(t, DeletesOf(fd))
    BY <1>4, <2>3, <2>8
  <2>10. /\ Has(q, ReadsOf(fd)) => Has(tasks, ReadsOf(fd)) /\ fd # f
         /\ Has(q, DeletesOf(fd)) => Has(tasks, DeletesOf(fd)) \/ fd = f
         /\ Never(q, ReadsOf(fd), ReadsOf(fd))
         /\ Never(q, DeletesOf(fd), DeletesOf(fd))
    BY <2>4, <2>5, <2>6, <2>7, <2>8, <2>9, FdQueue
  \* Another ProcessFd that reads is that of the other pipe.
  <2>11. ASSUME fd \in reading \/ Has(q, ReadsOf(fd))
         PROVE  fd # f /\ att'[fd[2]] = fd[1]
    <3>1. att[fd[2]] = fd[1] /\ fd # f
      BY <1>4, <2>3, <2>10, <2>11
    <3>2. fd[2] # f[2]
      BY <1>1, <2>3, <3>1
    <3> QED BY <1>1, <1>2, <2>4, <3>1, <3>2
  <2>12. fd \in fdStopped' <=> fd \in fdStopped \/ fd = f
    BY <2>4
  <2>13. fd \in released' <=> fd \in released \/ fd = f
    BY <2>4
  <2>14. fd \in fdStopped' => fd[1] <= starts'
    BY <1>2, <1>4, <2>3, <2>4, <2>12
  <2>15. fd \in reading' => ~Has(q, ReadsOf(fd))
    BY <1>4, <2>4, <2>10
  <2>16. fd \in reading' \/ Has(q, ReadsOf(fd)) =>
           att'[fd[2]] = fd[1] /\ fd \notin fdStopped'
    BY <1>4, <2>4, <2>10, <2>11, <2>12
  <2>17. Has(q, DeletesOf(fd)) => fd \in fdStopped' /\ fd \notin fdGone'
    BY <1>4, <2>3, <2>4, <2>10, <2>12
  <2>18. fd \in fdGone' \cup released' => fd \in fdStopped'
    BY <1>4, <2>4, <2>12, <2>13
  <2> QED BY <2>7, <2>10, <2>14, <2>15, <2>16, <2>17, <2>18 DEF FdRight
<1>10. CASE Child!Delete
  <2>1. /\ tasks # <<>> /\ Head(tasks).op = "delete" /\ tasks' = Tail(tasks)
        /\ UNCHANGED <<att, reading, fdStopped, released, starts>>
    BY <1>10 DEF Child!Delete, Child!Running, Child!Rest, Child!logVars
  <2>2. PICK f : f = Child!Fd
    OBVIOUS
  <2>3. Head(tasks) \in DeletesOf(f) /\ fdGone' = fdGone \cup {f}
        /\ Head(tasks) \in Items
    BY <1>2, <1>10, <2>1, <2>2, HeadTypes DEF Child!Delete, Child!Fd, DeletesOf
  <2>4. PICK q : q = tasks'
    OBVIOUS
  <2>5. /\ Has(q, ReadsOf(fd)) => Has(tasks, ReadsOf(fd))
        /\ Has(q, DeletesOf(fd)) => Has(tasks, DeletesOf(fd)) /\ fd # f
        /\ fd = f => Has(tasks, DeletesOf(fd))
        /\ Never(q, ReadsOf(fd), ReadsOf(fd))
        /\ Never(q, DeletesOf(fd), DeletesOf(fd))
    BY <1>2, <1>4, <2>1, <2>3, <2>4, FdQueue
  <2>6. fd \in fdGone' <=> fd \in fdGone \/ fd = f
    BY <2>3
  <2> QED BY <1>4, <2>1, <2>4, <2>5, <2>6 DEF FdRight
<1>11. CASE Child!Destroy
  <2>1. UNCHANGED <<att, reading, fdStopped, released, fdGone, starts, tasks>>
    BY <1>11, IdleDestroy
  <2> QED BY <1>5, <2>1
<1> QED
  BY <1>5, <1>6, <1>7, <1>8, <1>9, <1>10, <1>11
  DEF Child!Next, Child!User, Child!Calls, Child!Kernel, Child!Loop,
      Child!Start, Child!AsyncStop, Child!Creating, Child!CreateOk,
      Child!CreateFailed, Child!Return, Child!Kill, Child!ReportStopped,
      Child!Exits, Child!Writes, Child!PipeEnds, Child!PollExpires,
      Child!Dropped, Child!PollGone, Child!PollAgain, Child!PollFinishes,
      Child!Running, Child!Rest, Child!fdVars, Child!logVars

-----------------------------------------------------------------------------
\* What the child wrote.

\* Fewer items are queued, and what is written, read and attached is the same
\* for this pipe: what was right of it still is.
LEMMA OutputKept ==
  ASSUME NEW ch \in Child!Channels, OutputRight(ch),
         starts' = starts, pipe'[ch] = pipe[ch], wrote'[ch] = wrote[ch],
         brought'[ch] = brought[ch], ch \in writers' => ch \in writers,
         ~Attaching' /\ att'[ch] = 0 => ~Attaching /\ att[ch] = 0,
         \A P : P \subseteq ReadsOf(<<starts, ch>>) =>
           (Has(tasks', P) <=> Has(tasks, P))
  PROVE  OutputRight(ch)'
<1>1. PICK q, R, B : q = tasks' /\ R = ReadsOf(<<starts, ch>>) /\ B = Brings(ch)
  OBVIOUS
<1>2. /\ ~Has(tasks, R) => wrote[ch] = pipe[ch] + brought[ch]
      /\ ~Has(tasks, R \ B)
      /\ ~Attaching /\ att[ch] = 0 => ch \notin writers /\ pipe[ch] = 0
  BY <1>1 DEF OutputRight
<1>3. /\ Has(q, R) <=> Has(tasks, R)
      /\ Has(q, R \ B) <=> Has(tasks, R \ B)
  BY <1>1
<1>4. PICK C : C = Brings(ch)'
  OBVIOUS
<1>5. B \subseteq C
  BY <1>1, <1>4 DEF Brings
<1>6. ~Has(q, R \ C)
  BY <1>2, <1>3, <1>5 DEF Has
<1>7. ~Attaching' /\ att'[ch] = 0 => ch \notin writers' /\ pipe'[ch] = 0
  BY <1>2
<1>8. ReadsOf(<<starts, ch>>)' = R
  BY <1>1 DEF ReadsOf
<1> QED BY <1>1, <1>2, <1>3, <1>4, <1>6, <1>7, <1>8 DEF OutputRight

LEMMA OutputStep ==
  ASSUME ChildTypes, StackInv, Tidy, Child!Next, Orderly'
  PROVE  OutputInv'
<1> SUFFICES ASSUME Runs', NEW ch \in Child!Channels PROVE OutputRight(ch)'
  BY DEF OutputInv
<1>1. /\ tasks \in Seq(Items) /\ starts \in Nat /\ starts <= MaxStarts
      /\ att \in [Child!Channels -> 0..MaxStarts]
      /\ pipe \in [Child!Channels -> Nat] /\ wrote \in [Child!Channels -> Nat]
      /\ brought \in [Child!Channels -> Nat] /\ writers \subseteq Child!Channels
      /\ MaxStarts \in Nat
  BY StreamsAssumption DEF ChildTypes
<1>2. Runs => OutputRight(ch)
  BY DEF Tidy, OutputInv
<1> DEFINE mine  == <<starts, ch>>
           reads == ReadsOf(<<starts, ch>>)
\* The steps that neither read nor write this pipe.
<1>3. ASSUME Runs, starts' = starts, pipe'[ch] = pipe[ch],
             wrote'[ch] = wrote[ch], brought'[ch] = brought[ch],
             ch \in writers' => ch \in writers,
             ~Attaching' /\ att'[ch] = 0 => ~Attaching /\ att[ch] = 0,
             \/ tasks' = tasks
             \/ tasks # <<>> /\ tasks' = Tail(tasks) /\ Head(tasks) \notin reads
             \/ \E c \in Items : tasks' = Append(tasks, c) /\ c \notin reads
             \/ \E c \in Items : /\ tasks # <<>> /\ Head(tasks) \notin reads
                                 /\ tasks' = Append(Tail(tasks), c)
                                 /\ c \notin reads
      PROVE  OutputRight(ch)'
  <2>1. PICK R : R = reads
    OBVIOUS
  <2>2. tasks # <<>> =>
          /\ Tail(tasks) \in Seq(Items)
          /\ \A P : Has(tasks, P) <=> (Head(tasks) \in P \/ Has(Tail(tasks), P))
    BY <1>1, TailQueue
  <2>3. ASSUME NEW s \in Seq(Items), NEW c \in Items, c \notin R,
               NEW P \in SUBSET R
        PROVE  Has(Append(s, c), P) <=> Has(s, P)
    BY <2>3, AppendQueue
  <2>4. ASSUME NEW P \in SUBSET R
        PROVE  Has(tasks', P) <=> Has(tasks, P)
    <3>1. CASE tasks' = tasks
      BY <3>1
    <3>2. CASE tasks # <<>> /\ tasks' = Tail(tasks) /\ Head(tasks) \notin R
      BY <2>2, <3>2
    <3>3. CASE \E c \in Items : tasks' = Append(tasks, c) /\ c \notin R
      BY <1>1, <2>3, <3>3
    <3>4. CASE \E c \in Items : /\ tasks # <<>> /\ Head(tasks) \notin R
                                /\ tasks' = Append(Tail(tasks), c)
                                /\ c \notin R
      BY <2>2, <2>3, <3>4
    <3> QED BY <1>3, <2>1, <3>1, <3>2, <3>3, <3>4
  <2>5. \A P : P \subseteq ReadsOf(<<starts, ch>>) =>
          (Has(tasks', P) <=> Has(tasks, P))
    BY <2>1, <2>4
  <2>6. OutputRight(ch)
    BY <1>2, <1>3
  <2> HIDE DEF reads
  <2> QED BY <1>3, <2>5, <2>6, OutputKept
<1>4. CASE Child!CreateOk
  <2>1. /\ state = "starting" /\ tasks' = tasks /\ starts' = starts + 1
        /\ starts < MaxStarts /\ att' = att
        /\ pipe'[ch] = 0 /\ wrote'[ch] = 0 /\ brought'[ch] = 0
    BY <1>4 DEF Child!CreateOk, Child!Top, StackInv, Child!fdVars
  <2>2. att[ch] = 0
    BY <2>1 DEF Tidy, AttInv, Runs
  <2>3. PICK fd : fd = <<starts + 1, ch>>
    OBVIOUS
  <2>4. fd \in Child!Fds /\ fd[1] = starts + 1 /\ fd[2] = ch
    BY <1>1, <2>1, <2>3 DEF Child!Fds
  <2>5. ~Has(tasks, ReadsOf(fd))
    BY <1>1, <2>2, <2>4 DEF Tidy, FdInv, FdRight
  <2>6. \A P : ~Has(tasks, ReadsOf(fd) \ P)
    BY <2>5 DEF Has
  <2>7. Attaching'
    <3>1. stack # <<>> /\ Tail(stack) \in Seq(Labels)
          /\ stack' = <<"attach">> \o Tail(stack)
      BY <1>4, PopCall DEF Child!CreateOk, Child!Top, Child!Pop, StackInv, Nested
    <3>2. Has(stack', {"attach"})
      BY <3>1, PushCall DEF Labels
    <3> QED BY <3>2 DEF Attaching
  <2>8. PICK B, q : B = Brings(ch)' /\ q = tasks'
    OBVIOUS
  <2>9. ReadsOf(<<starts, ch>>)' = ReadsOf(fd)
    BY <2>1, <2>3 DEF ReadsOf
  <2>10. ~Has(q, ReadsOf(fd)) /\ ~Has(q, ReadsOf(fd) \ B)
    BY <2>1, <2>5, <2>6, <2>8
  <2>11. wrote'[ch] = pipe'[ch] + brought'[ch]
    BY <2>1
  <2> QED BY <2>7, <2>8, <2>9, <2>10, <2>11 DEF OutputRight
<1>5. CASE Child!Attach
  <2>1. /\ tasks' = tasks /\ starts' = starts /\ UNCHANGED <<pipe, wrote, brought, writers>>
        /\ att'[ch] = starts /\ Attaching
    BY <1>5, AttachingStep DEF Child!Attach, Child!pipeVars, Child!CreateOk, Child!Top
  <2>2. starts # 0 /\ Runs
    BY <1>1, <2>1 DEF StackInv
  <2> QED BY <1>3, <2>1, <2>2
<1>6. CASE Child!Writes(ch)
  <2>1. /\ tasks' = tasks /\ starts' = starts /\ stack' = stack /\ state' = state
        /\ ch \in writers /\ att' = att /\ brought' = brought /\ writers' = writers
        /\ pipe' = [pipe EXCEPT ![ch] = @ + 1]
        /\ wrote' = [wrote EXCEPT ![ch] = @ + 1]
    BY <1>6 DEF Child!Writes, Child!fdVars, Child!logVars
  <2>2. pipe'[ch] = pipe[ch] + 1 /\ wrote'[ch] = wrote[ch] + 1
    BY <1>1, <2>1
  <2>3. PICK R, B, C : R = reads /\ B = Brings(ch) /\ C = Brings(ch)'
    OBVIOUS
  <2>4. /\ ~Has(tasks, R) => wrote[ch] = pipe[ch] + brought[ch]
        /\ ~Has(tasks, R \ B)
        /\ Attaching \/ att[ch] # 0
    BY <1>2, <2>1, <2>3 DEF OutputRight, Runs
  <2>5. \A t \in B : t \in C
    <3>1. SUFFICES ASSUME NEW t \in B PROVE t \in C
      OBVIOUS
    <3>2. /\ t \in Items /\ wrote[ch] = pipe[ch] + brought[ch] + t.n
          /\ t.n # 0
      BY <2>1, <2>3 DEF Brings
    <3>3. t.n \in Nat
      BY <3>2 DEF Items, Child!Poll, Child!Item
    <3>4. wrote[ch] \in Nat /\ pipe[ch] \in Nat /\ brought[ch] \in Nat
      BY <1>1
    <3>5. wrote'[ch] = pipe'[ch] + brought'[ch] + t.n
      BY <2>1, <2>2, <3>2, <3>3, <3>4
    <3> QED BY <2>3, <3>2, <3>5 DEF Brings
  <2>6. ~Has(tasks, R \ C)
    BY <2>4, <2>5 DEF Has
  <2>7. ~Has(tasks, R) => wrote'[ch] = pipe'[ch] + brought'[ch]
    <3>1. wrote[ch] \in Nat /\ pipe[ch] \in Nat /\ brought[ch] \in Nat
      BY <1>1
    <3> QED BY <2>1, <2>2, <2>4, <3>1
  <2>8. ReadsOf(<<starts, ch>>)' = R /\ (Attaching' <=> Attaching)
    BY <2>1, <2>3 DEF ReadsOf, Attaching
  <2> QED BY <2>1, <2>3, <2>4, <2>6, <2>7, <2>8 DEF OutputRight
<1>7. CASE Child!ReadCompletes(ch)
  <2>1. PICK f, c : /\ f = Child!Attached(ch)
                    /\ c = Child!ReadDone(Child!Attached(ch), pipe[ch])
    OBVIOUS
  <2>2. /\ f = <<att[ch], ch>> /\ f \in Child!Fds /\ att[ch] # 0
        /\ f \in reading /\ (pipe[ch] > 0 \/ ch \notin writers)
        /\ tasks' = Append(tasks, c) /\ pipe' = [pipe EXCEPT ![ch] = 0]
        /\ UNCHANGED <<state, stack, starts, att, wrote, brought, writers>>
    BY <1>7, <2>1 DEF Child!ReadCompletes, Child!Attached, ChildTypes, Child!logVars
  <2>3. att[ch] = starts
    BY <2>2 DEF Tidy, AttInv
  <2>4. c \in Items /\ c.op = "read" /\ c.fd = f /\ c.n = pipe[ch]
    <3>1. PICK n : n = pipe[ch]
      OBVIOUS
    <3>2. n \in Nat /\ c = Child!ReadDone(f, n)
      BY <1>1, <2>1, <3>1
    <3>3. f \in Child!Fds
      BY <2>2
    <3>4. /\ Child!ReadDone(f, n) \in Items /\ Child!ReadDone(f, n).op = "read"
          /\ Child!ReadDone(f, n).fd = f /\ Child!ReadDone(f, n).n = n
      BY <3>2, <3>3, ItemTypes
    <3> QED BY <3>1, <3>2, <3>4
  <2>5. PICK R, C, q : R = reads /\ C = Brings(ch)' /\ q = tasks'
    OBVIOUS
  <2>6. R = ReadsOf(f) /\ c \in R
    BY <2>2, <2>3, <2>4, <2>5 DEF ReadsOf
  <2>7. ~Has(tasks, R)
    BY <2>2, <2>6 DEF Tidy, FdInv, FdRight
  <2>8. wrote[ch] = pipe[ch] + brought[ch]
    BY <1>2, <2>2, <2>5, <2>7 DEF OutputRight, Runs
  <2>9. pipe'[ch] = 0 /\ pipe[ch] \in Nat /\ brought[ch] \in Nat
    BY <1>1, <2>2
  <2>10. c \in C
    <3>1. wrote'[ch] = pipe'[ch] + brought'[ch] + c.n
      BY <2>2, <2>4, <2>8, <2>9
    <3>2. c.n = 0 => ch \notin writers' /\ pipe'[ch] = 0
      BY <2>2, <2>4, <2>9
    <3> QED BY <2>4, <2>5, <3>1, <3>2 DEF Brings
  <2>11. Has(q, R) /\ ~Has(q, R \ C)
    <3>1. \A P : Has(Append(tasks, c), P) <=> (Has(tasks, P) \/ c \in P)
      BY <1>1, <2>4, AppendQueue
    <3>2. ~Has(tasks, R \ C)
      BY <2>7 DEF Has
    <3>3. q = Append(tasks, c)
      BY <2>2, <2>5
    <3> QED BY <2>6, <2>10, <3>1, <3>2, <3>3
  <2>12. ReadsOf(<<starts, ch>>)' = R
    BY <2>2, <2>5 DEF ReadsOf
  <2> QED BY <2>2, <2>5, <2>11, <2>12 DEF OutputRight
<1>8. CASE Child!ReadOk \/ Child!ReadFails
  <2>1. Child!Running("read") /\ tasks # <<>>
    BY <1>8 DEF Child!ReadOk, Child!ReadFails, Child!Running
  <2>2. PICK f, n, h, t : f = Child!Fd /\ n = h.n /\ h = Head(tasks) /\ t = Tail(tasks)
    OBVIOUS
  <2>3. /\ f \in Child!Fds /\ f = <<starts, f[2]>> /\ n \in Nat
        /\ f[2] \in Child!Channels /\ att[f[2]] = starts /\ starts # 0
        /\ f \notin fdStopped /\ f \notin fdGone /\ f \notin released
        /\ Runs /\ stack = <<>> /\ ~Attaching
        /\ h \in ReadsOf(f) /\ ~Has(t, ReadsOf(f))
    BY <2>1, <2>2, ReadRuns
  <2>4. h \in Items /\ t \in Seq(Items)
        /\ \A P : Has(tasks, P) <=> (h \in P \/ Has(t, P))
    BY <1>1, <2>1, <2>2, TailQueue
  <2>5. /\ UNCHANGED <<state, stack, starts, pipe, wrote, writers>>
        /\ \/ /\ Child!ReadOk /\ n > 0 /\ tasks' = t /\ att' = att
              /\ brought' = [brought EXCEPT ![f[2]] = @ + n]
           \/ /\ Child!ReadFails /\ n = 0 /\ tasks' = Append(t, Child!DeleteFd(f))
              /\ att' = [att EXCEPT ![f[2]] = 0] /\ brought' = brought
    BY <1>8, <2>2, <2>3 DEF Child!ReadOk, Child!ReadFails, Child!Rest,
       Child!logVars, Child!pipeVars
  <2>6. ~Attaching'
    BY <2>3, <2>5 DEF Attaching
  <2>7. PICK d : d = Child!DeleteFd(f)
    OBVIOUS
  <2>8. d \in Items /\ d.op = "delete"
    BY <2>3, <2>7, ItemTypes
  <2>9. d \notin reads
    BY <2>8 DEF ReadsOf
  <2>10. CASE f[2] # ch
    <3>1. mine # f
      BY <2>3, <2>10
    <3>2. h \notin reads
      BY <2>3, <3>1 DEF ReadsOf
    <3>3. att'[ch] = att[ch] /\ brought'[ch] = brought[ch]
      BY <1>1, <2>5, <2>10
    <3> HIDE DEF mine, reads
    <3> QED BY <1>3, <2>1, <2>2, <2>3, <2>5, <2>6, <2>7, <2>8, <2>9, <3>2, <3>3
  <2>11. CASE f[2] = ch
    <3>1. PICK R, B, C, q : /\ R = reads /\ B = Brings(ch) /\ C = Brings(ch)'
                            /\ q = tasks'
      OBVIOUS
    <3>2. R = ReadsOf(f)
      BY <2>3, <2>11, <3>1
    <3>3. ~Has(tasks, R \ B)
      BY <1>2, <2>3, <3>1 DEF OutputRight
    <3>4. h \in B
      BY <2>3, <2>4, <3>2, <3>3
    <3>5. /\ wrote[ch] = pipe[ch] + brought[ch] + n
          /\ n = 0 => ch \notin writers /\ pipe[ch] = 0
      BY <2>2, <3>1, <3>4 DEF Brings
    <3>6. ~Has(q, R)
      <4>1. CASE q = t
        BY <2>3, <3>2, <4>1
      <4>2. CASE q = Append(t, d)
        BY <2>3, <2>4, <2>8, <2>9, <3>1, <3>2, <4>2, AppendQueue
      <4> QED BY <2>5, <2>7, <3>1, <4>1, <4>2
    <3>7. ~Has(q, R \ C)
      BY <3>6 DEF Has
    <3>8. wrote'[ch] = pipe'[ch] + brought'[ch]
      <4>1. wrote[ch] \in Nat /\ pipe[ch] \in Nat /\ brought[ch] \in Nat
        BY <1>1
      <4>2. brought'[ch] = brought[ch] + n
        BY <1>1, <2>3, <2>5, <2>11, <4>1
      <4> QED BY <2>3, <2>5, <3>5, <4>1, <4>2
    <3>9. att'[ch] = 0 => ch \notin writers' /\ pipe'[ch] = 0
      BY <2>3, <2>5, <2>11, <3>5
    <3>10. ReadsOf(<<starts, ch>>)' = R
      BY <2>5, <3>1 DEF ReadsOf
    <3> QED BY <3>1, <3>6, <3>7, <3>8, <3>9, <3>10 DEF OutputRight
  <2> QED BY <2>10, <2>11
<1>9. CASE Child!Delete \/ Child!PollAgain
  <2>1. /\ tasks # <<>> /\ tasks' = Tail(tasks) /\ Head(tasks).op # "read"
        /\ UNCHANGED <<state, stack, starts, att, pipe, wrote, brought, writers>>
    BY <1>9 DEF Child!Delete, Child!PollAgain, Child!Running, Child!Rest,
       Child!fdVars, Child!pipeVars, Child!logVars
  <2>2. Head(tasks) \notin reads
    BY <2>1 DEF ReadsOf
  <2>3. Runs /\ (Attaching' <=> Attaching)
    BY <2>1 DEF Runs, Attaching
  <2> HIDE DEF reads
  <2> QED BY <1>3, <2>1, <2>2, <2>3
<1>10. CASE Child!PollExpires
  <2>1. /\ tasks' = Append(tasks, Child!Poll)
        /\ UNCHANGED <<state, stack, starts, att, pipe, wrote, brought, writers>>
    BY <1>10 DEF Child!PollExpires, Child!fdVars, Child!pipeVars, Child!logVars
  <2>2. Child!Poll \notin reads /\ Child!Poll \in Items
    BY PollType DEF ReadsOf
  <2>3. Runs /\ (Attaching' <=> Attaching)
    BY <2>1 DEF Runs, Attaching
  <2> HIDE DEF reads
  <2> QED BY <1>3, <2>1, <2>2, <2>3
<1>11. ASSUME NEW c \in Child!Channels, c # ch,
              Child!Writes(c) \/ Child!ReadCompletes(c)
       PROVE  OutputRight(ch)'
  <2>1. /\ pipe'[ch] = pipe[ch] /\ wrote'[ch] = wrote[ch]
        /\ UNCHANGED <<state, stack, starts, att, brought, writers>>
    BY <1>1, <1>11 DEF Child!Writes, Child!ReadCompletes, Child!fdVars,
       Child!logVars
  <2>2. Runs /\ (Attaching' <=> Attaching)
    BY <2>1 DEF Runs, Attaching
  <2>3. CASE Child!Writes(c)
    <3>1. tasks' = tasks
      BY <2>3 DEF Child!Writes
    <3> HIDE DEF reads
    <3> QED BY <1>3, <2>1, <2>2, <3>1
  <2>4. CASE Child!ReadCompletes(c)
    <3>1. PICK i : i = Child!ReadDone(Child!Attached(c), pipe[c])
      OBVIOUS
    <3>2. /\ tasks' = Append(tasks, i) /\ att[c] # 0
          /\ Child!Attached(c) \in Child!Fds /\ pipe[c] \in Nat
      BY <2>4, <3>1 DEF Child!ReadCompletes, ChildTypes
    <3>3. i \in Items /\ i.fd = <<att[c], c>>
      BY <3>1, <3>2, ItemTypes DEF Child!Attached
    <3>4. i.fd # <<starts, ch>>
      BY <1>11, <3>3
    <3>5. i \notin reads
      BY <3>4 DEF ReadsOf
    <3> HIDE DEF reads
    <3> QED BY <1>3, <2>1, <2>2, <3>2, <3>3, <3>5
  <2> QED BY <1>11, <2>3, <2>4
<1>12. CASE \E c \in Child!Channels : Child!PipeEnds(c)
  <2>1. /\ tasks' = tasks /\ writers' \subseteq writers
        /\ UNCHANGED <<state, stack, starts, att, pipe, wrote, brought>>
    BY <1>12 DEF Child!PipeEnds, Child!fdVars, Child!logVars
  <2>2. Runs /\ (Attaching' <=> Attaching)
    BY <2>1 DEF Runs, Attaching
  <2> HIDE DEF reads
  <2> QED BY <1>3, <2>1, <2>2
<1>13. CASE Child!Start \/ Child!CreateFailed \/ Child!PollFinishes
  BY <1>13 DEF Child!Start, Child!CreateFailed, Child!PollFinishes, Runs
<1>14. CASE Child!Destroy
  BY <1>14, IdleDestroy DEF Runs
<1>15. CASE Child!Dropped
  <2>1. Child!Running("read") /\ Child!Fd \in fdStopped
    BY <1>15 DEF Child!Dropped
  <2> QED BY <2>1, ReadRuns
<1>16. CASE Child!PollGone
  BY <1>16, PollRuns DEF Child!PollGone
<1>17. CASE /\ ~Child!CreateOk /\ ~Child!Attach
            /\ UNCHANGED <<tasks, starts, att, pipe, wrote, brought, writers>>
            /\ Runs' = Runs
  <2>1. Attaching' <=> Attaching
    BY <1>17, AttachingStep
  <2> HIDE DEF reads
  <2> QED BY <1>3, <1>17, <2>1
<1> QED
  BY <1>4, <1>5, <1>6, <1>7, <1>8, <1>9, <1>10, <1>11, <1>12, <1>13, <1>14,
     <1>15, <1>16, <1>17
  DEF Child!Next, Child!User, Child!Calls, Child!Kernel, Child!Loop,
      Child!AsyncStop, Child!Creating, Child!Return, Child!Kill,
      Child!ReportStopped, Child!Exits, Child!fdVars, Child!pipeVars,
      Child!logVars, Runs

-----------------------------------------------------------------------------
\* The children that were created and the ends that were reported.

LEMMA CountStep ==
  ASSUME ChildTypes, StackInv, Tidy, Child!Next, Orderly'
  PROVE  CountInv'
<1>1. /\ starts \in Nat /\ stops \in Nat /\ stack \in Seq(Labels)
      /\ starts = stops + (IF Runs THEN 1 ELSE 0)
                        + (IF Has(stack, {"stopped"}) THEN 1 ELSE 0)
  BY StreamsAssumption DEF ChildTypes, StackInv, Nested, Tidy, CountInv
<1>2. CASE Child!CreateOk
  <2>1. ~Runs /\ Runs' /\ starts' = starts + 1 /\ stops' = stops
    BY <1>2 DEF Child!CreateOk, Child!Top, StackInv, Runs
  <2>2. Has(stack', {"stopped"}) <=> Has(stack, {"stopped"})
    BY <1>2, CallsStep DEF Child!CreateOk, Child!PollFinishes,
       Child!ReportStopped, Child!Top, Child!Running
  <2> QED BY <1>1, <2>1, <2>2 DEF CountInv
<1>3. CASE Child!PollFinishes
  <2>1. /\ Runs /\ stack = <<>> /\ stack' = <<"stopped">> /\ ~Runs'
        /\ starts' = starts /\ stops' = stops
    BY <1>3, PollRuns DEF Child!PollFinishes, Child!logVars, Runs
  <2>2. PICK t : t = <<"stopped">>
    OBVIOUS
  <2>3. Has(t, {"stopped"}) /\ ~Has(stack, {"stopped"})
    BY <2>1, <2>2 DEF Has
  <2> QED BY <1>1, <2>1, <2>2, <2>3 DEF CountInv
<1>4. CASE Child!ReportStopped
  <2>1. /\ stack # <<>> /\ Head(stack) = "stopped" /\ stack' = Tail(stack)
        /\ stops' = stops + 1 /\ starts' = starts /\ Runs' = Runs
    BY <1>4 DEF Child!ReportStopped, Child!Top, Child!Pop, Runs
  <2>2. Has(stack, {"stopped"})
    BY <1>1, <2>1, PopCall
  <2>3. Under(stack)
    BY <1>1, <2>1 DEF StackInv, Nested, Resting
  <2>4. Tail(stack) = <<>>
    BY <1>1, <2>1, <2>3, PopCall
  <2>5. ~Has(stack', {"stopped"})
    BY <2>1, <2>4, EmptyQueue
  <2> QED BY <1>1, <2>1, <2>2, <2>5 DEF CountInv
<1>5. CASE Child!Destroy
  <2>1. UNCHANGED <<starts, stops, state, stack>>
    BY <1>5, IdleDestroy
  <2> QED BY <1>1, <2>1 DEF CountInv, Runs
<1>6. CASE /\ ~Child!PollFinishes /\ ~Child!ReportStopped
           /\ starts' = starts /\ stops' = stops /\ (Runs' <=> Runs)
  <2>1. Has(stack', {"stopped"}) <=> Has(stack, {"stopped"})
    BY <1>6, CallsStep
  <2> QED BY <1>1, <1>6, <2>1 DEF CountInv
<1>7. CASE Child!Start \/ Child!CreateFailed
  <2>1. ~Runs /\ ~Runs' /\ starts' = starts /\ stops' = stops
    BY <1>7 DEF Child!Start, Child!CreateFailed, Child!Top, StackInv, Runs,
       Child!logVars
  <2>2. Runs' <=> Runs
    BY <2>1
  <2> QED BY <1>3, <1>4, <1>6, <2>1, <2>2
<1> QED
  BY <1>2, <1>3, <1>4, <1>5, <1>6, <1>7
  DEF Child!Next, Child!User, Child!Calls, Child!Kernel, Child!Loop,
      Child!AsyncStop, Child!Creating, Child!Return, Child!Attach, Child!Kill,
      Child!Exits, Child!Writes, Child!PipeEnds, Child!ReadCompletes,
      Child!PollExpires, Child!Dropped, Child!ReadOk, Child!ReadFails,
      Child!Delete, Child!PollGone, Child!PollAgain, Child!logVars, Runs

\* No undefined behaviour, and a Process that is gone does not run.
LEMMA FaultStep ==
  ASSUME ChildTypes, StackInv, Tidy, Child!Next, Orderly'
  PROVE  ~fault' /\ (gone' => state' = "notRunning")
<1>1. ~fault /\ (gone => state = "notRunning")
  BY DEF Tidy
<1>2. CASE Child!Start
  <2>1. state = "notRunning" /\ ~gone' /\ fault' = \E ch \in Child!Channels : att[ch] # 0
    BY <1>2 DEF Child!Start
  <2>2. \A ch \in Child!Channels : att[ch] = 0
    BY <2>1 DEF Tidy, AttInv, Runs
  <2> QED BY <2>1, <2>2
<1>3. CASE Child!Destroy
  BY <1>3, IdleDestroy
<1>4. CASE Child!CreateOk \/ Child!CreateFailed
  <2>1. state = "starting" /\ fault' = fault /\ gone' = gone
    BY <1>4 DEF Child!CreateOk, Child!CreateFailed, Child!Top, StackInv
  <2> QED BY <1>1, <2>1
<1>5. CASE Child!ReadOk \/ Child!ReadFails
  <2>1. PICK f, n : f = Child!Fd /\ n = Head(tasks).n
    OBVIOUS
  <2>2. Child!Running("read")
    BY <1>5 DEF Child!ReadOk, Child!ReadFails
  <2>3. f \notin fdGone /\ ~gone
    BY <2>1, <2>2, ReadRuns
  <2>4. /\ state' = state /\ gone' = gone
        /\ \/ fault' = (gone \/ f \in fdGone)
           \/ fault' = fault
           \/ fault' = gone
    BY <1>5, <2>1 DEF Child!ReadOk, Child!ReadFails
  <2>5. ~fault'
    <3>1. CASE fault' = (gone \/ f \in fdGone)
      BY <2>3, <3>1
    <3> QED BY <1>1, <2>3, <2>4, <3>1
  <2> QED BY <1>1, <2>4, <2>5
<1>6. CASE Child!Delete
  <2>1. tasks # <<>> /\ Head(tasks).op = "delete" /\ tasks \in Seq(Items)
    BY <1>6 DEF Child!Delete, Child!Running, ChildTypes
  <2>2. PICK f : f = Child!Fd
    OBVIOUS
  <2>3. f \in Child!Fds /\ Head(tasks) \in DeletesOf(f)
    BY <2>1, <2>2, HeadTypes DEF DeletesOf, Child!Fd
  <2>4. Has(tasks, DeletesOf(f))
    BY <2>1, <2>3, TailQueue
  <2>5. f \notin fdGone
    BY <2>3, <2>4 DEF Tidy, FdInv, FdRight
  <2>6. fault' = (f \in fdGone) /\ gone' = gone /\ state' = state
    BY <1>6, <2>2 DEF Child!Delete
  <2> QED BY <1>1, <2>5, <2>6
<1>7. CASE Child!PollGone
  BY <1>7, PollRuns DEF Child!PollGone
<1>8. CASE Child!AsyncStop \/ Child!PollFinishes
  BY <1>1, <1>8 DEF Child!AsyncStop, Child!PollFinishes
<1>9. CASE UNCHANGED <<fault, gone, state>>
  BY <1>1, <1>9
<1> QED
  BY <1>2, <1>3, <1>4, <1>5, <1>6, <1>7, <1>8, <1>9
  DEF Child!Next, Child!User, Child!Calls, Child!Kernel, Child!Loop,
      Child!Creating, Child!Return, Child!Attach, Child!Kill,
      Child!ReportStopped, Child!Exits, Child!Writes, Child!PipeEnds,
      Child!ReadCompletes, Child!PollExpires, Child!Dropped, Child!PollAgain

-----------------------------------------------------------------------------

LEMMA ChildStarts ==
  ASSUME Child!Init PROVE ChildInv
<1>1. /\ proc = Child!Garbage /\ ends = {} /\ kid = "none" /\ spawn = Child!Idle
      /\ groupKill = FALSE /\ state = "notRunning"
      /\ att = [ch \in Child!Channels |-> 0]
      /\ poll = "off" /\ gone = FALSE
      /\ reading = {} /\ fdStopped = {} /\ released = {} /\ fdGone = {}
      /\ tasks = <<>> /\ stack = <<>>
      /\ pipe = [ch \in Child!Channels |-> 0] /\ writers = {}
      /\ wrote = [ch \in Child!Channels |-> 0]
      /\ brought = [ch \in Child!Channels |-> 0]
      /\ starts = 0 /\ stops = 0 /\ broken = {} /\ fault = FALSE
  BY DEF Child!Init, Child!InitSubprocess
<1>2. \A P, Q : ~Has(<<>>, P) /\ Never(<<>>, P, Q)
  BY EmptyQueue
<1>3. ChildTypes
  <2>1. Child!SubprocessTypes
    BY <1>1, SpawnTypes DEF Child!Garbage, Structs, AllEnds
  <2>2. MaxStarts \in Nat /\ 0 \in 0..MaxStarts /\ <<>> \in Seq(Items)
    BY StreamsAssumption
  <2> QED BY <1>1, <2>1, <2>2 DEF ChildTypes, Child!States, ProcessRules
<1>4. StackInv
  BY <1>1, <1>2, EmptyCalls DEF StackInv, Nested, Resting, Attaching
<1>5. KidInv
  <2>1. /\ \A p : Child!Idle # <<"file", p>>
        /\ Child!Idle # Child!Created /\ Child!Idle # Child!Failed
    <3>1. \A a, b, c, d : <<a, b>> = <<c, d>> => a = c
      OBVIOUS
    <3> QED BY <3>1 DEF Child!Idle, Child!Created, Child!Failed
  <2> QED BY <1>1, <2>1 DEF KidInv, Runs, Child!Garbage
<1>6. FdInv
  BY <1>1, <1>2 DEF FdInv, FdRight
<1>7. AttInv
  BY <1>1, <1>2 DEF AttInv, Attaching, Runs
<1>8. PollInv
  BY <1>1, <1>2 DEF PollInv
<1>9. OutputInv /\ CountInv
  BY <1>1, <1>2 DEF OutputInv, CountInv, Runs
<1> QED BY <1>1, <1>3, <1>4, <1>5, <1>6, <1>7, <1>8, <1>9 DEF ChildInv, Tidy

LEMMA ChildNext ==
  ASSUME ChildInv, [Child!Next]_(Child!vars) PROVE ChildInv'
<1>1. CASE Child!Next
  <2>1. ChildTypes /\ StackInv
    BY DEF ChildInv
  <2>2. ChildTypes' /\ StackInv'
    BY <1>1, <2>1, TypesStep, StackStep
  <2>3. ASSUME Orderly' PROVE Tidy'
    <3>1. Tidy
      BY <1>1, <2>3, RulesStayBroken DEF ChildInv
    <3> QED BY <1>1, <2>1, <2>3, <3>1, KidStep, FdStep, AttStep, PollStep,
               OutputStep, CountStep, FaultStep DEF Tidy
  <2> QED BY <2>2, <2>3 DEF ChildInv
<1>2. CASE UNCHANGED Child!vars
  <2>1. UNCHANGED childVars
    BY <1>2 DEF Child!vars, Child!spawnVars, Child!fdVars, Child!pipeVars,
       Child!logVars, childVars
  <2>2. ChildTypes' <=> ChildTypes
    BY <2>1 DEF childVars, ChildTypes, Child!SubprocessTypes
  <2>3. (StackInv' <=> StackInv) /\ (Orderly' <=> Orderly)
    BY <2>1 DEF childVars, StackInv, Orderly, Attaching, Runs
  <2>4. KidInv' <=> KidInv
    BY <2>1 DEF childVars, KidInv, Runs
  <2>5. FdInv' <=> FdInv
    BY <2>1 DEF childVars, FdInv, FdRight
  <2>6. (AttInv' <=> AttInv) /\ (PollInv' <=> PollInv) /\ (CountInv' <=> CountInv)
    BY <2>1 DEF childVars, AttInv, PollInv, CountInv, Attaching, Runs
  <2>7. OutputInv' <=> OutputInv
    BY <2>1 DEF childVars, OutputInv, OutputRight, Brings, ReadsOf, Attaching, Runs
  <2> QED BY <2>1, <2>2, <2>3, <2>4, <2>5, <2>6, <2>7
          DEF ChildInv, Tidy, childVars
<1> QED BY <1>1, <1>2

-----------------------------------------------------------------------------
\* What the invariant says.

LEMMA ChildSafe == ChildInv => Child!NoFault /\ Child!AllReleased
<1> SUFFICES ASSUME ChildInv PROVE Child!NoFault /\ Child!AllReleased
  OBVIOUS
<1>1. ChildTypes /\ StackInv /\ (Orderly => Tidy)
  BY DEF ChildInv
<1>2. Child!NoFault
  <2>1. ASSUME NEW i \in 1..Len(tasks)
        PROVE  tasks[i].op \in {"read", "delete", "poll"}
    <3>1. PICK t : t = tasks[i]
      OBVIOUS
    <3>2. t \in Items
      BY <1>1, <3>1 DEF ChildTypes
    <3>3. t.op \in {"read", "delete", "poll"}
      BY <3>2, PollType DEF Items
    <3> QED BY <3>1, <3>3
  <2>2. fault => broken \cap {"destroyIdle", "destroyStarted"} # {}
    BY <1>1 DEF Orderly, Tidy
  <2> QED BY <1>1, <2>1, <2>2 DEF Child!NoFault, ChildTypes, ProcessRules
<1>3. ASSUME state = "notRunning", broken = {}
      PROVE  /\ ends = {} /\ kid = "none" /\ ~proc.child
             /\ \A ch \in Child!Channels : att[ch] = 0
             /\ reading = {}
             /\ stack = <<>> => proc.files = {} /\ stops = starts
  <2>1. Tidy /\ ~Runs
    BY <1>1, <1>3 DEF Orderly, Runs
  <2>2. ends = {} /\ kid = "none" /\ ~proc.child /\ proc.files = {}
    BY <1>3, <2>1 DEF Tidy, KidInv
  <2>3. \A ch \in Child!Channels : att[ch] = 0
    BY <2>1 DEF Tidy, AttInv
  <2>4. reading = {}
    <3>1. ASSUME NEW fd \in reading PROVE FALSE
      <4>1. fd \in Child!Fds
        BY <1>1 DEF ChildTypes
      <4>2. fd[1] \in 1..MaxStarts /\ fd[2] \in Child!Channels
        BY <4>1 DEF Child!Fds
      <4>3. att[fd[2]] = fd[1]
        BY <2>1, <4>1 DEF Tidy, FdInv, FdRight
      <4> QED BY <2>3, <4>2, <4>3
    <3> QED BY <3>1
  <2>5. stack = <<>> => stops = starts
    <3>1. /\ starts \in Nat /\ stops \in Nat
          /\ starts = stops + (IF Runs THEN 1 ELSE 0)
                            + (IF Has(stack, {"stopped"}) THEN 1 ELSE 0)
      BY <1>1, <2>1, StreamsAssumption DEF ChildTypes, Tidy, CountInv
    <3>2. stack = <<>> => ~Has(stack, {"stopped"})
      BY EmptyQueue
    <3> QED BY <2>1, <3>1, <3>2
  <2> QED BY <2>2, <2>3, <2>4, <2>5
<1>4. Child!AllReleased
  BY <1>3 DEF Child!AllReleased
<1> QED BY <1>2, <1>4

\* A child is reported to have ended in one place: the poll that found it
\* gone and both ProcessFds released.
LEMMA FinishStep ==
  ASSUME ChildInv, Child!Next, state \in {"running", "stopping"},
         state' = "notRunning", broken' = {}
  PROVE  writers = {} /\ wrote = brought
<1>1. ChildTypes /\ StackInv /\ Tidy /\ Runs
  BY RulesStayBroken DEF ChildInv, Orderly, Runs
<1>2. Child!PollFinishes
  <2>1. ~Child!CreateFailed
    BY DEF StackInv, ChildInv, Child!CreateFailed, Child!Top
  <2>2. ~Child!Destroy
    BY DEF Child!Destroy
  <2>3. state' # state
    OBVIOUS
  <2> QED BY <2>1, <2>2, <2>3
          DEF Child!Next, Child!User, Child!Calls, Child!Kernel, Child!Loop,
              Child!Start, Child!AsyncStop, Child!Creating, Child!CreateOk,
              Child!Return, Child!Attach, Child!Kill, Child!ReportStopped,
              Child!Exits, Child!Writes, Child!PipeEnds, Child!ReadCompletes,
              Child!PollExpires, Child!Dropped, Child!ReadOk, Child!ReadFails,
              Child!Delete, Child!PollGone, Child!PollAgain
<1>3. stack = <<>> /\ \A ch \in Child!Channels : att[ch] = 0
  BY <1>2 DEF Child!PollFinishes, Child!Running, Child!CleansUp
<1>4. ~Attaching
  BY <1>3, EmptyQueue DEF Attaching
<1>5. /\ pipe \in [Child!Channels -> Nat] /\ wrote \in [Child!Channels -> Nat]
      /\ brought \in [Child!Channels -> Nat] /\ writers \subseteq Child!Channels
  BY <1>1 DEF ChildTypes
<1>6. ASSUME NEW ch \in Child!Channels
      PROVE  ch \notin writers /\ wrote[ch] = brought[ch]
  <2>1. OutputRight(ch)
    BY <1>1 DEF Tidy, OutputInv
  <2>2. ~Has(tasks, ReadsOf(<<starts, ch>>))
    <3>1. PICK fd : fd = <<starts, ch>>
      OBVIOUS
    <3>2. CASE fd \in Child!Fds
      <4>1. fd[2] = ch /\ fd[1] # 0
        BY <3>1, <3>2 DEF Child!Fds
      <4>2. Has(tasks, ReadsOf(fd)) => att[fd[2]] = fd[1]
        BY <1>1, <3>2 DEF Tidy, FdInv, FdRight
      <4> QED BY <1>3, <3>1, <4>1, <4>2
    <3>3. CASE fd \notin Child!Fds
      <4>1. ReadsOf(fd) = {}
        BY <3>3, PollType DEF ReadsOf, Items
      <4> QED BY <3>1, <4>1 DEF Has
    <3> QED BY <3>2, <3>3
  <2>3. /\ wrote[ch] = pipe[ch] + brought[ch]
        /\ ch \notin writers /\ pipe[ch] = 0
    BY <1>3, <1>4, <2>1, <2>2 DEF OutputRight
  <2> QED BY <1>5, <2>3
<1> QED BY <1>5, <1>6

-----------------------------------------------------------------------------
\* The theorems.

\* A Process that does not run owns nothing, whichever step of creating the
\* child failed and whatever ended first, every child it started was reported
\* once, and no handler uses freed memory: for a user who destroys only a
\* Process that was started and is not running.
THEOREM ProcessSafety == Child!Spec => [](Child!NoFault /\ Child!AllReleased)
<1>1. Child!Init => ChildInv
  BY ChildStarts
<1>2. ChildInv /\ [Child!Next]_(Child!vars) => ChildInv'
  BY ChildNext
<1>3. ChildInv => Child!NoFault /\ Child!AllReleased
  BY ChildSafe
<1> QED BY <1>1, <1>2, <1>3, PTL DEF Child!Spec

\* All a child wrote has been brought to the user by the time its end is
\* reported.
THEOREM OutputSafety == Child!Spec => Child!OutputBeforeStopped
<1>1. Child!Init => ChildInv
  BY ChildStarts
<1>2. ChildInv /\ [Child!Next]_(Child!vars) => ChildInv'
  BY ChildNext
<1>3. ChildInv /\ [Child!Next]_(Child!vars) =>
        [(/\ state \in {"running", "stopping"} /\ state' = "notRunning"
          /\ broken' = {}) => writers = {} /\ wrote = brought]_(Child!vars)
  BY FinishStep
<1> QED BY <1>1, <1>2, <1>3, PTL DEF Child!Spec, Child!OutputBeforeStopped

LEMMA ChildAlways ==
  MCSpec => []ChildInv /\ [][Child!Next]_(Child!vars)
<1>1. MCInit => ChildInv
  BY ChildStarts DEF MCInit
<1>2. [MCNext]_allVars => [Child!Next]_(Child!vars)
  <2>1. childVars' = childVars => UNCHANGED Child!vars
    BY DEF childVars, Child!vars, Child!spawnVars, Child!fdVars,
       Child!pipeVars, Child!logVars
  <2> QED BY <2>1 DEF MCNext, Streams, Children, allVars
<1>3. ChildInv /\ [Child!Next]_(Child!vars) => ChildInv'
  BY ChildNext
<1> QED BY <1>1, <1>2, <1>3, PTL DEF MCSpec

\* In every run of a Process: it owns nothing while it does not run, and no
\* freed memory is used.
THEOREM ReleasedSafety == MCSpec => []ChildReleased
<1>1. ChildInv => ChildReleased
  BY ChildSafe DEF ChildReleased
<1> QED BY <1>1, ChildAlways, PTL

\* In every run of a Process: what the child wrote is brought before its end
\* is reported.
THEOREM DeliveredSafety == MCSpec => OutputBeforeStopped
<1>1. ChildInv /\ [Child!Next]_(Child!vars) =>
        [(/\ state \in {"running", "stopping"} /\ state' = "notRunning"
          /\ broken' = {}) => writers = {} /\ wrote = brought]_(Child!vars)
  BY FinishStep
<1> QED BY <1>1, ChildAlways, PTL DEF OutputBeforeStopped, Child!OutputBeforeStopped

=============================================================================
