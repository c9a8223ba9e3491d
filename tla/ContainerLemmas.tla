--------------------------- MODULE ContainerLemmas ---------------------------
(***************************************************************************)
(* The lemmas that the proofs about several components rest on: what is in *)
(* a loop's queue and what stands behind what, and what the operations of  *)
(* a buffer that is in order keep and return.                              *)
(***************************************************************************)
EXTENDS BufferOps, FiniteSets, FiniteSetTheorems, TLAPS

-----------------------------------------------------------------------------
\* An element of the set P is queued; none of Q is queued behind one of P.

Has(s, P) == \E i \in 1..Len(s) : s[i] \in P

Never(s, P, Q) ==
  \A i, j \in 1..Len(s) : i < j /\ s[i] \in P => s[j] \notin Q

LEMMA EmptyQueue == \A P, Q : ~Has(<<>>, P) /\ Never(<<>>, P, Q)
BY DEF Has, Never

LEMMA AppendQueue ==
  ASSUME NEW E, NEW s \in Seq(E), NEW c \in E
  PROVE  /\ Append(s, c) \in Seq(E)
         /\ \A P : Has(Append(s, c), P) <=> (Has(s, P) \/ c \in P)
         /\ \A P, Q : Never(Append(s, c), P, Q)
                        <=> (Never(s, P, Q) /\ ~(Has(s, P) /\ c \in Q))
<1> DEFINE t == Append(s, c)
<1>1. /\ t \in Seq(E) /\ Len(t) = Len(s) + 1 /\ Len(s) \in Nat
      /\ \A i \in 1..Len(s) : i \in 1..Len(t) /\ t[i] = s[i]
      /\ t[Len(s) + 1] = c /\ Len(s) + 1 \in 1..Len(t)
  OBVIOUS
<1>2. \A i \in 1..Len(t) : i \in 1..Len(s) \/ i = Len(s) + 1
  BY <1>1
<1> HIDE DEF t
<1>3. ASSUME NEW P PROVE Has(t, P) <=> (Has(s, P) \/ c \in P)
  BY <1>1, <1>2 DEF Has
<1>4. ASSUME NEW P, NEW Q, Never(t, P, Q)
      PROVE  Never(s, P, Q) /\ ~(Has(s, P) /\ c \in Q)
  <2>1. Never(s, P, Q)
    BY <1>1, <1>4 DEF Never
  <2>2. ASSUME NEW i \in 1..Len(s), s[i] \in P PROVE c \notin Q
    <3>1. i < Len(s) + 1 /\ i \in 1..Len(t) /\ t[i] \in P
      BY <1>1, <2>2
    <3> QED BY <1>1, <1>4, <3>1 DEF Never
  <2> QED BY <2>1, <2>2 DEF Has
<1>5. ASSUME NEW P, NEW Q, Never(s, P, Q), ~(Has(s, P) /\ c \in Q)
      PROVE  Never(t, P, Q)
  <2> SUFFICES ASSUME NEW i \in 1..Len(t), NEW j \in 1..Len(t),
                      i < j, t[i] \in P
               PROVE  t[j] \notin Q
    BY DEF Never
  <2>1. i \in 1..Len(s) /\ t[i] = s[i] /\ s[i] \in P
    BY <1>1, <1>2
  <2>2. CASE j \in 1..Len(s)
    BY <1>1, <1>5, <2>1, <2>2 DEF Never
  <2>3. CASE j = Len(s) + 1
    BY <1>1, <1>5, <2>1, <2>3 DEF Has
  <2> QED BY <1>2, <2>2, <2>3
<1> QED BY <1>1, <1>3, <1>4, <1>5 DEF t

LEMMA TailQueue ==
  ASSUME NEW E, NEW s \in Seq(E), s # <<>>
  PROVE  /\ Head(s) \in E /\ Tail(s) \in Seq(E)
         /\ \A P : Has(s, P) <=> (Head(s) \in P \/ Has(Tail(s), P))
         /\ \A P, Q : Never(s, P, Q)
                        <=> (/\ Never(Tail(s), P, Q)
                             /\ ~(Head(s) \in P /\ Has(Tail(s), Q)))
<1> DEFINE t == Tail(s)
<1>1. /\ t \in Seq(E) /\ Len(t) = Len(s) - 1
      /\ Len(s) \in Nat /\ Len(s) >= 1
      /\ \A i \in 1..Len(t) : t[i] = s[i + 1]
      /\ Head(s) = s[1] /\ s[1] \in E
  OBVIOUS
<1> HIDE DEF t
<1>2. /\ 1 \in 1..Len(s)
      /\ \A i \in 1..Len(t) : i + 1 \in 1..Len(s) /\ s[i + 1] = t[i] /\ i + 1 > 1
      /\ \A i \in 1..Len(s) :
           i # 1 => /\ i > 1 /\ i - 1 \in 1..Len(t)
                    /\ s[i] = t[i - 1]
  <2>1. ASSUME NEW i \in 1..Len(s), i # 1
        PROVE  i > 1 /\ i - 1 \in 1..Len(t) /\ s[i] = t[i - 1]
    <3>1. i - 1 \in 1..Len(t) /\ (i - 1) + 1 = i /\ i > 1
      BY <1>1, <2>1
    <3> QED BY <1>1, <3>1
  <2> QED BY <1>1, <2>1
<1>3. ASSUME NEW P PROVE Has(s, P) <=> (Head(s) \in P \/ Has(t, P))
  BY <1>1, <1>2 DEF Has
<1>4. ASSUME NEW P, NEW Q, Never(s, P, Q)
      PROVE  Never(t, P, Q) /\ ~(Head(s) \in P /\ Has(t, Q))
  <2>1. ASSUME NEW i \in 1..Len(t), NEW j \in 1..Len(t), i < j, t[i] \in P
        PROVE  t[j] \notin Q
    <3>1. i + 1 < j + 1 /\ i + 1 \in 1..Len(s) /\ j + 1 \in 1..Len(s)
          /\ s[i + 1] \in P /\ s[j + 1] = t[j]
      BY <1>1, <1>2, <2>1
    <3> QED BY <1>4, <3>1 DEF Never
  <2>2. ASSUME Head(s) \in P, NEW j \in 1..Len(t) PROVE t[j] \notin Q
    BY <1>1, <1>2, <1>4, <2>2 DEF Never
  <2> QED BY <2>1, <2>2 DEF Never, Has
<1>5. ASSUME NEW P, NEW Q, Never(t, P, Q), ~(Head(s) \in P /\ Has(t, Q))
      PROVE  Never(s, P, Q)
  <2> SUFFICES ASSUME NEW i \in 1..Len(s), NEW j \in 1..Len(s),
                      i < j, s[i] \in P
               PROVE  s[j] \notin Q
    BY DEF Never
  <2>1. j # 1 /\ j - 1 \in 1..Len(t) /\ s[j] = t[j - 1]
    BY <1>1, <1>2
  <2>2. CASE i = 1
    BY <1>1, <1>5, <2>1, <2>2 DEF Has
  <2>3. CASE i # 1
    <3>1. i - 1 \in 1..Len(t) /\ t[i - 1] \in P /\ i - 1 < j - 1
      BY <1>1, <1>2, <2>3
    <3> QED BY <1>5, <2>1, <3>1 DEF Never
  <2> QED BY <2>2, <2>3
<1> QED BY <1>1, <1>3, <1>4, <1>5 DEF t

LEMMA IsSequence ==
  ASSUME NEW E, NEW n \in Nat, NEW f \in [1..n -> E]
  PROVE  f \in Seq(E) /\ Len(f) = n
OBVIOUS

LEMMA OneItem ==
  ASSUME NEW E, NEW s \in Seq(E), NEW one \in Seq(E), Len(one) = 1
  PROVE  s \o one = Append(s, one[1])
<1>1. one = <<one[1]>>
  OBVIOUS
<1>3. one[1] \in E
  OBVIOUS
<1>2. \A c \in E : s \o <<c>> = Append(s, c)
  OBVIOUS
<1> QED BY <1>1, <1>2, <1>3

LEMMA ConcatQueue ==
  ASSUME NEW E, NEW s \in Seq(E), NEW r \in Seq(E)
  PROVE  /\ s \o r \in Seq(E)
         /\ \A P : Has(s \o r, P) <=> (Has(s, P) \/ Has(r, P))
         /\ \A P, Q : Never(s, P, Q) /\ ~Has(r, Q) => Never(s \o r, P, Q)
<1> DEFINE t == s \o r
<1>1. /\ t \in Seq(E) /\ Len(t) = Len(s) + Len(r)
      /\ Len(s) \in Nat /\ Len(r) \in Nat
      /\ \A i \in 1..Len(t) : t[i] = IF i <= Len(s) THEN s[i] ELSE r[i - Len(s)]
  OBVIOUS
<1>2. /\ \A i \in 1..Len(s) : i \in 1..Len(t) /\ t[i] = s[i]
      /\ \A i \in 1..Len(r) : i + Len(s) \in 1..Len(t) /\ t[i + Len(s)] = r[i]
  <2>1. \A i \in 1..Len(s) : i \in 1..Len(t) /\ i <= Len(s)
    BY <1>1
  <2>2. \A i \in 1..Len(r) : /\ i + Len(s) \in 1..Len(t) /\ ~(i + Len(s) <= Len(s))
                             /\ (i + Len(s)) - Len(s) = i
    BY <1>1
  <2> HIDE DEF t
  <2> QED BY <1>1, <2>1, <2>2
<1>3. \A i \in 1..Len(t) : \/ i \in 1..Len(s) /\ t[i] = s[i]
                           \/ /\ i - Len(s) \in 1..Len(r) /\ i > Len(s)
                              /\ t[i] = r[i - Len(s)]
  <2>1. \A i \in 1..Len(t) : \/ i \in 1..Len(s) /\ i <= Len(s)
                             \/ /\ i - Len(s) \in 1..Len(r) /\ i > Len(s)
                                /\ ~(i <= Len(s))
    BY <1>1
  <2> HIDE DEF t
  <2> QED BY <1>1, <2>1
<1> HIDE DEF t
<1>4. \A P : Has(t, P) <=> (Has(s, P) \/ Has(r, P))
  BY <1>2, <1>3 DEF Has
<1>5. ASSUME NEW P, NEW Q, Never(s, P, Q), ~Has(r, Q) PROVE Never(t, P, Q)
  <2> SUFFICES ASSUME NEW i \in 1..Len(t), NEW j \in 1..Len(t),
                      i < j, t[i] \in P
               PROVE  t[j] \notin Q
    BY DEF Never
  <2>1. CASE j \in 1..Len(s) /\ t[j] = s[j]
    <3>1. i \in 1..Len(s) /\ t[i] = s[i]
      <4>1. ~(i > Len(s))
        BY <1>1, <2>1
      <4> QED BY <1>3, <4>1
    <3> QED BY <1>5, <2>1, <3>1 DEF Never
  <2>2. CASE j - Len(s) \in 1..Len(r) /\ t[j] = r[j - Len(s)]
    BY <1>5, <2>2 DEF Has
  <2> QED BY <1>3, <2>1, <2>2
<1> QED BY <1>1, <1>4, <1>5 DEF t

\* How many of P are queued, when there are not two.
LEMMA OneIndex ==
  ASSUME NEW E, NEW s \in Seq(E), NEW P, Never(s, P, P),
         NEW S, \A i : i \in S <=> (i \in 1..Len(s) /\ s[i] \in P)
  PROVE  Cardinality(S) = IF Has(s, P) THEN 1 ELSE 0
<1>1. CASE ~Has(s, P)
  <2>1. S = {}
    BY <1>1 DEF Has
  <2> QED BY <1>1, <2>1, FS_EmptySet
<1>2. CASE Has(s, P)
  <2>1. PICK i \in 1..Len(s) : s[i] \in P
    BY <1>2 DEF Has
  <2>2. \A j \in S : j = i
    <3> TAKE j \in S
    <3>1. j \in 1..Len(s) /\ s[j] \in P
      OBVIOUS
    <3>2. ~(i < j) /\ ~(j < i)
      BY <2>1, <3>1 DEF Never
    <3> QED BY <3>1, <3>2
  <2>3. S = {i}
    BY <2>1, <2>2
  <2> QED BY <1>2, <2>3, FS_Singleton
<1> QED BY <1>1, <1>2

-----------------------------------------------------------------------------
\* Compaction keeps the unread bytes and moves them to the front.
LEMMA OptimizationLemma ==
  ASSUME NEW b, BufferOK(b), NEW total \in Nat, Holds(b, total)
  PROVE  /\ BufferOK(Optimization(b))
         /\ Holds(Optimization(b), total)
         /\ Unread(Optimization(b)) = Unread(b)
         /\ Optimization(b).widx \in {b.widx, Unread(b)}
<1>1. CASE b.ridx = 0
  BY <1>1 DEF Optimization, BufferOK, Unread
<1>2. CASE b.ridx # 0
  <2> DEFINE c == Optimization(b)
  <2>1. /\ c.cap = b.cap /\ c.ridx = 0 /\ c.widx = b.widx - b.ridx
        /\ c.mem = [i \in 0..b.cap-1 |->
                      IF i < b.widx - b.ridx THEN b.mem[b.ridx + i]
                                             ELSE b.mem[i]]
        /\ c \in [cap : Nat, ridx : Nat, widx : Nat, mem : [0..b.cap-1 -> Nat]]
    BY <1>2 DEF Optimization, Unread, BufferOK
  <2>2. BufferOK(c)
    BY <2>1 DEF BufferOK
  <2> HIDE DEF c
  <2>3. ASSUME NEW i \in 0..c.widx-1
        PROVE  c.mem[i] = total - c.widx + i + 1
    <3>1. /\ i \in 0..b.cap-1
          /\ i < b.widx - b.ridx
          /\ b.ridx + i \in 0..b.widx-1
      BY <2>1 DEF BufferOK
    <3>2. c.mem[i] = b.mem[b.ridx + i]
      BY <2>1, <3>1
    <3>3. b.mem[b.ridx + i] = total - b.widx + (b.ridx + i) + 1
      BY <3>1 DEF Holds
    <3> QED BY <2>1, <3>2, <3>3 DEF BufferOK
  <2>4. c.widx <= total
    BY <2>1 DEF BufferOK, Holds
  <2>5. Holds(c, total)
    BY <2>3, <2>4 DEF Holds
  <2>6. Unread(c) = Unread(b) /\ c.widx = Unread(b)
    BY <2>1 DEF BufferOK, Unread
  <2> QED BY <2>2, <2>5, <2>6 DEF c
<1> QED BY <1>1, <1>2

\* Growing changes nothing that is in the vector.
LEMMA GrowSpaceLemma ==
  ASSUME NEW b, BufferOK(b), NEW len \in Nat,
         NEW total \in Nat, Holds(b, total)
  PROVE  /\ BufferOK(GrowSpace(b, len))
         /\ Holds(GrowSpace(b, len), total)
         /\ Unread(GrowSpace(b, len)) = Unread(b)
         /\ GrowSpace(b, len).widx = b.widx
         /\ LeftSpace(GrowSpace(b, len)) = len
<1> DEFINE c == GrowSpace(b, len)
           k == b.widx + len
           m == [i \in 0..k-1 |-> IF i < b.cap THEN b.mem[i] ELSE Zero]
<1>1. /\ b.cap \in Nat /\ b.ridx \in Nat /\ b.widx \in Nat
      /\ b.mem \in [0..b.cap-1 -> Nat]
      /\ b.ridx <= b.widx /\ b.widx <= b.cap
  BY DEF BufferOK
<1>2. c = [cap |-> k, ridx |-> b.ridx, widx |-> b.widx, mem |-> m]
  BY DEF GrowSpace
<1>3. k \in Nat /\ b.widx <= k /\ k - b.widx = len
  BY <1>1
<1> HIDE DEF k
<1>7. m \in [0..k-1 -> Nat]
  BY <1>1, <1>3, SMTT(30) DEF Zero
<1>4. /\ BufferOK(c)
      /\ Unread(c) = Unread(b) /\ c.widx = b.widx /\ LeftSpace(c) = len
  <2> HIDE DEF m
  <2> QED BY <1>1, <1>2, <1>3, <1>7 DEF BufferOK, Unread, LeftSpace
<1>5. ASSUME NEW i \in 0..b.widx-1
      PROVE  c.mem[i] = total - b.widx + i + 1
  <2>1. i \in 0..k-1 /\ i < b.cap
    BY <1>1, <1>3
  <2>2. c.mem[i] = b.mem[i]
    BY <1>2, <2>1
  <2> QED BY <2>2 DEF Holds
<1>6. Holds(c, total)
  BY <1>4, <1>5 DEF Holds
<1> QED BY <1>4, <1>6

\* PrepareWrite makes the room it is asked for and keeps every byte that can
\* still be read. What was read may be given up, and then all of it.
LEMMA PrepareWriteLemma ==
  ASSUME NEW b, BufferOK(b), NEW n \in Nat, NEW total \in Nat, Holds(b, total)
  PROVE  /\ BufferOK(PrepareWrite(b, n))
         /\ Holds(PrepareWrite(b, n), total)
         /\ Unread(PrepareWrite(b, n)) = Unread(b)
         /\ PrepareWrite(b, n).widx \in {b.widx, Unread(b)}
         /\ LeftSpace(PrepareWrite(b, n)) >= n
<1> DEFINE c == IF LeftSpace(b) < n THEN Optimization(b) ELSE b
<1>1. /\ BufferOK(c)
      /\ Holds(c, total)
      /\ Unread(c) = Unread(b)
      /\ c.widx \in {b.widx, Unread(b)}
  BY OptimizationLemma
<1>2. PrepareWrite(b, n) =
        IF LeftSpace(c) < n THEN GrowSpace(c, c.cap + 2 * n) ELSE c
  BY DEF PrepareWrite
<1> HIDE DEF c
<1>3. LeftSpace(c) \in Int /\ c.cap + 2 * n \in Nat /\ c.cap + 2 * n >= n
  BY <1>1 DEF BufferOK, LeftSpace
<1>4. CASE LeftSpace(c) < n
  <2> DEFINE g == GrowSpace(c, c.cap + 2 * n)
  <2>1. /\ BufferOK(g) /\ Holds(g, total) /\ Unread(g) = Unread(c)
        /\ g.widx = c.widx /\ LeftSpace(g) = c.cap + 2 * n
    BY <1>1, <1>3, GrowSpaceLemma
  <2>2. PrepareWrite(b, n) = g
    BY <1>2, <1>4
  <2> HIDE DEF g
  <2> QED BY <1>1, <1>3, <2>1, <2>2
<1>5. CASE ~(LeftSpace(c) < n)
  BY <1>1, <1>2, <1>3, <1>5
<1> QED BY <1>4, <1>5

\* Bytes stored above the write cursor are there, and disturb none below it.
LEMMA StoreLemma ==
  ASSUME NEW b, BufferOK(b), NEW data \in Seq(Nat), Len(data) <= LeftSpace(b),
         NEW total \in Nat, Holds(b, total)
  PROVE  LET s == Store(b, b.widx, data)
         IN  /\ BufferOK(s) /\ Holds(s, total)
             /\ s.cap = b.cap /\ s.ridx = b.ridx /\ s.widx = b.widx
             /\ \A k \in 1..Len(data) : s.mem[s.widx + k - 1] = data[k]
<1> DEFINE n == Len(data)
           s == Store(b, b.widx, data)
<1>1. /\ b.cap \in Nat /\ b.ridx \in Nat /\ b.widx \in Nat
      /\ b.mem \in [0..b.cap-1 -> Nat]
      /\ b.ridx <= b.widx /\ b.widx + n <= b.cap
  BY DEF BufferOK, LeftSpace
<1>2. n \in Nat /\ \A i \in 1..n : data[i] \in Nat
  OBVIOUS
<1>3. /\ s.cap = b.cap /\ s.ridx = b.ridx /\ s.widx = b.widx
      /\ s.mem = [i \in 0..b.cap-1 |->
                    IF i \in b.widx..b.widx+n-1 THEN data[i-b.widx+1]
                                                ELSE b.mem[i]]
      /\ s \in [cap : Nat, ridx : Nat, widx : Nat, mem : {s.mem}]
  BY DEF Store, BufferOK
<1> HIDE DEF s, n
<1>4. ASSUME NEW i \in 0..b.cap-1, i \in b.widx..b.widx+n-1
      PROVE  s.mem[i] = data[i-b.widx+1] /\ i-b.widx+1 \in 1..n
  BY <1>1, <1>2, <1>3, <1>4, SMTT(30)
<1>5. ASSUME NEW i \in 0..b.cap-1, i \notin b.widx..b.widx+n-1
      PROVE  s.mem[i] = b.mem[i]
  BY <1>2, <1>3, <1>5
<1>6. ASSUME NEW i \in 0..b.cap-1
      PROVE  s.mem[i] \in Nat
  <2>1. CASE i \in b.widx..b.widx+n-1
    BY <1>2, <1>4, <2>1
  <2>2. CASE i \notin b.widx..b.widx+n-1
    BY <1>1, <1>5, <2>2
  <2> QED BY <2>1, <2>2
<1>7. BufferOK(s)
  <2>1. s.mem \in [0..b.cap-1 -> Nat]
    BY <1>3, <1>6
  <2>2. s \in [cap : Nat, ridx : Nat, widx : Nat, mem : [0..s.cap-1 -> Nat]]
    BY <1>3, <2>1
  <2> QED BY <1>1, <1>3, <2>2 DEF BufferOK
<1>8. Holds(s, total)
  <2>1. ASSUME NEW i \in 0..b.widx-1
        PROVE  s.mem[i] = b.mem[i]
    <3>1. i \in 0..b.cap-1 /\ i \notin b.widx..b.widx+n-1
      BY <1>1, <1>2
    <3> QED BY <1>5, <3>1
  <2> QED BY <1>3, <2>1 DEF Holds
<1>9. ASSUME NEW k \in 1..n
      PROVE  s.mem[s.widx + k - 1] = data[k]
  <2> DEFINE j == s.widx + k - 1
  <2>3. s.widx = b.widx
    BY <1>3
  <2>1. j \in 0..b.cap-1 /\ j \in b.widx..b.widx+n-1 /\ j-b.widx+1 = k
    BY <1>1, <1>2, <2>3, SMTT(30)
  <2> HIDE DEF j
  <2>2. s.mem[j] = data[j-b.widx+1]
    BY <1>4, <2>1
  <2> QED BY <2>1, <2>2 DEF j
<1> QED BY <1>3, <1>7, <1>8, <1>9 DEF s, n

\* Committing bytes that are the next ones of the stream appends them.
LEMMA CommitWriteLemma ==
  ASSUME NEW b, BufferOK(b), NEW n \in Nat, n <= LeftSpace(b),
         NEW total \in Nat, Holds(b, total),
         \A k \in 1..n : b.mem[b.widx + k - 1] = total + k
  PROVE  LET c == CommitWrite(b, n)
         IN  /\ BufferOK(c) /\ Holds(c, total + n)
             /\ c.cap = b.cap /\ c.ridx = b.ridx /\ c.widx = b.widx + n
             /\ Unread(c) = Unread(b) + n
<1> DEFINE c == CommitWrite(b, n)
<1>1. /\ b.cap \in Nat /\ b.ridx \in Nat /\ b.widx \in Nat
      /\ b.ridx <= b.widx /\ b.widx + n <= b.cap
  BY DEF BufferOK, LeftSpace
<1>2. b.widx + n \in Nat
  BY <1>1
<1>3. c \in [cap : Nat, ridx : Nat, widx : Nat, mem : [0..b.cap-1 -> Nat]]
  BY <1>2 DEF CommitWrite, BufferOK
<1>4. c.cap = b.cap /\ c.ridx = b.ridx /\ c.mem = b.mem /\ c.widx = b.widx + n
  BY DEF CommitWrite, BufferOK
<1> HIDE DEF c
<1>5. BufferOK(c)
  BY <1>1, <1>3, <1>4 DEF BufferOK
<1>6. ASSUME NEW i \in 0..c.widx-1
      PROVE  c.mem[i] = (total + n) - c.widx + i + 1
  <2>1. CASE i < b.widx
    <3>1. b.mem[i] = total - b.widx + i + 1
      BY <1>1, <2>1 DEF Holds
    <3> QED BY <1>1, <1>4, <3>1
  <2>2. CASE ~(i < b.widx)
    <3> DEFINE k == i - b.widx + 1
    <3>1. k \in 1..n /\ b.widx + k - 1 = i
      BY <1>1, <1>4, <2>2
    <3> HIDE DEF k
    <3>2. b.mem[i] = total + k
      BY <3>1
    <3>3. total + k = (total + n) - c.widx + i + 1
      BY <1>1, <1>4 DEF k
    <3> QED BY <1>4, <3>2, <3>3
  <2> QED BY <1>1, <2>1, <2>2
<1>7. Holds(c, total + n)
  BY <1>1, <1>4, <1>6 DEF Holds
<1>8. Unread(c) = Unread(b) + n
  BY <1>1, <1>4 DEF Unread
<1> QED BY <1>4, <1>5, <1>7, <1>8 DEF c

\* Storing the next bytes of the stream at the write cursor and committing
\* them keeps the buffer the newest stretch of the stream.
LEMMA CommitLemma ==
  ASSUME NEW b, BufferOK(b), NEW n \in Nat, n <= LeftSpace(b),
         NEW total \in Nat, Holds(b, total)
  PROVE  LET data == [i \in 1..n |-> total + i]
             c    == CommitWrite(Store(b, b.widx, data), n)
         IN  /\ BufferOK(c)
             /\ Holds(c, total + n)
             /\ c.widx = b.widx + n
             /\ c.ridx = b.ridx
<1> DEFINE data == [i \in 1..n |-> total + i]
           s    == Store(b, b.widx, data)
           c    == CommitWrite(s, n)
<1>4. data \in Seq(Nat) /\ Len(data) = n /\ \A k \in 1..n : data[k] = total + k
  OBVIOUS
<1> HIDE DEF data
<1>1. /\ BufferOK(s) /\ Holds(s, total)
      /\ s.cap = b.cap /\ s.ridx = b.ridx /\ s.widx = b.widx
      /\ \A k \in 1..n : s.mem[s.widx + k - 1] = total + k
  BY <1>4, StoreLemma
<1>2. n <= LeftSpace(s)
  BY <1>1 DEF LeftSpace
<1> HIDE DEF s
<1>3. /\ BufferOK(c) /\ Holds(c, total + n)
      /\ c.ridx = s.ridx /\ c.widx = s.widx + n
  BY <1>1, <1>2, CommitWriteLemma
<1> QED BY <1>1, <1>3 DEF s, data

\* Write is PrepareWrite, the copy and the commit.
LEMMA WriteLemma ==
  ASSUME NEW b, BufferOK(b), NEW n \in Nat, NEW total \in Nat, Holds(b, total)
  PROVE  LET c == Write(b, [i \in 1..n |-> total + i])
         IN  /\ BufferOK(c)
             /\ Holds(c, total + n)
             /\ Unread(c) = Unread(b) + n
             /\ c.widx \in {b.widx + n, Unread(b) + n}
<1> DEFINE data == [i \in 1..n |-> total + i]
           p    == PrepareWrite(b, n)
           c    == CommitWrite(Store(p, p.widx, data), n)
<1>1. Len(data) = n
  OBVIOUS
<1>2. Write(b, data) = c
  BY <1>1 DEF Write
<1> HIDE DEF p
<1>3. /\ BufferOK(p) /\ Holds(p, total) /\ Unread(p) = Unread(b)
      /\ p.widx \in {b.widx, Unread(b)} /\ n <= LeftSpace(p)
  <2>1. LeftSpace(PrepareWrite(b, n)) >= n
    BY PrepareWriteLemma
  <2>2. BufferOK(PrepareWrite(b, n))
    BY PrepareWriteLemma
  <2> QED BY <2>1, <2>2, PrepareWriteLemma DEF p, BufferOK, LeftSpace
<1>4. BufferOK(c) /\ Holds(c, total + n) /\ c.widx = p.widx + n
      /\ c.ridx = p.ridx
  BY <1>3, CommitLemma
<1> HIDE DEF c
<1>5. Unread(c) = Unread(b) + n
  BY <1>3, <1>4, SMTT(30) DEF Unread, BufferOK
<1> QED BY <1>2, <1>3, <1>4, <1>5 DEF data

\* Reading moves the read cursor, at most to the write cursor.
LEMMA ReadLemma ==
  ASSUME NEW b, BufferOK(b), NEW n \in Nat, n <= Unread(b),
         NEW total \in Nat, Holds(b, total)
  PROVE  /\ BufferOK(HasReaded(b, n))
         /\ Holds(HasReaded(b, n), total)
         /\ Unread(HasReaded(b, n)) = Unread(b) - n
         /\ HasReaded(b, n).widx = b.widx
<1> DEFINE c == HasReaded(b, n)
<1>1. b.ridx \in Nat /\ b.widx \in Nat /\ b.ridx + n <= b.widx
  BY DEF BufferOK, Unread
<1>2. b.ridx + n \in Nat
  BY <1>1
<1>3. c \in [cap : Nat, ridx : Nat, widx : Nat, mem : [0..b.cap-1 -> Nat]]
  BY <1>2 DEF HasReaded, BufferOK
<1>4. c.cap = b.cap /\ c.widx = b.widx /\ c.mem = b.mem /\ c.ridx = b.ridx + n
  BY DEF HasReaded, BufferOK
<1> HIDE DEF c
<1>5. BufferOK(c)
  BY <1>1, <1>3, <1>4 DEF BufferOK
<1>6. Holds(c, total)
  BY <1>4 DEF Holds
<1>7. Unread(c) = Unread(b) - n
  BY <1>1, <1>4 DEF Unread
<1> QED BY <1>4, <1>5, <1>6, <1>7 DEF c

\* Taking a read back moves the read cursor, at most to the front.
LEMMA UnReadLemma ==
  ASSUME NEW b, BufferOK(b), NEW n \in Nat, n <= b.ridx,
         NEW total \in Nat, Holds(b, total)
  PROVE  /\ BufferOK(UnReadBytes(b, n))
         /\ Holds(UnReadBytes(b, n), total)
         /\ Unread(UnReadBytes(b, n)) = Unread(b) + n
         /\ UnReadBytes(b, n).widx = b.widx
<1> DEFINE c == UnReadBytes(b, n)
<1>1. b.ridx \in Nat /\ b.widx \in Nat /\ b.ridx <= b.widx
  BY DEF BufferOK
<1>2. b.ridx - n \in Nat
  BY <1>1
<1>3. c \in [cap : Nat, ridx : Nat, widx : Nat, mem : [0..b.cap-1 -> Nat]]
  BY <1>2 DEF UnReadBytes, BufferOK
<1>4. c.cap = b.cap /\ c.widx = b.widx /\ c.mem = b.mem /\ c.ridx = b.ridx - n
  BY DEF UnReadBytes, BufferOK
<1> HIDE DEF c
<1>5. BufferOK(c)
  BY <1>1, <1>3, <1>4 DEF BufferOK
<1>6. Holds(c, total)
  BY <1>4 DEF Holds
<1>7. Unread(c) = Unread(b) + n
  BY <1>1, <1>4 DEF Unread
<1> QED BY <1>4, <1>5, <1>6, <1>7 DEF c

\* A reset buffer holds nothing and is in order.
LEMMA ResetLemma ==
  ASSUME NEW b, BufferOK(b), NEW total \in Nat
  PROVE  /\ BufferOK(Reset(b))
         /\ Holds(Reset(b), total)
         /\ Unread(Reset(b)) = 0
         /\ Reset(b).widx = 0
<1> DEFINE a == [b EXCEPT !.ridx = 0]
           c == [a EXCEPT !.widx = 0]
<1>1. a \in [cap : Nat, ridx : Nat, widx : Nat, mem : [0..b.cap-1 -> Nat]]
  BY DEF BufferOK
<1>2. a.cap = b.cap /\ a.ridx = 0
  BY DEF BufferOK
<1>3. Reset(b) = c
  BY DEF Reset
<1> HIDE DEF a
<1>4. c \in [cap : Nat, ridx : Nat, widx : Nat, mem : [0..b.cap-1 -> Nat]]
  BY <1>1
<1>5. c.cap = b.cap /\ c.ridx = 0 /\ c.widx = 0
  BY <1>1, <1>2
<1> HIDE DEF c
<1>6. BufferOK(c)
  BY <1>4, <1>5 DEF BufferOK
<1>7. Holds(c, total) /\ Unread(c) = 0
  BY <1>5 DEF Holds, Unread
<1> QED BY <1>3, <1>5, <1>6, <1>7

\* What lies below the write cursor is the stream, read from where it is.
LEMMA BytesAtLemma ==
  ASSUME NEW b, BufferOK(b), NEW total \in Nat, Holds(b, total),
         NEW at \in Nat, NEW n \in Nat, at + n <= b.widx
  PROVE  BytesAt(b, at, n) = [i \in 1..n |-> (total - b.widx + at) + i]
<1>1. b.cap \in Nat /\ b.widx \in Nat /\ b.widx <= b.cap
  BY DEF BufferOK
<1>2. ASSUME NEW i \in 1..n
      PROVE  (IF at+i-1 \in 0..b.cap-1 THEN b.mem[at+i-1] ELSE Zero)
               = (total - b.widx + at) + i
  <2> DEFINE j == at+i-1
  <2>1. j \in 0..b.widx-1 /\ j \in 0..b.cap-1 /\ j = (at + i) - 1
    BY <1>1
  <2> HIDE DEF j
  <2>2. b.mem[j] = total - b.widx + j + 1
    BY <2>1 DEF Holds
  <2>3. (total - b.widx + at) + i = total - b.widx + j + 1
    BY <1>1, <2>1
  <2> QED BY <2>1, <2>2, <2>3 DEF j
<1> QED BY <1>2 DEF BytesAt

\* Whatever is looked at, the bytes are bytes.
LEMMA BytesType ==
  ASSUME NEW b, BufferOK(b), NEW at \in Nat, NEW n \in Nat
  PROVE  BytesAt(b, at, n) \in Seq(Nat) /\ Len(BytesAt(b, at, n)) = n
<1>1. \A i \in 1..n :
        (IF at+i-1 \in 0..b.cap-1 THEN b.mem[at+i-1] ELSE Zero) \in Nat
  BY DEF BufferOK, Zero
<1> QED BY <1>1, SMTT(30) DEF BytesAt

\* A new buffer is empty.
LEMMA NewBufferLemma ==
  ASSUME NEW size \in Nat
  PROVE  /\ BufferOK(NewBuffer(size)) /\ Holds(NewBuffer(size), 0)
         /\ Unread(NewBuffer(size)) = 0
<1> DEFINE m == [i \in 0..size-1 |-> Zero]
           b == NewBuffer(size)
<1>1. b = [cap |-> size, ridx |-> 0, widx |-> 0, mem |-> m]
  BY DEF NewBuffer
<1>2. m \in [0..size-1 -> Nat]
  BY DEF Zero
<1> HIDE DEF m, b
<1>3. BufferOK(b)
  BY <1>1, <1>2 DEF BufferOK
<1>4. Holds(b, 0) /\ Unread(b) = 0
  BY <1>1 DEF Holds, Unread
<1> QED BY <1>3, <1>4 DEF b

=============================================================================
