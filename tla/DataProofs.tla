------------------------------ MODULE DataProofs ------------------------------
(***************************************************************************)
(* Theorems about the containers.  Buffer, for every capacity and every    *)
(* sequence of calls: its cursors stay in order, its memory is what was    *)
(* written, and it implements a queue of bytes.  UnorderedBiMap, for every *)
(* finite set of left keys, any values and any function that gives a value *)
(* its right key: the two maps are each other's inverse over what is       *)
(* stored, and together implement a one-to-one map.  SequenceHash, for any *)
(* keys, containers and finitely many nodes: hash and list hold the same,  *)
(* in the order the calls asked for.  Tree, for any trees and finitely     *)
(* many nodes: the nodes are the trees' own, and the walks show them in    *)
(* the order they were added.                                              *)
(***************************************************************************)
EXTENDS MCContainers, ContainerLemmas, SequenceTheorems,
        WellFoundedInduction

-----------------------------------------------------------------------------
\* The inductive invariant: neither part is inductive without the other's
\* bounds on the cursors.

BufferInv == TypeOK /\ BytesIntact

LEMMA BufferStarts == Init => BufferInv
<1> SUFFICES ASSUME Init PROVE BufferInv
  OBVIOUS
<1>1. BufferOK(buf) /\ Holds(buf, 0)
  BY BufferAssumption, NewBufferLemma DEF Init
<1> QED BY <1>1 DEF Init, BufferInv, TypeOK, BytesIntact

\* What one call does to the invariant, and which call of the byte queue it
\* is.
BufferStep == BufferInv' /\ Queue!Next

\* A call that only rearranges the vector is a Put of nothing.
LEMMA RearrangeStep ==
  ASSUME BufferInv, out' = <<>>, UNCHANGED written,
         BufferOK(buf'), Holds(buf', written), Unread(buf') = Unread(buf),
         buf'.widx \in {buf.widx, Unread(buf)}
  PROVE  BufferStep
<1>1. BufferInv'
  BY DEF BufferInv, TypeOK, BytesIntact
<1>2. Queue!Put(0)
  <2>1. written' = written + 0
    BY DEF BufferInv, TypeOK
  <2>2. written' - buf'.widx \in {written - buf.widx, written - Unread(buf)}
    OBVIOUS
  <2> QED BY <2>1, <2>2 DEF Queue!Put
<1>3. 0 \in Sizes
  BY BufferAssumption DEF Sizes
<1> QED BY <1>1, <1>2, <1>3 DEF BufferStep, Queue!Next

LEMMA WriteStep ==
  ASSUME BufferInv, NEW n \in Sizes, WriteBytes(n) PROVE BufferStep
<1>1. /\ n \in Nat /\ written \in Nat /\ BufferOK(buf) /\ Holds(buf, written)
      /\ written' = written + n /\ out' = <<>>
      /\ buf' = Write(buf, [i \in 1..n |-> written + i])
  BY BufferAssumption DEF BufferInv, TypeOK, BytesIntact, Sizes, WriteBytes, Fresh
<1>2. /\ BufferOK(buf') /\ Holds(buf', written + n)
      /\ Unread(buf') = Unread(buf) + n
      /\ buf'.widx \in {buf.widx + n, Unread(buf) + n}
  BY <1>1, WriteLemma
<1>3. BufferInv'
  BY <1>1, <1>2 DEF BufferInv, TypeOK, BytesIntact
<1>4. Unread(buf) \in Int /\ buf.widx \in Int
  BY <1>1 DEF BufferOK, Unread
<1>5. Queue!Put(n)
  <2>1. /\ written' - buf'.widx \in {written - buf.widx, written - Unread(buf)}
        /\ written' - Unread(buf') = written - Unread(buf)
    BY <1>1, <1>2, <1>4
  <2> QED BY <1>1, <2>1 DEF Queue!Put
<1> QED BY <1>3, <1>5 DEF BufferStep, Queue!Next

LEMMA CommitStep ==
  ASSUME BufferInv, NEW n \in Sizes, Commit(n) PROVE BufferStep
<1>1. /\ n \in Nat /\ written \in Nat /\ BufferOK(buf) /\ Holds(buf, written)
      /\ n <= LeftSpace(buf) /\ written' = written + n /\ out' = <<>>
      /\ buf' = CommitWrite(
                  Store(buf, buf.widx, [i \in 1..n |-> written + i]), n)
  BY BufferAssumption DEF BufferInv, TypeOK, BytesIntact, Sizes, Commit, Fresh
<1>2. /\ BufferOK(buf') /\ Holds(buf', written + n)
      /\ buf'.widx = buf.widx + n /\ buf'.ridx = buf.ridx
  BY <1>1, CommitLemma
<1>3. BufferInv'
  BY <1>1, <1>2 DEF BufferInv, TypeOK, BytesIntact
<1>4. /\ written' - buf'.widx = written - buf.widx
      /\ written' - Unread(buf') = written - Unread(buf)
  BY <1>1, <1>2 DEF BufferOK, Unread
<1>5. Queue!Put(n)
  BY <1>1, <1>4 DEF Queue!Put
<1> QED BY <1>3, <1>5 DEF BufferStep, Queue!Next

\* A read of k bytes, k being what a request for n bytes is clamped to.
LEMMA ReadStep ==
  ASSUME BufferInv, NEW n \in Nat, ReadBytes(n)
  PROVE  BufferInv' /\ Queue!Get(n)
<1> DEFINE k == Clamped(buf, n)
<1>1. /\ written \in Nat /\ BufferOK(buf) /\ Holds(buf, written)
      /\ written' = written /\ out' = BytesAt(buf, buf.ridx, k)
      /\ buf' = HasReaded(buf, k)
  BY DEF BufferInv, TypeOK, BytesIntact, ReadBytes, ZeroCopyRead
<1>2. /\ buf.ridx \in Nat /\ buf.widx \in Nat /\ buf.ridx <= buf.widx
      /\ Unread(buf) = buf.widx - buf.ridx
  BY <1>1 DEF BufferOK, Unread
<1>3. /\ k \in Nat /\ k <= Unread(buf) /\ buf.ridx + k <= buf.widx
      /\ k = Queue!Least(n, Queue!Available)
  BY <1>1, <1>2 DEF Clamped, Queue!Least, Queue!Available
<1> HIDE DEF k
<1>4. /\ BufferOK(buf') /\ Holds(buf', written)
      /\ Unread(buf') = Unread(buf) - k /\ buf'.widx = buf.widx
  BY <1>1, <1>3, ReadLemma
<1>5. out' = Queue!Span(written - Unread(buf), k)
  <2>1. BytesAt(buf, buf.ridx, k)
          = [i \in 1..k |-> (written - buf.widx + buf.ridx) + i]
    <3>1. written \in Nat /\ BufferOK(buf) /\ Holds(buf, written)
      BY <1>1
    <3>2. buf.ridx \in Nat /\ k \in Nat /\ buf.ridx + k <= buf.widx
      BY <1>2, <1>3
    <3> QED BY <3>1, <3>2, BytesAtLemma
  <2>2. written - buf.widx + buf.ridx = written - Unread(buf)
    BY <1>1, <1>2
  <2> QED BY <1>1, <2>1, <2>2 DEF Queue!Span
<1>6. BufferInv'
  BY <1>1, <1>4 DEF BufferInv, TypeOK, BytesIntact
<1>7. Queue!Get(n)
  <2>1. written' - Unread(buf') = (written - Unread(buf)) + k
    BY <1>1, <1>2, <1>3, <1>4
  <2>2. written' - buf'.widx = written - buf.widx
    BY <1>1, <1>4
  <2> QED BY <1>1, <1>3, <1>5, <2>1, <2>2 DEF Queue!Get
<1> QED BY <1>6, <1>7

LEMMA UnReadStep ==
  ASSUME BufferInv, NEW n \in Sizes, UnRead(n) PROVE BufferStep
<1>1. /\ n \in Nat /\ written \in Nat /\ BufferOK(buf) /\ Holds(buf, written)
      /\ n <= buf.ridx /\ written' = written /\ out' = <<>>
      /\ buf' = UnReadBytes(buf, n)
  BY BufferAssumption DEF BufferInv, TypeOK, BytesIntact, Sizes, UnRead
<1>2. /\ BufferOK(buf') /\ Holds(buf', written)
      /\ Unread(buf') = Unread(buf) + n /\ buf'.widx = buf.widx
  BY <1>1, UnReadLemma
<1>3. BufferInv'
  BY <1>1, <1>2 DEF BufferInv, TypeOK, BytesIntact
<1>4. /\ n <= (written - Unread(buf)) - (written - buf.widx)
      /\ written' - Unread(buf') = (written - Unread(buf)) - n
      /\ written' - buf'.widx = written - buf.widx
  BY <1>1, <1>2 DEF BufferOK, Unread
<1>5. Queue!GiveBack(n)
  BY <1>1, <1>4 DEF Queue!GiveBack
<1> QED BY <1>3, <1>5 DEF BufferStep, Queue!Next

LEMMA ResetStep ==
  ASSUME BufferInv, ResetAll PROVE BufferStep
<1>1. /\ written \in Nat /\ BufferOK(buf) /\ buf' = Reset(buf)
      /\ written' = written /\ out' = <<>>
  BY DEF BufferInv, TypeOK, ResetAll
<1>2. /\ BufferOK(buf') /\ Holds(buf', written)
      /\ Unread(buf') = 0 /\ buf'.widx = 0
  BY <1>1, ResetLemma
<1>3. BufferInv'
  BY <1>1, <1>2 DEF BufferInv, TypeOK, BytesIntact
<1>4. written' - Unread(buf') = written /\ written' - buf'.widx = written
  BY <1>1, <1>2
<1>5. Queue!Clear
  BY <1>1, <1>4 DEF Queue!Clear
<1> QED BY <1>3, <1>5 DEF BufferStep, Queue!Next

\* A look ahead is answered exactly when all of it is unread.
LEMMA PeekStep ==
  ASSUME BufferInv, NEW index \in Sizes, NEW size \in Sizes, PeekAt(index, size)
  PROVE  BufferStep
<1>1. /\ index \in Nat /\ size \in Nat /\ written \in Nat
      /\ BufferOK(buf) /\ Holds(buf, written)
      /\ written' = written /\ buf' = buf
      /\ out' = IF InRange(buf, index, size)
                THEN BytesAt(buf, buf.ridx + index, size) ELSE <<>>
  BY BufferAssumption DEF BufferInv, TypeOK, BytesIntact, Sizes, PeekAt
<1>2. /\ buf.ridx \in Nat /\ buf.widx \in Nat /\ buf.ridx <= buf.widx
      /\ Unread(buf) = buf.widx - buf.ridx
  BY <1>1 DEF BufferOK, Unread
<1>3. InRange(buf, index, size)
        <=> size > 0 /\ index + size <= written - (written - Unread(buf))
  BY <1>1, <1>2 DEF InRange
<1>4. ASSUME InRange(buf, index, size)
      PROVE  out' = Queue!Span((written - Unread(buf)) + index, size)
  <2>1. buf.ridx + index \in Nat /\ (buf.ridx + index) + size <= buf.widx
    BY <1>1, <1>2, <1>4 DEF InRange
  <2>2. BytesAt(buf, buf.ridx + index, size)
          = [i \in 1..size |-> (written - buf.widx + (buf.ridx + index)) + i]
    BY <1>1, <2>1, BytesAtLemma
  <2>3. written - buf.widx + (buf.ridx + index)
          = (written - Unread(buf)) + index
    BY <1>1, <1>2
  <2> QED BY <1>1, <1>4, <2>2, <2>3 DEF Queue!Span
<1>5. Queue!Look(index, size)
  BY <1>1, <1>3, <1>4 DEF Queue!Look, Queue!Available
<1>6. BufferInv'
  BY <1>1 DEF BufferInv, TypeOK, BytesIntact
<1> QED BY <1>5, <1>6 DEF BufferStep, Queue!Next

LEMMA BufferNext ==
  ASSUME BufferInv, Next PROVE BufferStep
<1> USE DEF BufferInv
<1>1. ASSUME NEW n \in Sizes, WriteBytes(n) PROVE BufferStep
  BY <1>1, WriteStep
<1>2. ASSUME NEW n \in Sizes, Commit(n) PROVE BufferStep
  BY <1>2, CommitStep
<1>3. ASSUME NEW n \in Sizes, ReadBytes(n) PROVE BufferStep
  <2>1. n \in Nat
    BY BufferAssumption DEF Sizes
  <2>2. BufferInv' /\ Queue!Get(n)
    BY <1>3, <2>1, ReadStep
  <2> QED BY <2>2 DEF BufferStep, Queue!Next
<1>4. ASSUME NEW n \in Sizes, UnRead(n) PROVE BufferStep
  BY <1>4, UnReadStep
<1>5. ASSUME NEW n \in Sizes, Prepare(n) PROVE BufferStep
  <2>1. /\ n \in Nat /\ BufferOK(buf) /\ written \in Nat /\ Holds(buf, written)
        /\ buf' = PrepareWrite(buf, n) /\ out' = <<>> /\ UNCHANGED written
    BY <1>5, BufferAssumption DEF Prepare, Sizes, TypeOK, BytesIntact
  <2>2. /\ BufferOK(buf') /\ Holds(buf', written) /\ Unread(buf') = Unread(buf)
        /\ buf'.widx \in {buf.widx, Unread(buf)}
    BY <2>1, PrepareWriteLemma
  <2> QED BY <2>1, <2>2, RearrangeStep
<1>6. ASSUME NEW index \in Sizes, NEW size \in Sizes, PeekAt(index, size)
      PROVE  BufferStep
  BY <1>6, PeekStep
<1>7. CASE Compact
  <2>1. /\ BufferOK(buf) /\ written \in Nat /\ Holds(buf, written)
        /\ buf' = Optimization(buf) /\ out' = <<>> /\ UNCHANGED written
    BY <1>7 DEF Compact, TypeOK, BytesIntact
  <2>2. /\ BufferOK(buf') /\ Holds(buf', written) /\ Unread(buf') = Unread(buf)
        /\ buf'.widx \in {buf.widx, Unread(buf)}
    BY <2>1, OptimizationLemma
  <2> QED BY <2>1, <2>2, RearrangeStep
<1>8. CASE ReadAll
  <2>1. Unread(buf) \in Nat /\ Unread(buf) = Queue!Available
    BY DEF TypeOK, BufferOK, Unread, Queue!Available
  <2>2. BufferInv' /\ Queue!Get(Unread(buf))
    BY <1>8, <2>1, ReadStep DEF ReadAll
  <2> QED BY <2>1, <2>2 DEF BufferStep, Queue!Next
<1>9. CASE ReadByte
  <2>1. Unread(buf) \in Nat /\ Unread(buf) > 0
    BY <1>9 DEF ReadByte, TypeOK, BufferOK, Unread
  <2>2. Clamped(buf, 1) = 1
    BY <2>1 DEF Clamped
  <2>3. ReadBytes(1)
    BY <1>9, <2>2 DEF ReadByte, ReadBytes, ZeroCopyRead
  <2>4. BufferInv' /\ Queue!Get(1)
    BY <2>3, ReadStep
  <2>5. 1 \in Sizes
    BY BufferAssumption DEF Sizes
  <2> QED BY <2>4, <2>5 DEF BufferStep, Queue!Next
<1>10. CASE ResetAll
  BY <1>10, ResetStep
<1> QED
  BY <1>1, <1>2, <1>3, <1>4, <1>5, <1>6, <1>7, <1>8, <1>9, <1>10 DEF Next

LEMMA BufferStutter ==
  ASSUME BufferInv, UNCHANGED vars PROVE BufferInv' /\ UNCHANGED Queue!vars
BY DEF BufferInv, TypeOK, BytesIntact, vars, Queue!vars

-----------------------------------------------------------------------------

LEMMA BufferAlways == Spec => []BufferInv
<1>1. BufferInv /\ [Next]_vars => BufferInv'
  BY BufferNext, BufferStutter DEF BufferStep
<1> QED BY BufferStarts, <1>1, PTL DEF Spec

\* Whatever calls are made with whatever sizes, the cursors of the buffer
\* stay in order and inside the vector.
THEOREM BufferTypeSafety == Spec => []TypeOK
BY BufferAlways, PTL DEF BufferInv

\* The memory below the write cursor is always the newest stretch of what
\* was written: compaction, growth and reads in any order lose no byte.
THEOREM Intact == Spec => []BytesIntact
BY BufferAlways, PTL DEF BufferInv

\* The buffer implements the byte queue.
THEOREM QueueRefinement == Spec => QueueSpec
<1>1. Init => Queue!Init
  <2> SUFFICES ASSUME Init PROVE Queue!Init
    OBVIOUS
  <2>1. buf.ridx = 0 /\ buf.widx = 0 /\ written = 0 /\ out = <<>>
    BY DEF Init, NewBuffer
  <2>2. written - Unread(buf) = 0 /\ written - buf.widx = 0
    BY <2>1 DEF Unread
  <2> QED BY <2>1, <2>2 DEF Queue!Init
<1>2. BufferInv /\ [Next]_vars => [Queue!Next]_Queue!vars
  BY BufferNext, BufferStutter DEF BufferStep
<1> QED BY BufferAlways, <1>1, <1>2, PTL DEF Spec, QueueSpec, Queue!Spec

-----------------------------------------------------------------------------
\* In the code memory is what bounds the entries; here there is a slot for
\* each left key and one more, which takes finitely many keys.
Slots == 1..(Cardinality(LeftKeys) + 1)

Entry == [key : LeftKeys, value : RightValues]

\* Store st and left map lf agree: an entry is found by its left key.
ByLeft(st, lf) ==
  /\ st \in [DOMAIN st -> Entry]
  /\ lf \in [DOMAIN lf -> DOMAIN st]
  /\ DOMAIN lf \subseteq LeftKeys
  /\ DOMAIN st \subseteq Slots
  /\ \A k \in DOMAIN lf : st[lf[k]].key = k
  /\ \A s \in DOMAIN st : st[s].key \in DOMAIN lf /\ lf[st[s].key] = s

\* The right map rt leads to the entries found of store st and to no other.
\* While a value is set, the entry that gets it is not found.
ByRight(st, rt, found) ==
  /\ rt \in [DOMAIN rt -> found]
  /\ \A r \in DOMAIN rt : RightKeyOf(st[rt[r]].value) = r
  /\ \A s \in found : /\ RightKeyOf(st[s].value) \in DOMAIN rt
                      /\ rt[RightKeyOf(st[s].value)] = s

MapInv == ByLeft(store, left) /\ ByRight(store, right, DOMAIN store)

-----------------------------------------------------------------------------

LEMMA RangeIs ==
  ASSUME NEW f, NEW S, f \in [DOMAIN f -> S],
         \A x \in S : \E j \in DOMAIN f : f[j] = x
  PROVE  Map!Range(f) = S
BY DEF Map!Range

\* A slot is free: the left map reaches every entry, so there are no more
\* entries than left keys.
LEMMA FreshIsFree ==
  ASSUME ByLeft(store, left)
  PROVE  Map!Fresh \in Slots \ DOMAIN store
<1>1. IsFiniteSet(DOMAIN left) /\ Cardinality(DOMAIN left) <= Cardinality(LeftKeys)
  BY FS_Subset, ContainersAssumption DEF ByLeft
<1>2. left \in Surjection(DOMAIN left, DOMAIN store)
  BY DEF ByLeft, Surjection
<1>3. Cardinality(DOMAIN store) <= Cardinality(DOMAIN left)
  BY <1>1, <1>2, FS_Surjection
<1>4. IsFiniteSet(DOMAIN store)
  BY <1>1, <1>2, FS_Surjection
<1>5. /\ Cardinality(LeftKeys) \in Nat
      /\ Cardinality(DOMAIN left) \in Nat
      /\ Cardinality(DOMAIN store) \in Nat
  BY <1>1, <1>4, FS_CardinalityType, ContainersAssumption
<1>6. Cardinality(Slots) = Cardinality(LeftKeys) + 1
  BY <1>5, FS_Interval DEF Slots
<1>7. ~(Slots \subseteq DOMAIN store)
  <2>1. SUFFICES ASSUME Slots \subseteq DOMAIN store PROVE FALSE
    OBVIOUS
  <2>2. Cardinality(Slots) <= Cardinality(DOMAIN store)
    BY <1>4, <2>1, FS_Subset
  <2> QED BY <1>1, <1>3, <1>5, <1>6, <2>2
<1>8. \E s \in Slots : s \notin DOMAIN store
  BY <1>7
<1>9. Map!Cardinality(LeftKeys) = Cardinality(LeftKeys)
  BY DEF Map!Cardinality, Cardinality
<1> QED BY <1>8, <1>9 DEF Map!Fresh, Slots

-----------------------------------------------------------------------------

\* A found entry that gets a value keeps its left key and is not found by
\* any right key until the right map is told.
LEMMA Updated ==
  ASSUME NEW st, NEW lf, NEW rt, ByLeft(st, lf), ByRight(st, rt, DOMAIN st),
         NEW k \in DOMAIN lf, NEW e \in Entry, e.key = k,
         NEW st2, st2 = Map!WithKey(st, lf[k], e),
         NEW rt2, rt2 = Map!WithoutKey(rt, RightKeyOf(st[lf[k]].value))
  PROVE  /\ ByLeft(st2, lf)
         /\ DOMAIN st2 = DOMAIN st
         /\ ByRight(st2, rt2, DOMAIN st \ {lf[k]})
         /\ st2[lf[k]] = e
         /\ \A s \in DOMAIN st \ {lf[k]} : st2[s] = st[s]
<1> DEFINE s == lf[k]
           r == RightKeyOf(st[s].value)
<1>1. s \in DOMAIN st /\ st[s] \in Entry /\ st[s].key = k
  BY DEF ByLeft
<1>2. /\ DOMAIN st2 = DOMAIN st
      /\ st2[s] = e
      /\ \A t \in DOMAIN st \ {s} : st2[t] = st[t]
      /\ st2 = [t \in DOMAIN st |-> st2[t]]
  BY <1>1 DEF ByLeft, Map!WithKey
<1>3. ByLeft(st2, lf)
  <2>1. \A t \in DOMAIN st : st2[t] \in Entry /\ st2[t].key = st[t].key
    BY <1>1, <1>2 DEF ByLeft
  <2> QED BY <1>2, <2>1 DEF ByLeft
<1>4. /\ DOMAIN rt2 = DOMAIN rt \ {r}
      /\ \A j \in DOMAIN rt2 : rt2[j] = rt[j]
      /\ rt2 = [j \in DOMAIN rt2 |-> rt2[j]]
  BY DEF Map!WithoutKey, Map!Restrict
<1>5. ByRight(st2, rt2, DOMAIN st \ {s})
  <2>1. \A j \in DOMAIN rt2 : rt2[j] \in DOMAIN st \ {s}
    BY <1>4 DEF ByRight
  <2>2. \A t \in DOMAIN st \ {s} : RightKeyOf(st[t].value) # r
    BY <1>1 DEF ByRight
  <2> QED BY <1>2, <1>4, <2>1, <2>2 DEF ByRight
<1> QED BY <1>2, <1>3, <1>5

\* A new entry is found by its left key only.
LEMMA Added ==
  ASSUME MapInv,
         NEW k \in LeftKeys, k \notin DOMAIN left, NEW e \in Entry, e.key = k,
         NEW s \in Slots, s \notin DOMAIN store,
         NEW st2, st2 = Map!WithKey(store, s, e),
         NEW lf2, lf2 = Map!WithKey(left, k, s)
  PROVE  /\ ByLeft(st2, lf2)
         /\ ByRight(st2, right, DOMAIN store)
<1>1. /\ DOMAIN st2 = DOMAIN store \cup {s}
      /\ st2[s] = e
      /\ \A t \in DOMAIN store : st2[t] = store[t]
      /\ st2 = [t \in DOMAIN st2 |-> st2[t]]
  BY DEF Map!WithKey
<1>2. /\ DOMAIN lf2 = DOMAIN left \cup {k}
      /\ lf2[k] = s
      /\ \A j \in DOMAIN left : lf2[j] = left[j]
      /\ lf2 = [j \in DOMAIN lf2 |-> lf2[j]]
  BY DEF Map!WithKey
<1>3. ByLeft(st2, lf2)
  <2>1. \A t \in DOMAIN st2 : st2[t] \in Entry
    BY <1>1 DEF MapInv, ByLeft
  <2>2. \A j \in DOMAIN lf2 : lf2[j] \in DOMAIN st2 /\ st2[lf2[j]].key = j
    BY <1>1, <1>2 DEF MapInv, ByLeft
  <2>3. \A t \in DOMAIN st2 :
          st2[t].key \in DOMAIN lf2 /\ lf2[st2[t].key] = t
    <3>1. \A t \in DOMAIN store :
            /\ store[t].key \in DOMAIN left \ {k}
            /\ left[store[t].key] = t
      BY DEF MapInv, ByLeft
    <3>2. st2[s].key = k
      BY <1>1
    <3> QED BY <1>1, <1>2, <3>1, <3>2
  <2> QED BY <1>1, <1>2, <2>1, <2>2, <2>3 DEF MapInv, ByLeft
<1>4. ByRight(st2, right, DOMAIN store)
  BY <1>1 DEF MapInv, ByRight
<1> QED BY <1>1, <1>2, <1>3, <1>4

\* The right map is told of the entry that has a new value; it takes the
\* place of the one that had its right key, which is then in neither map.
LEMMA Told ==
  ASSUME NEW st, NEW lf, NEW rt, NEW s \in DOMAIN st,
         ByLeft(st, lf), ByRight(st, rt, DOMAIN st \ {s}),
         NEW n,
         n = Map!InsertRight([store |-> st, left |-> lf, right |-> rt], s)
  PROVE  /\ ByLeft(n.store, n.left)
         /\ ByRight(n.store, n.right, DOMAIN n.store)
         /\ DOMAIN n.left =
              {j \in DOMAIN lf :
                 \/ j = st[s].key
                 \/ RightKeyOf(st[lf[j]].value)
                      # RightKeyOf(st[s].value)}
         /\ \A j \in DOMAIN n.left :
              /\ n.left[j] = lf[j]
              /\ n.store[n.left[j]] = st[lf[j]]
<1> DEFINE r == RightKeyOf(st[s].value)
           gone == rt[r]
<1>0. st[s].key \in DOMAIN lf /\ lf[st[s].key] = s
  BY DEF ByLeft
<1>1. CASE r \notin DOMAIN rt
  <2>1. /\ n.store = st
        /\ n.left = lf
        /\ n.right = Map!WithKey(rt, r, s)
    BY <1>1 DEF Map!InsertRight
  <2>2. /\ DOMAIN n.right = DOMAIN rt \cup {r}
        /\ n.right[r] = s
        /\ \A j \in DOMAIN rt : n.right[j] = rt[j]
        /\ n.right = [j \in DOMAIN n.right |-> n.right[j]]
    BY <1>1, <2>1 DEF Map!WithKey
  <2>3. \A t \in DOMAIN st \ {s} : RightKeyOf(st[t].value) # r
    BY <1>1 DEF ByRight
  <2>4. ByRight(n.store, n.right, DOMAIN n.store)
    BY <2>1, <2>2, <2>3 DEF ByRight
  <2>5. \A j \in DOMAIN lf : j # st[s].key => lf[j] # s
    BY DEF ByLeft
  <2>6. \A j \in DOMAIN lf : lf[j] \in DOMAIN st
    BY DEF ByLeft
  <2> QED BY <1>0, <2>1, <2>3, <2>4, <2>5, <2>6
<1>2. CASE r \in DOMAIN rt
  <2>1. /\ n.store = Map!WithoutKey(st, gone)
        /\ n.left = Map!WithoutKey(lf, st[gone].key)
        /\ n.right = [rt EXCEPT ![r] = s]
    BY <1>2 DEF Map!InsertRight
  <2>2. /\ gone \in DOMAIN st \ {s}
        /\ RightKeyOf(st[gone].value) = r
    BY <1>2 DEF ByRight
  <2>3. /\ st[gone].key \in DOMAIN lf
        /\ lf[st[gone].key] = gone
    BY <2>2 DEF ByLeft
  <2>4. /\ DOMAIN n.store = DOMAIN st \ {gone}
        /\ \A t \in DOMAIN n.store : n.store[t] = st[t]
        /\ n.store = [t \in DOMAIN n.store |-> n.store[t]]
    BY <2>1 DEF Map!WithoutKey, Map!Restrict
  <2>5. /\ DOMAIN n.left = DOMAIN lf \ {st[gone].key}
        /\ \A j \in DOMAIN n.left : n.left[j] = lf[j]
        /\ n.left = [j \in DOMAIN n.left |-> n.left[j]]
    BY <2>1 DEF Map!WithoutKey, Map!Restrict
  <2>6. /\ DOMAIN n.right = DOMAIN rt
        /\ n.right[r] = s
        /\ \A j \in DOMAIN rt \ {r} : n.right[j] = rt[j]
        /\ n.right = [j \in DOMAIN n.right |-> n.right[j]]
    BY <1>2, <2>1
  <2>7. \A j \in DOMAIN n.left : lf[j] \in DOMAIN st \ {gone}
    BY <2>5, <2>2 DEF ByLeft
  <2>8. ByLeft(n.store, n.left)
    <3>1. \A t \in DOMAIN n.store : n.store[t] \in Entry
      BY <2>4 DEF ByLeft
    <3>2. \A j \in DOMAIN n.left :
            n.left[j] \in DOMAIN n.store /\ n.store[n.left[j]].key = j
      <4>1. \A j \in DOMAIN n.left :
              /\ n.left[j] = lf[j]
              /\ lf[j] \in DOMAIN n.store
        BY <2>4, <2>5, <2>7
      <4>2. \A j \in DOMAIN n.left : st[lf[j]].key = j
        BY <2>5 DEF ByLeft
      <4> QED BY <2>4, <4>1, <4>2
    <3>3. \A t \in DOMAIN n.store :
            n.store[t].key \in DOMAIN n.left /\ n.left[n.store[t].key] = t
      <4> SUFFICES ASSUME NEW t \in DOMAIN n.store
                   PROVE  n.store[t].key \in DOMAIN n.left /\ n.left[n.store[t].key] = t
        OBVIOUS
      <4>1. t \in DOMAIN st /\ t # gone /\ n.store[t] = st[t]
        BY <2>4
      <4>2. st[t].key \in DOMAIN lf /\ lf[st[t].key] = t
        BY <4>1 DEF ByLeft
      <4> QED BY <2>3, <2>5, <4>1, <4>2
    <3> QED BY <2>4, <2>5, <3>1, <3>2, <3>3 DEF ByLeft
  <2>9. ByRight(n.store, n.right, DOMAIN n.store)
    <3>1. s \in DOMAIN n.store
      BY <2>2, <2>4
    <3>2. \A j \in DOMAIN rt \ {r} :
            /\ rt[j] \in DOMAIN n.store
            /\ RightKeyOf(st[rt[j]].value) = j
      BY <2>2, <2>4 DEF ByRight
    <3>3. \A t \in DOMAIN n.store \ {s} :
            /\ RightKeyOf(st[t].value) \in DOMAIN rt \ {r}
            /\ rt[RightKeyOf(st[t].value)] = t
      BY <2>4 DEF ByRight
    <3> QED BY <2>4, <2>6, <3>1, <3>2, <3>3 DEF ByRight
  <2>10. \A j \in DOMAIN lf :
           (j # st[s].key /\ RightKeyOf(st[lf[j]].value) = r)
             <=> j = st[gone].key
    <3> SUFFICES ASSUME NEW j \in DOMAIN lf
                 PROVE  (j # st[s].key /\ RightKeyOf(st[lf[j]].value) = r)
                          <=> j = st[gone].key
      OBVIOUS
    <3>1. lf[j] \in DOMAIN st /\ st[lf[j]].key = j
      BY DEF ByLeft
    <3>2. ASSUME j # st[s].key, RightKeyOf(st[lf[j]].value) = r
          PROVE  j = st[gone].key
      <4>1. lf[j] \in DOMAIN st \ {s}
        BY <3>1, <3>2
      <4>2. rt[r] = lf[j]
        BY <3>2, <4>1 DEF ByRight
      <4> QED BY <3>1, <4>2
    <3>3. ASSUME j = st[gone].key
          PROVE  j # st[s].key /\ RightKeyOf(st[lf[j]].value) = r
      BY <1>0, <2>2, <2>3, <3>3
    <3> QED BY <3>2, <3>3
  <2>11. \A j \in DOMAIN n.left : n.store[n.left[j]] = st[lf[j]]
    BY <2>4, <2>5, <2>7
  <2> QED BY <2>5, <2>8, <2>9, <2>10, <2>11
<1> QED BY <1>1, <1>2

-----------------------------------------------------------------------------

\* The calls that set a value tell the right map of entry lf[k] of st, lf and
\* rt.  If these hold what the map held, but for left key k, whose entry has
\* value v, the call is the promised Set.
LEMMA SetShown ==
  ASSUME NEW st, NEW lf, NEW rt, NEW k \in LeftKeys, NEW v \in RightValues,
         lf[k] \in DOMAIN st,
         ByLeft(st, lf), ByRight(st, rt, DOMAIN st \ {lf[k]}),
         DOMAIN lf = DOMAIN left \cup {k},
         st[lf[k]] = [key |-> k, value |-> v],
         \A j \in DOMAIN left \ {k} : st[lf[j]] = store[left[j]],
         Map!Becomes(Map!InsertRight([store |-> st, left |-> lf, right |-> rt], lf[k]))
  PROVE  MapInv' /\ Map!Promised!Set(k, v)
<1> DEFINE s == lf[k]
           n == Map!InsertRight([store |-> st, left |-> lf, right |-> rt], s)
           r == RightKeyOf(v)
           kept == {j \in DOMAIN left \ {k} : RightKeyOf(Map!Contents[j]) # r}
<1>1. store' = n.store /\ left' = n.left /\ right' = n.right
  BY DEF Map!Becomes
<1>2. st[s].key = k /\ st[s].value = v
  OBVIOUS
<1>3. /\ ByLeft(n.store, n.left)
      /\ ByRight(n.store, n.right, DOMAIN n.store)
      /\ DOMAIN n.left =
           {j \in DOMAIN lf : j = st[s].key \/ RightKeyOf(st[lf[j]].value)
                                                 # RightKeyOf(st[s].value)}
      /\ \A j \in DOMAIN n.left : n.left[j] = lf[j] /\ n.store[n.left[j]] = st[lf[j]]
  BY Told
<1> HIDE DEF n
<1>4. MapInv'
  BY <1>1, <1>3 DEF MapInv
<1>5. DOMAIN Map!Contents = DOMAIN left
  BY DEF Map!Contents
<1>6. \A j \in DOMAIN left : Map!Contents[j] = store[left[j]].value
  BY DEF Map!Contents
<1>7. DOMAIN n.left = kept \cup {k}
  BY <1>2, <1>3, <1>6
<1>8. \A j \in DOMAIN n.left :
        n.store[n.left[j]].value = IF j = k THEN v ELSE Map!Contents[j]
  BY <1>2, <1>3, <1>6, <1>7
<1>9. Map!Contents' = [j \in kept \cup {k} |-> IF j = k THEN v ELSE Map!Contents[j]]
  BY <1>1, <1>7, <1>8 DEF Map!Contents
<1>10. Map!Promised!Set(k, v)
  BY <1>5, <1>9 DEF Map!Promised!Set
<1> QED BY <1>4, <1>10

LEMMA MapModify ==
  ASSUME MapInv, NEW k \in LeftKeys, NEW v \in RightValues, Map!ModifyData(k, v)
  PROVE  MapInv' /\ Map!Promised!Set(k, v)
<1> DEFINE e == [key |-> k, value |-> v]
           st == Map!WithKey(store, left[k], e)
           u == Map!UpdateLeftRightValue(Map!Now, k, v)
           rt == Map!WithoutKey(right, RightKeyOf(store[left[k]].value))
<1>1. k \in DOMAIN left
  BY DEF Map!ModifyData
<1>2. Map!Becomes(Map!InsertRight([store |-> st, left |-> left, right |-> rt], left[k]))
  <2>1. u = [Map!Now EXCEPT !.right = Map!WithoutKey(@, RightKeyOf(store[left[k]].value)),
                        !.store[left[k]].value = v]
    BY DEF Map!UpdateLeftRightValue, Map!Now
  <2>2. u.store = [store EXCEPT ![left[k]].value = v]
    BY <2>1 DEF Map!Now
  <2>3. u.left = left /\ u.right = rt
    BY <2>1 DEF Map!Now
  <2>4. u = [store |-> u.store, left |-> u.left, right |-> u.right]
    BY <2>1 DEF Map!Now
  <2>5. /\ store \in [DOMAIN store -> Entry]
        /\ left[k] \in DOMAIN store
        /\ store[left[k]].key = k
    BY <1>1 DEF MapInv, ByLeft
  <2>6. [store[left[k]] EXCEPT !.value = v] = e
    BY <2>5 DEF Entry
  <2>7. u.store = st
    BY <2>2, <2>5, <2>6 DEF Map!WithKey
  <2> HIDE DEF u, st, rt
  <2>8. u = [store |-> st, left |-> left, right |-> rt]
    BY <2>3, <2>4, <2>7
  <2>9. Map!Becomes(Map!InsertRight(u, left[k]))
    BY DEF Map!ModifyData, u
  <2> QED BY <2>8, <2>9
<1>3. /\ ByLeft(store, left) /\ ByRight(store, right, DOMAIN store)
      /\ e \in Entry /\ e.key = k
  BY DEF MapInv, Entry
<1> HIDE DEF e
<1>4. /\ ByLeft(st, left)
      /\ DOMAIN st = DOMAIN store
      /\ ByRight(st, rt, DOMAIN store \ {left[k]})
      /\ st[left[k]] = e
      /\ \A s \in DOMAIN store \ {left[k]} : st[s] = store[s]
  BY <1>1, <1>3, Updated, SMTT(30)
<1>5. \A j \in DOMAIN left : left[j] \in DOMAIN store /\ store[left[j]].key = j
  BY DEF MapInv, ByLeft
<1> HIDE DEF st, rt
<1>6. /\ left[k] \in DOMAIN st
      /\ st[left[k]] = [key |-> k, value |-> v]
      /\ DOMAIN left = DOMAIN left \cup {k}
      /\ \A j \in DOMAIN left \ {k} : st[left[j]] = store[left[j]]
  BY <1>1, <1>4, <1>5 DEF e
<1> QED BY <1>2, <1>4, <1>6, SetShown

LEMMA MapSet ==
  ASSUME MapInv, NEW k \in LeftKeys, NEW v \in RightValues, Map!Set(k, v)
  PROVE  MapInv' /\ Map!Promised!Set(k, v)
<1> DEFINE m == Map!InsertLeft(Map!Now, k, v)
<1>1. Map!Becomes(Map!InsertRight(m, m.left[k]))
  BY DEF Map!Set
<1>2. CASE k \in DOMAIN left
  <2>1. m = Map!UpdateLeftRightValue(Map!Now, k, v) /\ m.left = left
    BY <1>2 DEF Map!InsertLeft, Map!UpdateLeftRightValue, Map!Now
  <2> QED BY <1>1, <1>2, <2>1, MapModify DEF Map!ModifyData
<1>3. CASE k \notin DOMAIN left
  <2> DEFINE e == [key |-> k, value |-> v]
             st == Map!WithKey(store, Map!Fresh, e)
             lf == Map!WithKey(left, k, Map!Fresh)
  <2>1. m = [store |-> st, left |-> lf, right |-> right]
    BY <1>3 DEF Map!InsertLeft, Map!Now
  <2>2. Map!Becomes(Map!InsertRight([store |-> st, left |-> lf, right |-> right], lf[k]))
    BY <1>1, <2>1
  <2>3. ByLeft(store, left) /\ ByRight(store, right, DOMAIN store)
    BY DEF MapInv
  <2>4. Map!Fresh \in Slots /\ Map!Fresh \notin DOMAIN store
    BY <2>3, FreshIsFree
  <2>5. e \in Entry /\ e.key = k
    BY DEF Entry
  <2> HIDE DEF e
  <2>6. /\ ByLeft(st, lf)
        /\ DOMAIN st = DOMAIN store \cup {Map!Fresh}
        /\ ByRight(st, right, DOMAIN store)
        /\ lf[k] = Map!Fresh
        /\ st[Map!Fresh] = e
        /\ \A t \in DOMAIN store : st[t] = store[t]
    <3> DEFINE s == Map!Fresh
    <3>1. s \in Slots /\ s \notin DOMAIN store
      BY <2>4
    <3> HIDE DEF s
    <3>2. ByLeft(Map!WithKey(store, s, e), Map!WithKey(left, k, s))
      BY <1>3, <2>5, <3>1, Added
    <3>3. ByRight(Map!WithKey(store, s, e), right, DOMAIN store)
      BY <1>3, <2>5, <3>1, Added
    <3>4. /\ DOMAIN Map!WithKey(store, s, e) = DOMAIN store \cup {s}
          /\ Map!WithKey(left, k, s)[k] = s
          /\ Map!WithKey(store, s, e)[s] = e
          /\ \A t \in DOMAIN store : Map!WithKey(store, s, e)[t] = store[t]
      BY <3>1 DEF Map!WithKey
    <3> QED BY <3>2, <3>3, <3>4 DEF s
  <2>7. /\ DOMAIN lf = DOMAIN left \cup {k}
        /\ \A j \in DOMAIN left : lf[j] = left[j]
    BY <1>3 DEF Map!WithKey
  <2>8. \A j \in DOMAIN left : left[j] \in DOMAIN store
    BY DEF MapInv, ByLeft
  <2> HIDE DEF m, st, lf
  <2>9. DOMAIN st \ {lf[k]} = DOMAIN store
    BY <2>4, <2>6
  <2>10. \A j \in DOMAIN left \ {k} : st[lf[j]] = store[left[j]]
    BY <2>6, <2>7, <2>8
  <2>11. st[lf[k]] = [key |-> k, value |-> v] /\ lf[k] \in DOMAIN st
    BY <2>6 DEF e
  <2> QED BY <2>2, <2>6, <2>7, <2>9, <2>10, <2>11, SetShown
<1> QED BY <1>2, <1>3

LEMMA MapErase ==
  ASSUME MapInv, NEW k \in LeftKeys, Map!Erase(k)
  PROVE  MapInv' /\ Map!Promised!Erase(k)
<1> DEFINE s == left[k]
           r == RightKeyOf(store[s].value)
<1>1. /\ k \in DOMAIN left
      /\ s \in DOMAIN store
      /\ store[s].key = k
      /\ r \in DOMAIN right
      /\ right[r] = s
  BY DEF MapInv, ByLeft, ByRight, Map!Erase
<1>2. /\ DOMAIN store' = DOMAIN store \ {s}
      /\ \A t \in DOMAIN store' : store'[t] = store[t]
      /\ store' = [t \in DOMAIN store' |-> store'[t]]
  BY DEF Map!Erase, Map!WithoutKey, Map!Restrict
<1>3. /\ DOMAIN left' = DOMAIN left \ {k}
      /\ \A j \in DOMAIN left' : left'[j] = left[j]
      /\ left' = [j \in DOMAIN left' |-> left'[j]]
  BY DEF Map!Erase, Map!WithoutKey, Map!Restrict
<1>4. /\ DOMAIN right' = DOMAIN right \ {r}
      /\ \A j \in DOMAIN right' : right'[j] = right[j]
      /\ right' = [j \in DOMAIN right' |-> right'[j]]
  BY DEF Map!Erase, Map!WithoutKey, Map!Restrict
<1>5. \A j \in DOMAIN left' : left[j] \in DOMAIN store' /\ store[left[j]].key = j
  BY <1>1, <1>2, <1>3 DEF MapInv, ByLeft
<1>6. ByLeft(store', left')
  <2>1. \A t \in DOMAIN store' : store'[t] \in Entry
    BY <1>2 DEF MapInv, ByLeft
  <2>2. \A j \in DOMAIN left' : left'[j] \in DOMAIN store' /\ store'[left'[j]].key = j
    BY <1>2, <1>3, <1>5
  <2>3. \A t \in DOMAIN store' : /\ store'[t].key \in DOMAIN left'
                                 /\ left'[store'[t].key] = t
    <3>1. \A t \in DOMAIN store \ {s} : /\ store[t].key \in DOMAIN left \ {k}
                                        /\ left[store[t].key] = t
      BY <1>1 DEF MapInv, ByLeft
    <3> QED BY <1>2, <1>3, <3>1
  <2> QED BY <1>2, <1>3, <2>1, <2>2, <2>3 DEF MapInv, ByLeft
<1>7. ByRight(store', right', DOMAIN store')
  <2>1. \A j \in DOMAIN right' : /\ right[j] \in DOMAIN store \ {s}
                                 /\ RightKeyOf(store[right[j]].value) = j
    BY <1>1, <1>4 DEF MapInv, ByRight
  <2>2. \A t \in DOMAIN store \ {s} :
          /\ RightKeyOf(store[t].value) \in DOMAIN right \ {r}
          /\ right[RightKeyOf(store[t].value)] = t
    BY <1>1 DEF MapInv, ByRight
  <2> QED BY <1>2, <1>4, <2>1, <2>2 DEF ByRight
<1>8. Map!Contents' = [j \in DOMAIN left \ {k} |-> Map!Contents[j]]
  <2>1. \A j \in DOMAIN left' : store'[left'[j]] = store[left[j]]
    BY <1>2, <1>3, <1>5
  <2> QED BY <1>3, <2>1 DEF Map!Contents
<1>9. DOMAIN Map!Contents = DOMAIN left
  BY DEF Map!Contents
<1>10. Map!Promised!Erase(k)
  BY <1>8, <1>9 DEF Map!Promised!Erase, Map!Restrict, Map!Promised!Restrict
<1> QED BY <1>6, <1>7, <1>10 DEF MapInv

LEMMA MapClear ==
  ASSUME MapInv, Map!Clear
  PROVE  MapInv' /\ Map!Promised!Clear
<1>1. Map!Range(left) = DOMAIN store
  <2>1. /\ left \in [DOMAIN left -> DOMAIN store]
        /\ \A s \in DOMAIN store : \E k \in DOMAIN left : left[k] = s
    BY DEF MapInv, ByLeft
  <2> QED BY <2>1, RangeIs
<1>2. DOMAIN store' = {} /\ store' = [t \in DOMAIN store' |-> store'[t]]
  BY <1>1 DEF Map!Clear, Map!Restrict
<1>3. left' = <<>> /\ right' = <<>>
  BY DEF Map!Clear
<1>4. MapInv'
  BY <1>2, <1>3 DEF MapInv, ByLeft, ByRight
<1>5. Map!Contents' = <<>>
  BY <1>3 DEF Map!Contents
<1> QED BY <1>4, <1>5 DEF Map!Promised!Clear

-----------------------------------------------------------------------------

LEMMA MapStarts == Map!Init => MapInv /\ Map!Promised!Init
BY DEF Map!Init, MapInv, ByLeft, ByRight, Map!Contents, Map!Promised!Init

LEMMA MapNext ==
  ASSUME MapInv, [Map!Next]_(Map!biVars)
  PROVE  MapInv' /\ [Map!Promised!Next]_(Map!Contents)
<1>1. ASSUME NEW k \in LeftKeys, NEW v \in RightValues, Map!Set(k, v)
      PROVE  MapInv' /\ Map!Promised!Next
  BY <1>1, MapSet DEF Map!Promised!Next
<1>2. ASSUME NEW k \in LeftKeys, NEW v \in RightValues, Map!ModifyData(k, v)
      PROVE  MapInv' /\ Map!Promised!Next
  BY <1>2, MapModify DEF Map!Promised!Next
<1>3. ASSUME NEW k \in LeftKeys, Map!Erase(k)
      PROVE  MapInv' /\ Map!Promised!Next
  BY <1>3, MapErase DEF Map!Promised!Next
<1>4. ASSUME NEW v \in RightValues, Map!EraseRight(RightKeyOf(v))
      PROVE  MapInv' /\ Map!Promised!Next
  <2>1. store[right[RightKeyOf(v)]].key \in LeftKeys
    BY <1>4 DEF Map!EraseRight, MapInv, ByLeft, ByRight, Entry
  <2> QED BY <1>3, <1>4, <2>1 DEF Map!EraseRight
<1>5. ASSUME Map!Clear
      PROVE  MapInv' /\ Map!Promised!Next
  BY <1>5, MapClear DEF Map!Promised!Next
<1>6. ASSUME UNCHANGED Map!biVars
      PROVE  MapInv' /\ UNCHANGED Map!Contents
  BY <1>6 DEF Map!biVars, MapInv, ByLeft, ByRight, Map!Contents
<1> QED BY <1>1, <1>2, <1>3, <1>4, <1>5, <1>6 DEF Map!Next

LEMMA MapAlways ==
  ContainersSpec => []MapInv /\ [][Map!Next]_(Map!biVars)
<1>1. ContainersInit => MapInv
  BY MapStarts DEF ContainersInit
<1>2. [ContainersNext]_containerVars => [Map!Next]_(Map!biVars)
  BY DEF ContainersNext, Buffers, Hashes, Maps, Grows, containerVars, mapVars,
         Map!biVars
<1>3. MapInv /\ [Map!Next]_(Map!biVars) => MapInv'
  BY MapNext
<1> QED BY <1>1, <1>2, <1>3, PTL DEF ContainersSpec

\* The two maps lead to exactly what is stored, by its keys, after any calls:
\* a value that is set leaves nothing behind of what it pushes out.
THEOREM MapsSafety ==
  ContainersSpec => []BothWays
<1>1. MapInv => BothWays
  <2> SUFFICES ASSUME MapInv PROVE Map!BothWays
    BY DEF BothWays
  <2>1. Map!Range(left) = DOMAIN store
    <3>1. /\ left \in [DOMAIN left -> DOMAIN store]
          /\ \A s \in DOMAIN store : \E k \in DOMAIN left : left[k] = s
      BY DEF MapInv, ByLeft
    <3> QED BY <3>1, RangeIs
  <2>2. Map!Range(right) = DOMAIN store
    <3>1. /\ right \in [DOMAIN right -> DOMAIN store]
          /\ \A s \in DOMAIN store : \E r \in DOMAIN right : right[r] = s
      BY DEF MapInv, ByRight
    <3> QED BY <3>1, RangeIs
  <2> QED BY <2>1, <2>2 DEF Map!BothWays, MapInv, ByLeft, ByRight
<1> QED BY <1>1, MapAlways, PTL

\* A BiMap is a one-to-one map: each call, with whatever it pushes out of
\* either map, is one call of the promised one.
THEOREM MapRefinement ==
  ContainersSpec => OneToOneSpec
<1>1. MapInv /\ [Map!Next]_(Map!biVars) => [Map!Promised!Next]_(Map!Contents)
  BY MapNext
<1>2. ContainersInit => Map!Promised!Init
  BY MapStarts DEF ContainersInit
<1> QED BY <1>1, <1>2, MapAlways, PTL DEF ContainersSpec, OneToOneSpec,
                                     Map!OneToOneSpec, Map!Promised!Spec

-----------------------------------------------------------------------------
\* Induction over the natural numbers, for a set of numbers.

Below == {p \in Nat \X Nat : p[1] < p[2]}

LEMMA LeastNumber ==
  ASSUME NEW S, S \subseteq Nat, S # {}
  PROVE  \E x \in S : \A y \in S : x <= y
<1>1. IsWellFoundedOn(Below, Nat)
  BY NatLessThanWellFounded DEF OpToRel, Below
<1>2. \E x \in S : \A y \in S : ~ (<<y, x>> \in Below)
  BY <1>1, WFMin
<1>3. \A x, y \in Nat : y < x => <<y, x>> \in Below
  BY DEF Below
<1>4. PICK x \in S : \A y \in S : ~ (<<y, x>> \in Below)
  BY <1>2
<1>5. \A y \in S : ~(y < x)
  BY <1>3, <1>4
<1>6. \A y \in S : y \in Nat /\ x \in Nat
  BY <1>4
<1>7. \A y \in Nat : ~(y < x) => x <= y
  BY <1>6
<1> QED BY <1>4, <1>5, <1>6, <1>7

LEMMA UpTo ==
  ASSUME NEW n \in Nat, NEW S, 0 \in S,
         \A i \in 1..n : i - 1 \in S => i \in S
  PROVE  0..n \subseteq S
<1> SUFFICES ASSUME ~(0..n \subseteq S) PROVE FALSE
  OBVIOUS
<1> DEFINE T == (0..n) \ S
<1>1. PICK x \in T : \A y \in T : x <= y
  <2>1. T \subseteq Nat /\ T # {}
    OBVIOUS
  <2> HIDE DEF T
  <2> QED BY <2>1, LeastNumber
<1>2. x \in 1..n
  OBVIOUS
<1>3. x - 1 \in 0..n /\ x - 1 \notin T
  BY <1>1, <1>2
<1> QED BY <1>2, <1>3

-----------------------------------------------------------------------------
\* A place in a sequence.

LEMMA Joined ==
  ASSUME NEW S, NEW u \in Seq(S), NEW v \in Seq(S)
  PROVE  /\ u \o v \in Seq(S) /\ Len(u \o v) = Len(u) + Len(v)
         /\ \A i \in 1..(Len(u) + Len(v)) :
              (u \o v)[i] = IF i <= Len(u) THEN u[i] ELSE v[i - Len(u)]
OBVIOUS

\* t is q with e at place m, or without its element m.
Inserted(q, m, e, t) ==
  /\ Len(t) = Len(q) + 1
  /\ \A i \in 1..Len(t) : t[i] = IF i < m THEN q[i]
                                 ELSE IF i = m THEN e ELSE q[i - 1]

Removed(q, m, t) ==
  /\ Len(t) = Len(q) - 1
  /\ \A i \in 1..Len(t) : t[i] = IF i < m THEN q[i] ELSE q[i + 1]

LEMMA InsertedAt ==
  ASSUME NEW S, NEW q \in Seq(S), NEW m \in 1..(Len(q) + 1), NEW e \in S,
         NEW t, t = Hash!Promised!InsertAt(q, m, e)
  PROVE  t \in Seq(S) /\ Inserted(q, m, e, t)
<1>1. PICK u : u = SubSeq(q, 1, m - 1)
  OBVIOUS
<1>2. PICK v : v = SubSeq(q, m, Len(q))
  OBVIOUS
<1>3. u \in Seq(S) /\ Len(u) = m - 1 /\ \A i \in 1..(m - 1) : u[i] = q[i]
  BY <1>1
<1>4. /\ v \in Seq(S) /\ Len(v) = Len(q) - m + 1
      /\ \A i \in 1..Len(v) : v[i] = q[m + i - 1]
  BY <1>2
<1>5. <<e>> \in Seq(S) /\ Len(<<e>>) = 1 /\ <<e>>[1] = e
  OBVIOUS
<1>6. PICK w : w = u \o <<e>>
  OBVIOUS
<1>7. /\ w \in Seq(S) /\ Len(w) = Len(u) + 1
      /\ \A i \in 1..(Len(u) + 1) :
           w[i] = IF i <= Len(u) THEN u[i] ELSE <<e>>[i - Len(u)]
  BY <1>3, <1>5, <1>6, Joined
<1>8. t = w \o v
  BY <1>1, <1>2, <1>6 DEF Hash!Promised!InsertAt
<1>9. /\ t \in Seq(S) /\ Len(t) = Len(w) + Len(v)
      /\ \A i \in 1..(Len(w) + Len(v)) :
           t[i] = IF i <= Len(w) THEN w[i] ELSE v[i - Len(w)]
  <2>1. v \in Seq(S) /\ w \in Seq(S)
    BY <1>4, <1>7
  <2>2. /\ w \o v \in Seq(S) /\ Len(w \o v) = Len(w) + Len(v)
        /\ \A i \in 1..(Len(w) + Len(v)) :
             (w \o v)[i] = IF i <= Len(w) THEN w[i] ELSE v[i - Len(w)]
    BY <2>1, Joined
  <2> QED BY <1>8, <2>2
<1>10. Len(q) \in Nat /\ m \in Int /\ Len(w) = m /\ Len(u) = m - 1
  BY <1>3, <1>7
<1>a. Len(v) = Len(q) - m + 1
  BY <1>4
<1>b. Len(t) = Len(w) + Len(v)
  BY <1>9
<1>11. Len(t) = Len(q) + 1
  <2>1. PICK l \in Nat : l = Len(q)
    BY <1>10
  <2>2. Len(t) = m + (l - m + 1)
    BY <1>10, <1>a, <1>b, <2>1
  <2>3. m + (l - m + 1) = l + 1
    BY <1>10
  <2> QED BY <2>1, <2>2, <2>3
<1> SUFFICES ASSUME NEW i \in 1..Len(t)
             PROVE  t[i] = IF i < m THEN q[i] ELSE IF i = m THEN e ELSE q[i - 1]
  BY <1>9, <1>11 DEF Inserted
<1>12. CASE i < m
  <2>1. i <= Len(w) /\ i <= Len(u) /\ i \in 1..(m - 1) /\ i \in 1..(Len(u) + 1)
    BY <1>10, <1>12
  <2> QED BY <1>3, <1>7, <1>9, <1>12, <2>1
<1>13. CASE i = m
  <2>1. i <= Len(w) /\ ~(i <= Len(u)) /\ i \in 1..(Len(u) + 1) /\ i - Len(u) = 1
    BY <1>10, <1>13
  <2>2. w[i] = e
    BY <1>5, <1>7, <2>1
  <2>3. ~(i < m)
    BY <1>10, <1>13
  <2> QED BY <1>9, <1>13, <2>1, <2>2, <2>3
<1>14. CASE i > m
  <2>1. PICK l \in Nat : l = Len(q)
    BY <1>10
  <2>2. i \in 1..(l + 1) /\ 1..Len(v) = 1..(l - m + 1)
    BY <1>11, <1>a, <2>1
  <2>3. i - m \in 1..(l - m + 1) /\ ~(i <= m) /\ ~(i < m) /\ i # m
        /\ m + (i - m) - 1 = i - 1
    BY <1>10, <1>14, <2>2
  <2>4. ~(i <= Len(w)) /\ i - Len(w) = i - m
    BY <1>10, <2>3
  <2>5. i \in 1..(Len(w) + Len(v))
    BY <1>b
  <2>6. t[i] = v[i - m]
    BY <1>9, <2>4, <2>5
  <2>7. v[i - m] = q[i - 1]
    BY <1>4, <2>2, <2>3
  <2> QED BY <2>3, <2>6, <2>7
<1>15. i < m \/ i = m \/ i > m
  BY <1>10
<1> QED BY <1>12, <1>13, <1>14, <1>15

LEMMA RemovedAt ==
  ASSUME NEW S, NEW q \in Seq(S), NEW m \in 1..Len(q),
         NEW t, t = Hash!Promised!RemoveAt(q, m)
  PROVE  t \in Seq(S) /\ Removed(q, m, t)
<1>1. PICK u : u = SubSeq(q, 1, m - 1)
  OBVIOUS
<1>2. PICK v : v = SubSeq(q, m + 1, Len(q))
  OBVIOUS
<1>3. u \in Seq(S) /\ Len(u) = m - 1 /\ \A i \in 1..(m - 1) : u[i] = q[i]
  BY <1>1
<1>4. /\ v \in Seq(S) /\ Len(v) = Len(q) - m
      /\ \A i \in 1..Len(v) : v[i] = q[m + i]
  BY <1>2
<1>5. t = u \o v
  BY <1>1, <1>2 DEF Hash!Promised!RemoveAt
<1>6. /\ t \in Seq(S) /\ Len(t) = Len(u) + Len(v)
      /\ \A i \in 1..(Len(u) + Len(v)) :
           t[i] = IF i <= Len(u) THEN u[i] ELSE v[i - Len(u)]
  <2>1. u \in Seq(S) /\ v \in Seq(S)
    BY <1>3, <1>4
  <2>2. /\ u \o v \in Seq(S) /\ Len(u \o v) = Len(u) + Len(v)
        /\ \A i \in 1..(Len(u) + Len(v)) :
             (u \o v)[i] = IF i <= Len(u) THEN u[i] ELSE v[i - Len(u)]
    BY <2>1, Joined
  <2> QED BY <1>5, <2>2
<1>7. Len(q) \in Nat /\ m \in Int /\ Len(u) = m - 1
  BY <1>3
<1>a. Len(v) = Len(q) - m
  BY <1>4
<1>b. Len(t) = Len(u) + Len(v)
  BY <1>6
<1>8. Len(t) = Len(q) - 1
  <2>1. PICK l \in Nat : l = Len(q)
    BY <1>7
  <2>2. Len(t) = (m - 1) + (l - m)
    BY <1>7, <1>a, <1>b, <2>1
  <2>3. (m - 1) + (l - m) = l - 1
    BY <1>7
  <2> QED BY <2>1, <2>2, <2>3
<1> SUFFICES ASSUME NEW i \in 1..Len(t)
             PROVE  t[i] = IF i < m THEN q[i] ELSE q[i + 1]
  BY <1>6, <1>8 DEF Removed
<1>9. CASE i < m
  <2>1. i <= Len(u) /\ i \in 1..(m - 1)
    BY <1>7, <1>9
  <2> QED BY <1>3, <1>6, <1>9, <2>1
<1>10. CASE ~(i < m)
  <2>1. PICK l \in Nat : l = Len(q)
    BY <1>7
  <2>2. i \in 1..(l - 1) /\ 1..Len(v) = 1..(l - m)
    BY <1>8, <1>a, <2>1
  <2>3. i - (m - 1) \in 1..(l - m) /\ ~(i <= m - 1) /\ m + (i - (m - 1)) = i + 1
    BY <1>7, <1>10, <2>2
  <2>4. ~(i <= Len(u)) /\ i - Len(u) = i - (m - 1)
    BY <1>7, <2>3
  <2>5. i \in 1..(Len(u) + Len(v))
    BY <1>b
  <2>6. t[i] = v[i - (m - 1)]
    BY <1>6, <2>4, <2>5
  <2>7. v[i - (m - 1)] = q[i + 1]
    BY <1>4, <2>2, <2>3
  <2> QED BY <1>10, <2>6, <2>7
<1> QED BY <1>9, <1>10
-----------------------------------------------------------------------------
\* The sequence hash, for users who keep both rules.

HashRulesKept == Hash!AllRules \subseteq HashRules

Node == [v : Keys, p : Nodes \cup {Null}, n : Nodes \cup {Null}]

\* The nodes s of heap h are linked one after the other.
Chain(h, s) ==
  \A i \in 1..Len(s) :
    /\ s[i] \in DOMAIN h
    /\ h[s[i]].p = IF i = 1 THEN Null ELSE s[i - 1]
    /\ h[s[i]].n = IF i = Len(s) THEN Null ELSE s[i + 1]

\* The hash hs leads from each key of q to the node of s at its place, and
\* to no other.
Indexed(h, hs, q, s) ==
  /\ Len(s) = Len(q)
  /\ hs \in [{q[i] : i \in 1..Len(q)} -> Nodes]
  /\ \A i \in 1..Len(s) : hs[q[i]] = s[i] /\ h[s[i]].v = q[i]
  /\ \A i, j \in 1..Len(s) : s[i] = s[j] => i = j

FirstOf(s) == IF Len(s) = 0 THEN Null ELSE s[1]

LastOf(s) == IF Len(s) = 0 THEN Null ELSE s[Len(s)]

\* A container with hash hs, head hd and tail tl holds the nodes s of heap h
\* for the keys q.
ListOk(h, hs, q, s, hd, tl) ==
  /\ q \in Seq(Keys) /\ s \in Seq(Nodes)
  /\ Chain(h, s) /\ Indexed(h, hs, q, s)
  /\ hd = FirstOf(s) /\ tl = LastOf(s)

Listed(c) == \E s : ListOk(heap, hash[c], seqs[c], s, head[c], tail[c])

\* Each node is in one container.
Owned ==
  /\ \A a \in DOMAIN heap : \E c \in Containers : a \in Hash!Range(hash[c])
  /\ \A c, d \in Containers :
       c # d => Hash!Range(hash[c]) \cap Hash!Range(hash[d]) = {}

HashInv ==
  /\ DOMAIN heap \subseteq Nodes /\ heap \in [DOMAIN heap -> Node]
  /\ hash = [c \in Containers |-> hash[c]]
  /\ head = [c \in Containers |-> head[c]]
  /\ tail = [c \in Containers |-> tail[c]]
  /\ seqs = [c \in Containers |-> seqs[c]]
  /\ fault = FALSE
  /\ Owned
  /\ \A c \in Containers : Listed(c)

-----------------------------------------------------------------------------
\* What a change of the heap does to one list.

LEMMA EmptyList ==
  ASSUME NEW h, NEW hs, hs = <<>>
  PROVE  ListOk(h, hs, <<>>, <<>>, Null, Null)
<1>1. hs \in [{(<<>>)[i] : i \in 1..0} -> Nodes]
  OBVIOUS
<1> QED BY <1>1 DEF ListOk, Chain, Indexed, FirstOf, LastOf

\* A list that gets node a for key k at place m: what its nodes are in the
\* new heap g.
LinkedIn(h, g, s, m, a, k) ==
  /\ \A i \in 1..Len(s) :
       /\ s[i] \in DOMAIN g
       /\ g[s[i]].v = h[s[i]].v
       /\ g[s[i]].p = IF i = m THEN a ELSE h[s[i]].p
       /\ g[s[i]].n = IF i = m - 1 THEN a ELSE h[s[i]].n
  /\ a \in DOMAIN g /\ g[a].v = k
  /\ g[a].p = IF m = 1 THEN Null ELSE s[m - 1]
  /\ g[a].n = IF m = Len(s) + 1 THEN Null ELSE s[m]

LEMMA InsertedList ==
  ASSUME NEW h, NEW hs, NEW q, NEW s, NEW hd, NEW tl,
         ListOk(h, hs, q, s, hd, tl),
         NEW m \in 1..(Len(s) + 1),
         NEW a \in Nodes, a \notin DOMAIN h,
         NEW k \in Keys, k \notin DOMAIN hs,
         NEW g, LinkedIn(h, g, s, m, a, k),
         NEW t, t = Hash!Promised!InsertAt(s, m, a),
         NEW r, r = Hash!Promised!InsertAt(q, m, k),
         NEW hs2, hs2 = Hash!With(hs, k, a)
  PROVE  ListOk(g, hs2, r, t, IF m = 1 THEN a ELSE hd,
                              IF m = Len(s) + 1 THEN a ELSE tl)
<1>1. /\ q \in Seq(Keys) /\ s \in Seq(Nodes) /\ Len(s) = Len(q)
      /\ Len(s) \in Nat /\ m \in Int
  BY DEF ListOk, Indexed
<1>2. t \in Seq(Nodes) /\ Inserted(s, m, a, t)
  BY <1>1, InsertedAt
<1>3. r \in Seq(Keys) /\ Inserted(q, m, k, r)
  <2>1. m \in 1..(Len(q) + 1)
    BY <1>1
  <2> QED BY <1>1, <2>1, InsertedAt
<1>4. PICK n \in Nat : n = Len(s)
  BY <1>1
\* Where an element of the longer list was before.
<1>5. \A i \in 1..(n + 1) :
        \/ i < m /\ i \in 1..n /\ t[i] = s[i] /\ r[i] = q[i]
        \/ i = m /\ t[i] = a /\ r[i] = k
        \/ i > m /\ i - 1 \in 1..n /\ t[i] = s[i - 1] /\ r[i] = q[i - 1]
  BY <1>1, <1>2, <1>3, <1>4 DEF Inserted
<1>6. \A i \in 1..n :
        \/ i < m /\ i \in 1..(n + 1) /\ t[i] = s[i] /\ r[i] = q[i]
        \/ i >= m /\ i + 1 \in 1..(n + 1) /\ t[i + 1] = s[i] /\ r[i + 1] = q[i]
  BY <1>1, <1>2, <1>3, <1>4 DEF Inserted
<1>7. /\ \A i \in 1..n : s[i] \in DOMAIN h /\ s[i] # a
      /\ \A i \in 1..n : h[s[i]].p = IF i = 1 THEN Null ELSE s[i - 1]
      /\ \A i \in 1..n : h[s[i]].n = IF i = n THEN Null ELSE s[i + 1]
  BY <1>4 DEF ListOk, Chain
<1>8. /\ a \in DOMAIN g /\ \A i \in 1..n : s[i] \in DOMAIN g
      /\ \A i \in 1..n : g[s[i]].p = IF i = m THEN a ELSE h[s[i]].p
      /\ \A i \in 1..n : g[s[i]].n = IF i = m - 1 THEN a ELSE h[s[i]].n
      /\ \A i \in 1..n : g[s[i]].v = h[s[i]].v
      /\ g[a].v = k
      /\ g[a].p = IF m = 1 THEN Null ELSE s[m - 1]
      /\ g[a].n = IF m = n + 1 THEN Null ELSE s[m]
  BY <1>4 DEF LinkedIn
<1>9. Len(t) = n + 1 /\ Len(r) = n + 1 /\ m \in 1..(n + 1)
  BY <1>1, <1>2, <1>3, <1>4 DEF Inserted
<1>10. Chain(g, t)
  <2> SUFFICES ASSUME NEW i \in 1..(n + 1)
               PROVE  /\ t[i] \in DOMAIN g
                      /\ g[t[i]].p = IF i = 1 THEN Null ELSE t[i - 1]
                      /\ g[t[i]].n = IF i = n + 1 THEN Null ELSE t[i + 1]
    BY <1>9 DEF Chain
  <2>1. CASE i < m
    <3>1. i \in 1..n /\ t[i] = s[i] /\ i # m
      BY <1>5, <1>9, <2>1
    <3>2. i # 1 => i - 1 \in 1..(n + 1) /\ t[i - 1] = s[i - 1]
      BY <1>5, <1>9, <2>1
    <3>3. i = m - 1 => t[i + 1] = a
      BY <1>5, <1>9
    <3>4. i # m - 1 => i # n /\ t[i + 1] = s[i + 1]
      BY <1>5, <1>9, <2>1
    <3>5. i # n + 1
      BY <3>1
    <3> QED BY <1>7, <1>8, <3>1, <3>2, <3>3, <3>4, <3>5
  <2>2. CASE i = m
    <3>1. t[i] = a
      BY <1>5, <2>2
    <3>2. i # 1 => t[i - 1] = s[i - 1]
      BY <1>5, <1>9, <2>2
    <3>3. i # n + 1 => t[i + 1] = s[i]
      BY <1>5, <1>9, <2>2
    <3> QED BY <1>8, <1>9, <2>2, <3>1, <3>2, <3>3
  <2>3. CASE i > m
    <3> DEFINE j == i - 1
    <3>1. j \in 1..n /\ t[i] = s[j] /\ i # 1 /\ j # m - 1
      BY <1>5, <1>9, <2>3
    <3>2. j = m => t[i - 1] = a
      BY <1>5, <1>9
    <3>3. j # m => t[i - 1] = s[j - 1] /\ j # 1
      BY <1>5, <1>9, <2>3
    <3>4. j # n => t[i + 1] = s[j + 1]
      BY <1>5, <1>9, <2>3
    <3>5. j = n <=> i = n + 1
      BY <1>4
    <3> HIDE DEF j
    <3>6. j = i - 1
      BY DEF j
    <3> QED BY <1>7, <1>8, <3>1, <3>2, <3>3, <3>4, <3>5
  <2>4. i < m \/ i = m \/ i > m
    BY <1>9
  <2> QED BY <2>1, <2>2, <2>3, <2>4
<1>11. /\ hs \in [{q[i] : i \in 1..n} -> Nodes]
       /\ \A i \in 1..n : hs[q[i]] = s[i] /\ h[s[i]].v = q[i] /\ q[i] \in DOMAIN hs
       /\ \A i, j \in 1..n : s[i] = s[j] => i = j
  BY <1>1, <1>4 DEF ListOk, Indexed
<1>12. /\ DOMAIN hs2 = DOMAIN hs \cup {k}
       /\ hs2[k] = a /\ \A x \in DOMAIN hs : hs2[x] = hs[x]
       /\ hs2 \in [DOMAIN hs \cup {k} -> Nodes]
  BY <1>11 DEF Hash!With
<1>13. DOMAIN hs2 = {r[i] : i \in 1..(n + 1)}
  <2>1. \A i \in 1..(n + 1) : r[i] \in DOMAIN hs2
    BY <1>5, <1>11, <1>12
  <2>2. k \in {r[i] : i \in 1..(n + 1)}
    <3>1. r[m] = k
      BY <1>5, <1>9
    <3> QED BY <1>9, <3>1
  <2>3. \A i \in 1..n : q[i] \in {r[j] : j \in 1..(n + 1)}
    BY <1>6
  <2> QED BY <1>11, <1>12, <2>1, <2>2, <2>3
<1>14. \A i \in 1..(n + 1) : hs2[r[i]] = t[i] /\ g[t[i]].v = r[i]
  BY <1>5, <1>8, <1>11, <1>12
<1>15. \A i, j \in 1..(n + 1) : t[i] = t[j] => i = j
  <2> SUFFICES ASSUME NEW i \in 1..(n + 1), NEW j \in 1..(n + 1), t[i] = t[j]
               PROVE  i = j
    OBVIOUS
  <2>1. i = m <=> j = m
    BY <1>5, <1>7
  <2>2. CASE i < m /\ j < m
    BY <1>5, <1>11, <2>2
  <2>3. CASE i < m /\ j > m
    <3>1. i = j - 1
      BY <1>5, <1>9, <1>11, <2>3
    <3> QED BY <1>9, <2>3, <3>1
  <2>4. CASE i > m /\ j < m
    <3>1. i - 1 = j
      BY <1>5, <1>9, <1>11, <2>4
    <3> QED BY <1>9, <2>4, <3>1
  <2>5. CASE i > m /\ j > m
    <3>1. i - 1 \in 1..n /\ t[i] = s[i - 1]
      BY <1>5, <1>9, <2>5
    <3>2. j - 1 \in 1..n /\ t[j] = s[j - 1]
      BY <1>5, <1>9, <2>5
    <3>3. \A x, y \in 1..n : s[x] = s[y] => x = y
      BY <1>11
    <3>4. s[i - 1] = s[j - 1]
      BY <2>5, <3>1, <3>2
    <3>5. i - 1 = j - 1
      BY <3>1, <3>2, <3>3, <3>4
    <3> QED BY <3>5
  <2> QED BY <1>9, <2>1, <2>2, <2>3, <2>4, <2>5
<1>16. Indexed(g, hs2, r, t)
  BY <1>9, <1>12, <1>13, <1>14, <1>15 DEF Indexed
<1>17. (IF m = 1 THEN a ELSE hd) = FirstOf(t)
  <2>1. hd = IF n = 0 THEN Null ELSE s[1]
    BY <1>4 DEF ListOk, FirstOf
  <2>2. t[1] = IF m = 1 THEN a ELSE s[1]
    BY <1>5, <1>9
  <2>3. m # 1 => n # 0
    BY <1>9
  <2> QED BY <1>9, <2>1, <2>2, <2>3 DEF FirstOf
<1>18. (IF m = Len(s) + 1 THEN a ELSE tl) = LastOf(t)
  <2>1. tl = IF n = 0 THEN Null ELSE s[n]
    BY <1>4 DEF ListOk, LastOf
  <2>2. t[n + 1] = IF m = n + 1 THEN a ELSE s[n]
    BY <1>5, <1>9
  <2>3. m # n + 1 => n # 0
    BY <1>9
  <2> QED BY <1>4, <1>9, <2>1, <2>2, <2>3 DEF LastOf
<1> QED BY <1>2, <1>3, <1>10, <1>16, <1>17, <1>18 DEF ListOk

\* A list that loses its node at place m: what the others are in heap g.
LinkedOut(h, g, s, m) ==
  \A i \in 1..Len(s) : i # m =>
    /\ s[i] \in DOMAIN g
    /\ g[s[i]].v = h[s[i]].v
    /\ g[s[i]].p = IF i = m + 1 THEN h[s[m]].p ELSE h[s[i]].p
    /\ g[s[i]].n = IF i = m - 1 THEN h[s[m]].n ELSE h[s[i]].n

LEMMA RemovedList ==
  ASSUME NEW h, NEW hs, NEW q, NEW s, NEW hd, NEW tl,
         ListOk(h, hs, q, s, hd, tl), Null \notin Nodes,
         NEW m \in 1..Len(s),
         NEW g, LinkedOut(h, g, s, m),
         NEW t, t = Hash!Promised!RemoveAt(s, m),
         NEW r, r = Hash!Promised!RemoveAt(q, m),
         NEW hs2, hs2 = Hash!Without(hs, {q[m]})
  PROVE  ListOk(g, hs2, r, t, IF hd = s[m] THEN h[s[m]].n ELSE hd,
                              IF tl = s[m] THEN h[s[m]].p ELSE tl)
<1>1. /\ q \in Seq(Keys) /\ s \in Seq(Nodes) /\ Len(s) = Len(q)
      /\ Len(s) \in Nat /\ m \in Int
  BY DEF ListOk, Indexed
<1>2. t \in Seq(Nodes) /\ Removed(s, m, t)
  BY <1>1, RemovedAt
<1>3. r \in Seq(Keys) /\ Removed(q, m, r)
  <2>1. m \in 1..Len(q)
    BY <1>1
  <2> QED BY <1>1, <2>1, RemovedAt
<1>4. PICK n \in Nat : n = Len(s)
  BY <1>1
<1>5. \A i \in 1..(n - 1) :
        \/ i < m /\ i \in 1..n /\ t[i] = s[i] /\ r[i] = q[i]
        \/ i >= m /\ i + 1 \in 1..n /\ t[i] = s[i + 1] /\ r[i] = q[i + 1]
  BY <1>1, <1>2, <1>3, <1>4 DEF Removed
<1>6. \A i \in 1..n : i # m =>
        \/ i < m /\ i \in 1..(n - 1) /\ t[i] = s[i] /\ r[i] = q[i]
        \/ i > m /\ i - 1 \in 1..(n - 1) /\ t[i - 1] = s[i] /\ r[i - 1] = q[i]
  BY <1>1, <1>2, <1>3, <1>4 DEF Removed
<1>7. /\ \A i \in 1..n : h[s[i]].p = IF i = 1 THEN Null ELSE s[i - 1]
      /\ \A i \in 1..n : h[s[i]].n = IF i = n THEN Null ELSE s[i + 1]
  BY <1>4 DEF ListOk, Chain
<1>8. \A i \in 1..n : i # m =>
        /\ s[i] \in DOMAIN g
        /\ g[s[i]].v = h[s[i]].v
        /\ g[s[i]].p = IF i = m + 1 THEN h[s[m]].p ELSE h[s[i]].p
        /\ g[s[i]].n = IF i = m - 1 THEN h[s[m]].n ELSE h[s[i]].n
  BY <1>4 DEF LinkedOut
<1>9. Len(t) = n - 1 /\ Len(r) = n - 1 /\ m \in 1..n /\ n - 1 \in Nat
  BY <1>1, <1>2, <1>3, <1>4 DEF Removed
<1>10. Chain(g, t)
  <2> SUFFICES ASSUME NEW i \in 1..(n - 1)
               PROVE  /\ t[i] \in DOMAIN g
                      /\ g[t[i]].p = IF i = 1 THEN Null ELSE t[i - 1]
                      /\ g[t[i]].n = IF i = n - 1 THEN Null ELSE t[i + 1]
    BY <1>9 DEF Chain
  <2>1. CASE i < m
    <3>1. i \in 1..n /\ t[i] = s[i] /\ i # m /\ i # m + 1 /\ i # n
      BY <1>5, <1>9, <2>1
    <3>2. i # 1 => t[i - 1] = s[i - 1]
      BY <1>5, <1>9, <2>1
    <3>3. /\ t[i] \in DOMAIN g
          /\ g[t[i]].p = IF i = 1 THEN Null ELSE t[i - 1]
      BY <1>7, <1>8, <3>1, <3>2
    <3>4. i # m - 1 => i # n - 1 /\ t[i + 1] = s[i + 1]
      BY <1>5, <1>9, <2>1
    <3>5. CASE i # m - 1
      BY <1>7, <1>8, <3>1, <3>3, <3>4, <3>5
    <3>6. CASE i = m - 1
      <4>1. g[t[i]].n = IF m = n THEN Null ELSE s[m + 1]
        BY <1>7, <1>8, <1>9, <3>1, <3>6
      <4>2. m # n => t[m] = s[m + 1]
        BY <1>5, <1>9
      <4>3. i + 1 = m /\ (i = n - 1 <=> m = n)
        BY <1>9, <3>6
      <4> QED BY <3>3, <4>1, <4>2, <4>3
    <3> QED BY <3>5, <3>6
  <2>2. CASE i >= m
    <3>1. PICK j : j = i + 1
      OBVIOUS
    <3>2. /\ j \in 1..n /\ t[i] = s[j] /\ j # m /\ j # m - 1 /\ j # 1
          /\ (j = n <=> i = n - 1)
      BY <1>5, <1>9, <2>2, <3>1
    <3>3. j # n => t[i + 1] = s[j + 1]
      BY <1>5, <1>9, <2>2, <3>1
    <3>4. /\ t[i] \in DOMAIN g
          /\ g[t[i]].n = IF i = n - 1 THEN Null ELSE t[i + 1]
      BY <1>7, <1>8, <3>2, <3>3
    <3>5. j # m + 1 => i # 1 /\ t[i - 1] = s[j - 1]
      <4>1. SUFFICES ASSUME j # m + 1 PROVE i # 1 /\ t[i - 1] = s[j - 1]
        OBVIOUS
      <4>2. i - 1 \in 1..(n - 1) /\ ~(i - 1 < m) /\ (i - 1) + 1 = j - 1
        BY <1>9, <2>2, <3>1, <4>1
      <4>3. t[i - 1] = s[(i - 1) + 1]
        BY <1>5, <4>2
      <4> QED BY <1>9, <4>2, <4>3
    <3>6. CASE j # m + 1
      BY <1>7, <1>8, <3>2, <3>4, <3>5, <3>6
    <3>7. CASE j = m + 1
      <4>1. g[t[i]].p = IF m = 1 THEN Null ELSE s[m - 1]
        BY <1>7, <1>8, <1>9, <3>2, <3>7
      <4>2. m # 1 => t[m - 1] = s[m - 1]
        BY <1>5, <1>9
      <4>3. i = m
        BY <1>9, <3>1, <3>7
      <4> QED BY <3>4, <4>1, <4>2, <4>3
    <3> QED BY <3>6, <3>7
  <2> QED BY <1>9, <2>1, <2>2
<1>11. /\ hs \in [{q[i] : i \in 1..n} -> Nodes]
       /\ \A i \in 1..n : hs[q[i]] = s[i] /\ h[s[i]].v = q[i] /\ q[i] \in DOMAIN hs
       /\ \A i, j \in 1..n : s[i] = s[j] => i = j
  BY <1>1, <1>4 DEF ListOk, Indexed
<1>12. /\ DOMAIN hs2 = DOMAIN hs \ {q[m]}
       /\ \A x \in DOMAIN hs \ {q[m]} : hs2[x] = hs[x]
       /\ hs2 \in [DOMAIN hs \ {q[m]} -> Nodes]
  BY <1>11 DEF Hash!Without, Hash!Restrict
<1>13. \A i \in 1..n : i # m => q[i] # q[m]
  BY <1>9, <1>11
<1>14. \A i \in 1..(n - 1) :
         /\ r[i] \in DOMAIN hs2 /\ hs2[r[i]] = t[i] /\ g[t[i]].v = r[i]
  <2> SUFFICES ASSUME NEW i \in 1..(n - 1)
               PROVE  r[i] \in DOMAIN hs2 /\ hs2[r[i]] = t[i] /\ g[t[i]].v = r[i]
    OBVIOUS
  <2>1. PICK j : j = IF i < m THEN i ELSE i + 1
    OBVIOUS
  <2>2. j \in 1..n /\ j # m
    BY <1>9, <2>1
  <2>3. t[i] = s[j] /\ r[i] = q[j]
    BY <1>5, <1>9, <2>1
  <2>4. q[j] \in DOMAIN hs /\ hs[q[j]] = s[j] /\ h[s[j]].v = q[j] /\ q[j] # q[m]
    BY <1>11, <1>13, <2>2
  <2>5. q[j] \in DOMAIN hs2 /\ hs2[q[j]] = s[j]
    BY <1>12, <2>4
  <2>6. g[s[j]].v = q[j]
    BY <1>8, <2>2, <2>4
  <2> QED BY <2>3, <2>5, <2>6
<1>15. DOMAIN hs2 = {r[i] : i \in 1..(n - 1)}
  <2>1. \A i \in 1..n : i # m => q[i] \in {r[j] : j \in 1..(n - 1)}
    BY <1>6
  <2>2. DOMAIN hs = {q[i] : i \in 1..n}
    BY <1>11
  <2>3. \A x \in DOMAIN hs \ {q[m]} : x \in {r[j] : j \in 1..(n - 1)}
    BY <2>1, <2>2
  <2>4. \A i \in 1..(n - 1) : r[i] \in DOMAIN hs2
    BY <1>14
  <2>5. DOMAIN hs2 = DOMAIN hs \ {q[m]}
    BY <1>12
  <2>6. PICK A, B, R : /\ A = DOMAIN hs /\ B = DOMAIN hs2
                       /\ R = {r[j] : j \in 1..(n - 1)}
    OBVIOUS
  <2>7. R \subseteq B
    BY <2>4, <2>6
  <2>8. B = A \ {q[m]} /\ \A x \in A \ {q[m]} : x \in R
    BY <2>3, <2>5, <2>6
  <2>9. B = R
    BY <2>7, <2>8
  <2> QED BY <2>6, <2>9
<1>16. \A i, j \in 1..(n - 1) : t[i] = t[j] => i = j
  <2> SUFFICES ASSUME NEW i \in 1..(n - 1), NEW j \in 1..(n - 1), t[i] = t[j]
               PROVE  i = j
    OBVIOUS
  <2>1. PICK x \in 1..n : t[i] = s[x] /\ x = IF i < m THEN i ELSE i + 1
    BY <1>5, <1>9
  <2>2. PICK y \in 1..n : t[j] = s[y] /\ y = IF j < m THEN j ELSE j + 1
    BY <1>5, <1>9
  <2>3. x = y
    <3>1. \A u, w \in 1..n : s[u] = s[w] => u = w
      BY <1>11
    <3>2. s[x] = s[y]
      BY <2>1, <2>2
    <3> QED BY <3>1, <3>2
  <2> QED BY <1>9, <2>1, <2>2, <2>3
<1>17. Indexed(g, hs2, r, t)
  BY <1>9, <1>12, <1>14, <1>15, <1>16 DEF Indexed
<1>18. \A i \in 1..n : s[i] \in Nodes /\ s[i] # Null
  BY <1>1, <1>4
<1>19. (IF hd = s[m] THEN h[s[m]].n ELSE hd) = FirstOf(t)
  <2>1. hd = s[1] /\ 1 \in 1..n
    BY <1>4, <1>9 DEF ListOk, FirstOf
  <2>2. CASE m = 1
    <3>1. h[s[m]].n = IF m = n THEN Null ELSE s[m + 1]
      BY <1>7, <1>9
    <3>2. n # 1 => t[1] = s[2]
      BY <1>5, <1>9, <2>2
    <3> QED BY <1>9, <2>1, <2>2, <3>1, <3>2 DEF FirstOf
  <2>3. CASE m # 1
    <3>1. hd # s[m]
      BY <1>9, <1>11, <2>1, <2>3
    <3>2. n # 1 /\ t[1] = s[1]
      BY <1>5, <1>9, <2>3
    <3> QED BY <1>9, <2>1, <3>1, <3>2 DEF FirstOf
  <2> QED BY <2>2, <2>3
<1>20. (IF tl = s[m] THEN h[s[m]].p ELSE tl) = LastOf(t)
  <2>1. tl = s[n] /\ n \in 1..n
    BY <1>4, <1>9 DEF ListOk, LastOf
  <2>2. CASE m = n
    <3>1. h[s[m]].p = IF m = 1 THEN Null ELSE s[m - 1]
      BY <1>7, <1>9
    <3>2. n # 1 => t[n - 1] = s[n - 1]
      BY <1>5, <1>9, <2>2
    <3> QED BY <1>9, <2>1, <2>2, <3>1, <3>2 DEF LastOf
  <2>3. CASE m # n
    <3>1. tl # s[m]
      BY <1>9, <1>11, <2>1, <2>3
    <3>2. n # 1 /\ t[n - 1] = s[n]
      BY <1>5, <1>9, <2>3
    <3> QED BY <1>9, <2>1, <3>1, <3>2 DEF LastOf
  <2> QED BY <2>2, <2>3
<1> QED BY <1>2, <1>3, <1>10, <1>17, <1>19, <1>20 DEF ListOk

-----------------------------------------------------------------------------
\* A traversal.

\* The first i + 1 nodes of s.
Prefix(s, i) == IF i < Len(s) THEN SubSeq(s, 1, i + 1) ELSE s

\* What each step of the traversal of container c has seen.
Walk(c, w) ==
  w = [i \in 0..Hash!Cardinality(Hash!Live) |->
         IF i > 0 THEN Hash!Further(w[i - 1])
         ELSE IF head[c] = Null THEN <<>> ELSE <<head[c]>>]

LEMMA VisitedWalk ==
  ASSUME NEW c, NEW w, Walk(c, w)
  PROVE  \E u : Walk(c, u) /\ Hash!Visited(c) = u[Hash!Cardinality(Hash!Live)]
<1>1. \E u : Walk(c, u)
  OBVIOUS
<1> QED BY <1>1 DEF Walk, Hash!Visited

LEMMA PrefixSteps ==
  ASSUME NEW s \in Seq(Nodes), Null \notin Nodes, Chain(heap, s)
  PROVE  /\ Prefix(s, 0) = IF Len(s) = 0 THEN <<>> ELSE <<s[1]>>
         /\ \A i \in Nat \ {0} : Hash!Further(Prefix(s, i - 1)) = Prefix(s, i)
<1>1. PICK n \in Nat : n = Len(s)
  OBVIOUS
<1>2. \A i \in 1..n : /\ s[i] \in Nodes /\ s[i] # Null /\ s[i] \in DOMAIN heap
                      /\ heap[s[i]].n = IF i = n THEN Null ELSE s[i + 1]
  BY <1>1 DEF Chain
<1>3. SubSeq(s, 1, n) = s
  BY <1>1
<1>4. ASSUME NEW i \in 1..n PROVE SubSeq(s, 1, i) \in Seq(Nodes) /\ Len(SubSeq(s, 1, i)) = i
                                  /\ SubSeq(s, 1, i)[i] = s[i]
  BY <1>1
<1>5. ASSUME NEW i \in 1..n, i + 1 \in 1..n
      PROVE  Append(SubSeq(s, 1, i), s[i + 1]) = SubSeq(s, 1, i + 1)
  BY <1>1, <1>5
<1>8. n = 0 => s = <<>>
  BY <1>1, EmptySeq
<1>6. Prefix(s, 0) = IF n = 0 THEN <<>> ELSE <<s[1]>>
  <2>1. CASE n = 0
    BY <1>1, <1>8, <2>1 DEF Prefix
  <2>2. CASE n # 0
    <3>1. SubSeq(s, 1, 1) = <<s[1]>>
      <4>1. PICK w : w = SubSeq(s, 1, 1)
        OBVIOUS
      <4>2. w \in Seq(Nodes) /\ Len(w) = 1 /\ w[1] = s[1]
        BY <1>4, <2>2, <4>1
      <4>3. w = <<w[1]>>
        BY <4>2
      <4> QED BY <4>1, <4>2, <4>3
    <3> QED BY <1>1, <2>2, <3>1 DEF Prefix
  <2> QED BY <2>1, <2>2
<1>7. ASSUME NEW i \in Nat \ {0} PROVE Hash!Further(Prefix(s, i - 1)) = Prefix(s, i)
  <2>1. PICK w : w = Prefix(s, i - 1)
    OBVIOUS
  <2>2. CASE i < n
    <3>1. w = SubSeq(s, 1, i) /\ i \in 1..n /\ i + 1 \in 1..n /\ i # n
      BY <1>1, <2>1, <2>2 DEF Prefix
    <3>2. Len(w) = i /\ w[i] = s[i] /\ w # <<>>
      BY <1>4, <3>1
    <3>3. s[i] \in DOMAIN heap /\ heap[s[i]].n = s[i + 1] /\ s[i + 1] # Null
      BY <1>2, <3>1
    <3>4. Hash!Further(w) = Append(w, s[i + 1])
      BY <3>2, <3>3 DEF Hash!Further, Hash!Live
    <3>5. Prefix(s, i) = SubSeq(s, 1, i + 1)
      BY <1>1, <2>2 DEF Prefix
    <3> QED BY <1>5, <2>1, <3>1, <3>4, <3>5
  <2>3. CASE ~(i < n)
    <3>1. Prefix(s, i) = s
      BY <1>1, <2>3 DEF Prefix
    <3>2. w = s
      <4>1. i = n => w = SubSeq(s, 1, n)
        BY <1>1, <2>1 DEF Prefix
      <4>2. i # n => w = s
        BY <1>1, <2>1, <2>3 DEF Prefix
      <4> QED BY <1>3, <4>1, <4>2
    <3>3. CASE n = 0
      BY <1>8, <2>1, <3>1, <3>2, <3>3 DEF Hash!Further
    <3>4. CASE n # 0
      <4>1. n \in 1..n
        BY <3>4
      <4>2. heap[s[n]].n = Null
        BY <1>2, <4>1
      <4> QED BY <1>1, <2>1, <3>1, <3>2, <4>2 DEF Hash!Further
    <3> QED BY <3>3, <3>4
  <2> QED BY <2>2, <2>3
<1> QED BY <1>1, <1>6, <1>7

LEMMA Traversal ==
  ASSUME NEW c, NEW q, NEW s, ListOk(heap, hash[c], q, s, head[c], tail[c]),
         DOMAIN heap \subseteq Nodes
  PROVE  Hash!Visited(c) = s
<1>1. PICK N : N = Hash!Cardinality(Hash!Live)
  OBVIOUS
<1>2. /\ s \in Seq(Nodes) /\ Chain(heap, s) /\ head[c] = FirstOf(s)
      /\ \A i, j \in 1..Len(s) : s[i] = s[j] => i = j
  BY DEF ListOk, Indexed
<1>3. PICK n \in Nat : n = Len(s)
  BY <1>2
<1>4. N \in Nat /\ n <= N
  <2>1. N = Cardinality(DOMAIN heap)
    BY <1>1 DEF Hash!Cardinality, Cardinality, Hash!Live
  <2>2. IsFiniteSet(DOMAIN heap)
    BY FS_Subset, ContainersAssumption
  <2>3. s \in Injection(1..n, DOMAIN heap)
    BY <1>2, <1>3 DEF Injection, IsInjective, Chain
  <2>4. Cardinality(1..n) <= Cardinality(DOMAIN heap)
    BY <2>2, <2>3, FS_Injection
  <2>5. Cardinality(1..n) = n
    BY FS_Interval
  <2>6. N \in Nat
    BY <2>1, <2>2, FS_CardinalityType
  <2> QED BY <2>1, <2>4, <2>5, <2>6
<1>5. /\ Prefix(s, 0) = IF n = 0 THEN <<>> ELSE <<s[1]>>
      /\ \A i \in Nat \ {0} : Hash!Further(Prefix(s, i - 1)) = Prefix(s, i)
  BY <1>2, <1>3, PrefixSteps, ContainersAssumption
<1>6. Prefix(s, 0) = IF head[c] = Null THEN <<>> ELSE <<head[c]>>
  <2>1. n # 0 => s[1] # Null
    BY <1>2, <1>3, ContainersAssumption
  <2> QED BY <1>2, <1>3, <1>5, <2>1 DEF FirstOf
<1>7. PICK w0 : w0 = [i \in 0..N |-> Prefix(s, i)]
  OBVIOUS
<1>8. Walk(c, w0)
  <2>1. \A i \in 0..N :
          Prefix(s, i) = IF i > 0 THEN Hash!Further(w0[i - 1])
                         ELSE IF head[c] = Null THEN <<>> ELSE <<head[c]>>
    <3> SUFFICES ASSUME NEW i \in 0..N
                 PROVE  Prefix(s, i) = IF i > 0 THEN Hash!Further(w0[i - 1])
                         ELSE IF head[c] = Null THEN <<>> ELSE <<head[c]>>
      OBVIOUS
    <3>1. CASE i > 0
      <4>1. i - 1 \in 0..N /\ i \in Nat \ {0}
        BY <1>4, <3>1
      <4>2. w0[i - 1] = Prefix(s, i - 1)
        BY <1>7, <4>1
      <4> QED BY <1>5, <3>1, <4>1, <4>2
    <3>2. CASE i = 0
      BY <1>6, <3>2
    <3> QED BY <1>4, <3>1, <3>2
  <2>2. w0 = [i \in 0..N |-> IF i > 0 THEN Hash!Further(w0[i - 1])
                             ELSE IF head[c] = Null THEN <<>> ELSE <<head[c]>>]
    BY <1>7, <2>1, Zenon
  <2> QED BY <1>1, <2>2, Zenon DEF Walk
<1>9. PICK u : Walk(c, u) /\ Hash!Visited(c) = u[N]
  BY <1>1, <1>8, VisitedWalk
<1>10. \A i \in 0..N :
         u[i] = IF i > 0 THEN Hash!Further(u[i - 1])
                ELSE IF head[c] = Null THEN <<>> ELSE <<head[c]>>
  BY <1>1, <1>9, Zenon DEF Walk
<1>11. 0..N \subseteq {i \in 0..N : u[i] = Prefix(s, i)}
  <2>1. 0 \in {i \in 0..N : u[i] = Prefix(s, i)}
    BY <1>4, <1>6, <1>10
  <2>2. ASSUME NEW i \in 1..N, u[i - 1] = Prefix(s, i - 1)
        PROVE  u[i] = Prefix(s, i)
    <3>1. i \in 0..N /\ i > 0 /\ i \in Nat \ {0}
      BY <1>4
    <3> QED BY <1>5, <1>10, <2>2, <3>1
  <2>3. \A i \in 1..N : i - 1 \in {j \in 0..N : u[j] = Prefix(s, j)}
                          => i \in {j \in 0..N : u[j] = Prefix(s, j)}
    BY <1>4, <2>2
  <2> QED BY <1>4, <2>1, <2>3, UpTo
<1>12. u[N] = Prefix(s, N)
  BY <1>4, <1>11
<1> QED BY <1>3, <1>4, <1>9, <1>12 DEF Prefix

-----------------------------------------------------------------------------
\* The invariant is what the runs check.

\* What a list says of the container that holds it.
Holding(h, hs, q, s, hd, tl) ==
  /\ q \in Seq(Keys) /\ s \in Seq(Nodes) /\ Len(q) = Len(s)
  /\ DOMAIN hs = {q[i] : i \in 1..Len(s)}
  /\ hs \in [DOMAIN hs -> Nodes]
  /\ Hash!Range(hs) = {s[i] : i \in 1..Len(s)}
  /\ Hash!Range(s) = {s[i] : i \in 1..Len(s)}
  /\ Hash!IsInjective(s)
  /\ \A i \in 1..Len(s) :
       /\ q[i] \in Keys /\ s[i] \in Nodes /\ s[i] \in DOMAIN h
       /\ hs[q[i]] = s[i] /\ h[s[i]].v = q[i]
       /\ h[s[i]].p = IF i = 1 THEN Null ELSE s[i - 1]
       /\ h[s[i]].n = IF i = Len(s) THEN Null ELSE s[i + 1]
  /\ \A i, j \in 1..Len(s) : s[i] = s[j] => i = j
  /\ \A i, j \in 1..Len(s) : q[i] = q[j] => i = j
  /\ hd = FirstOf(s) /\ tl = LastOf(s)

LEMMA ListFacts ==
  ASSUME NEW h, NEW hs, NEW q, NEW s, NEW hd, NEW tl, ListOk(h, hs, q, s, hd, tl)
  PROVE  Holding(h, hs, q, s, hd, tl)
<1>1. /\ q \in Seq(Keys) /\ s \in Seq(Nodes) /\ Len(q) = Len(s)
      /\ hs \in [{q[i] : i \in 1..Len(s)} -> Nodes]
      /\ \A i \in 1..Len(s) : hs[q[i]] = s[i] /\ h[s[i]].v = q[i]
      /\ \A i, j \in 1..Len(s) : s[i] = s[j] => i = j
  BY DEF ListOk, Indexed
<1>2. \A i \in 1..Len(s) :
        /\ q[i] \in Keys /\ s[i] \in Nodes /\ s[i] \in DOMAIN h
        /\ h[s[i]].p = IF i = 1 THEN Null ELSE s[i - 1]
        /\ h[s[i]].n = IF i = Len(s) THEN Null ELSE s[i + 1]
  BY <1>1 DEF ListOk, Chain
<1>3. DOMAIN hs = {q[i] : i \in 1..Len(s)} /\ hs \in [DOMAIN hs -> Nodes]
  BY <1>1
<1>4. Hash!Range(hs) = {s[i] : i \in 1..Len(s)}
  BY <1>1, <1>3 DEF Hash!Range
<1>5. DOMAIN s = 1..Len(s)
  BY <1>1
<1>6. Hash!Range(s) = {s[i] : i \in 1..Len(s)} /\ Hash!IsInjective(s)
  BY <1>1, <1>5 DEF Hash!Range, Hash!IsInjective
<1>7. \A i, j \in 1..Len(s) : q[i] = q[j] => i = j
  BY <1>1
<1>8. hd = FirstOf(s) /\ tl = LastOf(s)
  BY DEF ListOk
<1> QED BY <1>1, <1>2, <1>3, <1>4, <1>6, <1>7, <1>8 DEF Holding

LEMMA InvChecks ==
  ASSUME HashInv
  PROVE  /\ Hash!TypeOK /\ Hash!AllVisited /\ Hash!Mirrored /\ Hash!NoLeak
         /\ Hash!InsertionOrder
<1> DEFINE List(c) == CHOOSE s : ListOk(heap, hash[c], seqs[c], s, head[c], tail[c])
<1>1. \A c \in Containers :
        ListOk(heap, hash[c], seqs[c], List(c), head[c], tail[c])
  BY DEF HashInv, Listed
<1> HIDE DEF List
<1>2. \A c \in Containers : Hash!Visited(c) = List(c)
  BY <1>1, Traversal DEF HashInv
<1>3. \A c \in Containers :
        Holding(heap, hash[c], seqs[c], List(c), head[c], tail[c])
  BY <1>1, ListFacts
<1>4. ASSUME NEW a \in DOMAIN heap
      PROVE  /\ heap[a].p \in DOMAIN heap \cup {Null}
             /\ heap[a].n \in DOMAIN heap \cup {Null}
  <2>1. PICK c \in Containers : a \in Hash!Range(hash[c])
    BY DEF HashInv, Owned
  <2>2. PICK s, q : s = List(c) /\ q = seqs[c]
    OBVIOUS
  <2>3. /\ Hash!Range(hash[c]) = {s[i] : i \in 1..Len(s)}
        /\ s \in Seq(Nodes)
        /\ \A i \in 1..Len(s) :
             /\ s[i] \in DOMAIN heap
             /\ heap[s[i]].p = IF i = 1 THEN Null ELSE s[i - 1]
             /\ heap[s[i]].n = IF i = Len(s) THEN Null ELSE s[i + 1]
    <3>1. Holding(heap, hash[c], q, s, head[c], tail[c])
      BY <1>3, <2>2
    <3> QED BY <3>1 DEF Holding
  <2>4. PICK i \in 1..Len(s) : a = s[i]
    BY <2>1, <2>3
  <2>5. /\ i # 1 => i - 1 \in 1..Len(s)
        /\ i # Len(s) => i + 1 \in 1..Len(s)
    BY <2>3
  <2> QED BY <2>3, <2>4, <2>5
<1>5. Hash!TypeOK
  <2>1. heap \in [DOMAIN heap -> [v : Keys, p : DOMAIN heap \cup {Null},
                                  n : DOMAIN heap \cup {Null}]]
    <3>1. \A a \in DOMAIN heap : heap[a] \in [v : Keys, p : DOMAIN heap \cup {Null},
                                              n : DOMAIN heap \cup {Null}]
      <4> SUFFICES ASSUME NEW a \in DOMAIN heap
                   PROVE  heap[a] \in [v : Keys, p : DOMAIN heap \cup {Null},
                                       n : DOMAIN heap \cup {Null}]
        OBVIOUS
      <4>1. heap[a] \in Node
        BY DEF HashInv
      <4> QED BY <1>4, <4>1 DEF Node
    <3>2. heap = [a \in DOMAIN heap |-> heap[a]]
      BY DEF HashInv
    <3> QED BY <3>1, <3>2
  <2>2. ASSUME NEW c \in Containers
        PROVE  /\ DOMAIN hash[c] \subseteq Keys
               /\ hash[c] \in [DOMAIN hash[c] -> DOMAIN heap]
               /\ head[c] \in DOMAIN heap \cup {Null}
               /\ tail[c] \in DOMAIN heap \cup {Null}
               /\ seqs[c] \in Seq(Keys)
    <3>1. PICK s, q : s = List(c) /\ q = seqs[c]
      OBVIOUS
    <3>a. Holding(heap, hash[c], q, s, head[c], tail[c])
      BY <1>3, <3>1
    <3>2. /\ q \in Seq(Keys) /\ s \in Seq(Nodes)
          /\ DOMAIN hash[c] = {q[i] : i \in 1..Len(s)}
          /\ \A i \in 1..Len(s) : /\ q[i] \in Keys /\ s[i] \in DOMAIN heap
                                  /\ hash[c][q[i]] = s[i]
          /\ hash[c] \in [DOMAIN hash[c] -> Nodes]
          /\ head[c] = FirstOf(s) /\ tail[c] = LastOf(s)
      BY <3>a DEF Holding
    <3>3. /\ DOMAIN hash[c] \subseteq Keys
          /\ \A k \in DOMAIN hash[c] : hash[c][k] \in DOMAIN heap
      BY <3>2
    <3>4. hash[c] \in [DOMAIN hash[c] -> DOMAIN heap]
      BY <3>2, <3>3
    <3>5. Len(s) # 0 => 1 \in 1..Len(s) /\ Len(s) \in 1..Len(s)
      BY <3>2
    <3> QED BY <3>1, <3>2, <3>3, <3>4, <3>5 DEF FirstOf, LastOf
  <2>3. /\ head \in [Containers -> DOMAIN heap \cup {Null}]
        /\ tail \in [Containers -> DOMAIN heap \cup {Null}]
        /\ seqs \in [Containers -> Seq(Keys)]
    BY <2>2, Zenon DEF HashInv
  <2>4. DOMAIN heap \subseteq Nodes /\ ~fault
    BY DEF HashInv
  <2> QED BY <2>1, <2>2, <2>3, <2>4 DEF Hash!TypeOK, Hash!Live, Hash!KeysOf
<1>6. Hash!AllVisited
  <2> SUFFICES ASSUME NEW c \in Containers
               PROVE  /\ Hash!IsInjective(Hash!Visited(c))
                      /\ Hash!Range(Hash!Visited(c))
                           = {hash[c][k] : k \in DOMAIN hash[c]}
                      /\ \A k \in DOMAIN hash[c] : heap[hash[c][k]].v = k
    BY DEF Hash!AllVisited, Hash!KeysOf
  <2>1. PICK s, q : s = List(c) /\ q = seqs[c]
    OBVIOUS
  <2>2. /\ DOMAIN hash[c] = {q[i] : i \in 1..Len(s)}
        /\ Hash!Range(hash[c]) = {s[i] : i \in 1..Len(s)}
        /\ Hash!Range(s) = {s[i] : i \in 1..Len(s)}
        /\ Hash!IsInjective(s)
        /\ \A i \in 1..Len(s) : hash[c][q[i]] = s[i] /\ heap[s[i]].v = q[i]
    <3>1. Holding(heap, hash[c], q, s, head[c], tail[c])
      BY <1>3, <2>1
    <3> QED BY <3>1 DEF Holding
  <2>3. Hash!Visited(c) = s
    BY <1>2, <2>1
  <2>4. Hash!Range(hash[c]) = {hash[c][k] : k \in DOMAIN hash[c]}
    BY DEF Hash!Range
  <2>5. \A k \in DOMAIN hash[c] : heap[hash[c][k]].v = k
    BY <2>2
  <2> QED BY <2>2, <2>3, <2>4, <2>5
<1>7. Hash!Mirrored
  <2> SUFFICES ASSUME NEW c \in Containers, NEW s, s = Hash!Visited(c)
               PROVE  /\ tail[c] = IF s = <<>> THEN Null ELSE s[Len(s)]
                      /\ \A i \in 1..Len(s) :
                           /\ Hash!Backward(c, heap[s[i]].v)
                                = IF i = 1 THEN Null ELSE s[i-1]
                           /\ Hash!Forward(c, heap[s[i]].v)
                                = IF i = Len(s) THEN Null ELSE s[i+1]
    BY DEF Hash!Mirrored
  <2>1. PICK q : s = List(c) /\ q = seqs[c]
    BY <1>2
  <2>2. /\ s \in Seq(Nodes) /\ DOMAIN hash[c] = {q[i] : i \in 1..Len(s)}
        /\ \A i \in 1..Len(s) :
             /\ hash[c][q[i]] = s[i] /\ heap[s[i]].v = q[i]
             /\ heap[s[i]].p = IF i = 1 THEN Null ELSE s[i - 1]
             /\ heap[s[i]].n = IF i = Len(s) THEN Null ELSE s[i + 1]
        /\ tail[c] = LastOf(s)
    <3>1. Holding(heap, hash[c], q, s, head[c], tail[c])
      BY <1>3, <2>1
    <3> QED BY <3>1 DEF Holding
  <2>3. Len(s) = 0 <=> s = <<>>
    BY <2>2, EmptySeq
  <2>4. tail[c] = IF s = <<>> THEN Null ELSE s[Len(s)]
    BY <2>2, <2>3 DEF LastOf
  <2>5. ASSUME NEW i \in 1..Len(s)
        PROVE  /\ Hash!Backward(c, heap[s[i]].v) = IF i = 1 THEN Null ELSE s[i-1]
               /\ Hash!Forward(c, heap[s[i]].v) = IF i = Len(s) THEN Null ELSE s[i+1]
    <3>1. q[i] \in DOMAIN hash[c] /\ heap[s[i]].v = q[i] /\ hash[c][q[i]] = s[i]
      BY <2>2
    <3>2. /\ Hash!Backward(c, heap[s[i]].v) = heap[s[i]].p
          /\ Hash!Forward(c, heap[s[i]].v) = heap[s[i]].n
      BY <3>1 DEF Hash!Backward, Hash!Forward, Hash!KeysOf
    <3> QED BY <2>2, <3>2
  <2> QED BY <2>4, <2>5
<1>8. Hash!NoLeak
  BY DEF Hash!NoLeak, HashInv, Owned, Hash!Live
<1>9. Hash!InsertionOrder
  <2> SUFFICES ASSUME NEW c \in Containers, NEW s, s = Hash!Visited(c)
               PROVE  seqs[c] = [i \in 1..Len(s) |-> heap[s[i]].v]
    BY DEF Hash!InsertionOrder
  <2>1. PICK q : s = List(c) /\ q = seqs[c]
    BY <1>2
  <2>2. q \in Seq(Keys) /\ Len(q) = Len(s) /\ \A i \in 1..Len(s) : heap[s[i]].v = q[i]
    <3>1. Holding(heap, hash[c], q, s, head[c], tail[c])
      BY <1>3, <2>1
    <3> QED BY <3>1 DEF Holding
  <2>3. q = [i \in 1..Len(q) |-> q[i]]
    BY <2>2
  <2> QED BY <2>1, <2>2, <2>3
<1> QED BY <1>5, <1>6, <1>7, <1>8, <1>9

-----------------------------------------------------------------------------
\* What the calls do to the invariant.

\* f with x for container c.
Changed(f, c, x) == [d \in Containers |-> IF d = c THEN x ELSE f[d]]

LEMMA ChangedAt ==
  ASSUME NEW f, f = [d \in Containers |-> f[d]], NEW c \in Containers,
         NEW x, NEW g, g = [f EXCEPT ![c] = x]
  PROVE  g = Changed(f, c, x)
BY DEF Changed

LEMMA NotChanged ==
  ASSUME NEW f, f = [d \in Containers |-> f[d]], NEW c \in Containers
  PROVE  f = Changed(f, c, f[c])
BY DEF Changed

\* The nodes of a container are on the heap.
LEMMA OwnNodes ==
  ASSUME HashInv, NEW c \in Containers PROVE Hash!Range(hash[c]) \subseteq DOMAIN heap
<1>1. PICK s : ListOk(heap, hash[c], seqs[c], s, head[c], tail[c])
  BY DEF HashInv, Listed
<1>2. Holding(heap, hash[c], seqs[c], s, head[c], tail[c])
  BY <1>1, ListFacts
<1> QED BY <1>2 DEF Holding

\* A container keeps its list as long as its nodes are kept.
LEMMA KeptListed ==
  ASSUME HashInv, NEW d \in Containers, NEW g,
         \A a \in Hash!Range(hash[d]) : a \in DOMAIN g /\ g[a] = heap[a]
  PROVE  \E s : ListOk(g, hash[d], seqs[d], s, head[d], tail[d])
<1>1. PICK s : ListOk(heap, hash[d], seqs[d], s, head[d], tail[d])
  BY DEF HashInv, Listed
<1>2. Holding(heap, hash[d], seqs[d], s, head[d], tail[d])
  BY <1>1, ListFacts
<1>3. \A i \in 1..Len(s) : s[i] \in DOMAIN g /\ g[s[i]] = heap[s[i]]
  BY <1>2 DEF Holding
<1>4. ListOk(g, hash[d], seqs[d], s, head[d], tail[d])
  BY <1>1, <1>3 DEF ListOk, Chain, Indexed
<1> QED BY <1>4

\* A call on one container: it has a list again, the others keep theirs.
LEMMA OneChanged ==
  ASSUME HashInv, NEW c \in Containers,
         NEW hs, NEW q, NEW s, NEW hd, NEW tl,
         hash' = Changed(hash, c, hs), seqs' = Changed(seqs, c, q),
         head' = Changed(head, c, hd), tail' = Changed(tail, c, tl),
         fault' = FALSE,
         DOMAIN heap' \subseteq Nodes, heap' \in [DOMAIN heap' -> Node],
         ListOk(heap', hs, q, s, hd, tl),
         \A d \in Containers : d # c =>
           \A a \in Hash!Range(hash[d]) : a \in DOMAIN heap' /\ heap'[a] = heap[a],
         \A a \in DOMAIN heap' : a \in DOMAIN heap \/ a \in Hash!Range(hs),
         \A a \in Hash!Range(hash[c]) : a \in DOMAIN heap' => a \in Hash!Range(hs),
         \A a \in Hash!Range(hs) : a \in Hash!Range(hash[c]) \/ a \notin DOMAIN heap
  PROVE  HashInv'
<1>1. \A d \in Containers :
        /\ hash'[d] = IF d = c THEN hs ELSE hash[d]
        /\ seqs'[d] = IF d = c THEN q ELSE seqs[d]
        /\ head'[d] = IF d = c THEN hd ELSE head[d]
        /\ tail'[d] = IF d = c THEN tl ELSE tail[d]
  BY DEF Changed
<1>2. /\ hash' = [d \in Containers |-> hash'[d]]
      /\ head' = [d \in Containers |-> head'[d]]
      /\ tail' = [d \in Containers |-> tail'[d]]
      /\ seqs' = [d \in Containers |-> seqs'[d]]
  BY DEF Changed
<1>3. Owned'
  <2>1. ASSUME NEW a \in DOMAIN heap'
        PROVE  \E d \in Containers : a \in Hash!Range(hash'[d])
    <3>1. CASE a \in Hash!Range(hs)
      BY <1>1, <3>1
    <3>2. CASE a \notin Hash!Range(hs)
      <4>1. a \in DOMAIN heap
        BY <2>1, <3>2
      <4>2. PICK d \in Containers : a \in Hash!Range(hash[d])
        BY <4>1 DEF HashInv, Owned
      <4>3. d # c
        BY <2>1, <3>2, <4>2
      <4> QED BY <1>1, <4>2, <4>3
    <3> QED BY <3>1, <3>2
  <2>2. ASSUME NEW d \in Containers, NEW e \in Containers, d # e,
               NEW a, a \in Hash!Range(hash'[d]), a \in Hash!Range(hash'[e])
        PROVE  FALSE
    <3>1. \A x, y \in Containers : x # y =>
            ~(a \in Hash!Range(hash[x]) /\ a \in Hash!Range(hash[y]))
      BY DEF HashInv, Owned
    <3>2. \A x \in Containers : a \in Hash!Range(hash[x]) => a \in DOMAIN heap
      BY OwnNodes
    <3>3. CASE d = c
      BY <1>1, <2>2, <3>1, <3>2, <3>3
    <3>4. CASE e = c
      BY <1>1, <2>2, <3>1, <3>2, <3>4
    <3>5. CASE d # c /\ e # c
      BY <1>1, <2>2, <3>1, <3>5
    <3> QED BY <3>3, <3>4, <3>5
  <2>3. \A d, e \in Containers :
          d # e => Hash!Range(hash'[d]) \cap Hash!Range(hash'[e]) = {}
    BY <2>2
  <2> QED BY <2>1, <2>3 DEF Owned
<1>4. ASSUME NEW d \in Containers PROVE Listed(d)'
  <2>1. CASE d = c
    BY <1>1, <2>1 DEF Listed
  <2>2. CASE d # c
    <3>1. \E t : ListOk(heap', hash[d], seqs[d], t, head[d], tail[d])
      BY <2>2, KeptListed
    <3> QED BY <1>1, <2>2, <3>1 DEF Listed
  <2> QED BY <2>1, <2>2
<1> QED BY <1>2, <1>3, <1>4 DEF HashInv

\* The heap h with node a for key k at place m of the nodes s.
Grown(h, s, m, k, a) ==
  [x \in DOMAIN h \cup {a} |->
    IF x = a
    THEN [v |-> k, p |-> IF m = 1 THEN Null ELSE s[m - 1],
                   n |-> IF m = Len(s) + 1 THEN Null ELSE s[m]]
    ELSE [v |-> h[x].v,
          p |-> IF m <= Len(s) /\ x = s[m] THEN a ELSE h[x].p,
          n |-> IF m > 1 /\ x = s[m - 1] THEN a ELSE h[x].n]]

LEMMA InsertStep ==
  ASSUME HashInv, NEW c \in Containers, NEW s,
         ListOk(heap, hash[c], seqs[c], s, head[c], tail[c]),
         NEW m \in 1..(Len(s) + 1),
         NEW a \in Nodes, a \notin DOMAIN heap,
         NEW k \in Keys, k \notin DOMAIN hash[c],
         heap' = Grown(heap, s, m, k, a),
         hash' = Changed(hash, c, Hash!With(hash[c], k, a)),
         head' = Changed(head, c, IF m = 1 THEN a ELSE head[c]),
         tail' = Changed(tail, c, IF m = Len(s) + 1 THEN a ELSE tail[c]),
         NEW q, q = Hash!Promised!InsertAt(seqs[c], m, k),
         seqs' = Changed(seqs, c, q),
         fault' = FALSE
  PROVE  HashInv'
<1>1. Holding(heap, hash[c], seqs[c], s, head[c], tail[c])
  BY ListFacts
<1>2. PICK n \in Nat : n = Len(s)
  BY <1>1 DEF Holding
<1>3. \A i \in 1..n : /\ s[i] \in Nodes /\ s[i] \in DOMAIN heap
                      /\ \A j \in 1..n : s[i] = s[j] => i = j
  BY <1>1, <1>2 DEF Holding
<1>4. PICK g : g = heap'
  OBVIOUS
<1>5. /\ DOMAIN g = DOMAIN heap \cup {a}
      /\ g = [x \in DOMAIN g |-> g[x]]
      /\ g[a] = [v |-> k, p |-> IF m = 1 THEN Null ELSE s[m - 1],
                          n |-> IF m = n + 1 THEN Null ELSE s[m]]
      /\ \A x \in DOMAIN heap :
           g[x] = [v |-> heap[x].v,
                   p |-> IF m <= n /\ x = s[m] THEN a ELSE heap[x].p,
                   n |-> IF m > 1 /\ x = s[m - 1] THEN a ELSE heap[x].n]
  BY <1>2, <1>4 DEF Grown
<1>6. /\ m \in 1..(n + 1)
      /\ m # 1 => m - 1 \in 1..n
      /\ m # n + 1 => m \in 1..n
      /\ m <= n => m \in 1..n
      /\ m > 1 => m - 1 \in 1..n
  BY <1>2
<1>7. DOMAIN g \subseteq Nodes
  BY <1>5 DEF HashInv
<1>8. g \in [DOMAIN g -> Node]
  <2>1. g[a] \in Node
    <3>1. (IF m = 1 THEN Null ELSE s[m - 1]) \in Nodes \cup {Null}
      BY <1>3, <1>6
    <3>2. (IF m = n + 1 THEN Null ELSE s[m]) \in Nodes \cup {Null}
      BY <1>3, <1>6
    <3> QED BY <1>5, <3>1, <3>2 DEF Node
  <2>2. ASSUME NEW x \in DOMAIN heap PROVE g[x] \in Node
    <3>1. heap[x].v \in Keys /\ heap[x].p \in Nodes \cup {Null}
          /\ heap[x].n \in Nodes \cup {Null}
      BY DEF HashInv, Node
    <3>2. /\ (IF m <= n /\ x = s[m] THEN a ELSE heap[x].p) \in Nodes \cup {Null}
          /\ (IF m > 1 /\ x = s[m - 1] THEN a ELSE heap[x].n) \in Nodes \cup {Null}
      BY <3>1
    <3> QED BY <1>5, <3>1, <3>2 DEF Node
  <2>3. \A x \in DOMAIN g : g[x] \in Node
    BY <1>5, <2>1, <2>2
  <2> QED BY <1>5, <2>3
<1>9. \A i \in 1..Len(s) :
        /\ s[i] \in DOMAIN g
        /\ g[s[i]].v = heap[s[i]].v
        /\ g[s[i]].p = IF i = m THEN a ELSE heap[s[i]].p
        /\ g[s[i]].n = IF i = m - 1 THEN a ELSE heap[s[i]].n
  <2> SUFFICES ASSUME NEW i \in 1..n
               PROVE  /\ s[i] \in DOMAIN g
                      /\ g[s[i]].v = heap[s[i]].v
                      /\ g[s[i]].p = IF i = m THEN a ELSE heap[s[i]].p
                      /\ g[s[i]].n = IF i = m - 1 THEN a ELSE heap[s[i]].n
    BY <1>2
  <2>1. s[i] \in DOMAIN heap /\ s[i] \in DOMAIN g
    BY <1>3, <1>5
  <2>2. (m <= n /\ s[i] = s[m]) <=> i = m
    BY <1>3, <1>6
  <2>3. (m > 1 /\ s[i] = s[m - 1]) <=> i = m - 1
    BY <1>3, <1>6
  <2> QED BY <1>5, <2>1, <2>2, <2>3
<1>10. /\ a \in DOMAIN g /\ g[a].v = k
       /\ g[a].p = IF m = 1 THEN Null ELSE s[m - 1]
       /\ g[a].n = IF m = Len(s) + 1 THEN Null ELSE s[m]
  BY <1>2, <1>5
<1>11. PICK t, hs : /\ t = Hash!Promised!InsertAt(s, m, a)
                    /\ hs = Hash!With(hash[c], k, a)
  OBVIOUS
<1>12. ListOk(g, hs, q, t, IF m = 1 THEN a ELSE head[c],
                           IF m = Len(s) + 1 THEN a ELSE tail[c])
  <2>1. LinkedIn(heap, g, s, m, a, k)
    BY <1>9, <1>10 DEF LinkedIn
  <2> QED BY <1>11, <2>1, InsertedList
<1>13. /\ DOMAIN hs = DOMAIN hash[c] \cup {k} /\ hs[k] = a
       /\ \A j \in DOMAIN hash[c] : hs[j] = hash[c][j]
  BY <1>11 DEF Hash!With
<1>14. Hash!Range(hs) = Hash!Range(hash[c]) \cup {a}
  BY <1>13 DEF Hash!Range
<1>15. ASSUME NEW d \in Containers, d # c, NEW x \in Hash!Range(hash[d])
       PROVE  x \in DOMAIN g /\ g[x] = heap[x]
  <2>1. x \in DOMAIN heap
    BY OwnNodes
  <2>2. x \notin Hash!Range(hash[c])
    BY <1>15 DEF HashInv, Owned
  <2>3. \A i \in 1..n : x # s[i]
    BY <1>1, <1>2, <2>2 DEF Holding
  <2>4. g[x] = [v |-> heap[x].v, p |-> heap[x].p, n |-> heap[x].n]
    BY <1>5, <1>6, <2>1, <2>3
  <2>5. heap[x] \in Node
    BY <2>1 DEF HashInv
  <2> QED BY <1>5, <2>1, <2>4, <2>5 DEF Node
<1>16. /\ \A x \in DOMAIN g : x \in DOMAIN heap \/ x \in Hash!Range(hs)
       /\ \A x \in Hash!Range(hash[c]) : x \in DOMAIN g => x \in Hash!Range(hs)
       /\ \A x \in Hash!Range(hs) : x \in Hash!Range(hash[c]) \/ x \notin DOMAIN heap
  BY <1>5, <1>14
<1> QED BY <1>4, <1>7, <1>8, <1>11, <1>12, <1>15, <1>16, OneChanged

\* The heap that has the new node, before it is linked.
NewHeap(h, a, k) ==
  /\ DOMAIN h = DOMAIN heap \cup {a} /\ h = [x \in DOMAIN h |-> h[x]]
  /\ h[a] = [v |-> k, p |-> Null, n |-> Null]
  /\ \A x \in DOMAIN heap :
       /\ x # a /\ h[x] = heap[x] /\ heap[x] \in Node
       /\ heap[x] = [v |-> heap[x].v, p |-> heap[x].p, n |-> heap[x].n]

LEMMA NewOnHeap ==
  ASSUME HashInv, NEW a \in Nodes, a \notin DOMAIN heap, NEW k \in Keys,
         NEW h, h = Hash!Allocated(a, k)
  PROVE  NewHeap(h, a, k)
<1>1. \A x \in DOMAIN heap : heap[x] \in Node
  BY DEF HashInv
<1>2. \A r \in Node : r = [v |-> r.v, p |-> r.p, n |-> r.n]
  BY DEF Node
<1> QED BY <1>1, <1>2 DEF Hash!Allocated, Hash!With, Hash!NewNode, NewHeap

LEMMA LinkLastGrows ==
  ASSUME HashInv, NEW c \in Containers, NEW s,
         ListOk(heap, hash[c], seqs[c], s, head[c], tail[c]),
         NEW a \in Nodes, a \notin DOMAIN heap, NEW k \in Keys,
         Hash!LinkLast(c, a, Hash!Allocated(a, k))
  PROVE  /\ heap' = Grown(heap, s, Len(s) + 1, k, a)
         /\ head' = Changed(head, c, IF Len(s) = 0 THEN a ELSE head[c])
         /\ tail' = Changed(tail, c, a)
         /\ fault' = FALSE
<1>1. Holding(heap, hash[c], seqs[c], s, head[c], tail[c])
  BY ListFacts
<1>2. PICK n \in Nat : n = Len(s)
  BY <1>1 DEF Holding
<1>3. \A i \in 1..n : /\ s[i] \in Nodes /\ s[i] # Null /\ s[i] \in DOMAIN heap
                      /\ heap[s[i]].n = IF i = n THEN Null ELSE s[i + 1]
  BY <1>1, <1>2, ContainersAssumption DEF Holding
<1>4. PICK h : h = Hash!Allocated(a, k)
  OBVIOUS
<1>5. /\ DOMAIN h = DOMAIN heap \cup {a} /\ h = [x \in DOMAIN h |-> h[x]]
      /\ h[a] = [v |-> k, p |-> Null, n |-> Null]
      /\ \A x \in DOMAIN heap :
           /\ x # a /\ h[x] = heap[x] /\ heap[x] \in Node
           /\ heap[x] = [v |-> heap[x].v, p |-> heap[x].p, n |-> heap[x].n]
  <2>1. NewHeap(h, a, k)
    BY <1>4, NewOnHeap
  <2> QED BY <2>1 DEF NewHeap
<1>6. /\ head = [d \in Containers |-> head[d]] /\ tail = [d \in Containers |-> tail[d]]
      /\ fault = FALSE
  BY DEF HashInv
<1>7. /\ tail[c] = IF n = 0 THEN Null ELSE s[n]
      /\ head[c] = IF n = 0 THEN Null ELSE s[1]
  BY <1>1, <1>2 DEF Holding, FirstOf, LastOf
<1>8. CASE n = 0
  <2>1. /\ heap' = h /\ head' = [head EXCEPT ![c] = a]
        /\ tail' = [tail EXCEPT ![c] = a] /\ fault' = fault
    BY <1>4, <1>7, <1>8, Zenon DEF Hash!LinkLast
  <2>2. h = Grown(heap, s, n + 1, k, a)
    <3>1. DOMAIN h = DOMAIN heap \cup {a} /\ Len(s) + 1 = 1
      BY <1>2, <1>5, <1>8
    <3>2. \A x \in DOMAIN heap : h[x] = [v |-> heap[x].v, p |-> heap[x].p, n |-> heap[x].n]
      BY <1>5
    <3> QED BY <1>2, <1>5, <1>8, <3>1, <3>2 DEF Grown
  <2>3. fault' = FALSE
    BY <1>6, <2>1
  <2>4. head' = Changed(head, c, a)
    BY <1>6, <2>1, ChangedAt
  <2>6. tail' = Changed(tail, c, a)
    BY <1>6, <2>1, ChangedAt
  <2>5. Len(s) = 0 /\ heap' = Grown(heap, s, Len(s) + 1, k, a)
    BY <1>2, <1>8, <2>1, <2>2
  <2> QED BY <2>3, <2>4, <2>5, <2>6
<1>9. CASE n # 0
  <2>1. PICK l : l = tail[c]
    OBVIOUS
  <2>2. /\ l = s[n] /\ l \in DOMAIN heap /\ heap[l].n = Null /\ head[c] # Null
        /\ l # a /\ 1 \in 1..n /\ n \in 1..n
    BY <1>3, <1>5, <1>7, <1>9, <2>1
  <2>3. fault' = FALSE
    BY <2>1, <2>2 DEF Hash!LinkLast, Hash!Uses, Hash!Live
  <2>4. /\ heap' = [h EXCEPT ![a].p = l, ![a].n = h[l].n, ![l].n = a]
        /\ head' = head /\ tail' = [tail EXCEPT ![c] = a]
    BY <1>4, <2>1, <2>2, <2>3, Zenon DEF Hash!LinkLast
  <2>5. heap' = Grown(heap, s, n + 1, k, a)
    <3>1. PICK g : g = heap'
      OBVIOUS
    <3>2. /\ DOMAIN g = DOMAIN h
          /\ g[a] = [h[a] EXCEPT !.p = l, !.n = h[l].n]
          /\ g[l] = [h[l] EXCEPT !.n = a]
          /\ \A x \in DOMAIN h : x # a /\ x # l => g[x] = h[x]
          /\ g = [x \in DOMAIN h |-> g[x]]
      BY <1>5, <2>2, <2>4, <3>1
    <3>3. g[a] = [v |-> k, p |-> l, n |-> Null]
      <4>1. PICK e : e = h[l].n
        OBVIOUS
      <4>2. h[a] = [v |-> k, p |-> Null, n |-> Null] /\ e = Null
        BY <1>5, <2>2, <4>1
      <4>3. g[a] = [h[a] EXCEPT !.p = l, !.n = e]
        BY <3>2, <4>1
      <4>4. PICK r1 : r1 = [h[a] EXCEPT !.p = l]
        OBVIOUS
      <4>5. r1 = [v |-> k, p |-> l, n |-> Null]
        BY <4>2, <4>4
      <4>6. g[a] = [r1 EXCEPT !.n = e]
        BY <4>3, <4>4
      <4> QED BY <4>2, <4>5, <4>6
    <3>4. g[l] = [v |-> heap[l].v, p |-> heap[l].p, n |-> a]
      BY <1>5, <2>2, <3>2 DEF Node
    <3>5. \A x \in DOMAIN heap : x # l =>
            g[x] = [v |-> heap[x].v, p |-> heap[x].p, n |-> heap[x].n]
      BY <1>5, <3>2
    <3>6. n + 1 # 1 /\ n + 1 > 1 /\ ~(n + 1 <= n) /\ n + 1 - 1 = n
      BY <1>9
    <3>7. g = [x \in DOMAIN heap \cup {a} |->
                 IF x = a THEN [v |-> k, p |-> l, n |-> Null]
                 ELSE [v |-> heap[x].v, p |-> heap[x].p,
                       n |-> IF x = l THEN a ELSE heap[x].n]]
      BY <1>5, <3>2, <3>3, <3>4, <3>5
    <3> QED BY <1>2, <2>2, <3>1, <3>6, <3>7 DEF Grown
  <2>6. head' = Changed(head, c, head[c])
    BY <1>6, <2>4, NotChanged
  <2>8. tail' = Changed(tail, c, a)
    BY <1>6, <2>4, ChangedAt
  <2>7. Len(s) # 0 /\ heap' = Grown(heap, s, Len(s) + 1, k, a)
    BY <1>2, <1>9, <2>5
  <2> QED BY <2>3, <2>6, <2>7, <2>8
<1> QED BY <1>8, <1>9

LEMMA LinkAfterGrows ==
  ASSUME HashInv, NEW c \in Containers, NEW s,
         ListOk(heap, hash[c], seqs[c], s, head[c], tail[c]),
         NEW j \in 1..Len(s), j # Len(s),
         NEW a \in Nodes, a \notin DOMAIN heap, NEW k \in Keys,
         Hash!LinkAfter(c, s[j], a, Hash!Allocated(a, k))
  PROVE  /\ heap' = Grown(heap, s, j + 1, k, a)
         /\ head' = Changed(head, c, head[c])
         /\ tail' = Changed(tail, c, tail[c])
         /\ fault' = FALSE
<1>1. Holding(heap, hash[c], seqs[c], s, head[c], tail[c])
  BY ListFacts
<1>2. PICK n \in Nat : n = Len(s)
  BY <1>1 DEF Holding
<1>3. PICK x, y, h : x = s[j] /\ y = s[j + 1] /\ h = Hash!Allocated(a, k)
  OBVIOUS
<1>4. j \in 1..n /\ j + 1 \in 1..n /\ j # n /\ j # j + 1
  BY <1>2
<1>5. /\ x \in DOMAIN heap /\ y \in DOMAIN heap /\ x # y /\ y # Null
      /\ heap[x].n = y
  <2>1. /\ s[j] \in DOMAIN heap /\ s[j + 1] \in DOMAIN heap
        /\ s[j + 1] \in Nodes /\ heap[s[j]].n = s[j + 1]
        /\ (s[j] = s[j + 1] => j = j + 1)
    BY <1>1, <1>2, <1>4 DEF Holding
  <2> QED BY <1>3, <1>4, <2>1, ContainersAssumption
<1>6. /\ DOMAIN h = DOMAIN heap \cup {a} /\ h = [z \in DOMAIN h |-> h[z]]
      /\ h[a] = [v |-> k, p |-> Null, n |-> Null]
      /\ \A z \in DOMAIN heap :
           /\ z # a /\ h[z] = heap[z] /\ heap[z] \in Node
           /\ heap[z] = [v |-> heap[z].v, p |-> heap[z].p, n |-> heap[z].n]
  <2>1. NewHeap(h, a, k)
    BY <1>3, NewOnHeap
  <2> QED BY <2>1 DEF NewHeap
<1>7. fault' = FALSE
  BY <1>3, <1>5 DEF Hash!LinkAfter, Hash!Uses, Hash!Live
<1>8. heap' = Hash!Linked(h, x, a) /\ head' = head /\ tail' = tail
  BY <1>3, <1>7 DEF Hash!LinkAfter
<1>9. heap' = Grown(heap, s, j + 1, k, a)
  <2>1. h[x].n = y
    BY <1>5, <1>6
  <2>2. PICK g1 : g1 = [h EXCEPT ![a].n = y]
    OBVIOUS
  <2>3. PICK g2 : g2 = [g1 EXCEPT ![y].p = a]
    OBVIOUS
  <2>4. heap' = [g2 EXCEPT ![x].n = a, ![a].p = x]
    BY <1>5, <1>8, <2>1, <2>2, <2>3, Zenon DEF Hash!Linked
  <2>5. PICK g : g = heap'
    OBVIOUS
  <2>6. /\ DOMAIN g1 = DOMAIN h /\ g1 = [z \in DOMAIN h |-> g1[z]]
        /\ g1[a] = [v |-> k, p |-> Null, n |-> y]
        /\ \A z \in DOMAIN heap : g1[z] = heap[z]
    <3>1. g1[a] = [h[a] EXCEPT !.n = y]
      BY <1>6, <2>2
    <3>2. g1[a] = [v |-> k, p |-> Null, n |-> y]
      BY <1>6, <3>1
    <3> QED BY <1>6, <2>2, <3>2
  <2>7. /\ DOMAIN g2 = DOMAIN h /\ g2 = [z \in DOMAIN h |-> g2[z]]
        /\ g2[a] = [v |-> k, p |-> Null, n |-> y]
        /\ g2[y] = [heap[y] EXCEPT !.p = a]
        /\ \A z \in DOMAIN heap : z # y => g2[z] = heap[z]
    BY <1>5, <1>6, <2>3, <2>6
  <2>8. /\ DOMAIN g = DOMAIN h /\ g = [z \in DOMAIN h |-> g[z]]
        /\ g[a] = [v |-> k, p |-> x, n |-> y]
        /\ g[y] = [heap[y] EXCEPT !.p = a]
        /\ g[x] = [heap[x] EXCEPT !.n = a]
        /\ \A z \in DOMAIN heap : z # y /\ z # x => g[z] = heap[z]
    <3>1. PICK g3 : g3 = [g2 EXCEPT ![x].n = a]
      OBVIOUS
    <3>2. g = [g3 EXCEPT ![a].p = x]
      BY <2>4, <2>5, <3>1
    <3>3. /\ DOMAIN g3 = DOMAIN h /\ g3 = [z \in DOMAIN h |-> g3[z]]
          /\ g3[a] = g2[a] /\ g3[x] = [heap[x] EXCEPT !.n = a]
          /\ \A z \in DOMAIN heap : z # x => g3[z] = g2[z]
      BY <1>5, <1>6, <2>7, <3>1
    <3>4. g[a] = [g3[a] EXCEPT !.p = x]
      BY <1>6, <3>2, <3>3
    <3>5. g[a] = [v |-> k, p |-> x, n |-> y]
      BY <2>7, <3>3, <3>4
    <3>6. /\ DOMAIN g = DOMAIN h /\ g = [z \in DOMAIN h |-> g[z]]
          /\ \A z \in DOMAIN heap : g[z] = g3[z]
      BY <1>6, <3>2, <3>3
    <3> QED BY <1>5, <2>7, <3>3, <3>5, <3>6
  <2>9. /\ g[y] = [v |-> heap[y].v, p |-> a, n |-> heap[y].n]
        /\ g[x] = [v |-> heap[x].v, p |-> heap[x].p, n |-> a]
    BY <1>5, <1>6, <2>8 DEF Node
  <2>10. g = [z \in DOMAIN heap \cup {a} |->
                IF z = a THEN [v |-> k, p |-> x, n |-> y]
                ELSE [v |-> heap[z].v, p |-> IF z = y THEN a ELSE heap[z].p,
                      n |-> IF z = x THEN a ELSE heap[z].n]]
    BY <1>5, <1>6, <2>8, <2>9
  <2>11. /\ j + 1 # 1 /\ j + 1 > 1 /\ j + 1 <= n /\ j + 1 - 1 = j
         /\ j + 1 # n + 1
    BY <1>4
  <2> QED BY <1>2, <1>3, <2>5, <2>10, <2>11 DEF Grown
<1> QED BY <1>7, <1>8, <1>9, NotChanged DEF HashInv

\* What the guard of every insertion says.
LEMMA InsertGuard ==
  ASSUME HashInv, NEW c \in Containers, NEW k \in Keys, NEW a \in Nodes,
         Hash!Inserted(c, k, a), NEW i, Hash!Promised!Place(c, i, k),
         NEW q, q = Hash!Promised!InsertAt(seqs[c], i, k)
  PROVE  /\ k \notin DOMAIN hash[c] /\ a \notin DOMAIN heap
         /\ hash' = Changed(hash, c, Hash!With(hash[c], k, a))
         /\ seqs' = Changed(seqs, c, q)
<1>1. /\ hash = [d \in Containers |-> hash[d]]
      /\ seqs = [d \in Containers |-> seqs[d]]
  BY DEF HashInv
<1>2. PICK hs : hs = Hash!With(hash[c], k, a)
  OBVIOUS
<1>3. hash' = [hash EXCEPT ![c] = hs] /\ seqs' = [seqs EXCEPT ![c] = q]
  BY <1>2 DEF Hash!Inserted, Hash!Promised!Place
<1>4. hash' = Changed(hash, c, hs)
  BY <1>1, <1>3, ChangedAt
<1>5. seqs' = Changed(seqs, c, q)
  BY <1>1, <1>3, ChangedAt
<1> QED BY <1>2, <1>4, <1>5 DEF Hash!Inserted, Hash!KeysOf, Hash!Live

LEMMA PushLastStep ==
  ASSUME HashInv,
         NEW c \in Containers, NEW k \in Keys, NEW a \in Nodes,
         Hash!PushBack(c, k, a),
         Hash!Promised!Place(c, Len(seqs[c]) + 1, k)
  PROVE  HashInv'
<1>1. PICK s : ListOk(heap, hash[c], seqs[c], s, head[c], tail[c])
  BY DEF HashInv, Listed
<1>2. Len(seqs[c]) = Len(s) /\ Len(s) \in Nat
  <2>1. Holding(heap, hash[c], seqs[c], s, head[c], tail[c])
    BY <1>1, ListFacts
  <2> QED BY <2>1 DEF Holding
<1>3. PICK m, q : m = Len(s) + 1 /\ q = Hash!Promised!InsertAt(seqs[c], m, k)
  OBVIOUS
<1>4. m \in 1..(Len(s) + 1) /\ m = Len(seqs[c]) + 1 /\ (m = 1 <=> Len(s) = 0)
  BY <1>2, <1>3
<1>5. Hash!Inserted(c, k, a) /\ Hash!LinkLast(c, a, Hash!Allocated(a, k))
  BY DEF Hash!PushBack
<1>6. /\ k \notin DOMAIN hash[c] /\ a \notin DOMAIN heap
      /\ hash' = Changed(hash, c, Hash!With(hash[c], k, a))
      /\ seqs' = Changed(seqs, c, q)
  <2>1. Hash!Promised!Place(c, m, k)
    BY <1>4
  <2> QED BY <1>3, <1>5, <2>1, InsertGuard
<1>7. /\ heap' = Grown(heap, s, Len(s) + 1, k, a)
      /\ head' = Changed(head, c, IF Len(s) = 0 THEN a ELSE head[c])
      /\ tail' = Changed(tail, c, a)
      /\ fault' = FALSE
  BY <1>1, <1>5, <1>6, LinkLastGrows
<1>8. /\ heap' = Grown(heap, s, m, k, a)
      /\ head' = Changed(head, c, IF m = 1 THEN a ELSE head[c])
      /\ tail' = Changed(tail, c, IF m = Len(s) + 1 THEN a ELSE tail[c])
  BY <1>3, <1>4, <1>7
<1> QED BY <1>1, <1>3, <1>4, <1>6, <1>7, <1>8, InsertStep

\* Between the node at place j and the next.
LEMMA PushBetweenStep ==
  ASSUME HashInv,
         NEW c \in Containers, NEW k \in Keys, NEW a \in Nodes,
         NEW s, ListOk(heap, hash[c], seqs[c], s, head[c], tail[c]),
         NEW j \in 1..Len(s), j # Len(s),
         Hash!Inserted(c, k, a), Hash!LinkAfter(c, s[j], a, Hash!Allocated(a, k)),
         Hash!Promised!Place(c, j + 1, k)
  PROVE  HashInv'
<1>1. Len(s) \in Nat
  <2>1. Holding(heap, hash[c], seqs[c], s, head[c], tail[c])
    BY ListFacts
  <2> QED BY <2>1 DEF Holding
<1>2. PICK m, q : m = j + 1 /\ q = Hash!Promised!InsertAt(seqs[c], m, k)
  OBVIOUS
<1>3. m \in 1..(Len(s) + 1) /\ m # 1 /\ m # Len(s) + 1
  BY <1>1, <1>2
<1>4. /\ k \notin DOMAIN hash[c] /\ a \notin DOMAIN heap
      /\ hash' = Changed(hash, c, Hash!With(hash[c], k, a))
      /\ seqs' = Changed(seqs, c, q)
  <2>1. Hash!Promised!Place(c, m, k)
    BY <1>2
  <2> QED BY <1>2, <2>1, InsertGuard
<1>5. /\ heap' = Grown(heap, s, j + 1, k, a)
      /\ head' = Changed(head, c, head[c])
      /\ tail' = Changed(tail, c, tail[c])
      /\ fault' = FALSE
  BY <1>4, LinkAfterGrows
<1>6. /\ heap' = Grown(heap, s, m, k, a)
      /\ head' = Changed(head, c, IF m = 1 THEN a ELSE head[c])
      /\ tail' = Changed(tail, c, IF m = Len(s) + 1 THEN a ELSE tail[c])
  BY <1>2, <1>3, <1>5
<1> QED BY <1>2, <1>3, <1>4, <1>5, <1>6, InsertStep

LEMMA PushesStep ==
  ASSUME HashInv, HashRulesKept,
         NEW c \in Containers, NEW k \in Keys, NEW a \in Nodes,
         Hash!Pushes(c, k, a)
  PROVE  HashInv'
<1>1. "notBeforeHead" \in HashRules /\ "notAfterTail" \in HashRules
  BY DEF HashRulesKept, Hash!AllRules
<1>2. PICK s : ListOk(heap, hash[c], seqs[c], s, head[c], tail[c])
  BY DEF HashInv, Listed
<1>3. PICK q : q = seqs[c]
  OBVIOUS
<1>4. /\ Len(q) = Len(s) /\ Len(s) \in Nat
      /\ DOMAIN hash[c] = {q[i] : i \in 1..Len(s)}
      /\ \A i \in 1..Len(s) :
           /\ s[i] \in Nodes /\ s[i] \in DOMAIN heap /\ hash[c][q[i]] = s[i]
           /\ heap[s[i]].p = IF i = 1 THEN Null ELSE s[i - 1]
      /\ \A i, j \in 1..Len(s) : q[i] = q[j] => i = j
      /\ head[c] = FirstOf(s) /\ tail[c] = LastOf(s)
  <2>1. Holding(heap, hash[c], q, s, head[c], tail[c])
    BY <1>2, <1>3, ListFacts
  <2> QED BY <2>1 DEF Holding
<1>5. CASE \/ Hash!PushBack(c, k, a) /\ Hash!Promised!PushBack(c, k)
           \/ Hash!TryEmplace(c, k, a) /\ Hash!Promised!PushBack(c, k)
  BY <1>5, PushLastStep DEF Hash!TryEmplace, Hash!Promised!PushBack
<1>6. CASE Hash!PushFront(c, k, a) /\ Hash!Promised!PushFront(c, k)
  <2>1. head[c] = Null /\ Hash!Inserted(c, k, a)
        /\ Hash!LinkLast(c, a, Hash!Allocated(a, k))
    BY <1>1, <1>6 DEF Hash!PushFront
  <2>2. Len(s) = 0
    <3>1. Len(s) # 0 => 1 \in 1..Len(s)
      BY <1>4
    <3> QED BY <1>4, <2>1, <3>1, ContainersAssumption DEF FirstOf
  <2>3. Hash!Promised!Place(c, Len(seqs[c]) + 1, k)
    <3>1. Len(seqs[c]) + 1 = 1
      BY <1>3, <1>4, <2>2
    <3> QED BY <1>6, <3>1 DEF Hash!Promised!PushFront
  <2> QED BY <2>1, <2>3, PushLastStep DEF Hash!PushBack
<1>7. ASSUME NEW at \in Keys,
             Hash!PushAfter(c, at, k, a), Hash!Promised!PushAfter(c, at, k)
      PROVE  HashInv'
  <2>1. /\ at \in DOMAIN hash[c] /\ hash[c][at] # tail[c] /\ Hash!Inserted(c, k, a)
        /\ Hash!LinkAfter(c, hash[c][at], a, Hash!Allocated(a, k))
    BY <1>1, <1>7 DEF Hash!PushAfter, Hash!KeysOf
  <2>2. PICK i \in 1..Len(q) : q[i] = at /\ Hash!Promised!Place(c, i + 1, k)
    BY <1>3, <1>7 DEF Hash!Promised!PushAfter
  <2>3. i \in 1..Len(s) /\ hash[c][at] = s[i]
    BY <1>4, <2>2
  <2>4. i # Len(s)
    <3>1. Len(s) # 0
      BY <1>4, <2>3
    <3> QED BY <1>4, <2>1, <2>3, <3>1 DEF LastOf
  <2> QED BY <1>2, <2>1, <2>2, <2>3, <2>4, PushBetweenStep
<1>8. ASSUME NEW at \in Keys,
             Hash!PushBefore(c, at, k, a), Hash!Promised!PushBefore(c, at, k)
      PROVE  HashInv'
  <2>1. PICK p : p = heap[hash[c][at]].p
    OBVIOUS
  <2>2. p # Null /\ Hash!Inserted(c, k, a)
    BY <1>1, <1>8, <2>1 DEF Hash!PushBefore
  <2>3. PICK i \in 1..Len(q) : q[i] = at /\ Hash!Promised!Place(c, i, k)
    BY <1>3, <1>8 DEF Hash!Promised!PushBefore
  <2>4. i \in 1..Len(s) /\ hash[c][at] = s[i]
    BY <1>4, <2>3
  <2>5. i # 1 /\ p = s[i - 1]
    BY <1>4, <2>1, <2>2, <2>4
  <2>6. PICK j : j = i - 1
    OBVIOUS
  <2>7. j \in 1..Len(s) /\ j # Len(s) /\ i = j + 1 /\ p = s[j]
    BY <1>4, <2>4, <2>5, <2>6
  <2>8. p \in DOMAIN heap
    BY <1>4, <2>7
  <2>9. Hash!LinkAfter(c, s[j], a, Hash!Allocated(a, k))
    BY <1>8, <2>1, <2>2, <2>7, <2>8 DEF Hash!PushBefore, Hash!Live
  <2>10. Hash!Promised!Place(c, j + 1, k)
    BY <2>3, <2>7
  <2> QED BY <1>2, <2>2, <2>7, <2>9, <2>10, PushBetweenStep
<1> QED BY <1>5, <1>6, <1>7, <1>8 DEF Hash!Pushes

\* The heap h without the node at place m of the nodes s, its neighbours
\* linked to each other.
Shrunk(h, s, m) ==
  [x \in DOMAIN h \ {s[m]} |->
    [v |-> h[x].v,
     p |-> IF m < Len(s) /\ x = s[m + 1] THEN h[s[m]].p ELSE h[x].p,
     n |-> IF m > 1 /\ x = s[m - 1] THEN h[s[m]].n ELSE h[x].n]]

LEMMA RemoveShrinks ==
  ASSUME HashInv, NEW c \in Containers, NEW s,
         ListOk(heap, hash[c], seqs[c], s, head[c], tail[c]),
         NEW m \in 1..Len(s)
  PROVE  Hash!Without(Hash!Unlinked(s[m]), {s[m]}) = Shrunk(heap, s, m)
<1>1. Holding(heap, hash[c], seqs[c], s, head[c], tail[c])
  BY ListFacts
<1>2. PICK n \in Nat : n = Len(s)
  BY <1>1 DEF Holding
<1>3. \A i \in 1..n : /\ s[i] \in Nodes /\ s[i] # Null /\ s[i] \in DOMAIN heap
                      /\ heap[s[i]].p = IF i = 1 THEN Null ELSE s[i - 1]
                      /\ heap[s[i]].n = IF i = n THEN Null ELSE s[i + 1]
                      /\ \A j \in 1..n : s[i] = s[j] => i = j
  <2>1. \A i \in 1..n : /\ s[i] \in Nodes /\ s[i] \in DOMAIN heap
                        /\ heap[s[i]].p = IF i = 1 THEN Null ELSE s[i - 1]
                        /\ heap[s[i]].n = IF i = n THEN Null ELSE s[i + 1]
    BY <1>1, <1>2 DEF Holding
  <2>2. \A i, j \in 1..n : s[i] = s[j] => i = j
    BY <1>1, <1>2 DEF Holding
  <2> QED BY <2>1, <2>2, ContainersAssumption
<1>4. PICK x, b, f : x = s[m] /\ b = heap[s[m]].p /\ f = heap[s[m]].n
  OBVIOUS
<1>5. /\ m \in 1..n /\ (m # 1 => m - 1 \in 1..n) /\ (m # n => m + 1 \in 1..n)
      /\ (m < n <=> m # n) /\ (m > 1 <=> m # 1)
  BY <1>2
<1>6. /\ b = (IF m = 1 THEN Null ELSE s[m - 1])
      /\ f = (IF m = n THEN Null ELSE s[m + 1])
  BY <1>3, <1>4, <1>5
<1>7. /\ x \in DOMAIN heap
      /\ m # 1 => b \in DOMAIN heap /\ b # x /\ b # Null
      /\ m # n => f \in DOMAIN heap /\ f # x /\ f # Null
      /\ m # 1 /\ m # n => b # f
  <2>1. x \in DOMAIN heap
    BY <1>3, <1>4, <1>5
  <2>2. m # 1 => b \in DOMAIN heap /\ b # x /\ b # Null
    <3>1. m # m - 1
      BY <1>5
    <3> QED BY <1>3, <1>4, <1>5, <1>6, <3>1
  <2>3. m # n => f \in DOMAIN heap /\ f # x /\ f # Null
    <3>1. m # m + 1
      BY <1>5
    <3> QED BY <1>3, <1>4, <1>5, <1>6, <3>1
  <2>4. m # 1 /\ m # n => b # f
    <3>1. m - 1 # m + 1
      BY <1>5
    <3> QED BY <1>3, <1>5, <1>6, <3>1
  <2> QED BY <2>1, <2>2, <2>3, <2>4
<1>8. \A z \in DOMAIN heap :
        /\ heap[z] \in Node
        /\ heap[z] = [v |-> heap[z].v, p |-> heap[z].p, n |-> heap[z].n]
  <2>1. \A z \in DOMAIN heap : heap[z] \in Node
    BY DEF HashInv
  <2>2. \A r \in Node : r = [v |-> r.v, p |-> r.p, n |-> r.n]
    BY DEF Node
  <2> QED BY <2>1, <2>2
<1>9. heap = [z \in DOMAIN heap |-> heap[z]]
  BY DEF HashInv
<1>10. PICK h : h = IF m = 1 THEN heap ELSE [heap EXCEPT ![b].n = f]
  OBVIOUS
<1>11. PICK g : g = IF m = n THEN h ELSE [h EXCEPT ![f].p = b]
  OBVIOUS
<1>12. Hash!Unlinked(x) = g
  <2>1. b = Null <=> m = 1
    BY <1>6, <1>7
  <2>2. f = Null <=> m = n
    BY <1>6, <1>7
  <2>3. b = heap[x].p /\ f = heap[x].n
    BY <1>4
  <2> QED BY <1>10, <1>11, <2>1, <2>2, <2>3 DEF Hash!Unlinked
<1>13. /\ DOMAIN h = DOMAIN heap
       /\ \A z \in DOMAIN heap :
            h[z] = [v |-> heap[z].v, p |-> heap[z].p,
                    n |-> IF m # 1 /\ z = b THEN f ELSE heap[z].n]
  <2>1. CASE m = 1
    BY <1>8, <1>10, <2>1
  <2>2. CASE m # 1
    <3>1. /\ DOMAIN h = DOMAIN heap
          /\ h[b] = [heap[b] EXCEPT !.n = f]
          /\ \A z \in DOMAIN heap : z # b => h[z] = heap[z]
      BY <1>7, <1>9, <1>10, <2>2
    <3>2. h[b] = [v |-> heap[b].v, p |-> heap[b].p, n |-> f]
      BY <1>7, <1>8, <2>2, <3>1 DEF Node
    <3> QED BY <1>8, <2>2, <3>1, <3>2
  <2> QED BY <2>1, <2>2
<1>14. /\ DOMAIN g = DOMAIN heap
       /\ \A z \in DOMAIN heap :
            g[z] = [v |-> heap[z].v,
                    p |-> IF m # n /\ z = f THEN b ELSE heap[z].p,
                    n |-> IF m # 1 /\ z = b THEN f ELSE heap[z].n]
  <2>1. CASE m = n
    BY <1>11, <1>13, <2>1
  <2>2. CASE m # n
    <3>1. h = [z \in DOMAIN heap |-> h[z]]
      BY <1>9, <1>10
    <3>2. /\ DOMAIN g = DOMAIN heap
          /\ g[f] = [h[f] EXCEPT !.p = b]
          /\ \A z \in DOMAIN heap : z # f => g[z] = h[z]
      BY <1>7, <1>11, <1>13, <2>2, <3>1
    <3>3. PICK e : e = IF m # 1 /\ f = b THEN f ELSE heap[f].n
      OBVIOUS
    <3>4. h[f] = [v |-> heap[f].v, p |-> heap[f].p, n |-> e]
      BY <1>7, <1>13, <2>2, <3>3
    <3>5. g[f] = [v |-> heap[f].v, p |-> b, n |-> e]
      BY <3>2, <3>4
    <3> QED BY <1>13, <2>2, <3>2, <3>3, <3>5
  <2> QED BY <2>1, <2>2
<1>15. Hash!Without(g, {x}) = [z \in DOMAIN heap \ {x} |-> g[z]]
  BY <1>14 DEF Hash!Without, Hash!Restrict
<1>16. Shrunk(heap, s, m)
         = [z \in DOMAIN heap \ {x} |->
              [v |-> heap[z].v,
               p |-> IF m # n /\ z = f THEN b ELSE heap[z].p,
               n |-> IF m # 1 /\ z = b THEN f ELSE heap[z].n]]
  <2>1. \A z : (m < Len(s) /\ z = s[m + 1]) <=> (m # n /\ z = f)
    BY <1>2, <1>5, <1>6
  <2>2. \A z : (m > 1 /\ z = s[m - 1]) <=> (m # 1 /\ z = b)
    BY <1>5, <1>6
  <2> QED BY <1>4, <2>1, <2>2 DEF Shrunk
<1> QED BY <1>4, <1>12, <1>14, <1>15, <1>16

LEMMA RemoveStep ==
  ASSUME HashInv, NEW c \in Containers, NEW k \in Keys,
         Hash!Remove(c, k), Hash!Promised!Drop(c, k)
  PROVE  HashInv'
<1>1. PICK s : ListOk(heap, hash[c], seqs[c], s, head[c], tail[c])
  BY DEF HashInv, Listed
<1>2. Holding(heap, hash[c], seqs[c], s, head[c], tail[c])
  BY <1>1, ListFacts
<1>3. PICK n \in Nat : n = Len(s)
  BY <1>2 DEF Holding
<1>4. PICK m \in 1..Len(seqs[c]) :
        seqs[c][m] = k /\ seqs' = [seqs EXCEPT ![c] = Hash!Promised!RemoveAt(@, m)]
  BY DEF Hash!Promised!Drop
<1>5. PICK x, q, t, hs :
        /\ x = s[m] /\ q = Hash!Promised!RemoveAt(seqs[c], m)
        /\ t = Hash!Promised!RemoveAt(s, m) /\ hs = Hash!Without(hash[c], {seqs[c][m]})
  OBVIOUS
<1>6. /\ m \in 1..Len(s) /\ m \in 1..n /\ hash[c][k] = x /\ k \in DOMAIN hash[c]
      /\ (m # 1 => m - 1 \in 1..n) /\ (m # n => m + 1 \in 1..n)
      /\ (m < n <=> m # n) /\ (m > 1 <=> m # 1)
  BY <1>2, <1>3, <1>4, <1>5 DEF Holding
<1>7. \A i \in 1..n : /\ s[i] \in Nodes /\ s[i] \in DOMAIN heap
                      /\ heap[s[i]].p = IF i = 1 THEN Null ELSE s[i - 1]
                      /\ heap[s[i]].n = IF i = n THEN Null ELSE s[i + 1]
                      /\ \A j \in 1..n : s[i] = s[j] => i = j
  BY <1>2, <1>3 DEF Holding
<1>8. fault' = FALSE
  <2>1. {heap[x].p, heap[x].n} \ {Null} \subseteq DOMAIN heap
    BY <1>5, <1>6, <1>7
  <2>2. fault' = ~({heap[x].p, heap[x].n} \ {Null} \subseteq DOMAIN heap)
    BY <1>6 DEF Hash!Remove, Hash!Uses, Hash!Live
  <2> QED BY <2>1, <2>2
<1>9. /\ heap' = Hash!Without(Hash!Unlinked(x), {x})
      /\ head' = [head EXCEPT ![c] = IF @ = x THEN heap[x].n ELSE @]
      /\ tail' = [tail EXCEPT ![c] = IF @ = x THEN heap[x].p ELSE @]
      /\ hash' = [hash EXCEPT ![c] = Hash!Without(@, {k})]
  BY <1>6, <1>8 DEF Hash!Remove
<1>10. PICK hd, tl : /\ hd = IF head[c] = s[m] THEN heap[s[m]].n ELSE head[c]
                     /\ tl = IF tail[c] = s[m] THEN heap[s[m]].p ELSE tail[c]
  OBVIOUS
<1>11. /\ hash = [d \in Containers |-> hash[d]] /\ seqs = [d \in Containers |-> seqs[d]]
       /\ head = [d \in Containers |-> head[d]] /\ tail = [d \in Containers |-> tail[d]]
  BY DEF HashInv
<1>12. hash' = Changed(hash, c, hs)
  <2>1. hash' = [hash EXCEPT ![c] = hs]
    BY <1>4, <1>5, <1>9
  <2> QED BY <1>11, <2>1, ChangedAt
<1>13. seqs' = Changed(seqs, c, q)
  <2>1. seqs' = [seqs EXCEPT ![c] = q]
    BY <1>4, <1>5
  <2> QED BY <1>11, <2>1, ChangedAt
<1>14. head' = Changed(head, c, hd)
  <2>1. head' = [head EXCEPT ![c] = hd]
    BY <1>5, <1>9, <1>10
  <2> QED BY <1>11, <2>1, ChangedAt
<1>15. tail' = Changed(tail, c, tl)
  <2>1. tail' = [tail EXCEPT ![c] = tl]
    BY <1>5, <1>9, <1>10
  <2> QED BY <1>11, <2>1, ChangedAt
<1>16. PICK g : g = heap'
  OBVIOUS
<1>17. g = Shrunk(heap, s, m)
  BY <1>1, <1>5, <1>6, <1>9, <1>16, RemoveShrinks
<1>18. /\ DOMAIN g = DOMAIN heap \ {x} /\ g = [z \in DOMAIN g |-> g[z]]
       /\ \A z \in DOMAIN g :
            g[z] = [v |-> heap[z].v,
                    p |-> IF m < n /\ z = s[m + 1] THEN heap[x].p ELSE heap[z].p,
                    n |-> IF m > 1 /\ z = s[m - 1] THEN heap[x].n ELSE heap[z].n]
  BY <1>3, <1>5, <1>17 DEF Shrunk
<1>19. DOMAIN g \subseteq Nodes
  BY <1>18 DEF HashInv
<1>20. g \in [DOMAIN g -> Node]
  <2>1. ASSUME NEW z \in DOMAIN g PROVE g[z] \in Node
    <3>1. z \in DOMAIN heap /\ x \in DOMAIN heap
      BY <1>5, <1>6, <1>7, <1>18
    <3>2. /\ heap[z].v \in Keys /\ heap[z].p \in Nodes \cup {Null}
          /\ heap[z].n \in Nodes \cup {Null} /\ heap[x].p \in Nodes \cup {Null}
          /\ heap[x].n \in Nodes \cup {Null}
      BY <3>1 DEF HashInv, Node
    <3>3. /\ (IF m < n /\ z = s[m + 1] THEN heap[x].p ELSE heap[z].p)
               \in Nodes \cup {Null}
          /\ (IF m > 1 /\ z = s[m - 1] THEN heap[x].n ELSE heap[z].n)
               \in Nodes \cup {Null}
      BY <3>2
    <3> QED BY <1>18, <3>2, <3>3 DEF Node
  <2> QED BY <1>18, <2>1
<1>21. \A i \in 1..Len(s) : i # m =>
         /\ s[i] \in DOMAIN g
         /\ g[s[i]].v = heap[s[i]].v
         /\ g[s[i]].p = IF i = m + 1 THEN heap[s[m]].p ELSE heap[s[i]].p
         /\ g[s[i]].n = IF i = m - 1 THEN heap[s[m]].n ELSE heap[s[i]].n
  <2> SUFFICES ASSUME NEW i \in 1..n, i # m
               PROVE  /\ s[i] \in DOMAIN g
                      /\ g[s[i]].v = heap[s[i]].v
                      /\ g[s[i]].p = IF i = m + 1 THEN heap[s[m]].p ELSE heap[s[i]].p
                      /\ g[s[i]].n = IF i = m - 1 THEN heap[s[m]].n ELSE heap[s[i]].n
    BY <1>3
  <2>1. s[i] \in DOMAIN g
    BY <1>5, <1>6, <1>7, <1>18
  <2>2. (m < n /\ s[i] = s[m + 1]) <=> i = m + 1
    BY <1>6, <1>7
  <2>3. (m > 1 /\ s[i] = s[m - 1]) <=> i = m - 1
    BY <1>6, <1>7
  <2>4. g[s[i]] = [v |-> heap[s[i]].v,
                   p |-> IF m < n /\ s[i] = s[m + 1] THEN heap[x].p ELSE heap[s[i]].p,
                   n |-> IF m > 1 /\ s[i] = s[m - 1] THEN heap[x].n ELSE heap[s[i]].n]
    BY <1>18, <2>1
  <2>5. g[s[i]] = [v |-> heap[s[i]].v,
                   p |-> IF i = m + 1 THEN heap[x].p ELSE heap[s[i]].p,
                   n |-> IF i = m - 1 THEN heap[x].n ELSE heap[s[i]].n]
    BY <2>2, <2>3, <2>4, Zenon
  <2> QED BY <1>5, <2>1, <2>5
<1>22. ListOk(g, hs, q, t, hd, tl)
  <2>1. Null \notin Nodes
    BY ContainersAssumption
  <2>2. LinkedOut(heap, g, s, m)
    BY <1>21 DEF LinkedOut
  <2> QED BY <1>1, <1>5, <1>6, <1>10, <2>1, <2>2, RemovedList
<1>23. Hash!Range(hs) = Hash!Range(hash[c]) \ {x}
  <2>1. /\ DOMAIN hs = DOMAIN hash[c] \ {k}
        /\ \A j \in DOMAIN hs : hs[j] = hash[c][j]
    BY <1>4, <1>5 DEF Hash!Without, Hash!Restrict
  <2>2. \A j \in DOMAIN hash[c] : hash[c][j] = x => j = k
    BY <1>2, <1>3, <1>4, <1>5, <1>6 DEF Holding
  <2> QED BY <1>6, <2>1, <2>2 DEF Hash!Range
<1>24. ASSUME NEW d \in Containers, d # c, NEW z \in Hash!Range(hash[d])
       PROVE  z \in DOMAIN g /\ g[z] = heap[z]
  <2>1. z \in DOMAIN heap
    BY OwnNodes
  <2>2. z \notin Hash!Range(hash[c])
    BY <1>24 DEF HashInv, Owned
  <2>3. \A i \in 1..n : z # s[i]
    BY <1>2, <1>3, <2>2 DEF Holding
  <2>4. z \in DOMAIN g
    BY <1>5, <1>6, <1>18, <2>1, <2>3
  <2>5. g[z] = [v |-> heap[z].v, p |-> heap[z].p, n |-> heap[z].n]
    BY <1>6, <1>18, <2>3, <2>4
  <2>6. heap[z] \in Node
    BY <2>1 DEF HashInv
  <2> QED BY <2>4, <2>5, <2>6 DEF Node
<1>25. /\ \A z \in DOMAIN g : z \in DOMAIN heap \/ z \in Hash!Range(hs)
       /\ \A z \in Hash!Range(hash[c]) : z \in DOMAIN g => z \in Hash!Range(hs)
       /\ \A z \in Hash!Range(hs) : z \in Hash!Range(hash[c]) \/ z \notin DOMAIN heap
  BY <1>18, <1>23
<1> QED BY <1>8, <1>12, <1>13, <1>14, <1>15, <1>16, <1>19, <1>20, <1>22, <1>24,
           <1>25, OneChanged

\* Deleting every node of container c.
LEMMA EmptiedFacts ==
  ASSUME HashInv, NEW c \in Containers, Hash!Emptied(c)
  PROVE  /\ fault' = FALSE
         /\ DOMAIN heap' = DOMAIN heap \ Hash!Range(hash[c])
         /\ heap' = [a \in DOMAIN heap' |-> heap'[a]]
         /\ \A a \in DOMAIN heap' : heap'[a] = heap[a]
<1>1. PICK s : ListOk(heap, hash[c], seqs[c], s, head[c], tail[c])
  BY DEF HashInv, Listed
<1>2. Holding(heap, hash[c], seqs[c], s, head[c], tail[c])
  BY <1>1, ListFacts
<1>3. Hash!Visited(c) = s
  BY <1>1, Traversal DEF HashInv
<1>4. Hash!Range(s) \subseteq DOMAIN heap /\ Hash!IsInjective(s)
      /\ Hash!Range(s) = Hash!Range(hash[c])
  BY <1>2 DEF Holding
<1>5. fault' = ~(Hash!Range(s) \subseteq DOMAIN heap /\ Hash!IsInjective(s))
  BY <1>3 DEF Hash!Emptied, Hash!Live
<1>6. fault' = FALSE
  BY <1>4, <1>5
<1>7. heap' = Hash!Without(heap, Hash!Range(hash[c]))
  BY <1>3, <1>4, <1>6 DEF Hash!Emptied
<1> QED BY <1>6, <1>7 DEF Hash!Without, Hash!Restrict

LEMMA ClearStep ==
  ASSUME HashInv, NEW c \in Containers,
         Hash!Clear(c), Hash!Promised!Clear(c)
  PROVE  HashInv'
<1>1. PICK e : e = <<>>
  OBVIOUS
<1>2. /\ hash = [d \in Containers |-> hash[d]] /\ seqs = [d \in Containers |-> seqs[d]]
      /\ head = [d \in Containers |-> head[d]] /\ tail = [d \in Containers |-> tail[d]]
  BY DEF HashInv
<1>3. /\ hash' = [hash EXCEPT ![c] = e] /\ seqs' = [seqs EXCEPT ![c] = e]
      /\ head' = [head EXCEPT ![c] = Null] /\ tail' = [tail EXCEPT ![c] = Null]
  BY <1>1 DEF Hash!Clear, Hash!Promised!Clear
<1>4. hash' = Changed(hash, c, e)
  BY <1>2, <1>3, ChangedAt
<1>5. seqs' = Changed(seqs, c, e)
  BY <1>2, <1>3, ChangedAt
<1>6. head' = Changed(head, c, Null)
  BY <1>2, <1>3, ChangedAt
<1>7. tail' = Changed(tail, c, Null)
  BY <1>2, <1>3, ChangedAt
<1>8. /\ fault' = FALSE
      /\ DOMAIN heap' = DOMAIN heap \ Hash!Range(hash[c])
      /\ heap' = [a \in DOMAIN heap' |-> heap'[a]]
      /\ \A a \in DOMAIN heap' : heap'[a] = heap[a]
  BY EmptiedFacts DEF Hash!Clear
<1>9. DOMAIN heap' \subseteq Nodes /\ heap' \in [DOMAIN heap' -> Node]
  <2>1. DOMAIN heap \subseteq Nodes /\ \A a \in DOMAIN heap : heap[a] \in Node
    BY DEF HashInv
  <2>2. \A a \in DOMAIN heap' : heap'[a] \in Node
    BY <1>8, <2>1
  <2> QED BY <1>8, <2>1, <2>2
<1>10. ListOk(heap', e, e, e, Null, Null)
  BY <1>1, EmptyList
<1>11. Hash!Range(e) = {}
  BY <1>1 DEF Hash!Range
<1>12. \A d \in Containers : d # c =>
         \A a \in Hash!Range(hash[d]) : a \in DOMAIN heap' /\ heap'[a] = heap[a]
  BY <1>8, OwnNodes DEF HashInv, Owned
<1> QED BY <1>4, <1>5, <1>6, <1>7, <1>8, <1>9, <1>10, <1>11, <1>12, OneChanged

LEMMA SwapStep ==
  ASSUME HashInv, NEW c \in Containers, NEW d \in Containers, c # d,
         Hash!Swap(c, d), Hash!Promised!Swap(c, d)
  PROVE  HashInv'
<1>1. /\ hash = [e \in Containers |-> hash[e]] /\ seqs = [e \in Containers |-> seqs[e]]
      /\ head = [e \in Containers |-> head[e]] /\ tail = [e \in Containers |-> tail[e]]
  BY DEF HashInv
<1>2. PICK of : of = [e \in Containers |-> IF e = c THEN d ELSE IF e = d THEN c ELSE e]
  OBVIOUS
<1>3. /\ \A e \in Containers : of[e] \in Containers /\ of[of[e]] = e
      /\ \A e, x \in Containers : e # x => of[e] # of[x]
  BY <1>2
<1>4. /\ hash' = [e \in Containers |-> hash[of[e]]]
      /\ head' = [e \in Containers |-> head[of[e]]]
      /\ tail' = [e \in Containers |-> tail[of[e]]]
      /\ seqs' = [e \in Containers |-> seqs[of[e]]]
  <2>1. hash' = [e \in Containers |-> hash[of[e]]]
    BY <1>1, <1>2 DEF Hash!Swap
  <2>2. head' = [e \in Containers |-> head[of[e]]]
    BY <1>1, <1>2 DEF Hash!Swap
  <2>3. tail' = [e \in Containers |-> tail[of[e]]]
    BY <1>1, <1>2 DEF Hash!Swap
  <2>4. seqs' = [e \in Containers |-> seqs[of[e]]]
    BY <1>1, <1>2 DEF Hash!Promised!Swap
  <2> QED BY <2>1, <2>2, <2>3, <2>4
<1>5. heap' = heap /\ fault' = fault
  BY DEF Hash!Swap
<1>6. \A e \in Containers : Listed(e)'
  <2>1. \A e \in Containers : Listed(of[e])
    BY <1>3 DEF HashInv
  <2> QED BY <1>4, <1>5, <2>1 DEF Listed
<1>7. Owned'
  <2>1. \A e \in Containers : hash'[e] = hash[of[e]]
    BY <1>4
  <2>2. ASSUME NEW a \in DOMAIN heap'
        PROVE  \E e \in Containers : a \in Hash!Range(hash'[e])
    <3>1. PICK e \in Containers : a \in Hash!Range(hash[e])
      BY <1>5 DEF HashInv, Owned
    <3>2. of[e] \in Containers /\ hash'[of[e]] = hash[e]
      BY <1>3, <2>1
    <3> QED BY <3>1, <3>2
  <2>3. ASSUME NEW e \in Containers, NEW x \in Containers, e # x
        PROVE  Hash!Range(hash'[e]) \cap Hash!Range(hash'[x]) = {}
    <3>1. of[e] \in Containers /\ of[x] \in Containers /\ of[e] # of[x]
      BY <1>3, <2>3
    <3>2. Hash!Range(hash[of[e]]) \cap Hash!Range(hash[of[x]]) = {}
      BY <3>1 DEF HashInv, Owned
    <3> QED BY <2>1, <3>2
  <2> QED BY <2>2, <2>3 DEF Owned
<1>8. fault' = FALSE /\ DOMAIN heap' \subseteq Nodes /\ heap' \in [DOMAIN heap' -> Node]
  BY <1>5 DEF HashInv
<1>9. /\ hash' = [e \in Containers |-> hash'[e]]
      /\ head' = [e \in Containers |-> head'[e]]
      /\ tail' = [e \in Containers |-> tail'[e]]
      /\ seqs' = [e \in Containers |-> seqs'[e]]
  BY <1>4
<1> QED BY <1>6, <1>7, <1>8, <1>9 DEF HashInv

LEMMA MoveStep ==
  ASSUME HashInv, NEW c \in Containers, NEW d \in Containers, c # d,
         Hash!Move(c, d), Hash!Promised!Move(c, d)
  PROVE  HashInv'
<1>1. /\ hash = [e \in Containers |-> hash[e]] /\ seqs = [e \in Containers |-> seqs[e]]
      /\ head = [e \in Containers |-> head[e]] /\ tail = [e \in Containers |-> tail[e]]
  BY DEF HashInv
<1>2. PICK none : none = <<>>
  OBVIOUS
<1>3. \A e \in Containers :
        /\ hash'[e] = IF e = d THEN none ELSE IF e = c THEN hash[d] ELSE hash[e]
        /\ seqs'[e] = IF e = d THEN none ELSE IF e = c THEN seqs[d] ELSE seqs[e]
        /\ head'[e] = IF e = d THEN Null ELSE IF e = c THEN head[d] ELSE head[e]
        /\ tail'[e] = IF e = d THEN Null ELSE IF e = c THEN tail[d] ELSE tail[e]
  <2>1. /\ hash' = [hash EXCEPT ![c] = hash[d], ![d] = none]
        /\ seqs' = [seqs EXCEPT ![c] = seqs[d], ![d] = none]
        /\ head' = [head EXCEPT ![c] = head[d], ![d] = Null]
        /\ tail' = [tail EXCEPT ![c] = tail[d], ![d] = Null]
    BY <1>2 DEF Hash!Move, Hash!Promised!Move
  <2> QED BY <1>1, <2>1
<1>4. /\ hash' = [e \in Containers |-> hash'[e]]
      /\ head' = [e \in Containers |-> head'[e]]
      /\ tail' = [e \in Containers |-> tail'[e]]
      /\ seqs' = [e \in Containers |-> seqs'[e]]
  <2>1. /\ hash' = [hash EXCEPT ![c] = hash[d], ![d] = none]
        /\ seqs' = [seqs EXCEPT ![c] = seqs[d], ![d] = none]
        /\ head' = [head EXCEPT ![c] = head[d], ![d] = Null]
        /\ tail' = [tail EXCEPT ![c] = tail[d], ![d] = Null]
    BY <1>2 DEF Hash!Move, Hash!Promised!Move
  <2> QED BY <1>1, <2>1
<1>5. /\ fault' = FALSE
      /\ DOMAIN heap' = DOMAIN heap \ Hash!Range(hash[c])
      /\ heap' = [a \in DOMAIN heap' |-> heap'[a]]
      /\ \A a \in DOMAIN heap' : heap'[a] = heap[a]
  BY EmptiedFacts DEF Hash!Move
<1>6. DOMAIN heap' \subseteq Nodes /\ heap' \in [DOMAIN heap' -> Node]
  <2>1. DOMAIN heap \subseteq Nodes /\ \A a \in DOMAIN heap : heap[a] \in Node
    BY DEF HashInv
  <2>2. \A a \in DOMAIN heap' : heap'[a] \in Node
    BY <1>5, <2>1
  <2> QED BY <1>5, <2>1, <2>2
<1>7. Hash!Range(none) = {}
  BY <1>2 DEF Hash!Range
<1>8. Owned'
  <2>1. \A a \in DOMAIN heap : \E e \in Containers : a \in Hash!Range(hash[e])
    BY DEF HashInv, Owned
  <2>2. \A e, x \in Containers :
          e # x => Hash!Range(hash[e]) \cap Hash!Range(hash[x]) = {}
    BY DEF HashInv, Owned
  <2>3. ASSUME NEW a \in DOMAIN heap'
        PROVE  \E e \in Containers : a \in Hash!Range(hash'[e])
    <3>1. a \in DOMAIN heap /\ a \notin Hash!Range(hash[c])
      BY <1>5
    <3>2. PICK e \in Containers : a \in Hash!Range(hash[e])
      BY <2>1, <3>1
    <3>3. CASE e = d
      BY <1>3, <3>2, <3>3
    <3>4. CASE e # d
      BY <1>3, <3>1, <3>2, <3>4
    <3> QED BY <3>3, <3>4
  <2>4. ASSUME NEW e \in Containers, NEW x \in Containers, e # x,
               NEW a, a \in Hash!Range(hash'[e]), a \in Hash!Range(hash'[x])
        PROVE  FALSE
    <3>1. e # d /\ x # d
      BY <1>3, <1>7, <2>4
    <3>2. /\ hash'[e] = IF e = c THEN hash[d] ELSE hash[e]
          /\ hash'[x] = IF x = c THEN hash[d] ELSE hash[x]
      BY <1>3, <3>1
    <3>3. \A y, z \in Containers :
            a \in Hash!Range(hash[y]) /\ a \in Hash!Range(hash[z]) => y = z
      BY <2>2
    <3> QED BY <2>4, <3>1, <3>2, <3>3
  <2>5. \A e, x \in Containers :
          e # x => Hash!Range(hash'[e]) \cap Hash!Range(hash'[x]) = {}
    BY <2>4
  <2> QED BY <2>3, <2>5 DEF Owned
<1>9. ASSUME NEW e \in Containers PROVE Listed(e)'
  <2>1. CASE e = d
    <3>1. ListOk(heap', none, none, none, Null, Null)
      BY <1>2, EmptyList
    <3> QED BY <1>3, <2>1, <3>1 DEF Listed
  <2>2. ASSUME NEW x \in Containers, x # c
        PROVE  \E s : ListOk(heap', hash[x], seqs[x], s, head[x], tail[x])
    <3>1. \A a \in Hash!Range(hash[x]) : a \in DOMAIN heap' /\ heap'[a] = heap[a]
      BY <1>5, <2>2, OwnNodes DEF HashInv, Owned
    <3> QED BY <3>1, KeptListed
  <2>3. CASE e = c
    <3>1. \E s : ListOk(heap', hash[d], seqs[d], s, head[d], tail[d])
      BY <2>2
    <3> QED BY <1>3, <2>3, <3>1 DEF Listed
  <2>4. CASE e # d /\ e # c
    <3>1. \E s : ListOk(heap', hash[e], seqs[e], s, head[e], tail[e])
      BY <2>2, <2>4
    <3> QED BY <1>3, <2>4, <3>1 DEF Listed
  <2> QED BY <2>1, <2>3, <2>4
<1> QED BY <1>4, <1>5, <1>6, <1>8, <1>9 DEF HashInv

LEMMA HashStarts == Hash!Init => HashInv
<1> SUFFICES ASSUME Hash!Init PROVE HashInv
  OBVIOUS
<1>1. PICK e : e = <<>>
  OBVIOUS
<1>2. /\ heap = e /\ hash = [c \in Containers |-> e] /\ fault = FALSE
      /\ head = [c \in Containers |-> Null] /\ tail = [c \in Containers |-> Null]
      /\ seqs = [c \in Containers |-> e]
  BY <1>1 DEF Hash!Init, Hash!Promised!Init
<1>3. DOMAIN e = {} /\ Hash!Range(e) = {} /\ e \in [DOMAIN e -> Node]
  BY <1>1 DEF Hash!Range
<1>4. Owned
  BY <1>2, <1>3 DEF Owned
<1>5. ASSUME NEW c \in Containers PROVE Listed(c)
  <2>1. ListOk(heap, e, e, e, Null, Null)
    BY <1>1, EmptyList
  <2> QED BY <1>2, <2>1 DEF Listed
<1>6. /\ hash = [c \in Containers |-> hash[c]] /\ seqs = [c \in Containers |-> seqs[c]]
      /\ head = [c \in Containers |-> head[c]] /\ tail = [c \in Containers |-> tail[c]]
  BY <1>2
<1>7. DOMAIN heap \subseteq Nodes /\ heap \in [DOMAIN heap -> Node]
  BY <1>2, <1>3
<1> QED BY <1>2, <1>4, <1>5, <1>6, <1>7 DEF HashInv

LEMMA HashSteps ==
  ASSUME HashInv, HashRulesKept, Hash!Next PROVE HashInv'
<1>1. PICK c \in Containers :
        \/ \E k \in Keys, a \in Nodes : Hash!Pushes(c, k, a)
        \/ \E k \in Keys : Hash!Remove(c, k) /\ Hash!Promised!Drop(c, k)
        \/ Hash!Clear(c) /\ Hash!Promised!Clear(c)
        \/ \E d \in Containers \ {c} :
             \/ Hash!Swap(c, d) /\ Hash!Promised!Swap(c, d)
             \/ Hash!Move(c, d) /\ Hash!Promised!Move(c, d)
  BY DEF Hash!Next
<1>2. CASE \E k \in Keys, a \in Nodes : Hash!Pushes(c, k, a)
  BY <1>2, PushesStep
<1>3. CASE \E k \in Keys : Hash!Remove(c, k) /\ Hash!Promised!Drop(c, k)
  BY <1>3, RemoveStep
<1>4. CASE Hash!Clear(c) /\ Hash!Promised!Clear(c)
  BY <1>4, ClearStep
<1>5. CASE \E d \in Containers \ {c} :
             \/ Hash!Swap(c, d) /\ Hash!Promised!Swap(c, d)
             \/ Hash!Move(c, d) /\ Hash!Promised!Move(c, d)
  BY <1>5, SwapStep, MoveStep
<1> QED BY <1>1, <1>2, <1>3, <1>4, <1>5

LEMMA HashInvariant ==
  ASSUME HashRulesKept
  PROVE  ContainersSpec => []HashInv
<1>1. ContainersInit => HashInv
  BY HashStarts DEF ContainersInit
<1>2. HashInv /\ [ContainersNext]_containerVars => HashInv'
  <2> SUFFICES ASSUME HashInv, [ContainersNext]_containerVars PROVE HashInv'
    OBVIOUS
  <2>1. CASE UNCHANGED hashVars
    BY <2>1 DEF hashVars, HashInv, Owned, Listed
  <2>2. CASE Hash!Next
    BY <2>2, HashSteps
  <2>3. UNCHANGED hashVars \/ Hash!Next
    BY DEF ContainersNext, Buffers, Hashes, Maps, Grows, containerVars
  <2> QED BY <2>1, <2>2, <2>3
<1> QED BY <1>1, <1>2, PTL DEF ContainersSpec

\* Hash and list of every container hold the same nodes, linked both ways,
\* and no node leaks, dangles or is met twice, after any history of calls
\* and whatever addresses are used again. For users who keep both rules.
THEOREM HashSafety ==
  ASSUME HashRulesKept
  PROVE  ContainersSpec => []HashListed
<1>1. HashInv => HashListed
  BY InvChecks DEF HashListed
<1> QED BY <1>1, HashInvariant, PTL

\* A traversal shows the keys in the order the calls asked for.
THEOREM OrderSafety ==
  ASSUME HashRulesKept
  PROVE  ContainersSpec => []InsertionOrder
<1>1. HashInv => InsertionOrder
  BY InvChecks DEF InsertionOrder
<1> QED BY <1>1, HashInvariant, PTL

-----------------------------------------------------------------------------
\* Tree. A walk is a recursive function over its steps; what it computes is
\* shown step by step, with UpTo.

\* Recursive functions over an interval.

\* f starts with a and takes step i by G[i].
Steps(f, n, a, G) == f[0] = a /\ \A i \in 1..n : f[i] = G[i][f[i - 1]]

\* Such a function exists.
LEMMA StepsExist ==
  ASSUME NEW S, NEW a \in S, NEW n \in Nat, NEW G \in [1..n -> [S -> S]]
  PROVE  \E f \in [0..n -> S] : Steps(f, n, a, G)
<1> DEFINE Done == {k \in 0..n : \E f \in [0..k -> S] : Steps(f, k, a, G)}
<1>1. 0 \in Done
  <2>1. [i \in 0..0 |-> a] \in [0..0 -> S]
    OBVIOUS
  <2>2. Steps([i \in 0..0 |-> a], 0, a, G)
    BY DEF Steps
  <2> QED BY <2>1, <2>2
<1>2. ASSUME NEW k \in 1..n, k - 1 \in Done
      PROVE  k \in Done
  <2>1. PICK f \in [0..(k - 1) -> S] : Steps(f, k - 1, a, G)
    BY <1>2
  <2>2. k - 1 \in 0..(k - 1) /\ f[k - 1] \in S /\ G[k] \in [S -> S]
    BY <2>1
  <2>3. PICK x \in S : x = G[k][f[k - 1]]
    BY <2>2
  <2>4. PICK g : g = [i \in 0..k |-> IF i = k THEN x ELSE f[i]]
    OBVIOUS
  <2>5. g \in [0..k -> S]
    BY <2>4
  <2>6. \A i \in 0..(k - 1) : g[i] = f[i]
    BY <2>4
  <2>7. g[0] = a
    BY <2>1, <2>6 DEF Steps
  <2>8. ASSUME NEW i \in 1..k PROVE g[i] = G[i][g[i - 1]]
    <3>1. CASE i = k
      <4>1. g[k] = x /\ g[k - 1] = f[k - 1]
        BY <2>4, <2>6
      <4> QED BY <2>3, <3>1, <4>1
    <3>2. CASE i # k
      <4>1. i \in 1..(k - 1) /\ i \in 0..(k - 1) /\ i - 1 \in 0..(k - 1)
        BY <3>2
      <4>2. f[i] = G[i][f[i - 1]]
        BY <2>1, <4>1 DEF Steps
      <4> QED BY <2>6, <4>1, <4>2
    <3> QED BY <3>1, <3>2
  <2>9. Steps(g, k, a, G)
    BY <2>7, <2>8 DEF Steps
  <2> QED BY <2>5, <2>9
<1>3. 0..n \subseteq Done
  <2> HIDE DEF Done
  <2> QED BY <1>1, <1>2, UpTo
<1> QED BY <1>3

-----------------------------------------------------------------------------
\* Flattening.

Flat(ss) == Forest!FlattenSeq(ss)

\* The functions that compute it.
Flattens(f, ss) ==
  f = [i \in 1..Len(ss) |-> IF i = 1 THEN ss[i] ELSE f[i - 1] \o ss[i]]

LEMMA FlatUnfolds ==
  ASSUME NEW ss, Len(ss) # 0, NEW g, Flattens(g, ss)
  PROVE  \E f : Flattens(f, ss) /\ Flat(ss) = f[Len(ss)]
<1>1. \E f : Flattens(f, ss)
  OBVIOUS
<1> QED BY <1>1 DEF Flattens, Flat, Forest!FlattenSeq

\* One sequence and then another: the concatenation, not looked into.
Then(s, t) == s \o t

LEMMA ThenFacts ==
  ASSUME NEW S, NEW s \in Seq(S)
  PROVE  /\ Then(s, <<>>) = s /\ Then(<<>>, s) = s
         /\ \A t \in Seq(S) : Then(s, t) \in Seq(S)
         /\ \A e \in S : Append(s, e) = Then(s, <<e>>)
<1>1. Then(s, <<>>) = s /\ Then(<<>>, s) = s
  BY ConcatEmptySeq DEF Then
<1>2. ASSUME NEW t \in Seq(S) PROVE Then(s, t) \in Seq(S)
  BY ConcatProperties DEF Then
<1>4. ASSUME NEW e \in S PROVE Append(s, e) = Then(s, <<e>>)
  BY AppendIsConcat DEF Then
<1> QED BY <1>1, <1>2, <1>4

LEMMA ThenAssociative ==
  ASSUME NEW S, NEW s \in Seq(S), NEW t \in Seq(S), NEW u \in Seq(S)
  PROVE  Then(Then(s, t), u) = Then(s, Then(t, u))
<1>1. (s \o t) \o u = s \o (t \o u)
  BY ConcatAssociative
<1> QED BY <1>1, Zenon DEF Then

LEMMA FlatNone == Flat(<<>>) = <<>>
BY DEF Flat, Forest!FlattenSeq

\* What is flattened is added up from the left.
Sums(f, S, ss) ==
  /\ f \in [0..Len(ss) -> Seq(S)]
  /\ f[0] = <<>> /\ Flat(ss) = f[Len(ss)]
  /\ \A i \in 1..Len(ss) : f[i] = Then(f[i - 1], ss[i])

LEMMA FlatSums ==
  ASSUME NEW S, NEW ss \in Seq(Seq(S))
  PROVE  \E f : Sums(f, S, ss)
<1>1. PICK n \in Nat : n = Len(ss)
  OBVIOUS
<1>2. PICK G : G = [i \in 1..n |-> [q \in Seq(S) |-> Then(q, ss[i])]]
  OBVIOUS
<1>3. \A i \in 1..n : ss[i] \in Seq(S)
  BY <1>1
<1>4. G \in [1..n -> [Seq(S) -> Seq(S)]]
  <2>1. \A i \in 1..n, q \in Seq(S) : Then(q, ss[i]) \in Seq(S)
    BY <1>3, ThenFacts
  <2> QED BY <1>2, <2>1
<1>5. <<>> \in Seq(S)
  OBVIOUS
<1>6. PICK f \in [0..n -> Seq(S)] : Steps(f, n, <<>>, G)
  BY <1>4, <1>5, StepsExist
<1>7. \A i \in 1..n : f[i - 1] \in Seq(S) /\ f[i] = Then(f[i - 1], ss[i])
  <2> SUFFICES ASSUME NEW i \in 1..n
               PROVE  f[i - 1] \in Seq(S) /\ f[i] = Then(f[i - 1], ss[i])
    OBVIOUS
  <2>1. i - 1 \in 0..n
    OBVIOUS
  <2>2. f[i - 1] \in Seq(S)
    BY <1>6, <2>1
  <2>3. f[i] = G[i][f[i - 1]]
    BY <1>6 DEF Steps
  <2> HIDE DEF Steps
  <2> QED BY <1>2, <2>2, <2>3
<1>8. f[0] = <<>>
  BY <1>6 DEF Steps
<1>9. Flat(ss) = f[n]
  <2>1. CASE n = 0
    <3>1. ss = <<>>
      BY <1>1, <2>1, EmptySeq
    <3> QED BY <1>8, <2>1, <3>1, FlatNone
  <2>2. CASE n # 0
    <3>1. PICK g : g = [i \in 1..n |-> f[i]]
      OBVIOUS
    <3>2. ASSUME NEW i \in 1..n
          PROVE  f[i] = IF i = 1 THEN ss[i] ELSE Then(g[i - 1], ss[i])
      <4>1. CASE i = 1
        <5>1. f[1] = Then(f[0], ss[1]) /\ ss[1] \in Seq(S)
          BY <1>3, <1>7, <4>1
        <5> QED BY <1>8, <4>1, <5>1, ThenFacts
      <4>2. CASE i # 1
        <5>1. i - 1 \in 1..n
          BY <4>2
        <5> QED BY <1>7, <3>1, <4>2, <5>1
      <4> QED BY <4>1, <4>2
    <3>a. \A i \in 1..n : f[i] = IF i = 1 THEN ss[i] ELSE g[i - 1] \o ss[i]
      BY <3>2 DEF Then
    <3>3. g = [i \in 1..n |-> IF i = 1 THEN ss[i] ELSE g[i - 1] \o ss[i]]
      BY <3>1, <3>a, Zenon
    <3>4. Flattens(g, ss)
      BY <1>1, <3>3, Zenon DEF Flattens
    <3>5. PICK h : Flattens(h, ss) /\ Flat(ss) = h[n]
      BY <1>1, <2>2, <3>4, FlatUnfolds
    <3>6. \A i \in 1..n : h[i] = IF i = 1 THEN ss[i] ELSE Then(h[i - 1], ss[i])
      BY <1>1, <3>5, Zenon DEF Flattens, Then
    <3>7. 0..n \subseteq {i \in 0..n : i # 0 => h[i] = f[i]}
      <4>1. 0 \in {i \in 0..n : i # 0 => h[i] = f[i]}
        OBVIOUS
      <4>2. ASSUME NEW i \in 1..n, i - 1 \in {j \in 0..n : j # 0 => h[j] = f[j]}
            PROVE  i \in {j \in 0..n : j # 0 => h[j] = f[j]}
        <5>1. CASE i = 1
          <6>1. h[1] = ss[1] /\ f[1] = ss[1]
            BY <3>2, <3>6, <5>1
          <6> QED BY <5>1, <6>1
        <5>2. CASE i # 1
          <6>1. h[i - 1] = f[i - 1]
            BY <4>2, <5>2
          <6>2. h[i] = Then(h[i - 1], ss[i]) /\ f[i] = Then(f[i - 1], ss[i])
            BY <1>7, <3>6, <5>2
          <6> QED BY <6>1, <6>2
        <5> QED BY <5>1, <5>2
      <4> QED BY <4>1, <4>2, UpTo
    <3>8. n \in 0..n
      OBVIOUS
    <3> QED BY <2>2, <3>5, <3>7, <3>8
  <2> QED BY <2>1, <2>2
<1>10. Sums(f, S, ss)
  BY <1>1, <1>6, <1>7, <1>8, <1>9 DEF Sums
<1> QED BY <1>10

LEMMA FlatType ==
  ASSUME NEW S, NEW ss \in Seq(Seq(S))
  PROVE  Flat(ss) \in Seq(S)
<1>1. PICK f : Sums(f, S, ss)
  BY FlatSums
<1> QED BY <1>1 DEF Sums

LEMMA ThenAt ==
  ASSUME NEW S, NEW s \in Seq(S), NEW t \in Seq(S)
  PROVE  /\ Len(Then(s, t)) = Len(s) + Len(t)
         /\ \A i \in 1..(Len(s) + Len(t)) :
              Then(s, t)[i] = IF i <= Len(s) THEN s[i] ELSE t[i - Len(s)]
BY ConcatProperties DEF Then

LEMMA FlatAppend ==
  ASSUME NEW S, NEW ss \in Seq(Seq(S)), NEW s \in Seq(S)
  PROVE  Flat(Then(ss, <<s>>)) = Then(Flat(ss), s)
<1>1. PICK n \in Nat : n = Len(ss)
  OBVIOUS
<1>a. PICK one \in Seq(Seq(S)) : one = <<s>>
  <2>1. <<s>> \in Seq(Seq(S))
    OBVIOUS
  <2> QED BY <2>1, Zenon
<1>b. Len(one) = 1 /\ one[1] = s
  BY <1>a
<1>2. PICK tt \in Seq(Seq(S)) : tt = Then(ss, one)
  BY ThenFacts
<1>3. Len(tt) = n + 1 /\ tt[n + 1] = s /\ \A i \in 1..n : tt[i] = ss[i]
  <2>1. /\ Len(tt) = Len(ss) + Len(one)
        /\ \A i \in 1..(Len(ss) + Len(one)) :
             tt[i] = IF i <= Len(ss) THEN ss[i] ELSE one[i - Len(ss)]
    BY <1>2, ThenAt
  <2>2. Len(tt) = n + 1 /\ \A i \in 1..(n + 1) : tt[i] = IF i <= n THEN ss[i] ELSE one[i - n]
    BY <1>1, <1>b, <2>1
  <2>3. n + 1 \in 1..(n + 1) /\ ~(n + 1 <= n) /\ (n + 1) - n = 1
    OBVIOUS
  <2>4. \A i \in 1..n : i \in 1..(n + 1) /\ i <= n
    OBVIOUS
  <2>5. tt[n + 1] = one[1]
    BY <2>2, <2>3
  <2> QED BY <1>b, <2>2, <2>4, <2>5
<1>4. PICK f \in [0..n -> Seq(S)] : /\ f[0] = <<>> /\ Flat(ss) = f[n]
                                    /\ \A i \in 1..n : f[i] = Then(f[i - 1], ss[i])
  <2>1. PICK f : Sums(f, S, ss)
    BY FlatSums
  <2> QED BY <1>1, <2>1 DEF Sums
<1>5. PICK g \in [0..(n + 1) -> Seq(S)] :
        /\ g[0] = <<>> /\ Flat(tt) = g[n + 1]
        /\ \A i \in 1..(n + 1) : g[i] = Then(g[i - 1], tt[i])
  <2>1. PICK g : Sums(g, S, tt)
    BY FlatSums
  <2> QED BY <1>3, <2>1 DEF Sums
<1>6. 0..n \subseteq {i \in 0..n : f[i] = g[i]}
  <2>1. 0 \in {i \in 0..n : f[i] = g[i]}
    BY <1>4, <1>5
  <2>2. ASSUME NEW i \in 1..n, i - 1 \in {j \in 0..n : f[j] = g[j]}
        PROVE  i \in {j \in 0..n : f[j] = g[j]}
    <3>1. f[i] = Then(f[i - 1], ss[i]) /\ g[i] = Then(g[i - 1], tt[i])
          /\ f[i - 1] = g[i - 1] /\ tt[i] = ss[i]
      <4>1. i \in 1..(n + 1)
        OBVIOUS
      <4> QED BY <1>3, <1>4, <1>5, <2>2, <4>1
    <3> QED BY <3>1
  <2> QED BY <2>1, <2>2, UpTo
<1>7. g[n + 1] = Then(g[n], tt[n + 1]) /\ f[n] = g[n]
  <2>1. n + 1 \in 1..(n + 1) /\ (n + 1) - 1 = n /\ n \in 0..n
    OBVIOUS
  <2> QED BY <1>5, <1>6, <2>1
<1> QED BY <1>a, <1>2, <1>3, <1>4, <1>5, <1>7

LEMMA FlatConcat ==
  ASSUME NEW S, NEW ss \in Seq(Seq(S)), NEW tt \in Seq(Seq(S))
  PROVE  Flat(Then(ss, tt)) = Then(Flat(ss), Flat(tt))
<1>1. PICK n \in Nat : n = Len(tt)
  OBVIOUS
<1> DEFINE Part(i) == SubSeq(tt, 1, i)
<1>2. ASSUME NEW i \in 0..n PROVE Part(i) \in Seq(Seq(S))
  <2>1. \A j \in 1..i : tt[j] \in Seq(S)
    BY <1>1
  <2> QED BY <2>1, SubSeqProperties
<1>3. ASSUME NEW i \in 1..n
      PROVE  /\ tt[i] \in Seq(S) /\ Part(i) = Then(Part(i - 1), <<tt[i]>>)
             /\ Then(ss, Part(i)) = Then(Then(ss, Part(i - 1)), <<tt[i]>>)
  <2>1. tt[i] \in Seq(S)
    BY <1>1
  <2>2. 1 \in 1..Len(tt) /\ i \in 1..Len(tt)
    BY <1>1
  <2>3. Part(i) = Then(Part(i - 1), <<tt[i]>>)
    BY <2>2, SubSeqRecursiveSecond DEF Then
  <2>4. Part(i - 1) \in Seq(Seq(S))
    BY <1>2
  <2>5. <<tt[i]>> \in Seq(Seq(S))
    BY <2>1
  <2> HIDE DEF Part
  <2>6. Then(Then(ss, Part(i - 1)), <<tt[i]>>) = Then(ss, Then(Part(i - 1), <<tt[i]>>))
    <3>1. PICK p, q : p = Part(i - 1) /\ q = <<tt[i]>>
      OBVIOUS
    <3>2. p \in Seq(Seq(S)) /\ q \in Seq(Seq(S))
      BY <2>4, <2>5, <3>1, Zenon
    <3>3. Then(Then(ss, p), q) = Then(ss, Then(p, q))
      BY <3>2, ThenAssociative
    <3> QED BY <3>1, <3>3, Zenon
  <2> QED BY <2>1, <2>3, <2>6
<1> DEFINE Good == {i \in 0..n : Flat(Then(ss, Part(i))) = Then(Flat(ss), Flat(Part(i)))}
<1>4. 0 \in Good
  <2>1. Part(0) = <<>>
    BY SubSeqEmpty
  <2>2. Flat(ss) \in Seq(S)
    BY FlatType
  <2>3. Then(ss, <<>>) = ss /\ Then(Flat(ss), <<>>) = Flat(ss)
    BY <2>2, ThenFacts
  <2>4. Flat(Then(ss, <<>>)) = Then(Flat(ss), Flat(<<>>))
    BY <2>3, FlatNone
  <2> HIDE DEF Part
  <2> QED BY <2>1, <2>4
<1>5. ASSUME NEW i \in 1..n, i - 1 \in Good PROVE i \in Good
  <2> HIDE DEF Part
  <2>0. i - 1 \in 0..n
    OBVIOUS
  <2>1. Part(i - 1) \in Seq(Seq(S)) /\ tt[i] \in Seq(S)
    BY <1>2, <1>3, <2>0
  <2>2. Then(ss, Part(i - 1)) \in Seq(Seq(S))
    BY <2>1, ThenFacts
  <2>3. Flat(Then(ss, Part(i))) = Then(Flat(Then(ss, Part(i - 1))), tt[i])
    BY <1>3, <2>1, <2>2, FlatAppend
  <2>4. Flat(Part(i)) = Then(Flat(Part(i - 1)), tt[i])
    BY <1>3, <2>1, FlatAppend
  <2>5. Flat(ss) \in Seq(S) /\ Flat(Part(i - 1)) \in Seq(S)
    BY <2>1, FlatType
  <2>6. Then(Then(Flat(ss), Flat(Part(i - 1))), tt[i])
          = Then(Flat(ss), Then(Flat(Part(i - 1)), tt[i]))
    BY <2>1, <2>5, ThenAssociative
  <2>7. Flat(Then(ss, Part(i - 1))) = Then(Flat(ss), Flat(Part(i - 1)))
    BY <1>5
  <2> QED BY <2>3, <2>4, <2>6, <2>7
<1>6. 0..n \subseteq Good
  <2> HIDE DEF Good
  <2> QED BY <1>4, <1>5, UpTo
<1>7. n \in Good
  <2> HIDE DEF Good
  <2> QED BY <1>6
<1>8. Part(n) = tt
  BY <1>1, SubSeqFull
<1> QED BY <1>7, <1>8

\* One sequence each for the elements of another.
Mapped(f, s) == [i \in DOMAIN s |-> f[s[i]]]

LEMMA MappedType ==
  ASSUME NEW S, NEW T, NEW f \in [S -> T], NEW s \in Seq(S)
  PROVE  /\ Mapped(f, s) \in Seq(T) /\ Len(Mapped(f, s)) = Len(s)
         /\ \A i \in 1..Len(s) : Mapped(f, s)[i] = f[s[i]]
<1>1. PICK n \in Nat : n = Len(s)
  OBVIOUS
<1>2. DOMAIN s = 1..n /\ \A i \in 1..n : s[i] \in S
  BY <1>1
<1>3. Mapped(f, s) = [i \in 1..n |-> f[s[i]]]
  BY <1>2 DEF Mapped
<1>4. \A i \in 1..n : f[s[i]] \in T
  BY <1>2
<1> QED BY <1>1, <1>3, <1>4

LEMMA MappedOne ==
  ASSUME NEW S, NEW T, NEW f \in [S -> T], NEW e \in S
  PROVE  Mapped(f, <<e>>) = <<f[e]>>
BY DEF Mapped

LEMMA MappedNone == \A f : Mapped(f, <<>>) = <<>>
BY DEF Mapped

Into(f, S, T) == f \in [S -> T]

LEMMA MappedThen ==
  ASSUME NEW S, NEW T, NEW f, Into(f, S, T), NEW s \in Seq(S), NEW t \in Seq(S)
  PROVE  Mapped(f, Then(s, t)) = Then(Mapped(f, s), Mapped(f, t))
<1>f. f \in [S -> T]
  BY DEF Into
<1>1. PICK m, n \in Nat : m = Len(s) /\ n = Len(t)
  OBVIOUS
<1>2. PICK u, v \in Seq(T) : u = Mapped(f, s) /\ v = Mapped(f, t)
  BY <1>f, MappedType
<1>3. /\ Len(u) = m /\ \A i \in 1..m : u[i] = f[s[i]]
      /\ Len(v) = n /\ \A i \in 1..n : v[i] = f[t[i]]
  BY <1>f, <1>1, <1>2, MappedType
<1>4. PICK q \in Seq(S) : q = Then(s, t)
  BY ThenFacts
<1>5. Len(q) = m + n /\ \A i \in 1..(m + n) : q[i] = IF i <= m THEN s[i] ELSE t[i - m]
  <2>1. /\ Len(q) = Len(s) + Len(t)
        /\ \A i \in 1..(Len(s) + Len(t)) :
             q[i] = IF i <= Len(s) THEN s[i] ELSE t[i - Len(s)]
    BY <1>4, ThenAt
  <2> QED BY <1>1, <2>1
<1>6. PICK w \in Seq(T) : w = Mapped(f, q)
  BY <1>f, MappedType
<1>7. Len(w) = m + n /\ \A i \in 1..(m + n) : w[i] = f[q[i]]
  <2>1. Len(w) = Len(q) /\ \A i \in 1..Len(q) : w[i] = f[q[i]]
    BY <1>f, <1>6, MappedType
  <2> QED BY <1>5, <2>1
<1>8. PICK x \in Seq(T) : x = Then(u, v)
  BY ThenFacts
<1>9. Len(x) = m + n /\ \A i \in 1..(m + n) : x[i] = IF i <= m THEN u[i] ELSE v[i - m]
  <2>1. /\ Len(x) = Len(u) + Len(v)
        /\ \A i \in 1..(Len(u) + Len(v)) :
             x[i] = IF i <= Len(u) THEN u[i] ELSE v[i - Len(u)]
    BY <1>8, ThenAt
  <2> QED BY <1>3, <2>1
<1>11. ASSUME NEW i \in 1..(m + n) PROVE w[i] = x[i]
  <2>1. CASE i <= m
    <3>1. i \in 1..m
      BY <2>1
    <3>2. w[i] = f[q[i]] /\ q[i] = s[i] /\ x[i] = u[i]
      BY <1>5, <1>7, <1>9, <2>1
    <3> QED BY <1>3, <3>1, <3>2
  <2>2. CASE ~(i <= m)
    <3>1. i - m \in 1..n
      BY <2>2
    <3>2. w[i] = f[q[i]] /\ q[i] = t[i - m] /\ x[i] = v[i - m]
      BY <1>5, <1>7, <1>9, <2>2
    <3>3. v[i - m] = f[t[i - m]]
      BY <1>3, <3>1
    <3> QED BY <3>2, <3>3
  <2> QED BY <2>1, <2>2
<1>12. w = x
  BY <1>7, <1>9, <1>11, SeqEqual
<1> QED BY <1>2, <1>4, <1>6, <1>8, <1>12

-----------------------------------------------------------------------------
\* A ring.

\* One more node of the ring from n on.
Farther(h, n, dir, r) ==
  IF h[Forest!Last(r)][dir] = n THEN r ELSE Append(r, h[Forest!Last(r)][dir])

\* The functions that compute it.
Rounds(f, h, n, dir) ==
  f = [i \in 1..MaxNodes |-> IF i = 1 THEN <<n>> ELSE Farther(h, n, dir, f[i - 1])]

LEMMA RingUnfolds ==
  ASSUME NEW h, NEW n, NEW dir, NEW g, Rounds(g, h, n, dir)
  PROVE  \E f : Rounds(f, h, n, dir) /\ Forest!Ring(h, n, dir) = f[MaxNodes]
<1>1. \E f : Rounds(f, h, n, dir)
  OBVIOUS
<1> QED BY <1>1 DEF Rounds, Farther, Forest!Ring

\* The nodes of c are linked in a ring, in direction dir.
Linked(h, c, dir) ==
  \A i \in 1..Len(c) : h[c[i]][dir] = IF i = Len(c) THEN c[1] ELSE c[i + 1]

Distinct(c) == \A i, j \in 1..Len(c) : c[i] = c[j] => i = j

\* The first i elements.
First(c, i) == IF i < Len(c) THEN SubSeq(c, 1, i) ELSE c

LEMMA FirstSteps ==
  ASSUME NEW h, NEW dir, NEW S, NEW c \in Seq(S), c # <<>>,
         Linked(h, c, dir), Distinct(c)
  PROVE  /\ First(c, 1) = <<c[1]>>
         /\ \A i \in Nat : i > 1 => Farther(h, c[1], dir, First(c, i - 1)) = First(c, i)
<1>1. PICK n \in Nat : n = Len(c)
  OBVIOUS
<1>2. n > 0 /\ 1 \in 1..n
  BY <1>1, EmptySeq
<1>3. ASSUME NEW i \in 1..n
      PROVE  First(c, i) \in Seq(S) /\ Len(First(c, i)) = i /\ First(c, i)[i] = c[i]
             /\ First(c, i) = SubSeq(c, 1, i)
  <2>1. \A j \in 1..i : c[j] \in S
    BY <1>1
  <2>2. SubSeq(c, 1, i) \in Seq(S) /\ Len(SubSeq(c, 1, i)) = i /\ SubSeq(c, 1, i)[i] = c[i]
    BY <2>1, SubSeqProperties
  <2>3. i = n => SubSeq(c, 1, i) = c
    BY <1>1, SubSeqFull
  <2>4. First(c, i) = SubSeq(c, 1, i)
    BY <1>1, <2>3 DEF First
  <2> QED BY <2>2, <2>4
<1>4. First(c, 1) = <<c[1]>>
  <2>1. PICK w : w = First(c, 1)
    OBVIOUS
  <2>2. w \in Seq(S) /\ Len(w) = 1 /\ w[1] = c[1]
    BY <1>2, <1>3, <2>1
  <2>3. w = <<w[1]>>
    BY <2>2
  <2> QED BY <2>1, <2>2, <2>3
<1>5. ASSUME NEW i \in Nat, i > 1
      PROVE  Farther(h, c[1], dir, First(c, i - 1)) = First(c, i)
  <2>1. CASE i <= n
    <3>1. i - 1 \in 1..n /\ i \in 1..n /\ i - 1 # n
      BY <1>5, <2>1
    <3>2. h[c[i - 1]][dir] = c[i]
      BY <1>1, <3>1 DEF Linked
    <3>3. c[i] # c[1]
      BY <1>1, <1>2, <1>5, <3>1 DEF Distinct
    <3>4. PICK w \in Seq(S) : w = First(c, i - 1)
      BY <1>3, <3>1
    <3>5. Len(w) = i - 1 /\ w[i - 1] = c[i - 1] /\ w = SubSeq(c, 1, i - 1)
      BY <1>3, <3>1, <3>4
    <3>6. Forest!Last(w) = c[i - 1]
      BY <3>5 DEF Forest!Last
    <3>7. Farther(h, c[1], dir, w) = Append(w, c[i])
      BY <3>2, <3>3, <3>6 DEF Farther
    <3>8. c[i] \in S
      BY <1>1, <3>1
    <3>9. Append(w, c[i]) = w \o <<c[i]>>
      BY <3>8, AppendIsConcat
    <3>10. 1 \in 1..Len(c) /\ i \in 1..Len(c)
      BY <1>1, <3>1
    <3>11. SubSeq(c, 1, i) = SubSeq(c, 1, i - 1) \o <<c[i]>>
      BY <3>10, SubSeqRecursiveSecond
    <3>12. First(c, i) = SubSeq(c, 1, i)
      BY <1>3, <3>1
    <3> QED BY <3>4, <3>5, <3>7, <3>9, <3>11, <3>12, Zenon
  <2>2. CASE ~(i <= n)
    <3>1. First(c, i) = c /\ First(c, i - 1) = c
      BY <1>1, <1>5, <2>2 DEF First
    <3>2. Forest!Last(c) = c[n]
      BY <1>1 DEF Forest!Last
    <3>3. h[c[n]][dir] = c[1]
      BY <1>1, <1>2 DEF Linked
    <3> QED BY <3>1, <3>2, <3>3 DEF Farther
  <2> QED BY <1>1, <2>1, <2>2
<1> QED BY <1>4, <1>5

LEMMA RingIs ==
  ASSUME NEW h, NEW dir, NEW S, NEW c \in Seq(S), c # <<>>, Len(c) <= MaxNodes,
         Linked(h, c, dir), Distinct(c)
  PROVE  Forest!Ring(h, c[1], dir) = c
<1>1. PICK n \in Nat : n = Len(c)
  OBVIOUS
<1>2. n >= 1 /\ MaxNodes \in Nat /\ n <= MaxNodes /\ 1 \in 1..MaxNodes
  BY <1>1, EmptySeq, ContainersAssumption
<1>3. /\ First(c, 1) = <<c[1]>>
      /\ \A i \in Nat : i > 1 => Farther(h, c[1], dir, First(c, i - 1)) = First(c, i)
  BY FirstSteps
<1>4. PICK g : g = [i \in 1..MaxNodes |-> First(c, i)]
  OBVIOUS
<1>5. ASSUME NEW i \in 1..MaxNodes
      PROVE  First(c, i) = IF i = 1 THEN <<c[1]>> ELSE Farther(h, c[1], dir, g[i - 1])
  <2>1. CASE i = 1
    BY <1>3, <2>1
  <2>2. CASE i # 1
    <3>1. i - 1 \in 1..MaxNodes /\ i \in Nat /\ i > 1
      BY <1>2, <2>2
    <3>2. g[i - 1] = First(c, i - 1)
      BY <1>4, <3>1
    <3> QED BY <1>3, <2>2, <3>1, <3>2
  <2> QED BY <2>1, <2>2
<1>6. g = [i \in 1..MaxNodes |-> IF i = 1 THEN <<c[1]>>
                                 ELSE Farther(h, c[1], dir, g[i - 1])]
  BY <1>4, <1>5, Zenon
<1>7. Rounds(g, h, c[1], dir)
  BY <1>6, Zenon DEF Rounds
<1>8. PICK f : Rounds(f, h, c[1], dir) /\ Forest!Ring(h, c[1], dir) = f[MaxNodes]
  BY <1>7, RingUnfolds
<1>9. \A i \in 1..MaxNodes :
        f[i] = IF i = 1 THEN <<c[1]>> ELSE Farther(h, c[1], dir, f[i - 1])
  BY <1>8, Zenon DEF Rounds
<1>10. 0..MaxNodes \subseteq {i \in 0..MaxNodes : i # 0 => f[i] = First(c, i)}
  <2>1. 0 \in {i \in 0..MaxNodes : i # 0 => f[i] = First(c, i)}
    BY <1>2
  <2>2. ASSUME NEW i \in 1..MaxNodes,
               i - 1 \in {j \in 0..MaxNodes : j # 0 => f[j] = First(c, j)}
        PROVE  i \in {j \in 0..MaxNodes : j # 0 => f[j] = First(c, j)}
    <3>1. CASE i = 1
      <4>1. f[1] = First(c, 1)
        BY <1>2, <1>3, <1>9
      <4> QED BY <1>2, <3>1, <4>1
    <3>2. CASE i # 1
      <4>1. i - 1 # 0 /\ i > 1 /\ i \in Nat /\ i \in 0..MaxNodes
        BY <1>2, <3>2
      <4>2. f[i - 1] = First(c, i - 1)
        BY <2>2, <4>1
      <4>3. f[i] = Farther(h, c[1], dir, f[i - 1])
        BY <1>9, <3>2
      <4>4. f[i] = First(c, i)
        BY <1>3, <4>1, <4>2, <4>3
      <4> QED BY <4>1, <4>4
    <3> QED BY <3>1, <3>2
  <2> QED BY <1>2, <2>1, <2>2, UpTo
<1>11. f[MaxNodes] = First(c, MaxNodes)
  BY <1>2, <1>10
<1>12. First(c, MaxNodes) = c
  BY <1>1, <1>2 DEF First
<1> QED BY <1>8, <1>11, <1>12

-----------------------------------------------------------------------------
\* The children of a node.

\* They are what was asked for, linked both ways.
Parented(h, n, c) ==
  /\ c = <<>> => h[n].child = NoNode
  /\ c # <<>> => h[n].child = c[1]
  /\ \A i \in 1..Len(c) :
       /\ h[c[i]].next = IF i = Len(c) THEN c[1] ELSE c[i + 1]
       /\ h[c[i]].prev = IF i = 1 THEN c[Len(c)] ELSE c[i - 1]

LEMMA ReverseFacts ==
  ASSUME NEW S, NEW c \in Seq(S)
  PROVE  /\ Forest!Reverse(c) \in Seq(S) /\ Len(Forest!Reverse(c)) = Len(c)
         /\ \A i \in 1..Len(c) : Forest!Reverse(c)[i] = c[Len(c) - i + 1]
         /\ Forest!Reverse(Forest!Reverse(c)) = c
<1>1. PICK n \in Nat : n = Len(c)
  OBVIOUS
<1>2. \A i \in 1..n : (n - i) + 1 \in 1..n /\ c[(n - i) + 1] \in S
  BY <1>1
<1>3. PICK r : r = [i \in 1..n |-> c[(n - i) + 1]]
  OBVIOUS
<1>4. r \in Seq(S) /\ Len(r) = n /\ \A i \in 1..n : r[i] = c[(n - i) + 1]
  BY <1>2, <1>3
<1>5. Forest!Reverse(c) = r
  BY <1>1, <1>3 DEF Forest!Reverse
<1>6. PICK q : q = [i \in 1..n |-> r[(n - i) + 1]]
  OBVIOUS
<1>7. \A i \in 1..n : (n - i) + 1 \in 1..n /\ r[(n - i) + 1] \in S
  BY <1>4
<1>8. q \in Seq(S) /\ Len(q) = n /\ \A i \in 1..n : q[i] = r[(n - i) + 1]
  BY <1>6, <1>7
<1>9. Forest!Reverse(r) = q
  BY <1>4, <1>6 DEF Forest!Reverse
<1>10. \A i \in 1..n : q[i] = c[i]
  <2> SUFFICES ASSUME NEW i \in 1..n PROVE q[i] = c[i]
    OBVIOUS
  <2>1. (n - i) + 1 \in 1..n /\ (n - ((n - i) + 1)) + 1 = i
    OBVIOUS
  <2> QED BY <1>4, <1>8, <2>1
<1>11. q = c
  BY <1>1, <1>8, <1>10, SeqEqual
<1> QED BY <1>1, <1>4, <1>5, <1>9, <1>11

LEMMA ChildrenPushed ==
  ASSUME NEW h, NEW S, NEW m, NEW c \in Seq(S), Parented(h, m, c), c # <<>>,
         Distinct(c), Len(c) <= MaxNodes, NEW rest \in Seq(S)
  PROVE  /\ Forest!PushChild(h, rest, m, "queue") = Then(rest, c)
         /\ Forest!PushChild(h, rest, m, "stack") = Then(c, rest)
<1>1. PICK n \in Nat : n = Len(c)
  OBVIOUS
<1>2. n >= 1 /\ 1 \in 1..n /\ n \in 1..n
  BY <1>1, EmptySeq
<1>3. h[m].child = c[1] /\ h[c[1]].prev = c[n]
  BY <1>1, <1>2 DEF Parented
<1>4. Linked(h, c, "next")
  BY DEF Linked, Parented
<1>5. Forest!Ring(h, c[1], "next") = c
  BY <1>4, RingIs
<1>6. PICK r : r = Forest!Reverse(c)
  OBVIOUS
<1>7. /\ r \in Seq(S) /\ Len(r) = n /\ Forest!Reverse(r) = c
      /\ \A i \in 1..n : r[i] = c[n - i + 1]
  BY <1>1, <1>6, ReverseFacts
<1>8. r # <<>>
  BY <1>2, <1>7
<1>9. Linked(h, r, "prev")
  <2> SUFFICES ASSUME NEW i \in 1..n
               PROVE  h[r[i]].prev = IF i = n THEN r[1] ELSE r[i + 1]
    BY <1>7 DEF Linked
  <2>1. n - i + 1 \in 1..n /\ r[i] = c[n - i + 1] /\ r[1] = c[n]
    BY <1>2, <1>7
  <2>2. h[c[n - i + 1]].prev = IF n - i + 1 = 1 THEN c[n] ELSE c[(n - i + 1) - 1]
    BY <1>1, <2>1 DEF Parented
  <2>3. CASE i = n
    <3>1. n - i + 1 = 1
      BY <2>3
    <3> QED BY <2>1, <2>2, <2>3, <3>1
  <2>4. CASE i # n
    <3>1. n - i + 1 # 1 /\ i + 1 \in 1..n /\ n - (i + 1) + 1 = (n - i + 1) - 1
      BY <2>4
    <3>2. r[i + 1] = c[(n - i + 1) - 1]
      BY <1>7, <3>1
    <3> QED BY <2>1, <2>2, <2>4, <3>1, <3>2
  <2> QED BY <2>3, <2>4
<1>10. Distinct(r)
  <2> SUFFICES ASSUME NEW i \in 1..n, NEW j \in 1..n, r[i] = r[j] PROVE i = j
    BY <1>7 DEF Distinct
  <2>1. n - i + 1 \in 1..n /\ n - j + 1 \in 1..n
    OBVIOUS
  <2>2. c[n - i + 1] = c[n - j + 1]
    BY <1>7
  <2>3. n - i + 1 = n - j + 1
    BY <1>1, <2>1, <2>2 DEF Distinct
  <2> QED BY <2>3
<1>11. Forest!Ring(h, r[1], "prev") = r
  BY <1>1, <1>7, <1>8, <1>9, <1>10, RingIs
<1>12. r[1] = c[n]
  BY <1>2, <1>7
<1>13. Forest!PushChild(h, rest, m, "queue") = rest \o Forest!Ring(h, h[m].child, "next")
  BY DEF Forest!PushChild, Forest!Queued
<1>14. Forest!PushChild(h, rest, m, "stack")
         = Forest!Reverse(Forest!Ring(h, h[h[m].child].prev, "prev")) \o rest
  BY DEF Forest!PushChild, Forest!Stacked
<1> QED BY <1>3, <1>5, <1>7, <1>11, <1>12, <1>13, <1>14, Zenon DEF Then

-----------------------------------------------------------------------------
\* The elements of a sequence.

Els(s) == {s[i] : i \in 1..Len(s)}

LEMMA ElsFacts ==
  ASSUME NEW S, NEW s \in Seq(S), NEW t \in Seq(S)
  PROVE  /\ Els(s) \subseteq S
         /\ Els(Then(s, t)) = Els(s) \cup Els(t)
         /\ Distinct(Then(s, t))
              <=> Distinct(s) /\ Distinct(t) /\ Els(s) \cap Els(t) = {}
<1>1. PICK m, n \in Nat : m = Len(s) /\ n = Len(t)
  OBVIOUS
<1>2. PICK q \in Seq(S) : q = Then(s, t)
  BY ThenFacts
<1>3. Len(q) = m + n /\ \A i \in 1..(m + n) : q[i] = IF i <= m THEN s[i] ELSE t[i - m]
  <2>1. /\ Len(q) = Len(s) + Len(t)
        /\ \A i \in 1..(Len(s) + Len(t)) :
             q[i] = IF i <= Len(s) THEN s[i] ELSE t[i - Len(s)]
    BY <1>2, ThenAt
  <2> QED BY <1>1, <2>1
<1>4. \A i \in 1..m : i \in 1..(m + n) /\ i <= m
  OBVIOUS
<1>5. \A i \in 1..n : i + m \in 1..(m + n) /\ ~(i + m <= m) /\ (i + m) - m = i
  OBVIOUS
<1>6. \A i \in 1..m : q[i] = s[i]
  BY <1>3, <1>4
<1>7. \A i \in 1..n : q[i + m] = t[i]
  BY <1>3, <1>5
<1>8. \A i \in 1..(m + n) : i \in 1..m \/ \E j \in 1..n : i = j + m
  <2> SUFFICES ASSUME NEW i \in 1..(m + n), i \notin 1..m PROVE \E j \in 1..n : i = j + m
    OBVIOUS
  <2>1. i - m \in 1..n /\ i = (i - m) + m
    OBVIOUS
  <2> QED BY <2>1
<1>9. Els(s) = {s[i] : i \in 1..m} /\ Els(t) = {t[i] : i \in 1..n}
      /\ Els(q) = {q[i] : i \in 1..(m + n)}
  BY <1>1, <1>3 DEF Els
<1>10. Els(s) \subseteq S
  BY <1>1, <1>9
<1>11. Els(q) = Els(s) \cup Els(t)
  <2>1. \A x \in Els(q) : x \in Els(s) \cup Els(t)
    <3> SUFFICES ASSUME NEW i \in 1..(m + n) PROVE q[i] \in Els(s) \cup Els(t)
      BY <1>9
    <3> QED BY <1>6, <1>7, <1>8, <1>9
  <2>2. \A x \in Els(s) : x \in Els(q)
    BY <1>4, <1>6, <1>9
  <2>3. \A x \in Els(t) : x \in Els(q)
    BY <1>5, <1>7, <1>9
  <2> QED BY <2>1, <2>2, <2>3
<1>12. Distinct(q) => Distinct(s) /\ Distinct(t) /\ Els(s) \cap Els(t) = {}
  <2> SUFFICES ASSUME Distinct(q)
               PROVE  Distinct(s) /\ Distinct(t) /\ Els(s) \cap Els(t) = {}
    OBVIOUS
  <2>1. \A i, j \in 1..(m + n) : q[i] = q[j] => i = j
    BY <1>3 DEF Distinct
  <2>2. \A i, j \in 1..m : s[i] = s[j] => i = j
    BY <1>4, <1>6, <2>1
  <2>3. \A i, j \in 1..n : t[i] = t[j] => i = j
    <3> SUFFICES ASSUME NEW i \in 1..n, NEW j \in 1..n, t[i] = t[j] PROVE i = j
      OBVIOUS
    <3>1. i + m = j + m
      BY <1>5, <1>7, <2>1
    <3> QED BY <3>1
  <2>4. ASSUME NEW i \in 1..m, NEW j \in 1..n, s[i] = t[j] PROVE FALSE
    <3>1. i = j + m
      BY <1>4, <1>5, <1>6, <1>7, <2>1, <2>4
    <3> QED BY <3>1
  <2> QED BY <1>1, <1>9, <2>2, <2>3, <2>4 DEF Distinct
<1>13. Distinct(s) /\ Distinct(t) /\ Els(s) \cap Els(t) = {} => Distinct(q)
  <2> SUFFICES ASSUME Distinct(s), Distinct(t), Els(s) \cap Els(t) = {},
                      NEW i \in 1..(m + n), NEW j \in 1..(m + n), q[i] = q[j]
               PROVE  i = j
    BY <1>3 DEF Distinct
  <2>1. \A x, y \in 1..m : s[x] = s[y] => x = y
    BY <1>1 DEF Distinct
  <2>2. \A x, y \in 1..n : t[x] = t[y] => x = y
    BY <1>1 DEF Distinct
  <2>3. \A x \in 1..m, y \in 1..n : s[x] # t[y]
    BY <1>9
  <2>4. CASE i \in 1..m /\ j \in 1..m
    BY <1>6, <2>1, <2>4
  <2>5. CASE i \in 1..m /\ j \notin 1..m
    <3>1. PICK y \in 1..n : j = y + m
      BY <1>8, <2>5
    <3> QED BY <1>6, <1>7, <2>3, <2>5, <3>1
  <2>6. CASE i \notin 1..m /\ j \in 1..m
    <3>1. PICK x \in 1..n : i = x + m
      BY <1>8, <2>6
    <3> QED BY <1>6, <1>7, <2>3, <2>6, <3>1
  <2>7. CASE i \notin 1..m /\ j \notin 1..m
    <3>1. PICK x \in 1..n, y \in 1..n : i = x + m /\ j = y + m
      BY <1>8, <2>7
    <3>2. t[x] = t[y]
      BY <1>7, <3>1
    <3> QED BY <2>2, <3>1, <3>2
  <2> QED BY <2>4, <2>5, <2>6, <2>7
<1> QED BY <1>2, <1>10, <1>11, <1>12, <1>13

LEMMA OneElement ==
  ASSUME NEW S, NEW x \in S
  PROVE  <<x>> \in Seq(S) /\ Els(<<x>>) = {x} /\ Distinct(<<x>>) /\ <<x>> # <<>>
<1>1. PICK q : q = <<x>>
  OBVIOUS
<1>2. q \in Seq(S) /\ Len(q) = 1 /\ q[1] = x /\ q # <<>>
  BY <1>1
<1> QED BY <1>1, <1>2 DEF Els, Distinct

LEMMA NoElement == Els(<<>>) = {} /\ Distinct(<<>>)
BY DEF Els, Distinct

\* The first element and the rest.
LEMMA HeadFirst ==
  ASSUME NEW S, NEW s \in Seq(S), s # <<>>
  PROVE  Head(s) \in S /\ Tail(s) \in Seq(S) /\ s = Then(<<Head(s)>>, Tail(s))
<1>1. PICK n \in Nat : n = Len(s)
  OBVIOUS
<1>2. n >= 1
  BY <1>1, EmptySeq
<1>3. Head(s) \in S /\ Tail(s) \in Seq(S)
  BY HeadTailProperties
<1>4. SubSeq(s, 1, n) = s /\ Tail(s) = SubSeq(s, 2, n) /\ Head(s) = s[1]
  BY <1>1, SubSeqFull, TailIsSubSeq
<1>5. 1 \in 1..Len(s) /\ n \in 1..Len(s)
  BY <1>1, <1>2
<1>6. SubSeq(s, 1, n) = <<s[1]>> \o SubSeq(s, 1 + 1, n)
  BY <1>5, SubSeqRecursiveFirst
<1>7. 1 + 1 = 2
  OBVIOUS
<1> QED BY <1>3, <1>4, <1>6, <1>7, Zenon DEF Then

LEMMA FirstThen ==
  ASSUME NEW S, NEW x \in S, NEW t \in Seq(S)
  PROVE  LET s == Then(<<x>>, t)
         IN  s \in Seq(S) /\ s # <<>> /\ Head(s) = x /\ Tail(s) = t
<1>1. PICK q \in Seq(S) : q = <<x>> /\ Len(q) = 1 /\ q[1] = x
  <2>1. PICK q : q = <<x>>
    OBVIOUS
  <2>2. q \in Seq(S) /\ Len(q) = 1 /\ q[1] = x
    BY <2>1
  <2> QED BY <2>1, <2>2
<1>2. PICK s \in Seq(S) : s = Then(q, t)
  BY ThenFacts
<1>3. PICK n \in Nat : n = Len(t)
  OBVIOUS
<1>4. Len(s) = 1 + n /\ \A i \in 1..(1 + n) : s[i] = IF i <= 1 THEN q[i] ELSE t[i - 1]
  <2>1. /\ Len(s) = Len(q) + Len(t)
        /\ \A i \in 1..(Len(q) + Len(t)) :
             s[i] = IF i <= Len(q) THEN q[i] ELSE t[i - Len(q)]
    BY <1>2, ThenAt
  <2> QED BY <1>1, <1>3, <2>1
<1>5. s # <<>>
  BY <1>4
<1>6. s[1] = x
  BY <1>1, <1>4
<1>7. Head(s) = x
  BY <1>6
<1>8. PICK r \in Seq(S) : r = Tail(s)
  BY <1>5, HeadTailProperties
<1>9. Len(r) = Len(s) - 1 /\ \A i \in 1..Len(r) : r[i] = s[i + 1]
  BY <1>5, <1>8, HeadTailProperties
<1>10. Len(r) = n
  BY <1>4, <1>9
<1>11. \A i \in 1..n : r[i] = t[i]
  <2> SUFFICES ASSUME NEW i \in 1..n PROVE r[i] = t[i]
    OBVIOUS
  <2>1. i + 1 \in 1..(1 + n) /\ ~(i + 1 <= 1) /\ (i + 1) - 1 = i
    OBVIOUS
  <2>2. s[i + 1] = t[i]
    BY <1>4, <2>1
  <2> QED BY <1>9, <1>10, <2>2
<1>12. r = t
  BY <1>3, <1>10, <1>11, SeqEqual
<1> QED BY <1>1, <1>2, <1>5, <1>7, <1>8, <1>12

LEMMA EmptyThen ==
  ASSUME NEW S, NEW s \in Seq(S), NEW t \in Seq(S), Then(s, t) = <<>>
  PROVE  s = <<>> /\ t = <<>>
BY ConcatEqualIffEmpty DEF Then

\* A sequence of different nodes is no longer than there are nodes.
LEMMA FewNodes ==
  ASSUME NEW c \in Seq(1..MaxNodes), Distinct(c)
  PROVE  Len(c) <= MaxNodes
<1>1. PICK n \in Nat : n = Len(c)
  OBVIOUS
<1>2. MaxNodes \in Nat
  BY ContainersAssumption
<1>3. c \in Injection(1..n, 1..MaxNodes)
  <2>1. c \in [1..n -> 1..MaxNodes] /\ \A i, j \in 1..n : c[i] = c[j] => i = j
    <3>1. c \in [1..n -> 1..MaxNodes]
      BY <1>1, LenProperties
    <3> QED BY <1>1, <3>1 DEF Distinct
  <2> QED BY <2>1 DEF Injection, IsInjective
<1>4. IsFiniteSet(1..MaxNodes) /\ Cardinality(1..MaxNodes) = MaxNodes /\ Cardinality(1..n) = n
  BY <1>2, FS_Interval
<1>5. Cardinality(1..n) <= Cardinality(1..MaxNodes)
  BY <1>3, <1>4, FS_Injection
<1> QED BY <1>1, <1>4, <1>5

-----------------------------------------------------------------------------
\* The invariant.

\* Each node is in one tree, home[n], at depth d[n] below its root.
Forested(rt, ak, home, d) ==
  /\ home \in [DOMAIN ak -> Trees] /\ d \in [DOMAIN ak -> Nat]
  /\ \A t \in Trees : rt[t] # NoNode =>
       rt[t] \in DOMAIN ak /\ home[rt[t]] = t /\ d[rt[t]] = 0
  /\ \A n \in DOMAIN ak : \A x \in Els(ak[n]) : home[x] = home[n] /\ d[x] = d[n] + 1
  /\ \A n, m \in DOMAIN ak : n # m => Els(ak[n]) \cap Els(ak[m]) = {}
  /\ \A n \in DOMAIN ak : d[n] = 0 => rt[home[n]] = n
  /\ \A n \in DOMAIN ak : d[n] # 0 => \E m \in DOMAIN ak : n \in Els(ak[m])

TreeNode(A) == [child : A \cup {NoNode}, next : A, prev : A, parent : A \cup {NoNode}]

\* The heap holds the children that were asked for.
Kept(h, rt, ak) ==
  /\ DOMAIN ak \subseteq 1..MaxNodes
  /\ h \in [DOMAIN ak -> TreeNode(DOMAIN ak)]
  /\ ak \in [DOMAIN ak -> Seq(DOMAIN ak)]
  /\ rt \in [Trees -> DOMAIN ak \cup {NoNode}]
  /\ \A n \in DOMAIN ak : Distinct(ak[n]) /\ Parented(h, n, ak[n])

\* No link leaves its tree.
Near(h, home) ==
  \A x \in DOMAIN h :
    /\ home[h[x].next] = home[x] /\ home[h[x].prev] = home[x]
    /\ h[x].child # NoNode => home[h[x].child] = home[x]
    /\ h[x].parent # NoNode => home[h[x].parent] = home[x]

TreeInv ==
  /\ broken = FALSE
  /\ Kept(nodes, root, asked)
  /\ \E home, d : Forested(root, asked, home, d) /\ Near(nodes, home)

-----------------------------------------------------------------------------
\* A walk's steps.

Policies == {"queue", "stack"}

\* As the code takes them, and in terms of what was asked for.
WalkOn(h, w, policy) ==
  IF w.todo = <<>> THEN w
  ELSE [todo |-> IF h[Head(w.todo)].child = NoNode THEN Tail(w.todo)
                 ELSE Forest!PushChild(h, Tail(w.todo), Head(w.todo), policy),
        seen |-> Append(w.seen, Head(w.todo))]

Shown(ak, w, policy) ==
  IF w.todo = <<>> THEN w
  ELSE [todo |-> IF policy = "queue" THEN Then(Tail(w.todo), ak[Head(w.todo)])
                 ELSE Then(ak[Head(w.todo)], Tail(w.todo)),
        seen |-> Then(w.seen, <<Head(w.todo)>>)]

WalkStates(A) == [todo : Seq(A), seen : Seq(A)]

LEMMA WalkOnShows ==
  ASSUME NEW h, NEW rt, NEW ak, Kept(h, rt, ak), NEW policy \in Policies,
         NEW w \in WalkStates(DOMAIN ak)
  PROVE  WalkOn(h, w, policy) = Shown(ak, w, policy)
         /\ WalkOn(h, w, policy) \in WalkStates(DOMAIN ak)
<1>1. PICK A : A = DOMAIN ak
  OBVIOUS
<1>2. w.todo \in Seq(A) /\ w.seen \in Seq(A)
  BY <1>1 DEF WalkStates
<1>3. CASE w.todo = <<>>
  BY <1>3 DEF WalkOn, Shown
<1>4. CASE w.todo # <<>>
  <2>1. PICK m \in A, rest \in Seq(A) : m = Head(w.todo) /\ rest = Tail(w.todo)
    BY <1>2, <1>4, HeadFirst
  <2>2. PICK c \in Seq(A) : c = ak[m] /\ Distinct(c) /\ Parented(h, m, c)
    BY <1>1, <2>1 DEF Kept
  <2>3. Len(c) <= MaxNodes
    <3>1. A \subseteq 1..MaxNodes
      BY <1>1 DEF Kept
    <3>2. c \in Seq(1..MaxNodes)
      BY <2>2, <3>1, SeqMonotonic
    <3> QED BY <2>2, <3>2, FewNodes
  <2>4. Append(w.seen, m) = Then(w.seen, <<m>>) /\ <<m>> \in Seq(A)
    BY <1>2, <2>1, ThenFacts, OneElement
  <2>5. Then(w.seen, <<m>>) \in Seq(A)
    BY <1>2, <2>4, ThenFacts
  <2>6. PICK next : next = IF policy = "queue" THEN Then(rest, c) ELSE Then(c, rest)
    OBVIOUS
  <2>7. next \in Seq(A)
    BY <2>1, <2>2, <2>6, ThenFacts
  <2>8. (IF h[m].child = NoNode THEN rest ELSE Forest!PushChild(h, rest, m, policy)) = next
    <3>1. CASE c = <<>>
      <4>1. h[m].child = NoNode
        BY <2>2, <3>1 DEF Parented
      <4>2. Then(rest, c) = rest /\ Then(c, rest) = rest
        BY <2>1, <3>1, ThenFacts
      <4> QED BY <2>6, <4>1, <4>2
    <3>2. CASE c # <<>>
      <4>1. h[m].child = c[1]
        BY <2>2, <3>2 DEF Parented
      <4>2. c[1] # NoNode
        <5>1. 1 \in 1..Len(c)
          BY <2>2, <3>2, EmptySeq
        <5>2. c[1] \in A /\ A \subseteq 1..MaxNodes
          BY <1>1, <5>1 DEF Kept
        <5> QED BY <5>2, ContainersAssumption
      <4>3. /\ Forest!PushChild(h, rest, m, "queue") = Then(rest, c)
            /\ Forest!PushChild(h, rest, m, "stack") = Then(c, rest)
        <5> HIDE DEF Parented
        <5>1. Parented(h, m, c) /\ Distinct(c) /\ c # <<>> /\ Len(c) <= MaxNodes
          BY <2>2, <2>3, <3>2
        <5> HIDE DEF Distinct
        <5> QED BY <5>1, ChildrenPushed
      <4> QED BY <2>6, <4>1, <4>2, <4>3 DEF Policies
    <3> QED BY <3>1, <3>2
  <2>9. WalkOn(h, w, policy) = [todo |-> next, seen |-> Then(w.seen, <<m>>)]
    BY <1>4, <2>1, <2>4, <2>8, Zenon DEF WalkOn
  <2>10. Shown(ak, w, policy) = [todo |-> next, seen |-> Then(w.seen, <<m>>)]
    BY <1>4, <2>1, <2>2, <2>6, Zenon DEF Shown
  <2> QED BY <1>1, <2>5, <2>7, <2>9, <2>10 DEF WalkStates
<1> QED BY <1>3, <1>4

\* The functions that compute a walk.
WalkFrom(n) == [todo |-> <<n>>, seen |-> <<>>]

Walks(f, h, n, policy) ==
  f = [i \in 0..MaxNodes |-> IF i = 0 THEN WalkFrom(n) ELSE WalkOn(h, f[i - 1], policy)]

LEMMA WalkUnfolds ==
  ASSUME NEW h, NEW n, NEW policy, NEW g, Walks(g, h, n, policy)
  PROVE  \E f : Walks(f, h, n, policy) /\ Forest!Walk(h, n, policy) = f[MaxNodes]
<1>1. \E f : Walks(f, h, n, policy)
  OBVIOUS
<1> QED BY <1>1 DEF Walks, WalkOn, WalkFrom, Forest!Walk

LEMMA WalkSteps ==
  ASSUME NEW h, NEW rt, NEW ak, Kept(h, rt, ak), NEW policy \in Policies,
         NEW n \in DOMAIN ak
  PROVE  \E f \in [0..MaxNodes -> WalkStates(DOMAIN ak)] :
           /\ f[0] = WalkFrom(n)
           /\ \A i \in 1..MaxNodes : f[i] = Shown(ak, f[i - 1], policy)
           /\ Forest!Walk(h, n, policy) = f[MaxNodes]
<1>1. PICK S : S = WalkStates(DOMAIN ak)
  OBVIOUS
<1>2. MaxNodes \in Nat
  BY ContainersAssumption
<1>3. \A w \in S : WalkOn(h, w, policy) = Shown(ak, w, policy)
                   /\ WalkOn(h, w, policy) \in S
  BY <1>1, WalkOnShows
<1>4. PICK G : G = [i \in 1..MaxNodes |-> [w \in S |-> WalkOn(h, w, policy)]]
  OBVIOUS
<1>5. G \in [1..MaxNodes -> [S -> S]]
  BY <1>3, <1>4
<1>6. WalkFrom(n) \in S
  BY <1>1, OneElement DEF WalkFrom, WalkStates
<1>7. PICK g \in [0..MaxNodes -> S] : Steps(g, MaxNodes, WalkFrom(n), G)
  BY <1>2, <1>5, <1>6, StepsExist
<1>8. ASSUME NEW i \in 1..MaxNodes
      PROVE  g[i - 1] \in S /\ g[i] = WalkOn(h, g[i - 1], policy)
  <2>1. i - 1 \in 0..MaxNodes
    BY <1>2
  <2>2. g[i - 1] \in S
    BY <1>7, <2>1
  <2>3. g[i] = G[i][g[i - 1]]
    BY <1>7 DEF Steps
  <2> QED BY <1>4, <2>2, <2>3
<1>9. g[0] = WalkFrom(n)
  BY <1>7 DEF Steps
<1>10. g = [i \in 0..MaxNodes |-> IF i = 0 THEN WalkFrom(n)
                                  ELSE WalkOn(h, g[i - 1], policy)]
  <2>1. \A i \in 0..MaxNodes : g[i] = IF i = 0 THEN WalkFrom(n)
                                      ELSE WalkOn(h, g[i - 1], policy)
    <3> SUFFICES ASSUME NEW i \in 0..MaxNodes
                 PROVE  g[i] = IF i = 0 THEN WalkFrom(n)
                               ELSE WalkOn(h, g[i - 1], policy)
      OBVIOUS
    <3>1. i # 0 => i \in 1..MaxNodes
      BY <1>2
    <3> QED BY <1>8, <1>9, <3>1
  <2>2. g = [i \in 0..MaxNodes |-> g[i]]
    BY <1>7
  <2> QED BY <2>1, <2>2, Zenon
<1>11. Walks(g, h, n, policy)
  BY <1>10, Zenon DEF Walks
<1>12. PICK f : Walks(f, h, n, policy) /\ Forest!Walk(h, n, policy) = f[MaxNodes]
  BY <1>11, WalkUnfolds
<1>13. \A i \in 0..MaxNodes : f[i] = IF i = 0 THEN WalkFrom(n)
                                     ELSE WalkOn(h, f[i - 1], policy)
  BY <1>12, Zenon DEF Walks
<1>14. 0..MaxNodes \subseteq {i \in 0..MaxNodes : f[i] = g[i]}
  <2>1. 0 \in {i \in 0..MaxNodes : f[i] = g[i]}
    BY <1>2, <1>9, <1>13
  <2>2. ASSUME NEW i \in 1..MaxNodes, i - 1 \in {j \in 0..MaxNodes : f[j] = g[j]}
        PROVE  i \in {j \in 0..MaxNodes : f[j] = g[j]}
    <3>1. i \in 0..MaxNodes /\ i # 0
      BY <1>2
    <3>2. f[i] = WalkOn(h, f[i - 1], policy)
      BY <1>13, <3>1
    <3> QED BY <1>8, <2>2, <3>1, <3>2
  <2> QED BY <1>2, <2>1, <2>2, UpTo
<1>15. MaxNodes \in 0..MaxNodes
  BY <1>2
<1>16. Forest!Walk(h, n, policy) = g[MaxNodes]
  BY <1>12, <1>14, <1>15
<1>17. \A i \in 1..MaxNodes : g[i] = Shown(ak, g[i - 1], policy)
  BY <1>3, <1>8
<1> QED BY <1>1, <1>7, <1>9, <1>16, <1>17

-----------------------------------------------------------------------------
\* A walk meets all nodes of a tree, each once.

\* What holds after each step of a walk from n.
Reached(ak, home, n, w) ==
  LET all == Els(w.seen) \cup Els(w.todo)
  IN  /\ Distinct(w.seen) /\ Distinct(w.todo) /\ Els(w.seen) \cap Els(w.todo) = {}
      /\ n \in all
      /\ \A x \in all : home[x] = home[n]
      /\ \A x \in all : x = n \/ \E m \in Els(w.seen) : x \in Els(ak[m])
      /\ \A m \in Els(w.seen) : Els(ak[m]) \subseteq all

LEMMA ReachedStep ==
  ASSUME NEW h, NEW rt, NEW ak, Kept(h, rt, ak), NEW policy \in Policies,
         NEW home, NEW d, Forested(rt, ak, home, d),
         NEW n \in DOMAIN ak, d[n] = 0,
         NEW w \in WalkStates(DOMAIN ak), Reached(ak, home, n, w)
  PROVE  /\ Reached(ak, home, n, Shown(ak, w, policy))
         /\ w.todo # <<>> => Len(Shown(ak, w, policy).seen) = Len(w.seen) + 1
<1>1. PICK A : A = DOMAIN ak
  OBVIOUS
<1>2. PICK todo, seen \in Seq(A) : todo = w.todo /\ seen = w.seen
  BY <1>1 DEF WalkStates
<1>3. CASE todo = <<>>
  BY <1>2, <1>3 DEF Shown
<1>4. CASE todo # <<>>
  <2>1. PICK m \in A, rest \in Seq(A) :
          m = Head(todo) /\ rest = Tail(todo) /\ todo = Then(<<m>>, rest)
    BY <1>4, HeadFirst
  <2>2. PICK c \in Seq(A) : c = ak[m] /\ Distinct(c)
    BY <1>1, <2>1 DEF Kept
  <2>3. PICK one \in Seq(A) : one = <<m>> /\ Els(one) = {m} /\ Distinct(one)
    BY OneElement
  <2>4. Els(todo) = {m} \cup Els(rest) /\ Distinct(rest) /\ m \notin Els(rest)
        /\ Els(rest) \subseteq A
    <3>1. Els(Then(one, rest)) = Els(one) \cup Els(rest)
          /\ (Distinct(Then(one, rest)) => Distinct(rest) /\ Els(one) \cap Els(rest) = {})
          /\ Els(rest) \subseteq A
      BY ElsFacts
    <3>2. Distinct(todo)
      BY <1>2 DEF Reached
    <3> QED BY <2>1, <2>3, <3>1, <3>2
  <2>5. m \notin Els(seen) /\ Distinct(seen) /\ Els(seen) \cap Els(rest) = {}
        /\ Els(seen) \subseteq A
    BY <1>2, <2>4, ElsFacts DEF Reached
  <2>6. n \notin Els(c)
    BY <1>1, <2>2 DEF Forested
  <2>7. Els(c) \cap (Els(seen) \cup Els(todo)) = {}
    <3> SUFFICES ASSUME NEW x \in Els(c), x \in Els(seen) \cup Els(todo) PROVE FALSE
      OBVIOUS
    <3>1. PICK q \in Els(seen) : x \in Els(ak[q])
      BY <1>2, <2>6 DEF Reached
    <3>2. q \in A /\ q # m
      BY <2>5
    <3> QED BY <1>1, <2>2, <3>1, <3>2 DEF Forested
  <2>8. PICK seen2 \in Seq(A) : seen2 = Then(seen, one)
    BY ThenFacts
  <2>9. Els(seen2) = Els(seen) \cup {m} /\ Distinct(seen2) /\ Len(seen2) = Len(seen) + 1
    <3>1. Els(seen2) = Els(seen) \cup Els(one)
          /\ (Distinct(seen2)
                <=> Distinct(seen) /\ Distinct(one) /\ Els(seen) \cap Els(one) = {})
      BY <2>8, ElsFacts
    <3>2. Len(seen2) = Len(seen) + Len(one)
      BY <2>8, ThenAt
    <3>3. Len(one) = 1
      BY <2>3
    <3> QED BY <2>3, <2>5, <3>1, <3>2, <3>3
  <2>10. PICK todo2 \in Seq(A) :
           todo2 = IF policy = "queue" THEN Then(rest, c) ELSE Then(c, rest)
    BY ThenFacts
  <2>11. Els(todo2) = Els(rest) \cup Els(c) /\ Distinct(todo2)
    <3>1. Els(Then(rest, c)) = Els(rest) \cup Els(c)
          /\ (Distinct(Then(rest, c))
                <=> Distinct(rest) /\ Distinct(c) /\ Els(rest) \cap Els(c) = {})
      BY ElsFacts
    <3>2. Els(Then(c, rest)) = Els(c) \cup Els(rest)
          /\ (Distinct(Then(c, rest))
                <=> Distinct(c) /\ Distinct(rest) /\ Els(c) \cap Els(rest) = {})
      BY ElsFacts
    <3>3. Els(rest) \cap Els(c) = {}
      BY <2>4, <2>7
    <3> QED BY <2>2, <2>4, <2>10, <3>1, <3>2, <3>3
  <2>12. PICK v : v = Shown(ak, w, policy)
    OBVIOUS
  <2>13. v = [todo |-> todo2, seen |-> seen2]
    BY <1>2, <1>4, <2>1, <2>2, <2>3, <2>8, <2>10, <2>12, Zenon DEF Shown
  <2>14. v.todo = todo2 /\ v.seen = seen2
    BY <2>13
  <2>15. \A x \in Els(c) : home[x] = home[m]
    BY <1>1, <2>2 DEF Forested
  <2>16. home[m] = home[n]
    BY <1>2, <2>4 DEF Reached
  <2>17. Els(seen2) \cup Els(todo2) = Els(seen) \cup Els(todo) \cup Els(c)
    BY <2>4, <2>9, <2>11
  <2>18. Els(seen2) \cap Els(todo2) = {}
    BY <2>4, <2>5, <2>7, <2>9, <2>11
  <2>19. Reached(ak, home, n, v)
    <3>1. n \in Els(seen2) \cup Els(todo2)
      BY <1>2, <2>17 DEF Reached
    <3>2. \A x \in Els(seen2) \cup Els(todo2) : home[x] = home[n]
      BY <1>2, <2>15, <2>16, <2>17 DEF Reached
    <3>3. ASSUME NEW x \in Els(seen2) \cup Els(todo2)
          PROVE  x = n \/ \E q \in Els(seen2) : x \in Els(ak[q])
      <4>1. CASE x \in Els(c)
        BY <2>2, <2>9, <4>1
      <4>2. CASE x \notin Els(c)
        BY <1>2, <2>9, <2>17, <4>2 DEF Reached
      <4> QED BY <4>1, <4>2
    <3>4. \A q \in Els(seen2) : Els(ak[q]) \subseteq Els(seen2) \cup Els(todo2)
      BY <1>2, <2>2, <2>9, <2>17 DEF Reached
    <3> QED BY <2>9, <2>11, <2>14, <2>18, <3>1, <3>2, <3>3, <3>4 DEF Reached
  <2> QED BY <1>2, <2>9, <2>12, <2>14, <2>19
<1> QED BY <1>2, <1>3, <1>4

\* Whatever is in a tree is below its root.
LEMMA AllBelow ==
  ASSUME NEW rt, NEW ak, NEW home, NEW d, Forested(rt, ak, home, d),
         NEW T, NEW n \in T, d[n] = 0, n \in DOMAIN ak,
         \A m \in T : m \in DOMAIN ak /\ Els(ak[m]) \subseteq T
  PROVE  {x \in DOMAIN ak : home[x] = home[n]} \subseteq T
<1> SUFFICES ASSUME NEW y \in DOMAIN ak, home[y] = home[n], y \notin T PROVE FALSE
  OBVIOUS
<1> DEFINE Missing == {x \in DOMAIN ak : home[x] = home[n] /\ x \notin T}
<1> DEFINE Depths == {d[x] : x \in Missing}
<1>1. y \in Missing /\ Depths \subseteq Nat /\ d[y] \in Depths
  BY DEF Forested
<1>2. PICK k \in Depths : \A l \in Depths : k <= l
  <2> HIDE DEF Depths
  <2> QED BY <1>1, LeastNumber
<1>3. PICK x \in Missing : d[x] = k
  BY <1>2
<1>4. CASE k = 0
  <2>1. rt[home[x]] = x /\ rt[home[n]] = n
    BY <1>3, <1>4 DEF Forested
  <2> QED BY <1>3, <2>1
<1>5. CASE k # 0
  <2>1. PICK m \in DOMAIN ak : x \in Els(ak[m])
    BY <1>3, <1>5 DEF Forested
  <2>2. home[x] = home[m] /\ d[x] = d[m] + 1 /\ d[m] \in Nat
    BY <2>1 DEF Forested
  <2>3. m \in Missing
    BY <1>3, <2>1, <2>2
  <2>4. d[m] \in Depths /\ d[m] < k
    BY <1>3, <2>2, <2>3
  <2>5. k <= d[m] /\ k \in Nat /\ d[m] \in Nat
    BY <1>1, <1>2, <2>4
  <2> QED BY <2>4, <2>5
<1> QED BY <1>4, <1>5

\* The walks from a root end, and have shown the nodes of its tree.
LEMMA WalkTotal ==
  ASSUME NEW h, NEW rt, NEW ak, Kept(h, rt, ak), NEW policy \in Policies,
         NEW home, NEW d, Forested(rt, ak, home, d),
         NEW n \in DOMAIN ak, d[n] = 0
  PROVE  LET w == Forest!Walk(h, n, policy)
         IN  /\ w.todo = <<>> /\ w.seen \in Seq(DOMAIN ak) /\ Distinct(w.seen)
             /\ Els(w.seen) = {x \in DOMAIN ak : home[x] = home[n]}
<1>1. PICK A : A = DOMAIN ak
  OBVIOUS
<1>2. MaxNodes \in Nat /\ A \subseteq 1..MaxNodes
  BY <1>1, ContainersAssumption DEF Kept
<1>3. PICK f \in [0..MaxNodes -> WalkStates(A)] :
        /\ f[0] = WalkFrom(n)
        /\ \A i \in 1..MaxNodes : f[i] = Shown(ak, f[i - 1], policy)
        /\ Forest!Walk(h, n, policy) = f[MaxNodes]
  BY <1>1, WalkSteps
<1> DEFINE Good == {i \in 0..MaxNodes : /\ Reached(ak, home, n, f[i])
                                        /\ f[i].todo = <<>> \/ Len(f[i].seen) = i}
<1>4. 0 \in Good
  <2>1. f[0].todo = <<n>> /\ f[0].seen = <<>>
    BY <1>3 DEF WalkFrom
  <2>2. Els(<<n>>) = {n} /\ Distinct(<<n>>)
    BY OneElement
  <2>3. Reached(ak, home, n, f[0])
    BY <2>1, <2>2, NoElement DEF Reached
  <2>4. Len(<<>>) = 0
    OBVIOUS
  <2> QED BY <1>2, <2>1, <2>3, <2>4
<1>5. ASSUME NEW i \in 1..MaxNodes, i - 1 \in Good PROVE i \in Good
  <2>1. PICK w \in WalkStates(A) : w = f[i - 1]
    BY <1>2, <1>3
  <2>2. Reached(ak, home, n, w) /\ (w.todo = <<>> \/ Len(w.seen) = i - 1)
    BY <1>5, <2>1
  <2>3. f[i] = Shown(ak, w, policy)
    BY <1>3, <2>1
  <2>4. /\ Reached(ak, home, n, f[i])
        /\ w.todo # <<>> => Len(f[i].seen) = Len(w.seen) + 1
    BY <1>1, <2>2, <2>3, ReachedStep
  <2>5. w.todo = <<>> => f[i].todo = <<>>
    BY <2>3 DEF Shown
  <2>6. f[i].todo = <<>> \/ Len(f[i].seen) = i
    BY <2>2, <2>4, <2>5
  <2> QED BY <1>2, <2>4, <2>6
<1>6. 0..MaxNodes \subseteq Good
  <2> HIDE DEF Good
  <2> QED BY <1>2, <1>4, <1>5, UpTo
<1>7. PICK w \in WalkStates(A) : w = f[MaxNodes]
  BY <1>2, <1>3
<1>8. Reached(ak, home, n, w) /\ (w.todo = <<>> \/ Len(w.seen) = MaxNodes)
  <2>1. MaxNodes \in Good
    BY <1>2, <1>6
  <2> QED BY <1>7, <2>1
<1>9. PICK todo, seen \in Seq(A) : todo = w.todo /\ seen = w.seen
  BY DEF WalkStates
<1>10. todo = <<>>
  <2> SUFFICES ASSUME todo # <<>> PROVE FALSE
    OBVIOUS
  <2>1. PICK q \in Seq(A) : q = Then(seen, todo)
    BY ThenFacts
  <2>2. Distinct(q)
    BY <1>8, <1>9, <2>1, ElsFacts DEF Reached
  <2>3. Len(q) <= MaxNodes
    <3>1. q \in Seq(1..MaxNodes)
      BY <1>2, SeqMonotonic
    <3> QED BY <2>2, <3>1, FewNodes
  <2>4. Len(q) = Len(seen) + Len(todo)
    BY <2>1, ThenAt
  <2>5. Len(seen) = MaxNodes /\ Len(todo) \in Nat \ {0}
    BY <1>8, <1>9, EmptySeq
  <2> QED BY <1>2, <2>3, <2>4, <2>5
<1>11. Els(todo) = {}
  BY <1>10, NoElement
<1>12. n \in Els(seen) /\ Distinct(seen) /\ (\A x \in Els(seen) : home[x] = home[n])
       /\ \A m \in Els(seen) : Els(ak[m]) \subseteq Els(seen)
  BY <1>8, <1>9, <1>11 DEF Reached
<1>13. Els(seen) \subseteq A
  BY ElsFacts
<1>14. {x \in DOMAIN ak : home[x] = home[n]} \subseteq Els(seen)
  BY <1>1, <1>12, <1>13, AllBelow
<1> QED BY <1>1, <1>3, <1>7, <1>9, <1>10, <1>12, <1>13, <1>14

-----------------------------------------------------------------------------
\* The sequences that f gives for the elements of s, one after the other.

FlatMap(f, s) == Flat(Mapped(f, s))

LEMMA FlatMapFacts ==
  ASSUME NEW S, NEW T, NEW f \in [S -> Seq(T)], NEW s \in Seq(S)
  PROVE  FlatMap(f, <<>>) = <<>> /\ FlatMap(f, s) \in Seq(T)
<1>1. FlatMap(f, <<>>) = <<>>
  BY MappedNone, FlatNone DEF FlatMap
<1>2. \A t \in Seq(S) : Mapped(f, t) \in Seq(Seq(T))
  BY MappedType
<1>3. FlatMap(f, s) \in Seq(T)
  BY <1>2, FlatType DEF FlatMap
<1> QED BY <1>1, <1>3

LEMMA FlatMapThen ==
  ASSUME NEW S, NEW T, NEW f, Into(f, S, Seq(T)), NEW s \in Seq(S), NEW t \in Seq(S)
  PROVE  FlatMap(f, Then(s, t)) = Then(FlatMap(f, s), FlatMap(f, t))
<1>1. f \in [S -> Seq(T)]
  BY DEF Into
<1>2. PICK u, v \in Seq(Seq(T)) : u = Mapped(f, s) /\ v = Mapped(f, t)
  BY <1>1, MappedType
<1>3. Mapped(f, Then(s, t)) = Then(Mapped(f, s), Mapped(f, t))
  BY MappedThen
<1>4. Flat(Then(u, v)) = Then(Flat(u), Flat(v))
  BY FlatConcat
<1> QED BY <1>2, <1>3, <1>4 DEF FlatMap

LEMMA FlatMapOne ==
  ASSUME NEW S, NEW T, NEW f, Into(f, S, Seq(T)), NEW e \in S
  PROVE  FlatMap(f, <<e>>) = f[e]
<1>1. PICK x \in Seq(T) : x = f[e]
  BY DEF Into
<1>2. Mapped(f, <<e>>) = <<x>>
  BY <1>1, MappedOne DEF Into
<1>3. <<>> \in Seq(Seq(T)) /\ <<x>> \in Seq(Seq(T))
  BY OneElement, EmptySeq
<1>4. Flat(Then(<<>>, <<x>>)) = Then(Flat(<<>>), x)
  BY <1>3, FlatAppend
<1>5. Then(<<>>, <<x>>) = <<x>> /\ Then(<<>>, x) = x
  BY <1>3, ThenFacts
<1> QED BY <1>1, <1>2, <1>4, <1>5, FlatNone DEF FlatMap

-----------------------------------------------------------------------------
\* The walk with a queue goes level by level.

\* The functions that compute the levels below n.
Rows(f, n) ==
  f = [i \in 0..MaxNodes |-> IF i = 0 THEN <<n>> ELSE FlatMap(asked, f[i - 1])]

LEMMA RowsUnfold ==
  ASSUME NEW n, NEW g, Rows(g, n)
  PROVE  \E f : Rows(f, n) /\ \A k \in 0..MaxNodes : Forest!Level(n, k) = f[k]
<1>1. \E f : Rows(f, n)
  OBVIOUS
<1>2. PICK f : f = CHOOSE r : Rows(r, n)
  OBVIOUS
<1>3. Rows(f, n)
  BY <1>1, <1>2
<1>4. \A k : Forest!Level(n, k) = f[k]
  BY <1>2 DEF Rows, FlatMap, Flat, Mapped, Forest!Level
<1> QED BY <1>3, <1>4

LEMMA LevelRows ==
  ASSUME NEW n \in DOMAIN asked, asked \in [DOMAIN asked -> Seq(DOMAIN asked)]
  PROVE  \E f \in [0..MaxNodes -> Seq(DOMAIN asked)] :
           /\ f[0] = <<n>>
           /\ \A i \in 1..MaxNodes : f[i] = FlatMap(asked, f[i - 1])
           /\ \A k \in 0..MaxNodes : Forest!Level(n, k) = f[k]
<1>1. PICK A : A = DOMAIN asked
  OBVIOUS
<1>2. MaxNodes \in Nat
  BY ContainersAssumption
<1>3. \A s \in Seq(A) : FlatMap(asked, s) \in Seq(A)
  BY <1>1, FlatMapFacts
<1>4. PICK G : G = [i \in 1..MaxNodes |-> [s \in Seq(A) |-> FlatMap(asked, s)]]
  OBVIOUS
<1>5. G \in [1..MaxNodes -> [Seq(A) -> Seq(A)]]
  BY <1>3, <1>4
<1>6. <<n>> \in Seq(A)
  BY <1>1, OneElement
<1>7. PICK g \in [0..MaxNodes -> Seq(A)] : Steps(g, MaxNodes, <<n>>, G)
  BY <1>2, <1>5, <1>6, StepsExist
<1>8. ASSUME NEW i \in 1..MaxNodes
      PROVE  g[i] = FlatMap(asked, g[i - 1])
  <2>1. i - 1 \in 0..MaxNodes
    BY <1>2
  <2>2. g[i - 1] \in Seq(A)
    BY <1>7, <2>1
  <2>3. g[i] = G[i][g[i - 1]]
    BY <1>7 DEF Steps
  <2> QED BY <1>4, <2>2, <2>3
<1>9. g[0] = <<n>>
  BY <1>7 DEF Steps
<1>10. g = [i \in 0..MaxNodes |-> IF i = 0 THEN <<n>> ELSE FlatMap(asked, g[i - 1])]
  <2>1. \A i \in 0..MaxNodes : g[i] = IF i = 0 THEN <<n>> ELSE FlatMap(asked, g[i - 1])
    <3> SUFFICES ASSUME NEW i \in 0..MaxNodes
                 PROVE  g[i] = IF i = 0 THEN <<n>> ELSE FlatMap(asked, g[i - 1])
      OBVIOUS
    <3>1. i # 0 => i \in 1..MaxNodes
      BY <1>2
    <3> QED BY <1>8, <1>9, <3>1
  <2>2. g = [i \in 0..MaxNodes |-> g[i]]
    BY <1>7
  <2> QED BY <2>1, <2>2, Zenon
<1>11. Rows(g, n)
  BY <1>10, Zenon DEF Rows
<1>12. PICK f : Rows(f, n) /\ \A k \in 0..MaxNodes : Forest!Level(n, k) = f[k]
  BY <1>11, RowsUnfold
<1>13. \A i \in 0..MaxNodes : f[i] = IF i = 0 THEN <<n>> ELSE FlatMap(asked, f[i - 1])
  BY <1>12, Zenon DEF Rows
<1>14. 0..MaxNodes \subseteq {i \in 0..MaxNodes : f[i] = g[i]}
  <2>1. 0 \in {i \in 0..MaxNodes : f[i] = g[i]}
    <3>1. 0 \in 0..MaxNodes
      BY <1>2
    <3>2. f[0] = <<n>>
      BY <1>13, <3>1
    <3> QED BY <1>9, <3>1, <3>2
  <2>2. ASSUME NEW i \in 1..MaxNodes, i - 1 \in {j \in 0..MaxNodes : f[j] = g[j]}
        PROVE  i \in {j \in 0..MaxNodes : f[j] = g[j]}
    <3>1. i \in 0..MaxNodes /\ i # 0
      BY <1>2
    <3> QED BY <1>8, <1>13, <2>2, <3>1
  <2> QED BY <1>2, <2>1, <2>2, UpTo
<1>15. \A k \in 0..MaxNodes : Forest!Level(n, k) = g[k]
  BY <1>12, <1>14
<1> QED BY <1>1, <1>7, <1>8, <1>9, <1>15

\* What is shown, and to be shown, when the first elements P of level k were
\* shown and Q is left of it.
InLevel(ak, row, sum, k, P, Q, w) ==
  /\ Then(P, Q) = row[k]
  /\ w.todo = Then(Q, FlatMap(ak, P))
  /\ w.seen = Then(sum[k], P)

LEMMA InLevelStep ==
  ASSUME NEW A, NEW ak \in [A -> Seq(A)], NEW row \in [0..MaxNodes -> Seq(A)],
         NEW sum \in [0..MaxNodes -> Seq(A)], NEW k \in 0..MaxNodes,
         NEW P \in Seq(A), NEW Q \in Seq(A), Q # <<>>,
         NEW w \in WalkStates(A), InLevel(ak, row, sum, k, P, Q, w)
  PROVE  \E P2, Q2 \in Seq(A) : InLevel(ak, row, sum, k, P2, Q2, Shown(ak, w, "queue"))
<1>1. PICK m \in A, Q2 \in Seq(A) : m = Head(Q) /\ Q2 = Tail(Q) /\ Q = Then(<<m>>, Q2)
  BY HeadFirst
<1>2. PICK one \in Seq(A) : one = <<m>>
  BY OneElement
<1>3. PICK kids \in Seq(A) : kids = FlatMap(ak, P)
  BY FlatMapFacts
<1>4. PICK c \in Seq(A) : c = ak[m]
  OBVIOUS
<1>5. PICK rest \in Seq(A) : rest = Then(Q2, kids)
  BY ThenFacts
<1>6. w.todo = Then(one, rest)
  <2>1. w.todo = Then(Then(one, Q2), kids)
    BY <1>1, <1>2, <1>3 DEF InLevel
  <2>2. Then(Then(one, Q2), kids) = Then(one, Then(Q2, kids))
    BY ThenAssociative
  <2> QED BY <1>5, <2>1, <2>2
<1>7. w.todo # <<>> /\ Head(w.todo) = m /\ Tail(w.todo) = rest
  BY <1>2, <1>6, FirstThen
<1>8. PICK P2 \in Seq(A) : P2 = Then(P, one)
  BY ThenFacts
<1>9. PICK v : v = Shown(ak, w, "queue")
  OBVIOUS
<1>10. v = [todo |-> Then(rest, c), seen |-> Then(w.seen, one)]
  BY <1>2, <1>4, <1>7, <1>9 DEF Shown
<1>11. v.todo = Then(rest, c) /\ v.seen = Then(w.seen, one)
  BY <1>10
<1>12. Then(P2, Q2) = row[k]
  <2>1. Then(Then(P, one), Q2) = Then(P, Then(one, Q2))
    BY ThenAssociative
  <2> QED BY <1>1, <1>2, <1>8, <2>1 DEF InLevel
<1>13. Then(rest, c) = Then(Q2, FlatMap(ak, P2))
  <2>1. FlatMap(ak, P2) = Then(kids, c)
    <3>1. FlatMap(ak, Then(P, one)) = Then(FlatMap(ak, P), FlatMap(ak, one))
      <4>1. Into(ak, A, Seq(A))
        BY DEF Into
      <4> QED BY <4>1, FlatMapThen
    <3>2. FlatMap(ak, one) = c
      <4>1. FlatMap(ak, <<m>>) = ak[m]
        <5>1. Into(ak, A, Seq(A))
          BY DEF Into
        <5> QED BY <5>1, FlatMapOne
      <4> QED BY <1>2, <1>4, <4>1
    <3> QED BY <1>3, <1>8, <3>1, <3>2
  <2>2. Then(Then(Q2, kids), c) = Then(Q2, Then(kids, c))
    BY ThenAssociative
  <2> QED BY <1>5, <2>1, <2>2
<1>14. Then(w.seen, one) = Then(sum[k], P2)
  <2>1. PICK s \in Seq(A) : s = sum[k]
    OBVIOUS
  <2>2. Then(Then(s, P), one) = Then(s, Then(P, one))
    BY ThenAssociative
  <2> QED BY <1>8, <2>1, <2>2 DEF InLevel
<1>15. InLevel(ak, row, sum, k, P2, Q2, v)
  BY <1>11, <1>12, <1>13, <1>14 DEF InLevel
<1> QED BY <1>9, <1>15

LEMMA LevelWalk ==
  ASSUME Kept(nodes, root, asked), NEW home, NEW d, Forested(root, asked, home, d),
         NEW n \in DOMAIN asked, d[n] = 0
  PROVE  Forest!LevelOrder(nodes, n).seen
           = Forest!FlattenSeq([k \in 1..MaxNodes |-> Forest!Level(n, k - 1)])
<1>1. PICK A : A = DOMAIN asked
  OBVIOUS
<1>2. MaxNodes \in Nat /\ A \subseteq 1..MaxNodes /\ asked \in [A -> Seq(A)]
      /\ MaxNodes >= 1
  <2>1. MaxNodes \in Nat /\ A \subseteq 1..MaxNodes /\ asked \in [A -> Seq(A)]
    BY <1>1, ContainersAssumption DEF Kept
  <2>2. n \in 1..MaxNodes
    BY <1>1, <2>1
  <2> QED BY <2>1, <2>2
<1>3. PICK f \in [0..MaxNodes -> WalkStates(A)] :
        /\ f[0] = WalkFrom(n)
        /\ \A i \in 1..MaxNodes : f[i] = Shown(asked, f[i - 1], "queue")
        /\ Forest!Walk(nodes, n, "queue") = f[MaxNodes]
  BY <1>1, WalkSteps DEF Policies
<1>4. PICK row \in [0..MaxNodes -> Seq(A)] :
        /\ row[0] = <<n>>
        /\ \A i \in 1..MaxNodes : row[i] = FlatMap(asked, row[i - 1])
        /\ \A k \in 0..MaxNodes : Forest!Level(n, k) = row[k]
  BY <1>1, <1>2, LevelRows
<1>5. PICK ss : ss = [k \in 1..MaxNodes |-> Forest!Level(n, k - 1)]
  OBVIOUS
<1>6. \A k \in 1..MaxNodes : ss[k] = row[k - 1] /\ row[k - 1] \in Seq(A)
  <2> SUFFICES ASSUME NEW k \in 1..MaxNodes
               PROVE  ss[k] = row[k - 1] /\ row[k - 1] \in Seq(A)
    OBVIOUS
  <2>1. k - 1 \in 0..MaxNodes
    BY <1>2
  <2> QED BY <1>4, <1>5, <2>1
<1>7. ss \in Seq(Seq(A)) /\ Len(ss) = MaxNodes
  <2>1. ss = [k \in 1..MaxNodes |-> row[k - 1]]
    BY <1>5, <1>6
  <2> QED BY <1>2, <1>6, <2>1
<1>8. PICK sum \in [0..MaxNodes -> Seq(A)] :
        /\ sum[0] = <<>> /\ Flat(ss) = sum[MaxNodes]
        /\ \A i \in 1..MaxNodes : sum[i] = Then(sum[i - 1], row[i - 1])
  <2>1. PICK up : Sums(up, A, ss)
    BY <1>7, FlatSums
  <2>2. /\ up \in [0..MaxNodes -> Seq(A)]
        /\ up[0] = <<>> /\ Flat(ss) = up[MaxNodes]
        /\ \A i \in 1..MaxNodes : up[i] = Then(up[i - 1], ss[i])
    BY <1>7, <2>1 DEF Sums
  <2>3. \A i \in 1..MaxNodes : up[i] = Then(up[i - 1], row[i - 1])
    <3> SUFFICES ASSUME NEW i \in 1..MaxNodes PROVE up[i] = Then(up[i - 1], row[i - 1])
      OBVIOUS
    <3>1. ss[i] = row[i - 1]
      BY <1>6
    <3>2. up[i] = Then(up[i - 1], ss[i])
      BY <2>2
    <3> QED BY <3>1, <3>2
  <2> HIDE <1>6
  <2> QED BY <2>2, <2>3
<1> DEFINE At(i, k) ==
      /\ k <= i /\ (k = i => f[i].todo # <<>>)
      /\ \E P, Q \in Seq(A) : InLevel(asked, row, sum, k, P, Q, f[i])
                              /\ (k = i => Q # <<>>)
<1> DEFINE Good == {i \in 0..MaxNodes : \E k \in 0..MaxNodes : At(i, k)}
<1>a. ASSUME NEW i \in 0..MaxNodes, NEW k \in 0..MaxNodes, At(i, k)
      PROVE  i \in Good
  <2>1. \E j \in 0..MaxNodes : At(i, j)
    <3> HIDE DEF At
    <3> QED BY <1>a
  <2> QED BY <2>1
<1>9. 0 \in Good
  <2>1. PICK one \in Seq(A) : one = <<n>> /\ one # <<>>
    BY <1>1, OneElement
  <2>2. f[0].todo = one /\ f[0].seen = <<>>
    BY <1>3, <2>1 DEF WalkFrom
  <2>3. Then(<<>>, one) = one /\ Then(one, <<>>) = one
    BY <2>1, ThenFacts
  <2>4. <<>> \in Seq(A) /\ Then(<<>>, <<>>) = <<>>
    BY EmptySeq, ThenFacts
  <2>5. FlatMap(asked, <<>>) = <<>>
    BY <1>2, <2>4, FlatMapFacts
  <2>6. InLevel(asked, row, sum, 0, <<>>, one, f[0])
    BY <1>4, <1>8, <2>1, <2>2, <2>3, <2>4, <2>5 DEF InLevel
  <2>7. At(0, 0)
    <3>1. \E P, Q \in Seq(A) : InLevel(asked, row, sum, 0, P, Q, f[0]) /\ Q # <<>>
      BY <2>1, <2>4, <2>6
    <3> HIDE DEF InLevel
    <3> QED BY <2>1, <2>2, <3>1
  <2> HIDE DEF At, Good
  <2> QED BY <1>2, <1>a, <2>7
<1>10. ASSUME NEW i \in 1..MaxNodes, i - 1 \in Good PROVE i \in Good
  <2>1. PICK k \in 0..MaxNodes : At(i - 1, k)
    BY <1>10
  <2>2. PICK P \in Seq(A), Q \in Seq(A) :
          InLevel(asked, row, sum, k, P, Q, f[i - 1]) /\ (k = i - 1 => Q # <<>>)
    BY <2>1
  <2>a. f[i - 1] \in WalkStates(A)
    <3>1. i - 1 \in 0..MaxNodes
      BY <1>2
    <3> QED BY <3>1
  <2>3. PICK w \in WalkStates(A) : w = f[i - 1]
    BY <2>a
  <2>4. f[i] = Shown(asked, w, "queue")
    BY <1>3, <2>3
  <2>5. k \in Nat /\ k <= i - 1 /\ k < i /\ k # i
    BY <2>1
  <2>6. CASE Q # <<>>
    <3>1. PICK P2, Q2 \in Seq(A) : InLevel(asked, row, sum, k, P2, Q2, f[i])
      <4>1. InLevel(asked, row, sum, k, P, Q, w) /\ asked \in [A -> Seq(A)]
        BY <1>2, <2>2, <2>3
      <4>2. \E P2, Q2 \in Seq(A) :
              InLevel(asked, row, sum, k, P2, Q2, Shown(asked, w, "queue"))
        BY <2>6, <4>1, InLevelStep
      <4> QED BY <2>4, <4>2
    <3>2. At(i, k)
      BY <2>5, <3>1
    <3>3. i \in 0..MaxNodes
      BY <1>2
    <3> HIDE DEF At, Good
    <3> QED BY <1>a, <3>2, <3>3
  <2>7. CASE Q = <<>>
    <3>1. k # i - 1 /\ k + 1 <= i - 1 /\ k + 1 \in 1..MaxNodes
      BY <1>2, <2>2, <2>5, <2>7
    <3>2. P = row[k] /\ w.todo = FlatMap(asked, P)
      <4>1. Then(P, <<>>) = P
        BY ThenFacts
      <4>2. FlatMap(asked, P) \in Seq(A)
        BY <1>2, FlatMapFacts
      <4>3. Then(<<>>, FlatMap(asked, P)) = FlatMap(asked, P)
        BY <4>2, ThenFacts
      <4> QED BY <2>2, <2>3, <2>7, <4>1, <4>3 DEF InLevel
    <3>3. w.todo = row[k + 1]
      <4>1. row[k + 1] = FlatMap(asked, row[(k + 1) - 1])
        BY <1>4, <3>1
      <4>2. (k + 1) - 1 = k
        BY <2>5
      <4> QED BY <3>2, <4>1, <4>2
    <3>4. w.seen = sum[k + 1]
      <4>1. sum[k + 1] = Then(sum[(k + 1) - 1], row[(k + 1) - 1])
        BY <1>8, <3>1
      <4>2. (k + 1) - 1 = k
        BY <2>5
      <4> QED BY <2>2, <2>3, <3>2, <4>1, <4>2 DEF InLevel
    <3>5. k + 1 \in 0..MaxNodes /\ k + 1 <= i /\ k + 1 # i /\ k + 1 \in Nat
      BY <2>5, <3>1
    <3>6. row[k + 1] \in Seq(A) /\ sum[k + 1] \in Seq(A)
      BY <3>5
    <3>7. CASE w.todo = <<>>
      <4>1. f[i] = w
        BY <2>4, <3>7 DEF Shown
      <4>2. At(i, k)
        BY <2>2, <2>3, <2>5, <4>1
      <4>3. i \in 0..MaxNodes
        BY <1>2
      <4> HIDE DEF At, Good
      <4> QED BY <1>a, <4>2, <4>3
    <3>8. CASE w.todo # <<>>
      <4>1. <<>> \in Seq(A) /\ FlatMap(asked, <<>>) = <<>>
        BY <1>2, EmptySeq, FlatMapFacts
      <4>2. Then(<<>>, row[k + 1]) = row[k + 1] /\ Then(row[k + 1], <<>>) = row[k + 1]
            /\ Then(sum[k + 1], <<>>) = sum[k + 1]
        BY <3>6, ThenFacts
      <4>3. InLevel(asked, row, sum, k + 1, <<>>, row[k + 1], w)
        BY <3>3, <3>4, <4>1, <4>2 DEF InLevel
      <4>4. PICK P2, Q2 \in Seq(A) : InLevel(asked, row, sum, k + 1, P2, Q2, f[i])
        <5>1. PICK l \in 0..MaxNodes, Q2 \in Seq(A) : l = k + 1 /\ Q2 = row[k + 1] /\ Q2 # <<>>
          BY <3>3, <3>5, <3>6, <3>8
        <5>2. InLevel(asked, row, sum, l, <<>>, Q2, w) /\ asked \in [A -> Seq(A)]
          BY <1>2, <4>3, <5>1
        <5>3. \E P3, Q3 \in Seq(A) :
                InLevel(asked, row, sum, l, P3, Q3, Shown(asked, w, "queue"))
          <6>1. PICK none \in Seq(A) : none = <<>>
            BY <4>1
          <6>2. InLevel(asked, row, sum, l, none, Q2, w)
            BY <5>2, <6>1
          <6>3. asked \in [A -> Seq(A)] /\ Q2 # <<>>
            BY <5>1, <5>2
          <6> QED BY <6>2, <6>3, InLevelStep
        <5> QED BY <2>4, <5>1, <5>3
      <4>5. At(i, k + 1)
        BY <3>5, <4>4
      <4>6. i \in 0..MaxNodes
        BY <1>2
      <4> HIDE DEF At, Good
      <4> QED BY <1>a, <3>5, <4>5, <4>6
    <3> QED BY <3>7, <3>8
  <2> QED BY <2>6, <2>7
<1>11. 0..MaxNodes \subseteq Good
  <2> HIDE DEF Good
  <2> QED BY <1>2, <1>9, <1>10, UpTo
<1>12. PICK k \in 0..MaxNodes : At(MaxNodes, k)
  <2>1. MaxNodes \in Good
    <3> HIDE DEF Good
    <3> QED BY <1>2, <1>11
  <2> HIDE DEF At
  <2> QED BY <2>1
<1>13. PICK P \in Seq(A), Q \in Seq(A) : InLevel(asked, row, sum, k, P, Q, f[MaxNodes])
  BY <1>12
<1>14. f[MaxNodes].todo = <<>>
  <2>1. Forest!Walk(nodes, n, "queue").todo = <<>>
    BY WalkTotal DEF Policies
  <2> QED BY <1>3, <2>1
<1>15. k # MaxNodes /\ k < MaxNodes /\ k \in Nat
  BY <1>2, <1>12, <1>14
<1>16. FlatMap(asked, P) \in Seq(A) /\ Q = <<>> /\ FlatMap(asked, P) = <<>>
  <2>1. FlatMap(asked, P) \in Seq(A)
    BY <1>2, FlatMapFacts
  <2>2. Then(Q, FlatMap(asked, P)) = <<>>
    BY <1>13, <1>14 DEF InLevel
  <2> QED BY <2>1, <2>2, EmptyThen
<1>17. P = row[k]
  BY <1>13, <1>16, ThenFacts DEF InLevel
<1>18. f[MaxNodes].seen = sum[k + 1]
  <2>1. k + 1 \in 1..MaxNodes /\ (k + 1) - 1 = k
    BY <1>2, <1>15
  <2>2. sum[k + 1] = Then(sum[k], row[k])
    BY <1>8, <2>1
  <2> QED BY <1>13, <1>17, <2>2 DEF InLevel
<1> DEFINE Rest == {i \in 0..MaxNodes : i >= k + 1 => row[i] = <<>> /\ sum[i] = sum[k + 1]}
<1>19. 0 \in Rest
  BY <1>2, <1>15
<1>20. ASSUME NEW i \in 1..MaxNodes, i - 1 \in Rest PROVE i \in Rest
  <2> SUFFICES ASSUME i >= k + 1 PROVE row[i] = <<>> /\ sum[i] = sum[k + 1]
    BY <1>2
  <2>1. row[i] = FlatMap(asked, row[i - 1]) /\ sum[i] = Then(sum[i - 1], row[i - 1])
    BY <1>4, <1>8
  <2>2. CASE i = k + 1
    <3>1. i - 1 = k
      BY <1>15, <2>2
    <3> QED BY <1>16, <1>17, <2>1, <2>2, <3>1
  <2>3. CASE i # k + 1
    <3>1. i - 1 >= k + 1 /\ i - 1 \in 0..MaxNodes
      <4>1. i \in Nat /\ i >= k + 1 /\ i - 1 \in 0..MaxNodes
        BY <1>2
      <4> QED BY <1>15, <2>3, <4>1
    <3>2. row[i - 1] = <<>> /\ sum[i - 1] = sum[k + 1]
      BY <1>20, <3>1
    <3>3. FlatMap(asked, <<>>) = <<>>
      BY <1>2, EmptySeq, FlatMapFacts
    <3>4. sum[i - 1] \in Seq(A)
      BY <3>1
    <3>5. Then(sum[i - 1], <<>>) = sum[i - 1]
      BY <3>4, ThenFacts
    <3> QED BY <2>1, <3>2, <3>3, <3>5
  <2> QED BY <2>2, <2>3
<1>21. 0..MaxNodes \subseteq Rest
  <2> HIDE DEF Rest
  <2> QED BY <1>2, <1>19, <1>20, UpTo
<1>22. sum[MaxNodes] = sum[k + 1]
  <2>1. MaxNodes \in 0..MaxNodes /\ MaxNodes >= k + 1
    BY <1>2, <1>15
  <2> QED BY <1>21, <2>1
<1> QED BY <1>3, <1>5, <1>8, <1>18, <1>22 DEF Forest!LevelOrder, Flat

-----------------------------------------------------------------------------
\* The walk with a stack goes branch by branch.

\* Node m and what f gives for its children.
Under(m, f) == Then(<<m>>, FlatMap(f, asked[m]))

\* The functions that compute the branches.
Branches(f) ==
  f = [d \in 0..MaxNodes |->
         [m \in DOMAIN nodes |-> IF d = 0 THEN <<>> ELSE Under(m, f[d - 1])]]

LEMMA BranchUnfolds ==
  ASSUME NEW g, Branches(g)
  PROVE  \E f : Branches(f) /\ \A n : Forest!Branch(n) = f[MaxNodes][n]
<1>1. \E f : Branches(f)
  OBVIOUS
<1>2. PICK f : f = CHOOSE r : Branches(r)
  OBVIOUS
<1>3. Branches(f)
  BY <1>1, <1>2
<1>4. \A n : Forest!Branch(n) = f[MaxNodes][n]
  BY <1>2 DEF Branches, Under, Then, FlatMap, Flat, Mapped, Forest!Branch, Forest!Alive
<1> QED BY <1>3, <1>4

LEMMA UnderType ==
  ASSUME NEW A, asked \in [A -> Seq(A)], NEW f \in [A -> Seq(A)], NEW m \in A
  PROVE  Under(m, f) \in Seq(A)
<1>1. PICK one, c \in Seq(A) : one = <<m>> /\ c = asked[m]
  BY OneElement
<1>2. PICK s \in Seq(A) : s = FlatMap(f, c)
  BY FlatMapFacts
<1> QED BY <1>1, <1>2, ThenFacts DEF Under

LEMMA BranchSteps ==
  ASSUME Kept(nodes, root, asked), NEW A, A = DOMAIN asked
  PROVE  \E f \in [0..MaxNodes -> [A -> Seq(A)]] :
           /\ \A i \in 1..MaxNodes, m \in A : f[i][m] = Under(m, f[i - 1])
           /\ \A n : Forest!Branch(n) = f[MaxNodes][n]
<1>1. MaxNodes \in Nat /\ DOMAIN nodes = A /\ asked \in [A -> Seq(A)]
  BY ContainersAssumption DEF Kept
<1>2. PICK B : B = [A -> Seq(A)]
  OBVIOUS
<1>3. \A f \in B : [m \in A |-> Under(m, f)] \in B
  <2>1. \A f \in B, m \in A : Under(m, f) \in Seq(A)
    BY <1>1, <1>2, UnderType
  <2> QED BY <1>2, <2>1
<1>4. PICK G : G = [i \in 1..MaxNodes |-> [f \in B |-> [m \in A |-> Under(m, f)]]]
  OBVIOUS
<1>5. G \in [1..MaxNodes -> [B -> B]]
  BY <1>3, <1>4
<1>6. PICK none \in B : none = [m \in A |-> <<>>]
  <2>1. <<>> \in Seq(A)
    OBVIOUS
  <2> QED BY <1>2, <2>1
<1>7. PICK g \in [0..MaxNodes -> B] : Steps(g, MaxNodes, none, G)
  BY <1>1, <1>5, StepsExist
<1>8. ASSUME NEW i \in 1..MaxNodes
      PROVE  g[i - 1] \in B /\ g[i] = [m \in A |-> Under(m, g[i - 1])]
  <2>1. i - 1 \in 0..MaxNodes
    BY <1>1
  <2>2. g[i - 1] \in B
    BY <1>7, <2>1
  <2>3. g[i] = G[i][g[i - 1]]
    BY <1>7 DEF Steps
  <2> QED BY <1>4, <2>2, <2>3
<1>9. g[0] = none
  BY <1>7 DEF Steps
<1>10. \A i \in 0..MaxNodes :
         g[i] = [m \in A |-> IF i = 0 THEN <<>> ELSE Under(m, g[i - 1])]
  <2> SUFFICES ASSUME NEW i \in 0..MaxNodes
               PROVE  g[i] = [m \in A |-> IF i = 0 THEN <<>> ELSE Under(m, g[i - 1])]
    OBVIOUS
  <2>1. CASE i = 0
    BY <1>6, <1>9, <2>1
  <2>2. CASE i # 0
    <3>1. i \in 1..MaxNodes
      BY <1>1, <2>2
    <3> QED BY <1>8, <2>2, <3>1
  <2> QED BY <2>1, <2>2
<1>11. Branches(g)
  <2>1. g = [i \in 0..MaxNodes |-> g[i]]
    BY <1>7
  <2>2. g = [i \in 0..MaxNodes |->
               [m \in A |-> IF i = 0 THEN <<>> ELSE Under(m, g[i - 1])]]
    BY <1>10, <2>1, Zenon
  <2> QED BY <1>1, <2>2, Zenon DEF Branches
<1>12. PICK f : Branches(f) /\ \A n : Forest!Branch(n) = f[MaxNodes][n]
  BY <1>11, BranchUnfolds
<1>13. \A i \in 0..MaxNodes :
         f[i] = [m \in A |-> IF i = 0 THEN <<>> ELSE Under(m, f[i - 1])]
  BY <1>1, <1>12, Zenon DEF Branches
<1>14. 0..MaxNodes \subseteq {i \in 0..MaxNodes : f[i] = g[i]}
  <2>1. 0 \in {i \in 0..MaxNodes : f[i] = g[i]}
    <3>1. 0 \in 0..MaxNodes
      BY <1>1
    <3> QED BY <1>10, <1>13, <3>1
  <2>2. ASSUME NEW i \in 1..MaxNodes, i - 1 \in {j \in 0..MaxNodes : f[j] = g[j]}
        PROVE  i \in {j \in 0..MaxNodes : f[j] = g[j]}
    <3>1. i \in 0..MaxNodes /\ i # 0 /\ f[i - 1] = g[i - 1]
      BY <1>1, <2>2
    <3>2. f[i] = [m \in A |-> Under(m, f[i - 1])]
      BY <1>13, <3>1
    <3> QED BY <1>8, <3>1, <3>2
  <2> QED BY <1>1, <2>1, <2>2, UpTo
<1>15. f[MaxNodes] = g[MaxNodes]
  BY <1>1, <1>14
<1>16. \A i \in 1..MaxNodes, m \in A : g[i][m] = Under(m, g[i - 1])
  BY <1>8
<1> QED BY <1>2, <1>7, <1>12, <1>15, <1>16

\* No node is deeper than there are nodes.
LEMMA Shallow ==
  ASSUME NEW h, NEW rt, NEW ak, Kept(h, rt, ak), NEW home, NEW d,
         Forested(rt, ak, home, d), NEW x \in DOMAIN ak
  PROVE  d[x] < MaxNodes
<1>1. PICK A : A = DOMAIN ak
  OBVIOUS
<1>2. MaxNodes \in Nat /\ A \subseteq 1..MaxNodes /\ \A y \in A : d[y] \in Nat
  BY <1>1, ContainersAssumption DEF Kept, Forested
<1>3. PICK k \in Nat : k = d[x]
  BY <1>1, <1>2
<1> DEFINE Good == {i \in 0..k : \E y \in A : d[y] = k - i}
<1>4. 0 \in Good
  BY <1>1, <1>3
<1>5. ASSUME NEW i \in 1..k, i - 1 \in Good PROVE i \in Good
  <2>1. PICK y \in A : d[y] = k - (i - 1)
    BY <1>5
  <2>2. d[y] # 0
    BY <2>1
  <2>3. PICK m \in A : y \in Els(ak[m])
    BY <1>1, <2>2 DEF Forested
  <2>4. d[y] = d[m] + 1 /\ d[m] \in Nat
    BY <1>1, <1>2, <2>3 DEF Forested
  <2>5. d[m] = k - i
    BY <2>1, <2>4
  <2> QED BY <2>5
<1>6. 0..k \subseteq Good
  <2> HIDE DEF Good
  <2> QED BY <1>4, <1>5, UpTo
<1>7. ASSUME NEW j \in 1..(k + 1) PROVE \E y \in A : d[y] = j - 1
  <2>1. (k + 1) - j \in 0..k /\ k - ((k + 1) - j) = j - 1
    OBVIOUS
  <2> QED BY <1>6, <2>1
<1>8. PICK c : c = [j \in 1..(k + 1) |-> CHOOSE y \in A : d[y] = j - 1]
  OBVIOUS
<1>9. \A j \in 1..(k + 1) : c[j] \in A /\ d[c[j]] = j - 1
  BY <1>7, <1>8
<1>10. c \in Seq(1..MaxNodes) /\ Len(c) = k + 1
  <2>1. PICK l \in Nat : l = k + 1
    OBVIOUS
  <2>2. \A j \in 1..l : c[j] \in A
    BY <1>9, <2>1
  <2>3. PICK b : b = [j \in 1..l |-> c[j]]
    OBVIOUS
  <2>4. b = c
    BY <1>8, <2>1, <2>3
  <2>5. b \in Seq(A) /\ Len(b) = l
    BY <2>2, <2>3
  <2>6. c \in Seq(1..MaxNodes)
    BY <1>2, <2>4, <2>5, SeqMonotonic
  <2> QED BY <2>1, <2>4, <2>5, <2>6
<1>11. Distinct(c)
  <2> SUFFICES ASSUME NEW i \in 1..(k + 1), NEW j \in 1..(k + 1), c[i] = c[j] PROVE i = j
    BY <1>10 DEF Distinct
  <2>1. i - 1 = j - 1
    BY <1>9
  <2> QED BY <2>1
<1>12. Len(c) <= MaxNodes
  BY <1>10, <1>11, FewNodes
<1> QED BY <1>2, <1>3, <1>10, <1>12

LEMMA FlatMapSame ==
  ASSUME NEW S, NEW s \in Seq(S), NEW f, NEW g, \A x \in Els(s) : f[x] = g[x]
  PROVE  FlatMap(f, s) = FlatMap(g, s)
<1>1. \A i \in DOMAIN s : f[s[i]] = g[s[i]]
  BY DEF Els
<1>2. Mapped(f, s) = Mapped(g, s)
  BY <1>1 DEF Mapped
<1> QED BY <1>2 DEF FlatMap

\* A node's branch: the node, and the branches of its children.
LEMMA BranchIs ==
  ASSUME Kept(nodes, root, asked), NEW home, NEW d, Forested(root, asked, home, d),
         NEW A, A = DOMAIN asked, A # {}
  PROVE  \E U \in [A -> Seq(A)] : /\ \A m \in A : U[m] = Under(m, U)
                                  /\ \A n : Forest!Branch(n) = U[n]
<1>1. PICK f \in [0..MaxNodes -> [A -> Seq(A)]] :
        /\ \A i \in 1..MaxNodes, m \in A : f[i][m] = Under(m, f[i - 1])
        /\ \A n : Forest!Branch(n) = f[MaxNodes][n]
  BY BranchSteps
<1>2. MaxNodes \in Nat /\ MaxNodes >= 1 /\ asked \in [A -> Seq(A)]
  <2>1. MaxNodes \in Nat /\ A \subseteq 1..MaxNodes /\ asked \in [A -> Seq(A)]
    BY ContainersAssumption DEF Kept
  <2>2. PICK n \in A : n \in 1..MaxNodes
    BY <2>1
  <2> QED BY <2>1, <2>2
<1>3. \A m \in A : d[m] \in Nat /\ d[m] < MaxNodes
  <2>1. \A m \in A : d[m] \in Nat
    BY DEF Forested
  <2>2. \A m \in DOMAIN asked : d[m] < MaxNodes
    BY Shallow
  <2> QED BY <2>1, <2>2
<1>4. PICK k \in Nat : k = MaxNodes - 1
  BY <1>2
<1> DEFINE Good == {i \in 0..k : \A m \in A : d[m] + i >= MaxNodes => f[i + 1][m] = f[i][m]}
<1>5. 0 \in Good
  BY <1>2, <1>3, <1>4
<1>6. ASSUME NEW i \in 1..k, i - 1 \in Good PROVE i \in Good
  <2> SUFFICES ASSUME NEW m \in A, d[m] + i >= MaxNodes PROVE f[i + 1][m] = f[i][m]
    OBVIOUS
  <2>1. i \in 1..MaxNodes /\ i + 1 \in 1..MaxNodes /\ (i + 1) - 1 = i /\ (i - 1) + 1 = i
    BY <1>2, <1>4
  <2>2. f[i + 1][m] = Under(m, f[i]) /\ f[i][m] = Under(m, f[i - 1])
    BY <1>1, <2>1
  <2>3. \A x \in Els(asked[m]) : f[i][x] = f[i - 1][x]
    <3> SUFFICES ASSUME NEW x \in Els(asked[m]) PROVE f[i][x] = f[i - 1][x]
      OBVIOUS
    <3>1. d[x] = d[m] + 1
      BY DEF Forested
    <3>2. x \in A
      BY <1>2, ElsFacts
    <3>3. d[x] + (i - 1) >= MaxNodes
      BY <1>2, <1>3, <3>1
    <3> QED BY <1>6, <2>1, <3>2, <3>3
  <2>4. FlatMap(f[i], asked[m]) = FlatMap(f[i - 1], asked[m])
    <3>1. PICK s \in Seq(A) : s = asked[m]
      BY <1>2
    <3> QED BY <2>3, <3>1, FlatMapSame
  <2> QED BY <2>2, <2>4 DEF Under
<1>7. 0..k \subseteq Good
  <2> HIDE DEF Good
  <2> QED BY <1>5, <1>6, UpTo
<1>8. ASSUME NEW x \in A, d[x] >= 1 PROVE f[MaxNodes][x] = f[k][x]
  <2>1. k \in Good
    BY <1>7
  <2>2. k + 1 = MaxNodes /\ d[x] + k >= MaxNodes
    BY <1>2, <1>3, <1>4, <1>8
  <2> QED BY <2>1, <2>2
<1>9. PICK U \in [A -> Seq(A)] : U = f[MaxNodes]
  BY <1>2
<1>10. ASSUME NEW m \in A PROVE U[m] = Under(m, U)
  <2>1. MaxNodes \in 1..MaxNodes /\ MaxNodes - 1 = k
    BY <1>2, <1>4
  <2>2. U[m] = Under(m, f[k])
    BY <1>1, <1>9, <2>1
  <2>3. \A x \in Els(asked[m]) : f[k][x] = U[x]
    <3> SUFFICES ASSUME NEW x \in Els(asked[m]) PROVE f[k][x] = U[x]
      OBVIOUS
    <3>1. d[x] = d[m] + 1
      BY DEF Forested
    <3>2. x \in A
      BY <1>2, ElsFacts
    <3>3. d[x] >= 1
      BY <1>3, <3>1
    <3> QED BY <1>8, <1>9, <3>2, <3>3
  <2>4. FlatMap(f[k], asked[m]) = FlatMap(U, asked[m])
    <3>1. PICK s \in Seq(A) : s = asked[m]
      BY <1>2
    <3> QED BY <2>3, <3>1, FlatMapSame
  <2> QED BY <2>2, <2>4 DEF Under
<1> QED BY <1>1, <1>9, <1>10

\* What was shown and the branches of what is to be shown.
LEMMA BranchStep ==
  ASSUME NEW A, asked \in [A -> Seq(A)], NEW U, Into(U, A, Seq(A)),
         \A m \in A : U[m] = Under(m, U),
         NEW w \in WalkStates(A), NEW v, v = Shown(asked, w, "stack")
  PROVE  Then(v.seen, FlatMap(U, v.todo)) = Then(w.seen, FlatMap(U, w.todo))
<1>1. PICK todo, seen \in Seq(A) : todo = w.todo /\ seen = w.seen
  BY DEF WalkStates
<1>2. CASE todo = <<>>
  BY <1>1, <1>2 DEF Shown
<1>3. CASE todo # <<>>
  <2>1. PICK m \in A, rest \in Seq(A) :
          m = Head(todo) /\ rest = Tail(todo) /\ todo = Then(<<m>>, rest)
    BY <1>3, HeadFirst
  <2>2. PICK one, c \in Seq(A) : one = <<m>> /\ c = asked[m]
    BY OneElement
  <2>3. PICK y, z \in Seq(A) : y = FlatMap(U, c) /\ z = FlatMap(U, rest)
    BY FlatMapFacts DEF Into
  <2>4. v = [todo |-> Then(c, rest), seen |-> Then(seen, one)]
    BY <1>1, <1>3, <2>1, <2>2, Zenon DEF Shown
  <2>5. v.todo = Then(c, rest) /\ v.seen = Then(seen, one)
    BY <2>4
  <2>6. FlatMap(U, Then(c, rest)) = Then(y, z)
    BY <2>3, FlatMapThen
  <2>7. FlatMap(U, todo) = Then(Then(one, y), z)
    <3>1. FlatMap(U, Then(one, rest)) = Then(FlatMap(U, one), FlatMap(U, rest))
      BY FlatMapThen
    <3>2. FlatMap(U, <<m>>) = U[m]
      BY FlatMapOne
    <3>3. U[m] = Then(one, y)
      BY <2>2, <2>3 DEF Under
    <3> QED BY <2>1, <2>2, <2>3, <3>1, <3>2, <3>3
  <2>8. Then(Then(one, y), z) = Then(one, Then(y, z))
    BY ThenAssociative
  <2>9. PICK yz \in Seq(A) : yz = Then(y, z)
    BY ThenFacts
  <2>10. Then(Then(seen, one), yz) = Then(seen, Then(one, yz))
    BY ThenAssociative
  <2> QED BY <1>1, <2>5, <2>6, <2>7, <2>8, <2>9, <2>10
<1> QED BY <1>2, <1>3

LEMMA BranchWalk ==
  ASSUME Kept(nodes, root, asked), NEW home, NEW d, Forested(root, asked, home, d),
         NEW n \in DOMAIN asked, d[n] = 0
  PROVE  Forest!PreOrder(nodes, n).seen = Forest!Branch(n)
<1>1. PICK A : A = DOMAIN asked
  OBVIOUS
<1>2. MaxNodes \in Nat /\ asked \in [A -> Seq(A)] /\ n \in A
  BY <1>1, ContainersAssumption DEF Kept
<1>3. PICK U \in [A -> Seq(A)] : /\ \A m \in A : U[m] = Under(m, U)
                                 /\ \A m : Forest!Branch(m) = U[m]
  BY <1>1, <1>2, BranchIs
<1>4. PICK f \in [0..MaxNodes -> WalkStates(A)] :
        /\ f[0] = WalkFrom(n)
        /\ \A i \in 1..MaxNodes : f[i] = Shown(asked, f[i - 1], "stack")
        /\ Forest!Walk(nodes, n, "stack") = f[MaxNodes]
  BY <1>1, WalkSteps DEF Policies
<1> DEFINE Good == {i \in 0..MaxNodes : Then(f[i].seen, FlatMap(U, f[i].todo)) = U[n]}
<1>5. 0 \in Good
  <2>1. f[0].todo = <<n>> /\ f[0].seen = <<>>
    BY <1>4 DEF WalkFrom
  <2>2. FlatMap(U, <<n>>) = U[n]
    <3>1. Into(U, A, Seq(A))
      BY <1>3 DEF Into
    <3> QED BY <1>2, <3>1, FlatMapOne
  <2>3. PICK s \in Seq(A) : s = U[n]
    BY <1>2
  <2>4. Then(<<>>, s) = s
    BY ThenFacts
  <2>5. Then(f[0].seen, FlatMap(U, f[0].todo)) = U[n]
    BY <2>1, <2>2, <2>3, <2>4, Zenon
  <2> QED BY <1>2, <2>5
<1>6. ASSUME NEW i \in 1..MaxNodes, i - 1 \in Good PROVE i \in Good
  <2>1. PICK w \in WalkStates(A) : w = f[i - 1]
    BY <1>2, <1>4
  <2>2. PICK v : v = Shown(asked, w, "stack")
    OBVIOUS
  <2>3. Then(v.seen, FlatMap(U, v.todo)) = Then(w.seen, FlatMap(U, w.todo))
    <3>1. Into(U, A, Seq(A))
      BY <1>3 DEF Into
    <3> QED BY <1>2, <1>3, <2>2, <3>1, BranchStep
  <2>4. f[i] = v
    BY <1>4, <2>1, <2>2
  <2> QED BY <1>2, <1>6, <2>1, <2>3, <2>4
<1>7. 0..MaxNodes \subseteq Good
  <2> HIDE DEF Good
  <2> QED BY <1>2, <1>5, <1>6, UpTo
<1>8. PICK w \in WalkStates(A) : w = f[MaxNodes]
  BY <1>2, <1>4
<1>9. w.todo = <<>>
  <2>1. Forest!Walk(nodes, n, "stack").todo = <<>>
    BY WalkTotal DEF Policies
  <2> QED BY <1>4, <1>8, <2>1
<1>10. Then(w.seen, FlatMap(U, <<>>)) = U[n]
  <2>1. MaxNodes \in Good
    BY <1>2, <1>7
  <2> QED BY <1>8, <1>9, <2>1
<1>11. FlatMap(U, <<>>) = <<>>
  BY FlatMapFacts, EmptySeq
<1>12. PICK seen \in Seq(A) : seen = w.seen
  BY DEF WalkStates
<1>13. Then(seen, <<>>) = seen
  BY ThenFacts
<1> QED BY <1>3, <1>4, <1>8, <1>10, <1>11, <1>12, <1>13 DEF Forest!PreOrder
-----------------------------------------------------------------------------
\* What the invariant says of the walks of the trees.

LEMMA RootAbove ==
  ASSUME NEW rt, NEW ak, NEW home, NEW d, Forested(rt, ak, home, d), NEW y \in DOMAIN ak
  PROVE  rt[home[y]] \in DOMAIN ak
<1> DEFINE Same == {x \in DOMAIN ak : home[x] = home[y]}
<1> DEFINE Depths == {d[x] : x \in Same}
<1>1. y \in Same /\ Depths \subseteq Nat /\ d[y] \in Depths
  BY DEF Forested
<1>2. PICK k \in Depths : \A l \in Depths : k <= l
  <2> HIDE DEF Depths
  <2> QED BY <1>1, LeastNumber
<1>3. PICK x \in Same : d[x] = k
  BY <1>2
<1>4. CASE k = 0
  <2>1. rt[home[x]] = x
    BY <1>3, <1>4 DEF Forested
  <2> QED BY <1>3, <2>1
<1>5. CASE k # 0
  <2>1. PICK m \in DOMAIN ak : x \in Els(ak[m])
    BY <1>3, <1>5 DEF Forested
  <2>2. home[x] = home[m] /\ d[x] = d[m] + 1 /\ d[m] \in Nat
    BY <2>1 DEF Forested
  <2>3. m \in Same
    BY <1>3, <2>1, <2>2
  <2>4. d[m] \in Depths /\ d[m] < k
    BY <1>3, <2>2, <2>3
  <2>5. k <= d[m] /\ k \in Nat /\ d[m] \in Nat
    BY <1>1, <1>2, <2>4
  <2> QED BY <2>4, <2>5
<1> QED BY <1>4, <1>5

LEMMA NodesAre ==
  ASSUME Kept(nodes, root, asked), NEW home, NEW d, Forested(root, asked, home, d),
         NEW t \in Trees
  PROVE  Forest!NodesOf(t) = {x \in DOMAIN asked : home[x] = t}
<1>1. CASE root[t] = NoNode
  <2>1. NoNode \notin DOMAIN asked
    BY ContainersAssumption DEF Kept
  <2>2. \A x \in DOMAIN asked : home[x] # t
    BY <1>1, <2>1, RootAbove
  <2> QED BY <1>1, <2>2 DEF Forest!NodesOf
<1>2. CASE root[t] # NoNode
  <2>1. PICK n \in DOMAIN asked : n = root[t] /\ home[n] = t /\ d[n] = 0
    BY <1>2 DEF Forested
  <2>2. PICK w : w = Forest!Walk(nodes, n, "queue")
    OBVIOUS
  <2>3. w.seen \in Seq(DOMAIN asked) /\ Els(w.seen) = {x \in DOMAIN asked : home[x] = home[n]}
    BY <2>1, <2>2, WalkTotal DEF Policies
  <2>4. Forest!Range(w.seen) = Els(w.seen)
    BY <2>3 DEF Forest!Range, Els
  <2> QED BY <1>2, <2>1, <2>2, <2>3, <2>4 DEF Forest!NodesOf, Forest!LevelOrder
<1> QED BY <1>1, <1>2

LEMMA TreesOwned == TreeInv => Forest!Owned
<1> SUFFICES ASSUME TreeInv PROVE Forest!Owned
  OBVIOUS
<1>1. PICK home, d : Forested(root, asked, home, d)
  BY DEF TreeInv
<1>2. Kept(nodes, root, asked) /\ broken = FALSE
  BY DEF TreeInv
<1>3. PICK A : A = DOMAIN asked
  OBVIOUS
<1>4. Forest!Alive = A /\ nodes \in [A -> TreeNode(A)]
  BY <1>2, <1>3 DEF Kept, Forest!Alive
<1>5. \A n \in A : /\ {nodes[n].next, nodes[n].prev} \subseteq A
                   /\ {nodes[n].child, nodes[n].parent} \subseteq A \cup {NoNode}
  BY <1>4 DEF TreeNode
<1>6. home \in [A -> Trees]
  BY <1>1, <1>3 DEF Forested
<1>7. \A t \in Trees : Forest!NodesOf(t) = {x \in A : home[x] = t}
  BY <1>1, <1>2, <1>3, NodesAre
<1>8. UNION {Forest!NodesOf(t) : t \in Trees} = A
  BY <1>6, <1>7
<1>9. \A s, t \in Trees : s # t => Forest!NodesOf(s) \cap Forest!NodesOf(t) = {}
  BY <1>7
<1>10. ASSUME NEW t \in Trees, root[t] # NoNode
       PROVE  Forest!IsInjective(Forest!LevelOrder(nodes, root[t]).seen)
  <2>1. PICK n \in A : n = root[t] /\ d[n] = 0
    BY <1>1, <1>3, <1>10 DEF Forested
  <2>2. PICK w : w = Forest!Walk(nodes, n, "queue")
    OBVIOUS
  <2>3. w.seen \in Seq(A) /\ Distinct(w.seen)
    BY <1>1, <1>2, <1>3, <2>1, <2>2, WalkTotal DEF Policies
  <2>4. Forest!IsInjective(w.seen)
    BY <2>3 DEF Forest!IsInjective, Distinct
  <2> QED BY <2>1, <2>2, <2>4 DEF Forest!LevelOrder
<1> QED BY <1>2, <1>4, <1>5, <1>8, <1>9, <1>10, Zenon DEF Forest!Owned

LEMMA TreesInOrder == TreeInv => Forest!WalksInOrder
<1> SUFFICES ASSUME TreeInv, NEW t \in Trees, root[t] # NoNode
             PROVE  /\ Forest!LevelOrder(nodes, root[t]).seen
                         = Forest!FlattenSeq([k \in 1..MaxNodes |->
                                                Forest!Level(root[t], k - 1)])
                    /\ Forest!PreOrder(nodes, root[t]).seen = Forest!Branch(root[t])
  BY Zenon DEF Forest!WalksInOrder
<1>1. PICK home, d : Forested(root, asked, home, d)
  BY DEF TreeInv
<1>2. Kept(nodes, root, asked)
  BY DEF TreeInv
<1>3. PICK n \in DOMAIN asked : n = root[t] /\ d[n] = 0
  BY <1>1 DEF Forested
<1>4. Forest!LevelOrder(nodes, n).seen
        = Forest!FlattenSeq([k \in 1..MaxNodes |-> Forest!Level(n, k - 1)])
  BY <1>1, <1>2, <1>3, LevelWalk
<1>5. Forest!PreOrder(nodes, n).seen = Forest!Branch(n)
  BY <1>1, <1>2, <1>3, BranchWalk
<1> QED BY <1>3, <1>4, <1>5
-----------------------------------------------------------------------------
\* The states of the trees around a call.

\* f with one more element, with renamed values, on a part of its domain.
Extended(f, S, e, v) == [x \in S \cup {e} |-> IF x = e THEN v ELSE f[x]]

Renamed(f, s, t) == [x \in DOMAIN f |-> IF f[x] = s THEN t ELSE f[x]]

Only(f, S) == [x \in S |-> f[x]]

Others(home, t) == {x \in DOMAIN home : home[x] # t}

\* The children once m was added to those of n.
Appended(ak, n, m) == [ak EXCEPT ![n] = Append(ak[n], m)]

NewChild(ak, ak2, n, m) ==
  /\ DOMAIN ak2 = DOMAIN ak \cup {m}
  /\ \A x \in DOMAIN ak2 : Els(ak2[x]) = (IF x \in DOMAIN ak THEN Els(ak[x]) ELSE {})
                                         \cup (IF x = n THEN {m} ELSE {})

\* The roots, and the roots when one was set or moved.
Roots(rt, A) == rt \in [Trees -> A \cup {NoNode}]

SetRoot(rt, t, r) == [rt EXCEPT ![t] = r]

MovedRoot(rt, t, s) == [rt EXCEPT ![t] = rt[s], ![s] = NoNode]

Apart(ak) == \A x, y \in DOMAIN ak : x # y => Els(ak[x]) \cap Els(ak[y]) = {}

LEMMA KeptFacts ==
  ASSUME NEW h, NEW rt, NEW ak, Kept(h, rt, ak)
  PROVE  /\ DOMAIN ak \subseteq 1..MaxNodes /\ NoNode \notin DOMAIN ak
         /\ NoNode \notin 1..MaxNodes /\ DOMAIN h = DOMAIN ak
         /\ h \in [DOMAIN ak -> TreeNode(DOMAIN ak)]
         /\ ak \in [DOMAIN ak -> Seq(DOMAIN ak)]
         /\ rt \in [Trees -> DOMAIN ak \cup {NoNode}]
         /\ \A x \in DOMAIN ak : Distinct(ak[x]) /\ Parented(h, x, ak[x])
         /\ \A x \in DOMAIN ak : Els(ak[x]) \subseteq DOMAIN ak
<1>1. /\ DOMAIN ak \subseteq 1..MaxNodes /\ NoNode \notin DOMAIN ak
      /\ NoNode \notin 1..MaxNodes /\ DOMAIN h = DOMAIN ak
      /\ h \in [DOMAIN ak -> TreeNode(DOMAIN ak)]
      /\ ak \in [DOMAIN ak -> Seq(DOMAIN ak)]
      /\ rt \in [Trees -> DOMAIN ak \cup {NoNode}]
      /\ \A x \in DOMAIN ak : Distinct(ak[x]) /\ Parented(h, x, ak[x])
  BY ContainersAssumption DEF Kept
<1>2. ASSUME NEW x \in DOMAIN ak PROVE Els(ak[x]) \subseteq DOMAIN ak
  <2>1. PICK c \in Seq(DOMAIN ak) : c = ak[x]
    BY <1>1
  <2> QED BY <2>1, ElsFacts
<1> QED BY <1>1, <1>2

-----------------------------------------------------------------------------
\* What adding a node does.

\* One link is set.
Linking(h, A) == h \in [A -> TreeNode(A)]

ParentSet(h, m, n, g) == g = [h EXCEPT ![m].parent = n]
ChildSet(h, m, n, g) == g = [h EXCEPT ![m].child = n]
NextSet(h, m, n, g) == g = [h EXCEPT ![m].next = n]
PrevSet(h, m, n, g) == g = [h EXCEPT ![m].prev = n]

LEMMA LinkSet ==
  ASSUME NEW A, NEW h, Linking(h, A), NEW m \in A, NEW n \in A, NEW g
  PROVE  /\ ParentSet(h, m, n, g) =>
              Linking(g, A) /\ \A x \in A :
                g[x].parent = (IF x = m THEN n ELSE h[x].parent) /\ g[x].child = h[x].child
                /\ g[x].next = h[x].next /\ g[x].prev = h[x].prev
         /\ ChildSet(h, m, n, g) =>
              Linking(g, A) /\ \A x \in A :
                g[x].child = (IF x = m THEN n ELSE h[x].child) /\ g[x].parent = h[x].parent
                /\ g[x].next = h[x].next /\ g[x].prev = h[x].prev
         /\ NextSet(h, m, n, g) =>
              Linking(g, A) /\ \A x \in A :
                g[x].next = (IF x = m THEN n ELSE h[x].next) /\ g[x].parent = h[x].parent
                /\ g[x].child = h[x].child /\ g[x].prev = h[x].prev
         /\ PrevSet(h, m, n, g) =>
              Linking(g, A) /\ \A x \in A :
                g[x].prev = (IF x = m THEN n ELSE h[x].prev) /\ g[x].parent = h[x].parent
                /\ g[x].child = h[x].child /\ g[x].next = h[x].next
<1>1. ParentSet(h, m, n, g) =>
        Linking(g, A) /\ \A x \in A :
          g[x].parent = (IF x = m THEN n ELSE h[x].parent) /\ g[x].child = h[x].child
          /\ g[x].next = h[x].next /\ g[x].prev = h[x].prev
  BY DEF ParentSet, Linking, TreeNode
<1>2. ChildSet(h, m, n, g) =>
        Linking(g, A) /\ \A x \in A :
          g[x].child = (IF x = m THEN n ELSE h[x].child) /\ g[x].parent = h[x].parent
          /\ g[x].next = h[x].next /\ g[x].prev = h[x].prev
  BY DEF ChildSet, Linking, TreeNode
<1>3. NextSet(h, m, n, g) =>
        Linking(g, A) /\ \A x \in A :
          g[x].next = (IF x = m THEN n ELSE h[x].next) /\ g[x].parent = h[x].parent
          /\ g[x].child = h[x].child /\ g[x].prev = h[x].prev
  BY DEF NextSet, Linking, TreeNode
<1>4. PrevSet(h, m, n, g) =>
        Linking(g, A) /\ \A x \in A :
          g[x].prev = (IF x = m THEN n ELSE h[x].prev) /\ g[x].parent = h[x].parent
          /\ g[x].child = h[x].child /\ g[x].next = h[x].next
  BY DEF PrevSet, Linking, TreeNode
<1> QED BY <1>1, <1>2, <1>3, <1>4

LEMMA AddedFields ==
  ASSUME NEW A, NEW h \in [A -> TreeNode(A)], NEW n \in A, NEW m \in A, h[n].child # m
  PROVE  LET h2 == Forest!Added(h, n, m)
             top == h[n].child
             last == h[top].prev
         IN  /\ h2 \in [A -> TreeNode(A)]
             /\ \A x \in A : h2[x].parent = IF x = m THEN n ELSE h[x].parent
             /\ top = NoNode => \A x \in A :
                  /\ h2[x].child = IF x = n THEN m ELSE h[x].child
                  /\ h2[x].next = IF x = m THEN m ELSE h[x].next
                  /\ h2[x].prev = IF x = m THEN m ELSE h[x].prev
             /\ top # NoNode => \A x \in A :
                  /\ h2[x].child = h[x].child
                  /\ h2[x].next = IF x = m THEN top ELSE IF x = last THEN m ELSE h[x].next
                  /\ h2[x].prev = IF x = top THEN m ELSE IF x = m THEN last ELSE h[x].prev
<1>0. Linking(h, A)
  BY DEF Linking
<1>1. PICK top : top = h[n].child
  OBVIOUS
<1>2. PICK last : last = h[top].prev
  OBVIOUS
<1>3. PICK h2 : h2 = Forest!Added(h, n, m)
  OBVIOUS
<1>4. PICK h3 : ParentSet(h, m, n, h3)
  BY DEF ParentSet
<1>5. Linking(h3, A)
      /\ \A x \in A : h3[x].parent = (IF x = m THEN n ELSE h[x].parent)
                      /\ h3[x].child = h[x].child /\ h3[x].next = h[x].next
                      /\ h3[x].prev = h[x].prev
  BY <1>0, <1>4, LinkSet
<1>6. CASE top = NoNode
  <2>1. PICK h4 : ChildSet(h3, n, m, h4)
    BY DEF ChildSet
  <2>2. Linking(h4, A)
        /\ \A x \in A : h4[x].child = (IF x = n THEN m ELSE h3[x].child)
                        /\ h4[x].parent = h3[x].parent /\ h4[x].next = h3[x].next
                        /\ h4[x].prev = h3[x].prev
    BY <1>5, <2>1, LinkSet
  <2>3. PICK h5 : PrevSet(h4, m, m, h5)
    BY DEF PrevSet
  <2>4. Linking(h5, A)
        /\ \A x \in A : h5[x].prev = (IF x = m THEN m ELSE h4[x].prev)
                        /\ h5[x].parent = h4[x].parent /\ h5[x].next = h4[x].next
                        /\ h5[x].child = h4[x].child
    BY <2>2, <2>3, LinkSet
  <2>5. PICK h6 : NextSet(h5, m, m, h6)
    BY DEF NextSet
  <2>6. Linking(h6, A)
        /\ \A x \in A : h6[x].next = (IF x = m THEN m ELSE h5[x].next)
                        /\ h6[x].parent = h5[x].parent /\ h6[x].prev = h5[x].prev
                        /\ h6[x].child = h5[x].child
    BY <2>4, <2>5, LinkSet
  <2>7. h2 = [h EXCEPT ![m].parent = n, ![n].child = m, ![m].prev = m, ![m].next = m]
    BY <1>1, <1>3, <1>6 DEF Forest!Added
  <2>8. h2 = h6
    BY <1>4, <2>1, <2>3, <2>5, <2>7 DEF ParentSet, ChildSet, NextSet, PrevSet
  <2> QED BY <1>1, <1>2, <1>3, <1>5, <1>6, <2>2, <2>4, <2>6, <2>8 DEF Linking
<1>7. CASE top # NoNode
  <2>0. top \in A /\ last \in A
    BY <1>1, <1>2, <1>7 DEF TreeNode
  <2>1. PICK h4 : NextSet(h3, last, m, h4)
    BY DEF NextSet
  <2>2. Linking(h4, A)
        /\ \A x \in A : h4[x].next = (IF x = last THEN m ELSE h3[x].next)
                        /\ h4[x].parent = h3[x].parent /\ h4[x].child = h3[x].child
                        /\ h4[x].prev = h3[x].prev
    BY <1>5, <2>0, <2>1, LinkSet
  <2>3. PICK h5 : PrevSet(h4, m, last, h5)
    BY DEF PrevSet
  <2>4. Linking(h5, A)
        /\ \A x \in A : h5[x].prev = (IF x = m THEN last ELSE h4[x].prev)
                        /\ h5[x].parent = h4[x].parent /\ h5[x].next = h4[x].next
                        /\ h5[x].child = h4[x].child
    BY <2>0, <2>2, <2>3, LinkSet
  <2>5. PICK h6 : PrevSet(h5, top, m, h6)
    BY DEF PrevSet
  <2>6. Linking(h6, A)
        /\ \A x \in A : h6[x].prev = (IF x = top THEN m ELSE h5[x].prev)
                        /\ h6[x].parent = h5[x].parent /\ h6[x].next = h5[x].next
                        /\ h6[x].child = h5[x].child
    BY <2>0, <2>4, <2>5, LinkSet
  <2>7. PICK h7 : NextSet(h6, m, top, h7)
    BY DEF NextSet
  <2>8. Linking(h7, A)
        /\ \A x \in A : h7[x].next = (IF x = m THEN top ELSE h6[x].next)
                        /\ h7[x].parent = h6[x].parent /\ h7[x].prev = h6[x].prev
                        /\ h7[x].child = h6[x].child
    BY <2>0, <2>6, <2>7, LinkSet
  <2>9. h2 = [h EXCEPT ![m].parent = n, ![last].next = m, ![m].prev = last,
                       ![top].prev = m, ![m].next = top]
    BY <1>1, <1>2, <1>3, <1>7 DEF Forest!Added
  <2>10. h2 = h7
    BY <1>4, <2>1, <2>3, <2>5, <2>7, <2>9 DEF ParentSet, ChildSet, NextSet, PrevSet
  <2> QED BY <1>1, <1>2, <1>3, <1>5, <1>7, <2>2, <2>4, <2>6, <2>8, <2>10 DEF Linking
<1> QED BY <1>6, <1>7

\* The ring of the children ends with the new one.
LEMMA AddedParented ==
  ASSUME NEW A, NEW h \in [A -> TreeNode(A)], NEW n \in A, NEW m \in A, NoNode \notin A,
         NEW c \in Seq(A), Distinct(c), Parented(h, n, c), m \notin Els(c),
         NEW h2, h2 = Forest!Added(h, n, m)
  PROVE  Parented(h2, n, Then(c, <<m>>))
<1>1. PICK k \in Nat : k = Len(c)
  OBVIOUS
<1>2. PICK one \in Seq(A) : one = <<m>> /\ Len(one) = 1 /\ one[1] = m
  <2>1. PICK one : one = <<m>>
    OBVIOUS
  <2>2. one \in Seq(A) /\ Len(one) = 1 /\ one[1] = m
    BY <2>1
  <2> QED BY <2>1, <2>2
<1>3. PICK c2 \in Seq(A) : c2 = Then(c, one)
  BY ThenFacts
<1>4. Len(c2) = k + 1 /\ c2[k + 1] = m /\ \A i \in 1..k : c2[i] = c[i]
  <2>1. /\ Len(c2) = Len(c) + Len(one)
        /\ \A i \in 1..(Len(c) + Len(one)) :
             c2[i] = IF i <= Len(c) THEN c[i] ELSE one[i - Len(c)]
    BY <1>3, ThenAt
  <2>2. Len(c2) = k + 1 /\ \A i \in 1..(k + 1) : c2[i] = IF i <= k THEN c[i] ELSE one[i - k]
    BY <1>1, <1>2, <2>1
  <2>3. k + 1 \in 1..(k + 1) /\ ~(k + 1 <= k) /\ (k + 1) - k = 1
    OBVIOUS
  <2>4. \A i \in 1..k : i \in 1..(k + 1) /\ i <= k
    OBVIOUS
  <2>5. c2[k + 1] = one[1]
    BY <2>2, <2>3
  <2> QED BY <1>2, <2>2, <2>4, <2>5
<1>5. c2 # <<>>
  BY <1>4
<1>6. CASE k = 0
  <2>1. c = <<>>
    BY <1>1, <1>6, EmptySeq
  <2>2. h[n].child = NoNode
    BY <2>1 DEF Parented
  <2>3. h2[n].child = m /\ h2[m].next = m /\ h2[m].prev = m
    <3>1. h[n].child # m
      BY <2>2
    <3> QED BY <2>2, <3>1, AddedFields
  <2>4. Len(c2) = 1 /\ c2[1] = m
    BY <1>4, <1>6
  <2>5. Parented(h2, n, c2)
    BY <1>5, <2>3, <2>4 DEF Parented
  <2> QED BY <1>2, <1>3, <2>5
<1>7. CASE k # 0
  <2>1. 1 \in 1..k /\ k \in 1..k /\ c # <<>>
    BY <1>1, <1>7
  <2>2. h[n].child = c[1] /\ h[c[1]].prev = c[k]
    BY <1>1, <2>1 DEF Parented
  <2>3. c[1] # NoNode /\ c[1] # m /\ c[k] # m /\ \A i \in 1..k : c[i] \in A /\ c[i] # m
    <3>1. \A i \in 1..k : c[i] \in A /\ c[i] # m
      BY <1>1 DEF Els
    <3> QED BY <2>1, <3>1
  <2>4. \A x \in A :
          /\ h2[x].child = h[x].child
          /\ h2[x].next = IF x = m THEN c[1] ELSE IF x = c[k] THEN m ELSE h[x].next
          /\ h2[x].prev = IF x = c[1] THEN m ELSE IF x = m THEN c[k] ELSE h[x].prev
    <3>1. PICK top, last : top = c[1] /\ last = c[k]
      OBVIOUS
    <3>2. top = h[n].child /\ last = h[top].prev /\ top # m /\ top # NoNode
      BY <2>2, <2>3, <3>1
    <3> QED BY <3>1, <3>2, AddedFields
  <2>5. h2[n].child = c2[1]
    BY <1>4, <2>1, <2>2, <2>4
  <2>6. ASSUME NEW i \in 1..(k + 1)
        PROVE  /\ h2[c2[i]].next = IF i = k + 1 THEN c2[1] ELSE c2[i + 1]
               /\ h2[c2[i]].prev = IF i = 1 THEN c2[k + 1] ELSE c2[i - 1]
    <3>1. CASE i = k + 1
      <4>1. c2[i] = m /\ i # 1 /\ i - 1 = k /\ c2[1] = c[1] /\ c2[k] = c[k]
        BY <1>4, <1>7, <2>1, <3>1
      <4>2. h2[m].next = c[1] /\ h2[m].prev = c[k]
        BY <2>3, <2>4
      <4> QED BY <3>1, <4>1, <4>2
    <3>2. CASE i # k + 1
      <4>1. i \in 1..k /\ c2[i] = c[i] /\ c[i] \in A /\ c[i] # m
        BY <1>4, <2>3, <3>2
      <4>2. h[c[i]].next = (IF i = k THEN c[1] ELSE c[i + 1])
            /\ h[c[i]].prev = (IF i = 1 THEN c[k] ELSE c[i - 1])
        BY <1>1, <4>1 DEF Parented
      <4>3. (c[i] = c[k] <=> i = k) /\ (c[i] = c[1] <=> i = 1)
        BY <1>1, <2>1, <4>1 DEF Distinct
      <4>4. h2[c[i]].next = IF i = k THEN m ELSE c[i + 1]
        BY <2>4, <4>1, <4>2, <4>3
      <4>5. h2[c[i]].prev = IF i = 1 THEN m ELSE c[i - 1]
        BY <2>4, <4>1, <4>2, <4>3
      <4>6. i # k => i + 1 \in 1..k
        BY <4>1
      <4>7. i # 1 => i - 1 \in 1..k
        BY <4>1
      <4> QED BY <1>4, <3>2, <4>1, <4>4, <4>5, <4>6, <4>7
    <3> QED BY <3>1, <3>2
  <2>7. Parented(h2, n, c2)
    BY <1>4, <1>5, <2>5, <2>6 DEF Parented
  <2> QED BY <1>2, <1>3, <2>7
<1> QED BY <1>6, <1>7

\* The other rings stay as they are.
LEMMA OthersParented ==
  ASSUME NEW A, NEW h \in [A -> TreeNode(A)], NEW n \in A, NEW m \in A, NoNode \notin A,
         NEW c \in Seq(A), Parented(h, n, c), m \notin Els(c),
         NEW x \in A, x # n, NEW b \in Seq(A), Parented(h, x, b), m \notin Els(b),
         Els(b) \cap Els(c) = {}, NEW h2, h2 = Forest!Added(h, n, m)
  PROVE  Parented(h2, x, b)
<1>1. h2[x].child = h[x].child
      /\ \A y \in Els(b) : h2[y].next = h[y].next /\ h2[y].prev = h[y].prev
  <2>1. Els(b) \subseteq A
    BY ElsFacts
  <2>2. CASE c = <<>>
    <3>1. h[n].child = NoNode
      BY <2>2 DEF Parented
    <3>2. \A y \in A : /\ h2[y].child = IF y = n THEN m ELSE h[y].child
                       /\ h2[y].next = IF y = m THEN m ELSE h[y].next
                       /\ h2[y].prev = IF y = m THEN m ELSE h[y].prev
      BY <3>1, AddedFields
    <3> QED BY <2>1, <3>2
  <2>3. CASE c # <<>>
    <3>1. PICK k \in Nat : k = Len(c) /\ 1 \in 1..k /\ k \in 1..k
      <4>1. PICK k \in Nat : k = Len(c)
        OBVIOUS
      <4>2. k # 0
        BY <2>3, <4>1, EmptySeq
      <4> QED BY <4>1, <4>2
    <3>2. PICK top, last : top = c[1] /\ last = c[k]
      OBVIOUS
    <3>3. top \in Els(c) /\ last \in Els(c) /\ top \in A
      BY <3>1, <3>2 DEF Els
    <3>4. top = h[n].child /\ last = h[top].prev /\ top # m /\ top # NoNode
      BY <2>3, <3>1, <3>2, <3>3 DEF Parented
    <3>5. \A y \in A :
            /\ h2[y].child = h[y].child
            /\ h2[y].next = IF y = m THEN top ELSE IF y = last THEN m ELSE h[y].next
            /\ h2[y].prev = IF y = top THEN m ELSE IF y = m THEN last ELSE h[y].prev
      BY <3>4, AddedFields
    <3> QED BY <2>1, <3>3, <3>5
  <2> QED BY <2>2, <2>3
<1>2. \A i \in 1..Len(b) : b[i] \in Els(b)
  BY DEF Els
<1> QED BY <1>1, <1>2 DEF Parented

LEMMA FirstOther ==
  ASSUME NEW A, NEW h, NEW n, NEW m \in A, NoNode \notin A,
         NEW c \in Seq(A), Parented(h, n, c), m \notin Els(c)
  PROVE  h[n].child # m
<1>1. CASE c = <<>>
  BY <1>1 DEF Parented
<1>2. CASE c # <<>>
  <2>1. 1 \in 1..Len(c)
    BY <1>2, EmptySeq
  <2>2. c[1] \in Els(c) /\ h[n].child = c[1]
    BY <1>2, <2>1 DEF Parented, Els
  <2> QED BY <2>2
<1> QED BY <1>1, <1>2

\* The heap keeps the children with the new one.
LEMMA AddedKept ==
  ASSUME NEW h, NEW rt, NEW ak, Kept(h, rt, ak), Apart(ak),
         NEW n \in DOMAIN ak, NEW m \in DOMAIN ak, \A x \in DOMAIN ak : m \notin Els(ak[x]),
         NEW rt2, Roots(rt2, DOMAIN ak)
  PROVE  /\ Kept(Forest!Added(h, n, m), rt2, Appended(ak, n, m))
         /\ NewChild(ak, Appended(ak, n, m), n, m) /\ DOMAIN Appended(ak, n, m) = DOMAIN ak
<1>a. PICK A : A = DOMAIN ak
  OBVIOUS
<1>b. PICK h2 : h2 = Forest!Added(h, n, m)
  OBVIOUS
<1>c. PICK ak2 : ak2 = Appended(ak, n, m)
  OBVIOUS
<1>d. ak2 = [ak EXCEPT ![n] = Append(ak[n], m)]
  BY <1>c DEF Appended
<1>e. rt2 \in [Trees -> A \cup {NoNode}]
  BY <1>a DEF Roots
<1>f. \A x, y \in A : x # y => Els(ak[x]) \cap Els(ak[y]) = {}
  BY <1>a DEF Apart
<1> USE <1>a, <1>b, <1>d, <1>e, <1>f
<1>1. /\ A \subseteq 1..MaxNodes /\ NoNode \notin A
      /\ h \in [A -> TreeNode(A)] /\ ak \in [A -> Seq(A)]
      /\ \A x \in A : Distinct(ak[x]) /\ Parented(h, x, ak[x])
  BY ContainersAssumption DEF Kept
<1>2. PICK c \in Seq(A) : c = ak[n]
  BY <1>1
<1>3. PICK one \in Seq(A) : one = <<m>> /\ Els(one) = {m} /\ Distinct(one)
  BY OneElement
<1>4. PICK c2 \in Seq(A) : c2 = Then(c, one)
  BY ThenFacts
<1>5. Append(ak[n], m) = c2
  BY <1>2, <1>3, <1>4, ThenFacts
<1>6. ak2 \in [A -> Seq(A)] /\ DOMAIN ak2 = A
      /\ \A x \in A : ak2[x] = IF x = n THEN c2 ELSE ak[x]
  BY <1>1, <1>5
<1>7. Els(c2) = Els(c) \cup {m} /\ Distinct(c2)
  <2>1. Els(Then(c, one)) = Els(c) \cup Els(one)
        /\ (Distinct(Then(c, one))
              <=> Distinct(c) /\ Distinct(one) /\ Els(c) \cap Els(one) = {})
    BY ElsFacts
  <2>2. Els(c) \cap {m} = {} /\ Distinct(c)
    BY <1>1, <1>2
  <2> QED BY <1>3, <1>4, <2>1, <2>2
<1>8. Distinct(c) /\ Parented(h, n, c) /\ m \notin Els(c)
  BY <1>1, <1>2
<1>9. Parented(h2, n, c2)
  <2>1. Parented(h2, n, Then(c, <<m>>))
    BY <1>1, <1>8, AddedParented
  <2> QED BY <1>3, <1>4, <2>1
<1>10. ASSUME NEW x \in A, x # n PROVE Parented(h2, x, ak[x])
  <2>1. PICK b \in Seq(A) : b = ak[x]
    BY <1>1
  <2>2. Parented(h, x, b) /\ m \notin Els(b) /\ Els(b) \cap Els(c) = {}
    BY <1>1, <1>2, <1>10, <2>1
  <2>3. Parented(h2, x, b)
    BY <1>1, <1>8, <1>10, <2>2, OthersParented
  <2> QED BY <2>1, <2>3
<1>11. h2 \in [A -> TreeNode(A)]
  <2>1. h[n].child # m
    BY <1>1, <1>8, FirstOther
  <2> QED BY <1>1, <2>1, AddedFields
<1>12. Kept(h2, rt2, ak2)
  <2>1. \A x \in A : Distinct(ak2[x]) /\ Parented(h2, x, ak2[x])
    BY <1>1, <1>6, <1>7, <1>9, <1>10
  <2> QED BY <1>1, <1>6, <1>11, <2>1 DEF Kept
<1>13. NewChild(ak, ak2, n, m) /\ DOMAIN ak2 = A
  <2>1. DOMAIN ak2 = A /\ A = DOMAIN ak \cup {m}
    BY <1>6
  <2>2. \A x \in A : Els(ak2[x]) = IF x = n THEN Els(ak[n]) \cup {m} ELSE Els(ak[x])
    BY <1>2, <1>6, <1>7
  <2> QED BY <2>1, <2>2 DEF NewChild
<1> QED BY <1>c, <1>12, <1>13

LEMMA AddedNear ==
  ASSUME NEW h, NEW rt, NEW ak, Kept(h, rt, ak),
         NEW n \in DOMAIN ak, NEW m \in DOMAIN ak, m \notin Els(ak[n]),
         NEW home, Near(h, home), home[n] = home[m]
  PROVE  Near(Forest!Added(h, n, m), home)
<1>0. PICK A : A = DOMAIN ak
  OBVIOUS
<1>k. /\ NoNode \notin A /\ h \in [A -> TreeNode(A)] /\ ak[n] \in Seq(A)
      /\ Parented(h, n, ak[n])
  BY <1>0, KeptFacts
<1>b. PICK h2 : h2 = Forest!Added(h, n, m)
  OBVIOUS
<1>c. PICK c \in Seq(A) : c = ak[n] /\ Parented(h, n, c) /\ m \notin Els(c)
  BY <1>k
<1> USE <1>0, <1>k, <1>b, <1>c
<1>1. PICK top : top = h[n].child
  OBVIOUS
<1>2. PICK last : last = h[top].prev
  OBVIOUS
<1>3. \A x \in A :
        /\ home[h[x].next] = home[x] /\ home[h[x].prev] = home[x]
        /\ h[x].child # NoNode => home[h[x].child] = home[x]
        /\ h[x].parent # NoNode => home[h[x].parent] = home[x]
  BY DEF Near
<1>4. top # NoNode => top \in A /\ last \in A /\ home[top] = home[n] /\ home[last] = home[n]
  BY <1>1, <1>2, <1>3 DEF TreeNode
<1>a. h[n].child # m
  BY FirstOther
<1>5. /\ h2 \in [A -> TreeNode(A)]
      /\ \A x \in A : h2[x].parent = IF x = m THEN n ELSE h[x].parent
      /\ top = NoNode => \A x \in A :
           /\ h2[x].child = IF x = n THEN m ELSE h[x].child
           /\ h2[x].next = IF x = m THEN m ELSE h[x].next
           /\ h2[x].prev = IF x = m THEN m ELSE h[x].prev
      /\ top # NoNode => \A x \in A :
           /\ h2[x].child = h[x].child
           /\ h2[x].next = IF x = m THEN top ELSE IF x = last THEN m ELSE h[x].next
           /\ h2[x].prev = IF x = top THEN m ELSE IF x = m THEN last ELSE h[x].prev
  BY <1>1, <1>2, <1>a, AddedFields
<1>6. ASSUME NEW x \in A
      PROVE  /\ home[h2[x].next] = home[x] /\ home[h2[x].prev] = home[x]
             /\ h2[x].child # NoNode => home[h2[x].child] = home[x]
             /\ h2[x].parent # NoNode => home[h2[x].parent] = home[x]
  <2>1. h2[x].parent # NoNode => home[h2[x].parent] = home[x]
    BY <1>3, <1>5
  <2>2. CASE top = NoNode
    BY <1>3, <1>5, <2>1, <2>2
  <2>3. CASE top # NoNode
    BY <1>3, <1>4, <1>5, <2>1, <2>3
  <2> QED BY <2>2, <2>3
<1> QED BY <1>5, <1>6 DEF Near

LEMMA RenamedNear ==
  ASSUME NEW h, NEW rt, NEW ak, Kept(h, rt, ak), NEW home, Near(h, home),
         DOMAIN home = DOMAIN ak, NEW s, NEW t
  PROVE  Near(h, Renamed(home, s, t))
<1>a. PICK A : A = DOMAIN ak
  OBVIOUS
<1>b. NoNode \notin A /\ h \in [A -> TreeNode(A)]
  BY <1>a, KeptFacts
<1>c. PICK home2 : home2 = Renamed(home, s, t)
  OBVIOUS
<1>d. \A x, y \in A : home[x] = home[y] => home2[x] = home2[y]
  BY <1>a, <1>c DEF Renamed
<1> USE <1>a, <1>b, <1>d
<1>1. ASSUME NEW x \in A
      PROVE  /\ h[x].next \in A /\ h[x].prev \in A
             /\ h[x].child \in A \cup {NoNode} /\ h[x].parent \in A \cup {NoNode}
  BY DEF TreeNode
<1>2. ASSUME NEW x \in A
      PROVE  /\ home[h[x].next] = home[x] /\ home[h[x].prev] = home[x]
             /\ h[x].child # NoNode => home[h[x].child] = home[x]
             /\ h[x].parent # NoNode => home[h[x].parent] = home[x]
  BY DEF Near
<1>3. ASSUME NEW x \in A
      PROVE  /\ home2[h[x].next] = home2[x] /\ home2[h[x].prev] = home2[x]
             /\ h[x].child # NoNode => home2[h[x].child] = home2[x]
             /\ h[x].parent # NoNode => home2[h[x].parent] = home2[x]
  <2>1. h[x].next \in A /\ home[h[x].next] = home[x]
        /\ h[x].prev \in A /\ home[h[x].prev] = home[x]
    BY <1>1, <1>2
  <2>2. h[x].child # NoNode => h[x].child \in A /\ home[h[x].child] = home[x]
    BY <1>1, <1>2
  <2>3. h[x].parent # NoNode => h[x].parent \in A /\ home[h[x].parent] = home[x]
    BY <1>1, <1>2
  <2> QED BY <2>1, <2>2, <2>3
<1> QED BY <1>c, <1>3 DEF Near

-----------------------------------------------------------------------------
\* What a new node does.

LEMMA FreshNode ==
  ASSUME Kept(nodes, root, asked), Forest!Alive # Forest!Nodes_
  PROVE  Forest!Fresh \in 1..MaxNodes /\ Forest!Fresh \notin DOMAIN asked
         /\ Forest!Alive = DOMAIN asked
<1>1. Forest!Alive = DOMAIN asked /\ Forest!Alive \subseteq 1..MaxNodes
  BY DEF Kept, Forest!Alive
<1>2. \E n \in Forest!Nodes_ : n \notin Forest!Alive
  BY <1>1 DEF Forest!Nodes_
<1>3. Forest!Fresh \in Forest!Nodes_ /\ Forest!Fresh \notin Forest!Alive
  BY <1>2 DEF Forest!Fresh
<1> QED BY <1>1, <1>3 DEF Forest!Nodes_

LEMMA FreshKept ==
  ASSUME NEW h, NEW rt, NEW ak, Kept(h, rt, ak),
         NEW F \in 1..MaxNodes, F \notin DOMAIN ak,
         NEW rt2, Roots(rt2, DOMAIN ak \cup {F})
  PROVE  LET A == DOMAIN ak
             ak2 == Extended(ak, A, F, <<>>)
         IN  /\ Kept(Extended(h, A, F, Forest!Alone(F)), rt2, ak2)
             /\ DOMAIN ak2 = A \cup {F}
             /\ \A x \in A \cup {F} : Els(ak2[x]) = IF x = F THEN {} ELSE Els(ak[x])
<1>a. PICK A : A = DOMAIN ak
  OBVIOUS
<1>b. PICK B : B = A \cup {F}
  OBVIOUS
<1>c. PICK h2 : h2 = Extended(h, A, F, Forest!Alone(F))
  OBVIOUS
<1>d. h2 = [x \in B |-> IF x = F THEN Forest!Alone(F) ELSE h[x]]
  BY <1>b, <1>c DEF Extended
<1>e. PICK ak2 : ak2 = Extended(ak, A, F, <<>>)
  OBVIOUS
<1>f. ak2 = [x \in B |-> IF x = F THEN <<>> ELSE ak[x]]
  BY <1>b, <1>e DEF Extended
<1>g. rt2 \in [Trees -> B \cup {NoNode}]
  BY <1>a, <1>b DEF Roots
<1> USE <1>a, <1>b, <1>d, <1>f, <1>g
<1>1. /\ A \subseteq 1..MaxNodes /\ NoNode \notin B
      /\ h \in [A -> TreeNode(A)] /\ ak \in [A -> Seq(A)]
      /\ \A x \in A : Distinct(ak[x]) /\ Parented(h, x, ak[x])
  BY ContainersAssumption DEF Kept
<1>2. \A x \in A : ak[x] \in Seq(B)
  <2>1. A \subseteq B
    OBVIOUS
  <2> QED BY <1>1, <2>1, SeqMonotonic
<1>3. ak2 \in [B -> Seq(B)] /\ DOMAIN ak2 = B
  <2>1. <<>> \in Seq(B)
    OBVIOUS
  <2> QED BY <1>2, <2>1
<1>4. h2 \in [B -> TreeNode(B)]
  <2>1. Forest!Alone(F) \in TreeNode(B)
    BY DEF Forest!Alone, TreeNode
  <2>2. \A x \in A : h[x] \in TreeNode(B)
    BY <1>1 DEF TreeNode
  <2> QED BY <2>1, <2>2
<1>5. ASSUME NEW x \in B PROVE Distinct(ak2[x]) /\ Parented(h2, x, ak2[x])
  <2>1. CASE x = F
    <3>1. ak2[x] = <<>> /\ h2[x].child = NoNode
      BY <2>1 DEF Forest!Alone
    <3> QED BY <3>1 DEF Distinct, Parented
  <2>2. CASE x # F
    <3>1. PICK c \in Seq(A) : c = ak[x] /\ Distinct(c) /\ Parented(h, x, c)
      BY <1>1, <2>2
    <3>2. \A i \in 1..Len(c) : c[i] \in A /\ h2[c[i]] = h[c[i]]
      <4> SUFFICES ASSUME NEW i \in 1..Len(c) PROVE c[i] \in A /\ h2[c[i]] = h[c[i]]
        OBVIOUS
      <4>1. c[i] \in A /\ c[i] \in B /\ c[i] # F
        BY <3>1
      <4> QED BY <4>1
    <3>3. h2[x] = h[x] /\ ak2[x] = c
      BY <2>2, <3>1
    <3> QED BY <3>1, <3>2, <3>3 DEF Parented
  <2> QED BY <2>1, <2>2
<1>6. Kept(h2, rt2, ak2)
  BY <1>1, <1>3, <1>4, <1>5 DEF Kept
<1>7. \A x \in B : Els(ak2[x]) = IF x = F THEN {} ELSE Els(ak[x])
  BY NoElement
<1> QED BY <1>c, <1>e, <1>3, <1>6, <1>7

LEMMA FreshNear ==
  ASSUME NEW h, NEW rt, NEW ak, Kept(h, rt, ak), NEW home, Near(h, home),
         NEW F \in 1..MaxNodes, F \notin DOMAIN ak, NEW t
  PROVE  LET A == DOMAIN ak
         IN  Near(Extended(h, A, F, Forest!Alone(F)), Extended(home, A, F, t))
<1>a. PICK A : A = DOMAIN ak
  OBVIOUS
<1>b. NoNode \notin A /\ F # NoNode /\ h \in [A -> TreeNode(A)]
  BY <1>a, KeptFacts
<1>c. PICK h2 : h2 = Extended(h, A, F, Forest!Alone(F))
  OBVIOUS
<1>d. h2 = [x \in A \cup {F} |-> IF x = F THEN Forest!Alone(F) ELSE h[x]]
  BY <1>c DEF Extended
<1>e. PICK home2 : home2 = Extended(home, A, F, t)
  OBVIOUS
<1>f. \A x \in A : home2[x] = home[x]
  BY <1>a, <1>e DEF Extended
<1> USE <1>a, <1>b, <1>d, <1>f
<1>1. ASSUME NEW x \in A
      PROVE  /\ h[x].next \in A /\ h[x].prev \in A
             /\ h[x].child \in A \cup {NoNode} /\ h[x].parent \in A \cup {NoNode}
  BY DEF TreeNode
<1>2. ASSUME NEW x \in A
      PROVE  /\ home[h[x].next] = home[x] /\ home[h[x].prev] = home[x]
             /\ h[x].child # NoNode => home[h[x].child] = home[x]
             /\ h[x].parent # NoNode => home[h[x].parent] = home[x]
  BY DEF Near
<1>3. ASSUME NEW x \in A \cup {F}
      PROVE  /\ home2[h2[x].next] = home2[x] /\ home2[h2[x].prev] = home2[x]
             /\ h2[x].child # NoNode => home2[h2[x].child] = home2[x]
             /\ h2[x].parent # NoNode => home2[h2[x].parent] = home2[x]
  <2>1. CASE x = F
    BY <2>1 DEF Forest!Alone
  <2>2. CASE x \in A
    <3>1. h2[x] = h[x]
      BY <2>2
    <3> QED BY <1>1, <1>2, <2>2, <3>1
  <2> QED BY <2>1, <2>2
<1>4. Near(h2, home2)
  BY <1>3 DEF Near
<1> QED BY <1>c, <1>e, <1>4

-----------------------------------------------------------------------------
\* What the calls do to the trees.

LEMMA ForestedIf ==
  ASSUME NEW rt, NEW ak, NEW home, NEW d, NEW B, DOMAIN ak = B,
         home \in [B -> Trees], d \in [B -> Nat],
         \A u \in Trees : rt[u] # NoNode => rt[u] \in B /\ home[rt[u]] = u /\ d[rt[u]] = 0,
         \A x \in B : \A y \in Els(ak[x]) : home[y] = home[x] /\ d[y] = d[x] + 1,
         \A x, y \in B : x # y => Els(ak[x]) \cap Els(ak[y]) = {},
         \A x \in B : d[x] = 0 => rt[home[x]] = x,
         \A x \in B : d[x] # 0 => \E y \in B : x \in Els(ak[y])
  PROVE  Forested(rt, ak, home, d)
BY DEF Forested

LEMMA ForestedAdd ==
  ASSUME NEW h, NEW rt, NEW ak, Kept(h, rt, ak), NEW home, NEW d,
         Forested(rt, ak, home, d), NEW n \in DOMAIN ak, NEW F, F \notin DOMAIN ak,
         NEW ak2, NewChild(ak, ak2, n, F)
  PROVE  \E d2 : Forested(rt, ak2, Extended(home, DOMAIN ak, F, home[n]), d2)
<1>a. PICK A : A = DOMAIN ak
  OBVIOUS
<1>k. /\ NoNode \notin A /\ rt \in [Trees -> A \cup {NoNode}]
      /\ \A x \in A : Els(ak[x]) \subseteq A
  BY <1>a, KeptFacts
<1>b. n \in A /\ F \notin A /\ DOMAIN ak2 = A \cup {F}
      /\ \A x \in A \cup {F} : Els(ak2[x]) = IF x = n THEN Els(ak[n]) \cup {F}
                                              ELSE IF x = F THEN {} ELSE Els(ak[x])
  BY <1>a DEF NewChild
<1>c. PICK home2 : home2 = Extended(home, A, F, home[n])
  OBVIOUS
<1>d. home2 = [x \in A \cup {F} |-> IF x = F THEN home[n] ELSE home[x]]
  BY <1>c DEF Extended
<1> USE <1>a, <1>b, <1>d, <1>k
<1>1. PICK d2 : d2 = [x \in A \cup {F} |-> IF x = F THEN d[n] + 1 ELSE d[x]]
  OBVIOUS
<1>2. home \in [A -> Trees] /\ d \in [A -> Nat]
  BY DEF Forested
<1>3. home2 \in [A \cup {F} -> Trees] /\ d2 \in [A \cup {F} -> Nat]
  BY <1>1, <1>2
<1>4. \A x \in A : home2[x] = home[x] /\ d2[x] = d[x]
  BY <1>1
<1>5. home2[F] = home[n] /\ d2[F] = d[n] + 1
  BY <1>1
<1>6. ASSUME NEW t \in Trees, rt[t] # NoNode
      PROVE  rt[t] \in DOMAIN ak2 /\ home2[rt[t]] = t /\ d2[rt[t]] = 0
  BY <1>4, <1>6 DEF Forested
<1>7. ASSUME NEW x \in A \cup {F}, NEW y \in Els(ak2[x])
      PROVE  home2[y] = home2[x] /\ d2[y] = d2[x] + 1
  <2>1. CASE x # n /\ x # F
    <3>1. y \in Els(ak[x]) /\ x \in A /\ y \in A
      BY <2>1
    <3>2. home[y] = home[x] /\ d[y] = d[x] + 1
      BY <3>1 DEF Forested
    <3> QED BY <1>4, <3>1, <3>2
  <2>2. CASE x = n /\ y # F
    <3>1. y \in Els(ak[n]) /\ y \in A
      BY <2>2
    <3>2. home[y] = home[n] /\ d[y] = d[n] + 1
      BY <3>1 DEF Forested
    <3> QED BY <1>4, <2>2, <3>1, <3>2
  <2>3. CASE x = n /\ y = F
    BY <1>4, <1>5, <2>3
  <2>4. x # F
    OBVIOUS
  <2> QED BY <2>1, <2>2, <2>3, <2>4
<1>8. ASSUME NEW x \in A \cup {F}, NEW y \in A \cup {F}, x # y
      PROVE  Els(ak2[x]) \cap Els(ak2[y]) = {}
  <2>1. \A u, v \in A : u # v => Els(ak[u]) \cap Els(ak[v]) = {}
    BY DEF Forested
  <2> QED BY <1>8, <2>1
<1>9. ASSUME NEW x \in A \cup {F}, d2[x] = 0 PROVE rt[home2[x]] = x
  <2>1. x \in A
    BY <1>2, <1>5, <1>9
  <2> QED BY <1>4, <1>9, <2>1 DEF Forested
<1>10. ASSUME NEW x \in A \cup {F}, d2[x] # 0
       PROVE  \E y \in A \cup {F} : x \in Els(ak2[y])
  <2>1. CASE x = F
    BY <2>1
  <2>2. CASE x \in A
    <3>1. PICK y \in A : x \in Els(ak[y])
      BY <1>4, <1>10, <2>2 DEF Forested
    <3> QED BY <3>1
  <2> QED BY <2>1, <2>2
<1>11. PICK B : B = DOMAIN ak2
  OBVIOUS
<1>12. /\ home2 \in [B -> Trees] /\ d2 \in [B -> Nat]
       /\ \A x \in B : \A y \in Els(ak2[x]) : home2[y] = home2[x] /\ d2[y] = d2[x] + 1
       /\ \A x, y \in B : x # y => Els(ak2[x]) \cap Els(ak2[y]) = {}
  BY <1>3, <1>7, <1>8, <1>11
<1>13. /\ \A x \in B : d2[x] = 0 => rt[home2[x]] = x
       /\ \A x \in B : d2[x] # 0 => \E y \in B : x \in Els(ak2[y])
  BY <1>9, <1>10, <1>11
<1>14. \A u \in Trees : rt[u] # NoNode =>
         rt[u] \in B /\ home2[rt[u]] = u /\ d2[rt[u]] = 0
  BY <1>6, <1>11
<1> HIDE <1>a, <1>b, <1>d, <1>k
<1>15. Forested(rt, ak2, home2, d2)
  BY <1>11, <1>12, <1>13, <1>14, ForestedIf
<1> QED BY <1>a, <1>c, <1>15

LEMMA ForestedGraft ==
  ASSUME NEW h, NEW rt, NEW ak, Kept(h, rt, ak), NEW home, NEW d,
         Forested(rt, ak, home, d), NEW s \in Trees, NEW t \in Trees, s # t,
         rt[s] # NoNode, NEW n \in DOMAIN ak, home[n] = t,
         NEW ak2, NewChild(ak, ak2, n, rt[s])
  PROVE  \E d2 : Forested(SetRoot(rt, s, NoNode), ak2, Renamed(home, s, t), d2)
<1>a. PICK A : A = DOMAIN ak
  OBVIOUS
<1>k. /\ NoNode \notin A /\ rt \in [Trees -> A \cup {NoNode}]
      /\ \A x \in A : Els(ak[x]) \subseteq A
  BY <1>a, KeptFacts
<1>b. n \in A /\ DOMAIN ak2 = A
      /\ \A x \in A : Els(ak2[x]) = IF x = n THEN Els(ak[n]) \cup {rt[s]} ELSE Els(ak[x])
  <2>1. rt[s] \in A
    BY <1>a DEF Forested
  <2> QED BY <1>a, <2>1 DEF NewChild
<1>c. PICK home2 : home2 = Renamed(home, s, t)
  OBVIOUS
<1>d. home2 \in [A -> Trees] /\ \A x \in A : home2[x] = IF home[x] = s THEN t ELSE home[x]
  <2>1. home \in [A -> Trees]
    BY <1>a DEF Forested
  <2> QED BY <1>c, <2>1 DEF Renamed
<1>e. PICK rt2 : rt2 = SetRoot(rt, s, NoNode)
  OBVIOUS
<1>f. \A u \in Trees : rt2[u] = IF u = s THEN NoNode ELSE rt[u]
  BY <1>k, <1>e DEF SetRoot
<1> USE <1>a, <1>b, <1>d, <1>f, <1>k
<1>1. PICK d2 : d2 = [x \in A |-> IF home[x] = s THEN d[x] + d[n] + 1 ELSE d[x]]
  OBVIOUS
<1>2. home \in [A -> Trees] /\ d \in [A -> Nat]
  BY DEF Forested
<1>3. home2 \in [A -> Trees] /\ d2 \in [A -> Nat]
  BY <1>1, <1>2
<1>4. PICK r \in A : r = rt[s] /\ home[r] = s /\ d[r] = 0
  BY DEF Forested
<1>5. \A u \in Trees : rt2[u] = IF u = s THEN NoNode ELSE rt[u]
  OBVIOUS
<1>6. ASSUME NEW u \in Trees, rt2[u] # NoNode
      PROVE  rt2[u] \in A /\ home2[rt2[u]] = u /\ d2[rt2[u]] = 0
  <2>1. u # s /\ rt2[u] = rt[u] /\ rt[u] # NoNode
    BY <1>5, <1>6
  <2>2. rt[u] \in A /\ home[rt[u]] = u /\ d[rt[u]] = 0
    BY <2>1 DEF Forested
  <2> QED BY <1>1, <2>1, <2>2
<1>7. ASSUME NEW x \in A, NEW y \in Els(ak2[x])
      PROVE  home2[y] = home2[x] /\ d2[y] = d2[x] + 1
  <2>1. CASE y \in Els(ak[x])
    <3>1. home[y] = home[x] /\ d[y] = d[x] + 1 /\ y \in A
      BY <2>1 DEF Forested
    <3>2. d[x] \in Nat /\ d[n] \in Nat
      BY <1>2
    <3> QED BY <1>1, <3>1, <3>2
  <2>2. CASE x = n /\ y = r
    <3>1. d2[n] = d[n] /\ d2[r] = d[r] + d[n] + 1 /\ home2[n] = t /\ home2[r] = t
      BY <1>1, <1>4
    <3>2. d[n] \in Nat
      BY <1>2
    <3> QED BY <1>4, <2>2, <3>1, <3>2
  <2> QED BY <1>4, <2>1, <2>2
<1>8. \A x \in A : r \notin Els(ak[x])
  <2> SUFFICES ASSUME NEW x \in A, r \in Els(ak[x]) PROVE FALSE
    OBVIOUS
  <2>1. d[r] = d[x] + 1 /\ d[x] \in Nat
    BY <1>2 DEF Forested
  <2> QED BY <1>4, <2>1
<1>9. ASSUME NEW x \in A, NEW y \in A, x # y
      PROVE  Els(ak2[x]) \cap Els(ak2[y]) = {}
  <2>1. \A u, v \in A : u # v => Els(ak[u]) \cap Els(ak[v]) = {}
    BY DEF Forested
  <2> QED BY <1>4, <1>8, <1>9, <2>1
<1>10. ASSUME NEW x \in A, d2[x] = 0 PROVE rt2[home2[x]] = x
  <2>1. home[x] # s
    <3>1. d[x] \in Nat /\ d[n] \in Nat
      BY <1>2
    <3> QED BY <1>1, <1>10, <3>1
  <2>2. d[x] = 0 /\ home2[x] = home[x] /\ home[x] \in Trees
    BY <1>1, <1>2, <1>10, <2>1
  <2>3. rt[home[x]] = x
    BY <2>2 DEF Forested
  <2> QED BY <1>5, <2>1, <2>2, <2>3
<1>11. ASSUME NEW x \in A, d2[x] # 0 PROVE \E y \in A : x \in Els(ak2[y])
  <2>1. CASE d[x] # 0
    <3>1. PICK y \in A : x \in Els(ak[y])
      BY <2>1 DEF Forested
    <3> QED BY <3>1
  <2>2. CASE d[x] = 0
    <3>1. home[x] = s
      BY <1>1, <1>11, <2>2
    <3>2. rt[home[x]] = x
      BY <2>2 DEF Forested
    <3> QED BY <3>1, <3>2
  <2> QED BY <2>1, <2>2
<1>12. PICK B : B = DOMAIN ak2
  OBVIOUS
<1>13. /\ home2 \in [B -> Trees] /\ d2 \in [B -> Nat]
       /\ \A u \in Trees : rt2[u] # NoNode =>
            rt2[u] \in B /\ home2[rt2[u]] = u /\ d2[rt2[u]] = 0
       /\ \A x \in B : \A y \in Els(ak2[x]) : home2[y] = home2[x] /\ d2[y] = d2[x] + 1
  <2>1. B = A
    BY <1>12
  <2> QED BY <1>3, <1>6, <1>7, <2>1
<1>14. /\ \A x, y \in B : x # y => Els(ak2[x]) \cap Els(ak2[y]) = {}
       /\ \A x \in B : d2[x] = 0 => rt2[home2[x]] = x
       /\ \A x \in B : d2[x] # 0 => \E y \in B : x \in Els(ak2[y])
  <2>1. B = A
    BY <1>12
  <2> QED BY <1>9, <1>10, <1>11, <2>1
<1>15. Forested(rt2, ak2, home2, d2)
  BY <1>12, <1>13, <1>14, ForestedIf
<1> QED BY <1>c, <1>e, <1>15

LEMMA ForestedMove ==
  ASSUME NEW h, NEW rt, NEW ak, Kept(h, rt, ak), NEW home, NEW d,
         Forested(rt, ak, home, d),
         NEW s \in Trees, NEW t \in Trees, s # t, rt[t] = NoNode
  PROVE  Forested(MovedRoot(rt, t, s), ak, Renamed(home, s, t), d)
<1>a. PICK A : A = DOMAIN ak
  OBVIOUS
<1>k. /\ NoNode \notin A /\ rt \in [Trees -> A \cup {NoNode}]
      /\ \A x \in A : Els(ak[x]) \subseteq A
  BY <1>a, KeptFacts
<1>c. PICK home2 : home2 = Renamed(home, s, t)
  OBVIOUS
<1>d. home2 = [x \in A |-> IF home[x] = s THEN t ELSE home[x]]
  BY <1>a, <1>c DEF Renamed, Forested
<1>e. PICK rt2 : rt2 = MovedRoot(rt, t, s)
  OBVIOUS
<1>f. rt2 = [rt EXCEPT ![t] = rt[s], ![s] = NoNode]
  BY <1>e DEF MovedRoot
<1> USE <1>a, <1>d, <1>f, <1>k
<1>1. home \in [A -> Trees] /\ d \in [A -> Nat]
  BY DEF Forested
<1>2. home2 \in [A -> Trees]
  BY <1>1
<1>3. \A u \in Trees : rt2[u] = IF u = s THEN NoNode ELSE IF u = t THEN rt[s] ELSE rt[u]
  OBVIOUS
<1>4. \A x \in A : home[x] # t
  BY RootAbove
<1>5. ASSUME NEW u \in Trees, rt2[u] # NoNode
      PROVE  rt2[u] \in A /\ home2[rt2[u]] = u /\ d[rt2[u]] = 0
  <2>1. u # s
    BY <1>3, <1>5
  <2>2. CASE u = t
    <3>1. rt2[u] = rt[s] /\ rt[s] # NoNode
      BY <1>3, <1>5, <2>1, <2>2
    <3>2. rt[s] \in A /\ home[rt[s]] = s /\ d[rt[s]] = 0
      BY <3>1 DEF Forested
    <3> QED BY <2>2, <3>1, <3>2
  <2>3. CASE u # t
    <3>1. rt2[u] = rt[u] /\ rt[u] # NoNode
      BY <1>3, <1>5, <2>1, <2>3
    <3>2. rt[u] \in A /\ home[rt[u]] = u /\ d[rt[u]] = 0
      BY <3>1 DEF Forested
    <3> QED BY <2>1, <3>1, <3>2
  <2> QED BY <2>2, <2>3
<1>6. ASSUME NEW x \in A, NEW y \in Els(ak[x])
      PROVE  home2[y] = home2[x] /\ d[y] = d[x] + 1
  <2>1. home[y] = home[x] /\ d[y] = d[x] + 1
    BY DEF Forested
  <2>2. y \in A
    OBVIOUS
  <2> QED BY <2>1, <2>2
<1>7. \A x, y \in A : x # y => Els(ak[x]) \cap Els(ak[y]) = {}
  BY DEF Forested
<1>8. ASSUME NEW x \in A, d[x] = 0 PROVE rt2[home2[x]] = x
  <2>1. rt[home[x]] = x /\ home[x] \in Trees
    BY <1>1, <1>8 DEF Forested
  <2>2. home2[x] = IF home[x] = s THEN t ELSE home[x]
    OBVIOUS
  <2>3. CASE home[x] = s
    BY <1>3, <2>1, <2>2, <2>3
  <2>4. CASE home[x] # s
    BY <1>3, <1>4, <2>1, <2>2, <2>4
  <2> QED BY <2>3, <2>4
<1>9. \A x \in A : d[x] # 0 => \E y \in A : x \in Els(ak[y])
  BY DEF Forested
<1>10. Forested(rt2, ak, home2, d)
  BY <1>1, <1>2, <1>5, <1>6, <1>7, <1>8, <1>9 DEF Forested
<1> QED BY <1>c, <1>e, <1>10

LEMMA ForestedNew ==
  ASSUME NEW h, NEW rt, NEW ak, Kept(h, rt, ak), NEW home, NEW d,
         Forested(rt, ak, home, d), NEW t \in Trees, rt[t] = NoNode,
         NEW F, F \notin DOMAIN ak
  PROVE  LET A == DOMAIN ak
         IN  \E d2 : Forested(SetRoot(rt, t, F), Extended(ak, A, F, <<>>),
                              Extended(home, A, F, t), d2)
<1>a. PICK A : A = DOMAIN ak
  OBVIOUS
<1>k. /\ NoNode \notin A /\ rt \in [Trees -> A \cup {NoNode}]
      /\ \A x \in A : Els(ak[x]) \subseteq A
  BY <1>a, KeptFacts
<1>b. PICK ak2 : ak2 = Extended(ak, A, F, <<>>)
  OBVIOUS
<1>c. DOMAIN ak2 = A \cup {F}
      /\ \A x \in A \cup {F} : Els(ak2[x]) = IF x = F THEN {} ELSE Els(ak[x])
  BY <1>b, NoElement DEF Extended
<1>d. PICK home2 : home2 = Extended(home, A, F, t)
  OBVIOUS
<1>e. home2 \in [A \cup {F} -> Trees] /\ home2[F] = t /\ \A x \in A : home2[x] = home[x]
  <2>1. home \in [A -> Trees]
    BY <1>a DEF Forested
  <2> QED BY <1>a, <1>d, <2>1 DEF Extended
<1>f. PICK rt2 : rt2 = SetRoot(rt, t, F)
  OBVIOUS
<1>g. \A u \in Trees : rt2[u] = IF u = t THEN F ELSE rt[u]
  BY <1>k, <1>f DEF SetRoot
<1>h. F \notin A
  BY <1>a
<1> USE <1>a, <1>c, <1>e, <1>g, <1>h, <1>k
<1>1. PICK d2 : d2 = [x \in A \cup {F} |-> IF x = F THEN 0 ELSE d[x]]
  OBVIOUS
<1>2. home \in [A -> Trees] /\ d \in [A -> Nat]
  BY DEF Forested
<1>3. d2 \in [A \cup {F} -> Nat]
  BY <1>1, <1>2
<1>4. \A x \in A : d2[x] = d[x]
  BY <1>1
<1>5. d2[F] = 0
  BY <1>1
<1>6. ASSUME NEW u \in Trees, rt2[u] # NoNode
      PROVE  rt2[u] \in A \cup {F} /\ home2[rt2[u]] = u /\ d2[rt2[u]] = 0
  <2>1. CASE u = t
    BY <1>5, <2>1
  <2>2. CASE u # t
    <3>1. rt2[u] = rt[u] /\ rt[u] # NoNode
      BY <1>6, <2>2
    <3>2. rt[u] \in A /\ home[rt[u]] = u /\ d[rt[u]] = 0
      BY <3>1 DEF Forested
    <3> QED BY <1>4, <3>1, <3>2
  <2> QED BY <2>1, <2>2
<1>7. ASSUME NEW x \in A \cup {F}, NEW y \in Els(ak2[x])
      PROVE  home2[y] = home2[x] /\ d2[y] = d2[x] + 1
  <2>1. x # F /\ x \in A /\ y \in Els(ak[x]) /\ y \in A
    OBVIOUS
  <2>2. home[y] = home[x] /\ d[y] = d[x] + 1
    BY <2>1 DEF Forested
  <2> QED BY <1>4, <2>1, <2>2
<1>8. ASSUME NEW x \in A \cup {F}, NEW y \in A \cup {F}, x # y
      PROVE  Els(ak2[x]) \cap Els(ak2[y]) = {}
  <2>1. \A u, v \in A : u # v => Els(ak[u]) \cap Els(ak[v]) = {}
    BY DEF Forested
  <2> QED BY <1>8, <2>1
<1>9. ASSUME NEW x \in A \cup {F}, d2[x] = 0 PROVE rt2[home2[x]] = x
  <2>1. CASE x = F
    BY <2>1
  <2>2. CASE x \in A
    <3>1. rt[home[x]] = x /\ home[x] \in Trees
      BY <1>2, <1>4, <1>9, <2>2 DEF Forested
    <3>2. home[x] # t
      BY <2>2, <3>1
    <3> QED BY <2>2, <3>1, <3>2
  <2> QED BY <2>1, <2>2
<1>10. ASSUME NEW x \in A \cup {F}, d2[x] # 0
       PROVE  \E y \in A \cup {F} : x \in Els(ak2[y])
  <2>1. x \in A
    BY <1>5, <1>10
  <2>2. PICK y \in A : x \in Els(ak[y])
    BY <1>4, <1>10, <2>1 DEF Forested
  <2> QED BY <2>2
<1>11. PICK B : B = DOMAIN ak2
  OBVIOUS
<1>12. /\ home2 \in [B -> Trees] /\ d2 \in [B -> Nat]
       /\ \A u \in Trees : rt2[u] # NoNode =>
            rt2[u] \in B /\ home2[rt2[u]] = u /\ d2[rt2[u]] = 0
       /\ \A x \in B : \A y \in Els(ak2[x]) : home2[y] = home2[x] /\ d2[y] = d2[x] + 1
  BY <1>3, <1>6, <1>7, <1>11
<1>13. /\ \A x, y \in B : x # y => Els(ak2[x]) \cap Els(ak2[y]) = {}
       /\ \A x \in B : d2[x] = 0 => rt2[home2[x]] = x
       /\ \A x \in B : d2[x] # 0 => \E y \in B : x \in Els(ak2[y])
  <2>1. B = A \cup {F}
    BY <1>11
  <2>2. \A x, y \in B : x # y => Els(ak2[x]) \cap Els(ak2[y]) = {}
    BY <1>8, <2>1
  <2>3. \A x \in B : d2[x] = 0 => rt2[home2[x]] = x
    BY <1>9, <2>1
  <2>4. \A x \in B : d2[x] # 0 => \E y \in B : x \in Els(ak2[y])
    BY <1>10, <2>1
  <2> HIDE <1>c, <1>e, <1>g
  <2> QED BY <2>2, <2>3, <2>4
<1> HIDE <1>a, <1>c, <1>e, <1>g, <1>h, <1>k
<1>14. Forested(rt2, ak2, home2, d2)
  BY <1>11, <1>12, <1>13, ForestedIf
<1> QED BY <1>a, <1>b, <1>d, <1>f, <1>14

LEMMA ForestedFreed ==
  ASSUME NEW h, NEW rt, NEW ak, Kept(h, rt, ak), NEW home, NEW d,
         Forested(rt, ak, home, d), NEW t \in Trees
  PROVE  LET B == Others(home, t)
         IN  \E d2 : Forested(SetRoot(rt, t, NoNode), Only(ak, B), Only(home, B), d2)
<1>a. PICK A : A = DOMAIN ak
  OBVIOUS
<1>k. /\ NoNode \notin A /\ rt \in [Trees -> A \cup {NoNode}]
      /\ \A x \in A : Els(ak[x]) \subseteq A
  BY <1>a, KeptFacts
<1>b. home \in [A -> Trees]
  BY <1>a DEF Forested
<1>c. PICK B : B = Others(home, t)
  OBVIOUS
<1>d. B = {x \in A : home[x] # t}
  BY <1>b, <1>c DEF Others
<1>e. PICK ak2 : ak2 = Only(ak, B)
  OBVIOUS
<1>f. DOMAIN ak2 = B /\ \A x \in B : ak2[x] = ak[x]
  BY <1>e DEF Only
<1>g. PICK home2 : home2 = Only(home, B)
  OBVIOUS
<1>h. home2 \in [B -> Trees] /\ \A x \in B : home2[x] = home[x]
  BY <1>b, <1>d, <1>g DEF Only
<1>i. PICK rt2 : rt2 = SetRoot(rt, t, NoNode)
  OBVIOUS
<1>j. \A u \in Trees : rt2[u] = IF u = t THEN NoNode ELSE rt[u]
  BY <1>k, <1>i DEF SetRoot
<1> USE <1>a, <1>d, <1>f, <1>h, <1>j, <1>k
<1>1. PICK d2 : d2 = [x \in B |-> d[x]]
  OBVIOUS
<1>2. home \in [A -> Trees] /\ d \in [A -> Nat]
  BY DEF Forested
<1>3. d2 \in [B -> Nat] /\ \A x \in B : d2[x] = d[x] /\ x \in A /\ home[x] # t
  BY <1>1, <1>2
<1>4. ASSUME NEW x \in B, NEW y \in Els(ak[x])
      PROVE  home[y] = home[x] /\ d[y] = d[x] + 1 /\ y \in B
  <2>1. home[y] = home[x] /\ d[y] = d[x] + 1 /\ y \in A
    BY <1>3 DEF Forested
  <2> QED BY <1>3, <2>1
<1>5. ASSUME NEW u \in Trees, rt2[u] # NoNode
      PROVE  rt2[u] \in B /\ home2[rt2[u]] = u /\ d2[rt2[u]] = 0
  <2>1. u # t /\ rt2[u] = rt[u] /\ rt[u] # NoNode
    BY <1>5
  <2>2. rt[u] \in A /\ home[rt[u]] = u /\ d[rt[u]] = 0
    BY <2>1 DEF Forested
  <2>3. rt[u] \in B
    BY <2>1, <2>2
  <2> QED BY <1>3, <2>1, <2>2, <2>3
<1>6. ASSUME NEW x \in B, NEW y \in Els(ak2[x])
      PROVE  home2[y] = home2[x] /\ d2[y] = d2[x] + 1
  <2>1. y \in Els(ak[x])
    OBVIOUS
  <2>2. home[y] = home[x] /\ d[y] = d[x] + 1 /\ y \in B
    BY <1>4, <2>1
  <2> QED BY <1>3, <2>2
<1>7. ASSUME NEW x \in B, NEW y \in B, x # y PROVE Els(ak2[x]) \cap Els(ak2[y]) = {}
  <2>1. \A u, v \in A : u # v => Els(ak[u]) \cap Els(ak[v]) = {}
    BY DEF Forested
  <2> QED BY <1>3, <1>7, <2>1
<1>8. ASSUME NEW x \in B, d2[x] = 0 PROVE rt2[home2[x]] = x
  <2>1. rt[home[x]] = x /\ home[x] \in Trees
    BY <1>2, <1>3, <1>8 DEF Forested
  <2> QED BY <1>3, <2>1
<1>9. ASSUME NEW x \in B, d2[x] # 0 PROVE \E y \in B : x \in Els(ak2[y])
  <2>1. PICK y \in A : x \in Els(ak[y])
    BY <1>3, <1>9 DEF Forested
  <2>2. home[x] = home[y]
    BY <2>1 DEF Forested
  <2>3. y \in B
    BY <1>3, <2>2
  <2> QED BY <2>1, <2>3
<1>10. Forested(rt2, ak2, home2, d2)
  BY <1>3, <1>5, <1>6, <1>7, <1>8, <1>9, ForestedIf
<1> QED BY <1>c, <1>e, <1>g, <1>i, <1>10

\* A tree goes with all its nodes, and no link to them is left.
LEMMA FreedKept ==
  ASSUME NEW h, NEW rt, NEW ak, Kept(h, rt, ak), NEW home, NEW d,
         Forested(rt, ak, home, d), Near(h, home), NEW t \in Trees
  PROVE  LET B == Others(home, t)
         IN  Kept(Only(h, B), SetRoot(rt, t, NoNode), Only(ak, B))
<1>a. PICK A : A = DOMAIN ak
  OBVIOUS
<1>b. home \in [A -> Trees]
  BY <1>a DEF Forested
<1>c. PICK B : B = Others(home, t)
  OBVIOUS
<1>d. B = {x \in A : home[x] # t}
  BY <1>b, <1>c DEF Others
<1>e. PICK ak2 : ak2 = Only(ak, B)
  OBVIOUS
<1>f. ak2 = [x \in B |-> ak[x]]
  BY <1>e DEF Only
<1>g. PICK h2 : h2 = Only(h, B)
  OBVIOUS
<1>h. h2 = [x \in B |-> h[x]]
  BY <1>g DEF Only
<1>i. PICK rt2 : rt2 = SetRoot(rt, t, NoNode)
  OBVIOUS
<1>j. rt2 = [rt EXCEPT ![t] = NoNode]
  BY <1>i DEF SetRoot
<1> USE <1>a, <1>d, <1>f, <1>h, <1>j
<1>1. /\ A \subseteq 1..MaxNodes /\ NoNode \notin A
      /\ h \in [A -> TreeNode(A)] /\ ak \in [A -> Seq(A)]
      /\ rt \in [Trees -> A \cup {NoNode}]
      /\ \A x \in A : Distinct(ak[x]) /\ Parented(h, x, ak[x])
  BY ContainersAssumption DEF Kept
<1>2. \A x \in B : x \in A /\ home[x] # t
  OBVIOUS
<1>3. ASSUME NEW x \in B PROVE h[x] \in TreeNode(B)
  <2>1. /\ home[h[x].next] = home[x] /\ home[h[x].prev] = home[x]
        /\ h[x].child # NoNode => home[h[x].child] = home[x]
        /\ h[x].parent # NoNode => home[h[x].parent] = home[x]
    BY <1>1, <1>2 DEF Near
  <2>2. h[x] \in TreeNode(A)
    BY <1>1, <1>2
  <2>3. h[x].next \in B /\ h[x].prev \in B
        /\ h[x].child \in B \cup {NoNode} /\ h[x].parent \in B \cup {NoNode}
    BY <1>2, <2>1, <2>2 DEF TreeNode
  <2> QED BY <2>2, <2>3 DEF TreeNode
<1>4. ASSUME NEW x \in B PROVE ak[x] \in Seq(B)
  <2>1. PICK c \in Seq(A) : c = ak[x]
    BY <1>1, <1>2
  <2>2. \A y \in Els(c) : y \in B
    <3> SUFFICES ASSUME NEW y \in Els(c) PROVE y \in B
      OBVIOUS
    <3>1. y \in A
      BY ElsFacts
    <3>2. home[y] = home[x]
      BY <1>2, <2>1 DEF Forested
    <3> QED BY <1>2, <3>1, <3>2
  <2>3. \A i \in 1..Len(c) : c[i] \in B
    BY <2>2 DEF Els
  <2>4. c \in Seq(B)
    BY <2>3
  <2> QED BY <2>1, <2>4
<1>5. h2 \in [B -> TreeNode(B)] /\ ak2 \in [B -> Seq(B)] /\ DOMAIN ak2 = B
  BY <1>3, <1>4
<1>6. rt2 \in [Trees -> B \cup {NoNode}]
  <2> SUFFICES ASSUME NEW u \in Trees PROVE rt2[u] \in B \cup {NoNode}
    BY <1>1
  <2>1. CASE u # t /\ rt[u] # NoNode
    <3>1. rt[u] \in A /\ home[rt[u]] = u
      BY <2>1 DEF Forested
    <3> QED BY <1>1, <2>1, <3>1
  <2>2. CASE u = t \/ rt[u] = NoNode
    BY <1>1, <2>2
  <2> QED BY <2>1, <2>2
<1>7. ASSUME NEW x \in B PROVE Distinct(ak2[x]) /\ Parented(h2, x, ak2[x])
  <2>1. PICK c \in Seq(B) : c = ak[x] /\ Distinct(c) /\ Parented(h, x, c)
    BY <1>1, <1>2, <1>4
  <2>2. \A i \in 1..Len(c) : h2[c[i]] = h[c[i]]
    <3>1. \A i \in 1..Len(c) : c[i] \in B
      BY <2>1
    <3> QED BY <3>1
  <2>3. h2[x] = h[x] /\ ak2[x] = c
    BY <2>1
  <2> QED BY <2>1, <2>2, <2>3 DEF Parented
<1>8. \A x \in B : Distinct(ak2[x]) /\ Parented(h2, x, ak2[x])
  BY <1>7
<1>9. B \subseteq 1..MaxNodes
  BY <1>1
<1>10. Kept(h2, rt2, ak2)
  BY <1>5, <1>6, <1>8, <1>9 DEF Kept
<1> QED BY <1>c, <1>e, <1>g, <1>i, <1>10

LEMMA FreedNear ==
  ASSUME NEW h, NEW rt, NEW ak, Kept(h, rt, ak), NEW home, DOMAIN home = DOMAIN ak,
         Near(h, home), NEW t
  PROVE  LET B == Others(home, t)
         IN  Near(Only(h, B), Only(home, B))
<1>a. PICK A : A = DOMAIN ak
  OBVIOUS
<1>b. NoNode \notin A /\ h \in [A -> TreeNode(A)]
  BY <1>a, KeptFacts
<1>c. PICK B : B = Others(home, t)
  OBVIOUS
<1>d. B = {x \in A : home[x] # t}
  BY <1>a, <1>c DEF Others
<1>e. PICK h2 : h2 = Only(h, B)
  OBVIOUS
<1>f. h2 = [x \in B |-> h[x]]
  BY <1>e DEF Only
<1>g. PICK home2 : home2 = Only(home, B)
  OBVIOUS
<1>h. \A x \in B : home2[x] = home[x]
  BY <1>g DEF Only
<1> USE <1>a, <1>b, <1>d, <1>f, <1>h
<1>1. ASSUME NEW x \in B
      PROVE  /\ home2[h2[x].next] = home2[x] /\ home2[h2[x].prev] = home2[x]
             /\ h2[x].child # NoNode => home2[h2[x].child] = home2[x]
             /\ h2[x].parent # NoNode => home2[h2[x].parent] = home2[x]
  <2>1. /\ home[h[x].next] = home[x] /\ home[h[x].prev] = home[x]
        /\ h[x].child # NoNode => home[h[x].child] = home[x]
        /\ h[x].parent # NoNode => home[h[x].parent] = home[x]
    BY DEF Near
  <2>2. /\ h[x].next \in A /\ h[x].prev \in A
        /\ h[x].child \in A \cup {NoNode} /\ h[x].parent \in A \cup {NoNode}
    BY DEF TreeNode
  <2>3. h2[x] = h[x] /\ home2[x] = home[x] /\ home[x] # t
    OBVIOUS
  <2>4. h[x].next \in B /\ h[x].prev \in B
        /\ (h[x].child # NoNode => h[x].child \in B)
        /\ (h[x].parent # NoNode => h[x].parent \in B)
    BY <2>1, <2>2, <2>3
  <2> QED BY <2>1, <2>3, <2>4
<1>2. Near(h2, home2)
  BY <1>1 DEF Near
<1> QED BY <1>c, <1>e, <1>g, <1>2
-----------------------------------------------------------------------------
\* The calls keep the invariant.

LEMMA TreeFacts ==
  ASSUME TreeInv
  PROVE  /\ Forest!Alive = DOMAIN asked /\ broken = FALSE /\ Kept(nodes, root, asked)
         /\ \E home, d : /\ Forested(root, asked, home, d) /\ Near(nodes, home)
                        /\ DOMAIN home = DOMAIN asked /\ Apart(asked)
                        /\ \A t \in Trees :
                             Forest!NodesOf(t) = {x \in DOMAIN asked : home[x] = t}
<1>1. Kept(nodes, root, asked) /\ broken = FALSE
  BY DEF TreeInv
<1>2. Forest!Alive = DOMAIN asked
  BY <1>1 DEF Kept, Forest!Alive
<1>3. PICK home, d : Forested(root, asked, home, d) /\ Near(nodes, home)
  BY DEF TreeInv
<1>4. DOMAIN home = DOMAIN asked /\ Apart(asked)
  BY <1>3 DEF Forested, Apart
<1>5. \A t \in Trees : Forest!NodesOf(t) = {x \in DOMAIN asked : home[x] = t}
  BY <1>1, <1>3, NodesAre
<1> QED BY <1>1, <1>2, <1>3, <1>4, <1>5

LEMMA AddKeeps ==
  ASSUME TreeInv, NEW t \in Trees, NEW n, Forest!AddChild(t, n)
  PROVE  TreeInv'
<1>1. PICK home, d : /\ Forested(root, asked, home, d) /\ Near(nodes, home)
                     /\ DOMAIN home = DOMAIN asked /\ Apart(asked)
                     /\ \A s \in Trees :
                          Forest!NodesOf(s) = {x \in DOMAIN asked : home[x] = s}
  BY TreeFacts
<1>2. Forest!Alive = DOMAIN asked /\ broken = FALSE /\ Kept(nodes, root, asked)
  BY TreeFacts
<1>3. PICK A : A = DOMAIN asked
  OBVIOUS
<1>4. /\ Forest!Alive # Forest!Nodes_ /\ n \in Forest!NodesOf(t)
      /\ nodes' = Forest!Added([m \in Forest!Alive \cup {Forest!Fresh} |->
                                  IF m = Forest!Fresh THEN Forest!Alone(m) ELSE nodes[m]],
                               n, Forest!Fresh)
      /\ asked' = [m \in Forest!Alive \cup {Forest!Fresh} |->
                     IF m = Forest!Fresh THEN <<>>
                     ELSE IF m = n THEN Append(asked[n], Forest!Fresh) ELSE asked[m]]
      /\ root' = root /\ broken' = broken
  BY DEF Forest!AddChild
<1>5. n \in A
  BY <1>1, <1>3, <1>4
<1>6. PICK F \in 1..MaxNodes : F = Forest!Fresh /\ F \notin A
  BY <1>2, <1>3, <1>4, FreshNode
<1>7. PICK h1 : h1 = Extended(nodes, A, F, Forest!Alone(F))
  OBVIOUS
<1>8. PICK ak1 : ak1 = Extended(asked, A, F, <<>>)
  OBVIOUS
<1>9. Roots(root, A \cup {F})
  <2>1. root \in [Trees -> A \cup {NoNode}]
    BY <1>2, <1>3, KeptFacts
  <2> QED BY <2>1 DEF Roots
<1>10. /\ Kept(h1, root, ak1) /\ DOMAIN ak1 = A \cup {F}
       /\ \A x \in A \cup {F} : Els(ak1[x]) = IF x = F THEN {} ELSE Els(asked[x])
  BY <1>2, <1>3, <1>6, <1>7, <1>8, <1>9, FreshKept
<1>11. Apart(ak1)
  BY <1>1, <1>3, <1>10 DEF Apart
<1>12. \A x \in A : F \notin Els(asked[x])
  <2>1. \A x \in A : Els(asked[x]) \subseteq A
    BY <1>2, <1>3, KeptFacts
  <2> QED BY <1>6, <2>1
<1>13. /\ n \in DOMAIN ak1 /\ F \in DOMAIN ak1 /\ n # F
       /\ \A x \in DOMAIN ak1 : F \notin Els(ak1[x])
  BY <1>5, <1>6, <1>10, <1>12
<1>14. PICK h2 : h2 = Forest!Added(h1, n, F)
  OBVIOUS
<1>15. PICK ak2 : ak2 = Appended(ak1, n, F)
  OBVIOUS
<1>16. Kept(h2, root, ak2) /\ NewChild(ak1, ak2, n, F)
  <2>1. Roots(root, DOMAIN ak1)
    BY <1>9, <1>10
  <2> QED BY <1>10, <1>11, <1>13, <1>14, <1>15, <2>1, AddedKept
<1>17. NewChild(asked, ak2, n, F)
  <2>1. DOMAIN ak2 = A \cup {F} /\ DOMAIN ak1 = A \cup {F}
    BY <1>10, <1>16 DEF NewChild
  <2>2. \A x \in A \cup {F} : Els(ak2[x]) = Els(ak1[x]) \cup (IF x = n THEN {F} ELSE {})
    BY <1>16, <2>1 DEF NewChild
  <2>3. \A x \in A \cup {F} : Els(ak1[x]) = IF x \in A THEN Els(asked[x]) ELSE {}
    BY <1>6, <1>10
  <2> QED BY <1>3, <2>1, <2>2, <2>3 DEF NewChild
<1>18. PICK home2 : home2 = Extended(home, A, F, home[n])
  OBVIOUS
<1>19. \E d2 : Forested(root, ak2, home2, d2)
  BY <1>1, <1>2, <1>3, <1>5, <1>6, <1>17, <1>18, ForestedAdd
<1>20. Near(h1, home2)
  BY <1>1, <1>2, <1>3, <1>6, <1>7, <1>18, FreshNear
<1>21. Near(h2, home2)
  <2>1. home2[n] = home2[F]
    BY <1>5, <1>6, <1>18 DEF Extended
  <2> QED BY <1>10, <1>13, <1>14, <1>20, <2>1, AddedNear
<1>22. nodes' = h2
  <2>1. [m \in Forest!Alive \cup {Forest!Fresh} |->
           IF m = Forest!Fresh THEN Forest!Alone(m) ELSE nodes[m]] = h1
    BY <1>2, <1>3, <1>6, <1>7 DEF Extended
  <2> QED BY <1>4, <1>6, <1>14, <2>1
<1>23. asked' = ak2
  <2>1. asked' = [m \in A \cup {F} |-> IF m = F THEN <<>>
                                       ELSE IF m = n THEN Append(asked[n], F) ELSE asked[m]]
    BY <1>2, <1>3, <1>4, <1>6
  <2>2. ak1 = [m \in A \cup {F} |-> IF m = F THEN <<>> ELSE asked[m]]
    BY <1>8 DEF Extended
  <2>3. ak1[n] = asked[n] /\ n \in A \cup {F}
    BY <1>5, <1>6, <2>2
  <2>4. ak2 = [ak1 EXCEPT ![n] = Append(asked[n], F)]
    BY <1>15, <2>3 DEF Appended
  <2> QED BY <1>13, <2>1, <2>2, <2>3, <2>4
<1>24. root' = root /\ broken' = FALSE
  BY <1>2, <1>4
<1> QED BY <1>16, <1>19, <1>21, <1>22, <1>23, <1>24, Zenon DEF TreeInv

LEMMA GraftKeeps ==
  ASSUME TreeInv, NEW t \in Trees, NEW s \in Trees, s # t, NEW n, Forest!Graft(t, n, s)
  PROVE  TreeInv'
<1>1. PICK home, d : /\ Forested(root, asked, home, d) /\ Near(nodes, home)
                     /\ DOMAIN home = DOMAIN asked /\ Apart(asked)
                     /\ \A u \in Trees :
                          Forest!NodesOf(u) = {x \in DOMAIN asked : home[x] = u}
  BY TreeFacts
<1>2. broken = FALSE /\ Kept(nodes, root, asked)
  BY TreeFacts
<1>3. PICK A : A = DOMAIN asked
  OBVIOUS
<1>4. /\ root[s] # NoNode /\ n \in Forest!NodesOf(t)
      /\ nodes' = Forest!Added(nodes, n, root[s])
      /\ asked' = [asked EXCEPT ![n] = Append(asked[n], root[s])]
      /\ root' = [root EXCEPT ![s] = NoNode] /\ broken' = broken
  BY DEF Forest!Graft
<1>5. n \in A /\ home[n] = t
  BY <1>1, <1>3, <1>4
<1>6. PICK r \in A : r = root[s] /\ home[r] = s /\ d[r] = 0
  BY <1>1, <1>3, <1>4 DEF Forested
<1>7. \A x \in A : r \notin Els(asked[x])
  <2> SUFFICES ASSUME NEW x \in A, r \in Els(asked[x]) PROVE FALSE
    OBVIOUS
  <2>1. d[r] = d[x] + 1 /\ d[x] \in Nat
    BY <1>1, <1>3 DEF Forested
  <2> QED BY <1>6, <2>1
<1>8. PICK h2 : h2 = Forest!Added(nodes, n, r)
  OBVIOUS
<1>9. PICK ak2 : ak2 = Appended(asked, n, r)
  OBVIOUS
<1>10. PICK rt2 : rt2 = SetRoot(root, s, NoNode)
  OBVIOUS
<1>11. Roots(rt2, A)
  <2>1. root \in [Trees -> A \cup {NoNode}]
    BY <1>2, <1>3, KeptFacts
  <2> QED BY <1>10, <2>1 DEF Roots, SetRoot
<1>12. Kept(h2, rt2, ak2) /\ NewChild(asked, ak2, n, r)
  <2>1. n \in DOMAIN asked /\ r \in DOMAIN asked /\ Roots(rt2, DOMAIN asked)
        /\ \A x \in DOMAIN asked : r \notin Els(asked[x])
    BY <1>3, <1>5, <1>6, <1>7, <1>11
  <2> QED BY <1>1, <1>2, <1>8, <1>9, <2>1, AddedKept
<1>13. PICK home2 : home2 = Renamed(home, s, t)
  OBVIOUS
<1>14. \E d2 : Forested(rt2, ak2, home2, d2)
  <2>1. NewChild(asked, ak2, n, root[s]) /\ n \in DOMAIN asked
    BY <1>3, <1>5, <1>6, <1>12
  <2> QED BY <1>1, <1>2, <1>4, <1>5, <1>10, <1>13, <2>1, ForestedGraft
<1>15. Near(nodes, home2)
  BY <1>1, <1>2, <1>13, RenamedNear
<1>16. Near(h2, home2)
  <2>1. home2[n] = home2[r]
    BY <1>1, <1>3, <1>5, <1>6, <1>13 DEF Renamed
  <2>2. n \in DOMAIN asked /\ r \in DOMAIN asked /\ r \notin Els(asked[n])
    BY <1>3, <1>5, <1>6, <1>7
  <2> QED BY <1>2, <1>8, <1>15, <2>1, <2>2, AddedNear
<1>17. nodes' = h2 /\ asked' = ak2 /\ root' = rt2 /\ broken' = FALSE
  BY <1>2, <1>4, <1>6, <1>8, <1>9, <1>10 DEF Appended, SetRoot
<1> QED BY <1>12, <1>14, <1>16, <1>17, Zenon DEF TreeInv

LEMMA MoveKeeps ==
  ASSUME TreeInv, NEW t \in Trees, NEW s \in Trees, Forest!Move(t, s), root[t] = NoNode
  PROVE  TreeInv'
<1>1. PICK home, d : /\ Forested(root, asked, home, d) /\ Near(nodes, home)
                     /\ DOMAIN home = DOMAIN asked
  BY TreeFacts
<1>2. broken = FALSE /\ Kept(nodes, root, asked)
  BY TreeFacts
<1>3. s # t /\ root' = [root EXCEPT ![t] = root[s], ![s] = NoNode]
      /\ nodes' = nodes /\ asked' = asked /\ broken' = broken
  BY DEF Forest!Move
<1>4. PICK rt2 : rt2 = MovedRoot(root, t, s)
  OBVIOUS
<1>5. Kept(nodes, rt2, asked)
  <2>1. root \in [Trees -> DOMAIN asked \cup {NoNode}]
    BY <1>2, KeptFacts
  <2>2. rt2 \in [Trees -> DOMAIN asked \cup {NoNode}]
    BY <1>4, <2>1 DEF MovedRoot
  <2> QED BY <1>2, <2>2 DEF Kept
<1>6. PICK home2 : home2 = Renamed(home, s, t)
  OBVIOUS
<1>7. Forested(rt2, asked, home2, d)
  BY <1>1, <1>2, <1>3, <1>4, <1>6, ForestedMove
<1>8. Near(nodes, home2)
  BY <1>1, <1>2, <1>6, RenamedNear
<1>9. root' = rt2 /\ broken' = FALSE
  BY <1>2, <1>3, <1>4 DEF MovedRoot
<1> QED BY <1>3, <1>5, <1>7, <1>8, <1>9, Zenon DEF TreeInv

LEMMA RemakeKeeps ==
  ASSUME TreeInv, NEW t \in Trees, Forest!Remake(t)
  PROVE  TreeInv'
<1>1. PICK home, d : /\ Forested(root, asked, home, d) /\ Near(nodes, home)
                     /\ DOMAIN home = DOMAIN asked
  BY TreeFacts
<1>2. Forest!Alive = DOMAIN asked /\ broken = FALSE /\ Kept(nodes, root, asked)
  BY TreeFacts
<1>3. PICK A : A = DOMAIN asked
  OBVIOUS
<1>4. CASE root[t] # NoNode
  <2>1. Forest!Freed(root[t]) /\ root' = [root EXCEPT ![t] = NoNode]
    BY <1>4 DEF Forest!Remake
  <2>2. PICK n \in DOMAIN asked : n = root[t] /\ home[n] = t /\ d[n] = 0
    BY <1>1, <1>4 DEF Forested
  <2>3. PICK w : w = Forest!LevelOrder(nodes, n)
    OBVIOUS
  <2>4. /\ w.todo = <<>> /\ w.seen \in Seq(A) /\ Distinct(w.seen)
        /\ Els(w.seen) = {x \in A : home[x] = t}
    BY <1>1, <1>2, <1>3, <2>2, <2>3, WalkTotal DEF Forest!LevelOrder, Policies
  <2>5. Forest!Range(w.seen) = Els(w.seen) /\ Forest!IsInjective(w.seen)
    BY <2>4 DEF Forest!Range, Els, Forest!IsInjective, Distinct
  <2>6. /\ broken' = ~(w.todo = <<>> /\ Forest!IsInjective(w.seen)
                         /\ Forest!Range(w.seen) \subseteq Forest!Alive)
        /\ nodes' = Forest!Restrict(nodes, Forest!Alive \ Forest!Range(w.seen))
        /\ asked' = Forest!Restrict(asked, Forest!Alive \ Forest!Range(w.seen))
    BY <2>1, <2>2, <2>3 DEF Forest!Freed
  <2>7. PICK B : B = Others(home, t)
    OBVIOUS
  <2>8. Forest!Alive \ Forest!Range(w.seen) = B /\ Forest!Range(w.seen) \subseteq Forest!Alive
    BY <1>1, <1>2, <1>3, <2>4, <2>5, <2>7 DEF Others
  <2>9. broken' = FALSE
    BY <2>4, <2>5, <2>6, <2>8
  <2>10. nodes' = Only(nodes, B) /\ asked' = Only(asked, B)
    BY <2>6, <2>8 DEF Forest!Restrict, Only
  <2>11. root' = SetRoot(root, t, NoNode)
    BY <2>1 DEF SetRoot
  <2>12. Kept(Only(nodes, B), SetRoot(root, t, NoNode), Only(asked, B))
    BY <1>1, <1>2, <2>7, FreedKept
  <2>13. \E d2 : Forested(SetRoot(root, t, NoNode), Only(asked, B), Only(home, B), d2)
    BY <1>1, <1>2, <2>7, ForestedFreed
  <2>14. Near(Only(nodes, B), Only(home, B))
    BY <1>1, <1>2, <2>7, FreedNear
  <2> QED BY <2>9, <2>10, <2>11, <2>12, <2>13, <2>14, Zenon DEF TreeInv
<1>5. CASE root[t] = NoNode
  <2>1. /\ Forest!Alive # Forest!Nodes_
        /\ nodes' = [m \in Forest!Alive \cup {Forest!Fresh} |->
                       IF m = Forest!Fresh THEN Forest!Alone(m) ELSE nodes[m]]
        /\ asked' = [m \in Forest!Alive \cup {Forest!Fresh} |->
                       IF m = Forest!Fresh THEN <<>> ELSE asked[m]]
        /\ root' = [root EXCEPT ![t] = Forest!Fresh]
        /\ broken' = broken
    BY <1>5 DEF Forest!Remake
  <2>2. PICK F \in 1..MaxNodes : F = Forest!Fresh /\ F \notin A
    BY <1>2, <1>3, <2>1, FreshNode
  <2>3. PICK h2 : h2 = Extended(nodes, A, F, Forest!Alone(F))
    OBVIOUS
  <2>4. PICK ak2 : ak2 = Extended(asked, A, F, <<>>)
    OBVIOUS
  <2>5. PICK rt2 : rt2 = SetRoot(root, t, F)
    OBVIOUS
  <2>6. Roots(rt2, A \cup {F})
    <3>1. root \in [Trees -> A \cup {NoNode}]
      BY <1>2, <1>3, KeptFacts
    <3> QED BY <2>5, <3>1 DEF Roots, SetRoot
  <2>7. nodes' = h2 /\ asked' = ak2 /\ root' = rt2 /\ broken' = FALSE
    BY <1>2, <1>3, <2>1, <2>2, <2>3, <2>4, <2>5 DEF Extended, SetRoot
  <2>8. Kept(h2, rt2, ak2)
    BY <1>2, <1>3, <2>2, <2>3, <2>4, <2>6, FreshKept
  <2>9. PICK home2 : home2 = Extended(home, A, F, t)
    OBVIOUS
  <2>10. \E d2 : Forested(rt2, ak2, home2, d2)
    BY <1>1, <1>2, <1>3, <1>5, <2>2, <2>4, <2>5, <2>9, ForestedNew
  <2>11. Near(h2, home2)
    BY <1>1, <1>2, <1>3, <2>2, <2>3, <2>9, FreshNear
  <2> QED BY <2>7, <2>8, <2>10, <2>11, Zenon DEF TreeInv
<1> QED BY <1>4, <1>5

LEMMA TreesInit == Forest!Init => TreeInv
<1> SUFFICES ASSUME Forest!Init PROVE TreeInv
  OBVIOUS
<1>1. nodes = <<>> /\ root = [t \in Trees |-> NoNode] /\ broken = FALSE /\ asked = <<>>
  BY DEF Forest!Init
<1>2. DOMAIN asked = {} /\ DOMAIN nodes = {} /\ asked = [x \in {} |-> <<>>]
      /\ nodes = [x \in {} |-> <<>>]
  BY <1>1
<1>3. Kept(nodes, root, asked)
  BY <1>1, <1>2 DEF Kept
<1>4. PICK none : none = [x \in {} |-> <<>>]
  OBVIOUS
<1>5. Forested(root, asked, none, none)
  BY <1>1, <1>2, <1>4 DEF Forested
<1>6. Near(nodes, none)
  BY <1>2 DEF Near
<1> QED BY <1>1, <1>3, <1>5, <1>6 DEF TreeInv

LEMMA TreesGrow ==
  ASSUME "notOwn" \in TreeRules, "overNone" \in TreeRules, TreeInv, Forest!Next
  PROVE  TreeInv'
<1>1. PICK t \in Trees : \/ \E n \in Forest!Alive : \/ Forest!AddChild(t, n)
                                                   \/ \E s \in Trees : Forest!Graft(t, n, s)
                         \/ \E s \in Trees : Forest!Move(t, s)
                         \/ Forest!Remake(t)
  BY DEF Forest!Next
<1>2. CASE \E n \in Forest!Alive : Forest!AddChild(t, n)
  BY <1>2, AddKeeps
<1>3. CASE \E n \in Forest!Alive : \E s \in Trees : Forest!Graft(t, n, s)
  <2>1. PICK n \in Forest!Alive, s \in Trees : Forest!Graft(t, n, s)
    BY <1>3
  <2>2. s # t
    BY <2>1 DEF Forest!Graft
  <2> QED BY <2>1, <2>2, GraftKeeps
<1>4. CASE \E s \in Trees : Forest!Move(t, s)
  <2>1. PICK s \in Trees : Forest!Move(t, s)
    BY <1>4
  <2>2. root[t] = NoNode
    BY <2>1 DEF Forest!Move
  <2> QED BY <2>1, <2>2, MoveKeeps
<1>5. CASE Forest!Remake(t)
  BY <1>5, RemakeKeeps
<1> QED BY <1>1, <1>2, <1>3, <1>4, <1>5

\* The two rules of use of a tree: the user does not graft a tree into itself,
\* and move-assigns only to a tree that was moved from.
TreeRulesKept == {"notOwn", "overNone"} \subseteq TreeRules

\* The nodes of the trees are their own: no link dangles or leaves its tree,
\* no node is lost or in two trees, and no walk goes on for ever. And the
\* level walk shows the nodes by their depth, the pre-order walk each node
\* before its branch, siblings in the order they were added. After any
\* history of additions, grafts, moves and frees, for any number of nodes and
\* whatever memory is used again. For users who keep both rules.
THEOREM TreesSafety ==
  ASSUME TreeRulesKept
  PROVE  ContainersSpec => []TreesWalk
<1>1. ContainersInit => TreeInv
  BY TreesInit DEF ContainersInit
<1>2. TreeInv /\ [ContainersNext]_containerVars => TreeInv'
  <2> SUFFICES ASSUME TreeInv, [ContainersNext]_containerVars PROVE TreeInv'
    OBVIOUS
  <2>1. CASE UNCHANGED treeVars
    BY <2>1 DEF treeVars, TreeInv, Kept, Parented
  <2>2. CASE Forest!Next
    BY <2>2, TreesGrow DEF TreeRulesKept
  <2>3. UNCHANGED treeVars \/ Forest!Next
    BY DEF ContainersNext, Buffers, Hashes, Maps, Grows, containerVars
  <2> QED BY <2>1, <2>2, <2>3
<1>3. TreeInv => TreesWalk
  BY TreesOwned, TreesInOrder DEF TreesWalk
<1> QED BY <1>1, <1>2, <1>3, PTL DEF ContainersSpec

=============================================================================
