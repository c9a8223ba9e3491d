----------------------------- MODULE SequenceHash -----------------------------
(***************************************************************************)
(* core::SequenceHash: a hash from keys to nodes, and the nodes linked in  *)
(* both directions between head_ and tail_.  The nodes live on one heap,   *)
(* whose addresses are used again once freed, so that a pointer left       *)
(* behind may point to nothing or to another node.                         *)
(*                                                                         *)
(* Two ways to insert leave the links wrong, see PushFront and PushAfter;  *)
(* `Rules` says which of them the user stays away from.                    *)
(***************************************************************************)
EXTENDS Integers, Sequences, FiniteSets, Functions

CONSTANTS
  Keys,
  Containers,
  Nodes,       \* addresses a node may have: bounds the nodes alive at once
  Null,        \* the null pointer
  Rules        \* the rules of use the user follows

\* "notBeforeHead": PushFront only on an empty container, PushBefore only at
\*                  a key that is not the first.
\* "notAfterTail":  PushAfter only at a key that is not the last.
AllRules == {"notBeforeHead", "notAfterTail"}

VARIABLES
  heap,  \* the allocated nodes: their value's key and links
  hash,  \* nodes_ of each container: from its keys to their nodes
  head,  \* head_
  tail,  \* tail_
  fault, \* freed memory was used; nothing is known afterwards
  seqs   \* history: the sequences of keys the calls asked for

vars == <<heap, hash, head, tail, fault, seqs>>

\* Every call takes the step of OrderedKeys that its caller is promised.
Promised == INSTANCE OrderedKeys

Live == DOMAIN heap

KeysOf(c) == DOMAIN hash[c]

With(f, k, x) == [j \in DOMAIN f \cup {k} |-> IF j = k THEN x ELSE f[j]]

Without(f, S) == Restrict(f, DOMAIN f \ S)

NewNode(k) == [v |-> k, p |-> Null, n |-> Null]

\* The heap with a node for key k at address a.
Allocated(a, k) == With(heap, a, NewNode(k))

\* The step reads and writes the nodes at these addresses.
Uses(addresses) == fault' = ~(addresses \subseteq Live)

-----------------------------------------------------------------------------
\* Inserting. Each takes a new node `a` for key k that hash[c] lacks.

Inserted(c, k, a) ==
  /\ ~fault /\ k \notin KeysOf(c) /\ a \in Nodes \ Live
  /\ hash' = [hash EXCEPT ![c] = With(@, k, a)]

\* PushNode(node), with h the heap that holds the new node.
LinkLast(c, a, h) ==
  IF head[c] = Null
  THEN /\ heap' = h
       /\ fault' = fault
       /\ head' = [head EXCEPT ![c] = a]
       /\ tail' = [tail EXCEPT ![c] = a]
  ELSE /\ Uses({tail[c]})
       /\ heap' = IF fault' THEN heap
                  ELSE [h EXCEPT ![a].p = tail[c],
                                 ![a].n = h[tail[c]].n,
                                 ![tail[c]].n = a]
       /\ head' = head
       /\ tail' = [tail EXCEPT ![c] = a]

\* Mutant: the next node keeps its link to the one before.
Linked_OneWay(h, before, a) ==
  [h EXCEPT ![a].n = h[before].n, ![before].n = a, ![a].p = before]

\* Mutant: takes the next node after it was overwritten.
Linked_Late(h, before, a) ==
  LET g == [h EXCEPT ![before].n = a, ![a].p = before]
  IN  [g EXCEPT ![a].n = h[a].n]

\* PushNode(before, node).
Linked(h, before, a) ==
  LET next == h[before].n
      g    == [h EXCEPT ![a].n = next]
      f    == IF next = Null THEN g ELSE [g EXCEPT ![next].p = a]
  IN  [f EXCEPT ![before].n = a, ![a].p = before]

\* PushNode(before, node), where `before` is not the new node.
LinkAfter(c, before, a, h) ==
  /\ Uses({before, heap[before].n} \ {Null})
  /\ heap' = IF fault' THEN heap ELSE Linked(h, before, a)
  /\ UNCHANGED <<head, tail>>

\* What PushFront and PushBefore do at the head: PushNode(node, head_) links
\* head_ behind the new node, as if it were the one to insert: its own next
\* node is taken from the new one, which has none.
LinkFirst(c, a, h) ==
  /\ Uses({head[c]})
  /\ heap' = IF fault' THEN heap ELSE Linked(h, a, head[c])
  /\ head' = [head EXCEPT ![c] = a]
  /\ tail' = tail

\* A refused push, of a key that is there or at one that is not, changes
\* nothing: the guards of these actions leave it out.
PushBack(c, k, a) ==
  Inserted(c, k, a) /\ LinkLast(c, a, Allocated(a, k))

\* TryEmplace differs from PushBack in what it returns.
TryEmplace(c, k, a) == PushBack(c, k, a)

PushFront(c, k, a) ==
  /\ "notBeforeHead" \in Rules => head[c] = Null
  /\ Inserted(c, k, a)
  /\ IF head[c] = Null THEN LinkLast(c, a, Allocated(a, k))
                       ELSE LinkFirst(c, a, Allocated(a, k))

PushAfter(c, at, k, a) ==
  /\ at \in KeysOf(c)
  /\ "notAfterTail" \in Rules => hash[c][at] # tail[c]
  /\ Inserted(c, k, a)
  /\ LinkAfter(c, hash[c][at], a, Allocated(a, k))

\* Mutant: places the node behind the key, not before it.
PushBefore_After(c, at, k, a) ==
  /\ at \in KeysOf(c)
  /\ heap[hash[c][at]].p # Null
  /\ Inserted(c, k, a)
  /\ LinkAfter(c, hash[c][at], a, Allocated(a, k))

PushBefore(c, at, k, a) ==
  /\ at \in KeysOf(c)
  /\ LET p == heap[hash[c][at]].p
     IN  /\ "notBeforeHead" \in Rules => p # Null
         /\ Inserted(c, k, a)
         /\ IF p = Null
            THEN LinkFirst(c, a, Allocated(a, k))
            ELSE IF p \in Live
                 THEN LinkAfter(c, p, a, Allocated(a, k))
                 ELSE Uses({p}) /\ UNCHANGED <<heap, head, tail>>

-----------------------------------------------------------------------------
\* Removing.

\* The heap in which the neighbours of node x are linked to each other.
Unlinked(x) ==
  LET p == heap[x].p
      n == heap[x].n
      h == IF p = Null THEN heap ELSE [heap EXCEPT ![p].n = n]
  IN  IF n = Null THEN h ELSE [h EXCEPT ![n].p = p]

\* Mutant: the removed node stays the last one.
Remove_KeepTail(c, k) ==
  /\ ~fault /\ k \in KeysOf(c)
  /\ LET x == hash[c][k]
     IN  /\ head' = [head EXCEPT ![c] = IF @ = x THEN heap[x].n ELSE @]
         /\ tail' = tail
         /\ hash' = [hash EXCEPT ![c] = Without(@, {k})]
         /\ Uses({heap[x].p, heap[x].n} \ {Null})
         /\ heap' = IF fault' THEN heap ELSE Without(Unlinked(x), {x})

\* Mutant: the node is not deleted.
Remove_Leak(c, k) ==
  /\ ~fault /\ k \in KeysOf(c)
  /\ LET x == hash[c][k]
     IN  /\ head' = [head EXCEPT ![c] = IF @ = x THEN heap[x].n ELSE @]
         /\ tail' = [tail EXCEPT ![c] = IF @ = x THEN heap[x].p ELSE @]
         /\ hash' = [hash EXCEPT ![c] = Without(@, {k})]
         /\ Uses({heap[x].p, heap[x].n} \ {Null})
         /\ heap' = IF fault' THEN heap ELSE Unlinked(x)

Remove(c, k) ==
  /\ ~fault /\ k \in KeysOf(c)
  /\ LET x == hash[c][k]
     IN  /\ head' = [head EXCEPT ![c] = IF @ = x THEN heap[x].n ELSE @]
         /\ tail' = [tail EXCEPT ![c] = IF @ = x THEN heap[x].p ELSE @]
         /\ hash' = [hash EXCEPT ![c] = Without(@, {k})]
         /\ Uses({heap[x].p, heap[x].n} \ {Null})
         /\ heap' = IF fault' THEN heap ELSE Without(Unlinked(x), {x})

\* A walk along the n links, one node further unless it has ended.
Further(walk) ==
  LET a == walk[Len(walk)]
  IN  IF walk = <<>> \/ a \notin Live \/ heap[a].n = Null
      THEN walk ELSE Append(walk, heap[a].n)

\* The nodes a traversal of c visits. As many steps as there are nodes end
\* it, or show a freed node or one twice.
Visited(c) ==
  LET walk[i \in 0..Cardinality(Live)] ==
        IF i > 0 THEN Further(walk[i - 1])
        ELSE IF head[c] = Null THEN <<>> ELSE <<head[c]>>
  IN  walk[Cardinality(Live)]

\* Walks the n links and deletes: to meet a freed node, or one of its own
\* again, is a fault.
Emptied(c) ==
  /\ fault' = ~(Range(Visited(c)) \subseteq Live /\ IsInjective(Visited(c)))
  /\ heap' = IF fault' THEN heap ELSE Without(heap, Range(Visited(c)))

\* Clear, and the destructor of a container that is made again.
Clear(c) ==
  /\ ~fault
  /\ Emptied(c)
  /\ hash' = [hash EXCEPT ![c] = <<>>]
  /\ head' = [head EXCEPT ![c] = Null]
  /\ tail' = [tail EXCEPT ![c] = Null]

Swap(c, d) ==
  /\ ~fault
  /\ hash' = [hash EXCEPT ![c] = hash[d], ![d] = hash[c]]
  /\ head' = [head EXCEPT ![c] = head[d], ![d] = head[c]]
  /\ tail' = [tail EXCEPT ![c] = tail[d], ![d] = tail[c]]
  /\ UNCHANGED <<heap, fault>>

\* Move assignment, and move construction of an empty c.
Move(c, d) ==
  /\ ~fault
  /\ Emptied(c)
  /\ hash' = [hash EXCEPT ![c] = hash[d], ![d] = <<>>]
  /\ head' = [head EXCEPT ![c] = head[d], ![d] = Null]
  /\ tail' = [tail EXCEPT ![c] = tail[d], ![d] = Null]

Init ==
  /\ heap = <<>>
  /\ hash = [c \in Containers |-> <<>>]
  /\ head = [c \in Containers |-> Null]
  /\ tail = [c \in Containers |-> Null]
  /\ fault = FALSE
  /\ Promised!Init

Pushes(c, k, a) ==
  \/ PushBack(c, k, a) /\ Promised!PushBack(c, k)
  \/ TryEmplace(c, k, a) /\ Promised!PushBack(c, k)
  \/ PushFront(c, k, a) /\ Promised!PushFront(c, k)
  \/ \E at \in Keys :
       \/ PushAfter(c, at, k, a) /\ Promised!PushAfter(c, at, k)
       \/ PushBefore(c, at, k, a) /\ Promised!PushBefore(c, at, k)

Next ==
  \E c \in Containers :
    \/ \E k \in Keys, a \in Nodes : Pushes(c, k, a)
    \/ \E k \in Keys : Remove(c, k) /\ Promised!Drop(c, k)
    \/ Clear(c) /\ Promised!Clear(c)
    \/ \E d \in Containers \ {c} : \/ Swap(c, d) /\ Promised!Swap(c, d)
                                   \/ Move(c, d) /\ Promised!Move(c, d)

Spec == Init /\ [][Next]_vars

-----------------------------------------------------------------------------
\* What iterators show; end() is Null.

Forward(c, k) == IF k \in KeysOf(c) THEN heap[hash[c][k]].n ELSE Null

Backward(c, k) == IF k \in KeysOf(c) THEN heap[hash[c][k]].p ELSE Null

-----------------------------------------------------------------------------

\* Type invariant: no pointer is left to a node that was freed, and no call
\* followed such a link, or null where it expects a node.
TypeOK ==
  /\ Live \subseteq Nodes
  /\ heap \in [Live -> [v : Keys, p : Live \cup {Null}, n : Live \cup {Null}]]
  /\ \A c \in Containers : KeysOf(c) \subseteq Keys /\ hash[c] \in [KeysOf(c) -> Live]
  /\ head \in [Containers -> Live \cup {Null}]
  /\ tail \in [Containers -> Live \cup {Null}]
  /\ ~fault
  /\ seqs \in [Containers -> Seq(Keys)]

\* The hash and the list hold the same: a traversal visits every element of
\* the container, once. What PushFront does to the rest of the list shows
\* here.
AllVisited ==
  \A c \in Containers :
    LET s == Visited(c)
    IN  /\ IsInjective(s)
        /\ Range(s) = {hash[c][k] : k \in KeysOf(c)}
        /\ \A k \in KeysOf(c) : heap[hash[c][k]].v = k

\* Walking back from Back() visits the same nodes in the opposite order, and
\* Forward and Backward of a key are its neighbours.
Mirrored ==
  \A c \in Containers :
    LET s == Visited(c)
    IN  /\ tail[c] = IF s = <<>> THEN Null ELSE s[Len(s)]
        /\ \A i \in 1..Len(s) :
             /\ Backward(c, heap[s[i]].v) = IF i = 1 THEN Null ELSE s[i-1]
             /\ Forward(c, heap[s[i]].v) = IF i = Len(s) THEN Null ELSE s[i+1]

\* Every node is some container's, or was deleted: nothing leaks.
NoLeak ==
  \A a \in Live : \E c \in Containers : a \in Range(hash[c])

\* A traversal shows the keys in the order the calls asked for: elements
\* come out in the order they were inserted.
InsertionOrder ==
  \A c \in Containers :
    LET s == Visited(c) IN seqs[c] = [i \in 1..Len(s) |-> heap[s[i]].v]

=============================================================================
