----------------------------- MODULE OrderedKeys -----------------------------
(***************************************************************************)
(* What core::SequenceHash promises: containers that are sequences of      *)
(* different keys, changed only where the caller asked for.                *)
(***************************************************************************)
EXTENDS SequencesExt

CONSTANTS Keys, Containers

VARIABLE seqs  \* the keys of each container, first to last

Has(c, k) == k \in Range(seqs[c])

Init == seqs = [c \in Containers |-> <<>>]

\* key k becomes the one at position i of container c.
Place(c, i, k) == ~Has(c, k) /\ seqs' = [seqs EXCEPT ![c] = InsertAt(@, i, k)]

PushBack(c, k) == Place(c, Len(seqs[c]) + 1, k)

PushFront(c, k) == Place(c, 1, k)

PushBefore(c, at, k) ==
  \E i \in 1..Len(seqs[c]) : seqs[c][i] = at /\ Place(c, i, k)

PushAfter(c, at, k) ==
  \E i \in 1..Len(seqs[c]) : seqs[c][i] = at /\ Place(c, i + 1, k)

Drop(c, k) ==
  \E i \in 1..Len(seqs[c]) :
    seqs[c][i] = k /\ seqs' = [seqs EXCEPT ![c] = RemoveAt(@, i)]

Clear(c) == seqs' = [seqs EXCEPT ![c] = <<>>]

Swap(c, d) == seqs' = [seqs EXCEPT ![c] = seqs[d], ![d] = seqs[c]]

Move(c, d) == seqs' = [seqs EXCEPT ![c] = seqs[d], ![d] = <<>>]

=============================================================================
