---------------------------- MODULE MCSequenceHash ----------------------------
(***************************************************************************)
(* Two containers over four keys that share five addresses: freed          *)
(* addresses are used again, and a move replaces a container that is not   *)
(* empty.                                                                  *)
(***************************************************************************)
EXTENDS SequenceHash, TLC

CONSTANTS k1, k2, k3, k4, a1, a2, a3, a4, a5, c1, c2

FourKeys  == {k1, k2, k3, k4}
FiveNodes == {a1, a2, a3, a4, a5}
Two       == {c1, c2}

\* The addresses are alike; a node's key is not, it has its place in seqs.
Symmetry == Permutations(FiveNodes)

RulesFront == AllRules \ {"notBeforeHead"}

=============================================================================
