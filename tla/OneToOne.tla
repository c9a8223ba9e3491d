------------------------------- MODULE OneToOne -------------------------------
(***************************************************************************)
(* What a map in two directions promises: a map from left keys to values   *)
(* in which no two values have the same right key.  A value that is set    *)
(* takes the place of the one that had its right key.                      *)
(***************************************************************************)
EXTENDS Functions

CONSTANTS LeftKeys, RightValues, RightKeyOf(_)

VARIABLE map

\* What is neither k's nor in the way of v stays.
Set(k, v) ==
  LET kept == {j \in DOMAIN map \ {k} : RightKeyOf(map[j]) # RightKeyOf(v)}
  IN  map' = [j \in kept \cup {k} |-> IF j = k THEN v ELSE map[j]]

Erase(k) == map' = Restrict(map, DOMAIN map \ {k})

Clear == map' = <<>>

Init == map = <<>>

Next == \/ \E k \in LeftKeys : Erase(k) \/ \E v \in RightValues : Set(k, v)
        \/ Clear

Spec == Init /\ [][Next]_map

=============================================================================
