-------------------------------- MODULE BiMap ---------------------------------
(***************************************************************************)
(* core::UnorderedBiMap: a store of values, pointed to by a map from left  *)
(* keys and by one from right keys, a part of the value.  Whoever sets a   *)
(* value may change one map and push another entry out of the other.       *)
(***************************************************************************)
EXTENDS Integers, FiniteSets, Functions

CONSTANTS
  LeftKeys,
  RightValues,
  RightKeyOf(_)  \* the RightValueKey of the map

VARIABLES
  store,  \* the allocated StoreValues
  left,   \* left_
  right   \* right_

biVars == <<store, left, right>>

Contents == [k \in DOMAIN left |-> store[left[k]].value]

Promised == INSTANCE OneToOne WITH map <- Contents

-----------------------------------------------------------------------------

\* One entry more than there are left keys is alive while a value is set.
Fresh == CHOOSE s \in 1..(Cardinality(LeftKeys) + 1) : s \notin DOMAIN store

WithKey(f, k, x) == [j \in DOMAIN f \cup {k} |-> IF j = k THEN x ELSE f[j]]

WithoutKey(f, k) == Restrict(f, DOMAIN f \ {k})

\* A state of the three, between the private steps of a call.
Now == [store |-> store, left |-> left, right |-> right]

Becomes(m) == store' = m.store /\ left' = m.left /\ right' = m.right

\* Mutant: the old right key keeps pointing to the entry.
UpdateLeftRightValue_Stale(m, k, v) ==
  [m EXCEPT !.store[m.left[k]].value = v]

\* The entry of left key k gets value v, and its old right key is forgotten.
UpdateLeftRightValue(m, k, v) ==
  LET s == m.left[k]
  IN  [m EXCEPT !.right = WithoutKey(@, RightKeyOf(m.store[s].value)),
                !.store[s].value = v]

InsertLeft(m, k, v) ==
  IF k \in DOMAIN m.left THEN UpdateLeftRightValue(m, k, v)
  ELSE [m EXCEPT !.left = WithKey(@, k, Fresh),
                 !.store = WithKey(@, Fresh, [key |-> k, value |-> v])]

\* Mutant: the entry pushed out stays in the left map.
InsertRight_KeepLeft(m, s) ==
  LET r == RightKeyOf(m.store[s].value)
  IN  IF r \notin DOMAIN m.right THEN [m EXCEPT !.right = WithKey(@, r, s)]
      ELSE [m EXCEPT !.right[r] = s]

\* Mutant: the right map goes on pointing to the entry pushed out.
InsertRight_KeepRight(m, s) ==
  LET r   == RightKeyOf(m.store[s].value)
      out == m.right[r]
  IN  IF r \notin DOMAIN m.right THEN [m EXCEPT !.right = WithKey(@, r, s)]
      ELSE [m EXCEPT !.store = WithoutKey(@, out),
                     !.left = WithoutKey(@, m.store[out].key)]

\* Entry s is found by its right key; the one that had the key is deleted.
InsertRight(m, s) ==
  LET r   == RightKeyOf(m.store[s].value)
      out == m.right[r]
  IN  IF r \notin DOMAIN m.right THEN [m EXCEPT !.right = WithKey(@, r, s)]
      ELSE [store |-> WithoutKey(m.store, out),
            left  |-> WithoutKey(m.left, m.store[out].key),
            right |-> [m.right EXCEPT ![r] = s]]

Set(k, v) ==
  LET m == InsertLeft(Now, k, v) IN Becomes(InsertRight(m, m.left[k]))

\* ModifyData, with an iterator of this map that is not its end.
ModifyData(k, v) ==
  /\ k \in DOMAIN left
  /\ Becomes(InsertRight(UpdateLeftRightValue(Now, k, v), left[k]))

\* Erase(key). Of a key that is not there it erases the end, which is
\* undefined: the user erases what is in the map.
Erase(k) ==
  /\ k \in DOMAIN left
  /\ right' = WithoutKey(right, RightKeyOf(store[left[k]].value))
  /\ store' = WithoutKey(store, left[k])
  /\ left' = WithoutKey(left, k)

\* InversedMap::Erase(key).
EraseRight(r) == r \in DOMAIN right /\ Erase(store[right[r]].key)

\* Clear, of the map and of its inverse.
Clear ==
  /\ store' = Restrict(store, DOMAIN store \ Range(left))
  /\ left' = <<>>
  /\ right' = <<>>

Init == store = <<>> /\ left = <<>> /\ right = <<>>

Next ==
  \/ \E k \in LeftKeys, v \in RightValues : Set(k, v) \/ ModifyData(k, v)
  \/ \E k \in LeftKeys : Erase(k)
  \/ \E v \in RightValues : EraseRight(RightKeyOf(v))
  \/ Clear

Spec == Init /\ [][Next]_biVars

-----------------------------------------------------------------------------

\* Who looks through the store sees a one-to-one map: every call does what the
\* promised map does, the entries it pushes out included.
OneToOneSpec == Promised!Spec

\* Type invariant, and the two maps are each other's inverse: every entry is
\* found by its left key and by its right key, nothing else is found, and no
\* deleted entry is pointed to.
BothWays ==
  /\ DOMAIN left \subseteq LeftKeys
  /\ Range(left) = DOMAIN store /\ Range(right) = DOMAIN store
  /\ \A k \in DOMAIN left : store[left[k]].key = k
  /\ \A r \in DOMAIN right : RightKeyOf(store[right[r]].value) = r

=============================================================================
