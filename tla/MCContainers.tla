----------------------------- MODULE MCContainers -----------------------------
(***************************************************************************)
(* The containers: the buffer, the sequence hash, the two-way map and the  *)
(* tree, for any keys, values and nodes.  Each has its own state; `part`   *)
(* says which of them a behaviour uses.                                    *)
(***************************************************************************)
EXTENDS Buffer, FiniteSets

CONSTANTS
  Keys, Containers, Nodes, Null, HashRules,  \* SequenceHash
  LeftKeys, RightValues, RightKeyOf(_),      \* BiMap
  Trees, MaxNodes, NoNode, TreeRules         \* Tree

ASSUME ContainersAssumption ==
  /\ IsFiniteSet(Nodes) /\ Null \notin Nodes /\ IsFiniteSet(LeftKeys)
  /\ MaxNodes \in Nat /\ NoNode \notin 1..MaxNodes

VARIABLES
  part,
  heap, hash, head, tail, fault, seqs,       \* SequenceHash
  store, left, right,                        \* BiMap
  nodes, root, broken, asked                 \* Tree

hashVars == <<heap, hash, head, tail, fault, seqs>>
mapVars  == <<store, left, right>>
treeVars == <<nodes, root, broken, asked>>

containerVars == <<part, vars, hashVars, mapVars, treeVars>>

Hash == INSTANCE SequenceHash WITH Rules <- HashRules

Map == INSTANCE BiMap

Forest == INSTANCE Tree

ContainersInit == Init /\ Hash!Init /\ Map!Init /\ Forest!Init

Buffers == /\ part = "buffer" /\ Next
           /\ UNCHANGED <<hashVars, mapVars, treeVars>>

Hashes == /\ part = "hash" /\ Hash!Next
          /\ UNCHANGED <<vars, mapVars, treeVars>>

Maps == /\ part = "map" /\ Map!Next
        /\ UNCHANGED <<vars, hashVars, treeVars>>

Grows == /\ part = "tree" /\ Forest!Next
         /\ UNCHANGED <<vars, hashVars, mapVars>>

ContainersNext == UNCHANGED part /\ (Buffers \/ Hashes \/ Maps \/ Grows)

ContainersSpec == ContainersInit /\ [][ContainersNext]_containerVars

-----------------------------------------------------------------------------

\* List and hash of a SequenceHash hold the same elements, the list is
\* linked both ways, and no node leaks or dangles.
HashListed ==
  part = "hash" =>
    Hash!TypeOK /\ Hash!AllVisited /\ Hash!Mirrored /\ Hash!NoLeak

\* A traversal shows the keys in the order they were inserted.
InsertionOrder == part = "hash" => Hash!InsertionOrder

\* The two maps of a BiMap are each other's inverse, over what is stored.
BothWays == part = "map" => Map!BothWays

\* A BiMap is a one-to-one map, whatever a value that is set pushes out.
OneToOneSpec == Map!OneToOneSpec

\* The nodes of a tree are its own, and its walks show them in order.
TreesWalk == part = "tree" => Forest!Owned /\ Forest!WalksInOrder

=============================================================================
