--------------------------------- MODULE Tree ---------------------------------
(***************************************************************************)
(* core::Tree: nodes that point to their parent, to their first child and  *)
(* to both neighbours in the ring of their siblings, and the two walks     *)
(* over them.  Trees are built by adding single nodes and by grafting      *)
(* whole trees, which are moved from.                                      *)
(***************************************************************************)
EXTENDS Integers, Sequences, FiniteSets, Functions, SequencesExt

CONSTANTS
  Trees,
  MaxNodes,    \* bounds the nodes alive at once
  NoNode,      \* the null pointer
  TreeRules    \* the rules of use the user follows

\* "notOwn":   a tree is not grafted into itself.
\* "overNone": a tree is move-assigned only to one that was moved from.
AllTreeRules == {"notOwn", "overNone"}

VARIABLES
  nodes,   \* the allocated nodes
  root,    \* root_ of each tree
  broken,  \* freed or null memory was used, or a walk has no end
  asked    \* history: each node's children, in the order they were added

treeVars == <<nodes, root, broken, asked>>

Nodes_ == 1..MaxNodes

Alive == DOMAIN nodes

Fresh == CHOOSE n \in Nodes_ : n \notin Alive

\* Tree(): a node that is a ring of its own.
Alone(n) == [child |-> NoNode, next |-> n, prev |-> n, parent |-> NoNode]

-----------------------------------------------------------------------------
\* Walks.

\* The ring from node n on, along next or prev.
Ring(h, n, dir) ==
  LET from[i \in 1..MaxNodes] ==
        IF i = 1 THEN <<n>>
        ELSE LET r == from[i - 1]
                 m == h[Last(r)][dir]
             IN  IF m = n THEN r ELSE Append(r, m)
  IN  from[MaxNodes]

\* PushChild of the two policies: a queue takes the children in order, a
\* stack from the last to the first.
Queued(h, rest, n) == rest \o Ring(h, h[n].child, "next")

Stacked(h, rest, n) == Reverse(Ring(h, h[h[n].child].prev, "prev")) \o rest

PushChild(h, rest, n, policy) ==
  IF policy = "queue" THEN Queued(h, rest, n) ELSE Stacked(h, rest, n)

\* TreeWalker::Walk from node n: takes the first node, shows it and adds its
\* children. A walk over more nodes than there are has no end.
Walk(h, n, policy) ==
  LET step[i \in 0..MaxNodes] ==
        IF i = 0 THEN [todo |-> <<n>>, seen |-> <<>>]
        ELSE LET w == step[i - 1]
                 m == Head(w.todo)
             IN  IF w.todo = <<>> THEN w
                 ELSE [todo |-> IF h[m].child = NoNode THEN Tail(w.todo)
                                ELSE PushChild(h, Tail(w.todo), m, policy),
                       seen |-> Append(w.seen, m)]
  IN  step[MaxNodes]

LevelOrder(h, n) == Walk(h, n, "queue")

PreOrder(h, n) == Walk(h, n, "stack")

-----------------------------------------------------------------------------
\* AddChildNode(m) of node n, in heap h.

\* Mutant: the new node is put in front of the others.
Added_First(h, n, m) ==
  LET head == h[n].child
      last == h[head].prev
  IN  IF head = NoNode
      THEN [h EXCEPT ![m].parent = n, ![n].child = m, ![m].prev = m, ![m].next = m]
      ELSE [h EXCEPT ![m].parent = n, ![n].child = m, ![last].next = m,
                     ![m].prev = last, ![head].prev = m, ![m].next = head]

\* Mutant: the last node's link is left as it is.
Added_OneWay(h, n, m) ==
  LET head == h[n].child
      last == h[head].prev
  IN  IF head = NoNode
      THEN [h EXCEPT ![m].parent = n, ![n].child = m, ![m].prev = m, ![m].next = m]
      ELSE [h EXCEPT ![m].parent = n, ![m].prev = last,
                     ![head].prev = m, ![m].next = head]

Added(h, n, m) ==
  LET head == h[n].child
      last == h[head].prev
  IN  IF head = NoNode
      THEN [h EXCEPT ![m].parent = n, ![n].child = m, ![m].prev = m, ![m].next = m]
      ELSE [h EXCEPT ![m].parent = n, ![last].next = m, ![m].prev = last,
                     ![head].prev = m, ![m].next = head]

\* A node of tree t, whose iterator the user holds.
NodesOf(t) == IF root[t] = NoNode THEN {} ELSE Range(LevelOrder(nodes, root[t]).seen)

-----------------------------------------------------------------------------
\* The calls.

\* AddChild(v).
AddChild(t, n) ==
  /\ ~broken /\ Alive # Nodes_ /\ n \in NodesOf(t)
  /\ nodes' = Added([m \in Alive \cup {Fresh} |->
                       IF m = Fresh THEN Alone(m) ELSE nodes[m]], n, Fresh)
  /\ asked' = [m \in Alive \cup {Fresh} |->
                 IF m = Fresh THEN <<>>
                 ELSE IF m = n THEN Append(asked[n], Fresh) ELSE asked[m]]
  /\ UNCHANGED <<root, broken>>

\* Mutant: the tree that was grafted keeps its root.
Graft_KeepRoot(t, n, s) ==
  /\ ~broken /\ root[s] # NoNode /\ n \in NodesOf(t)
  /\ "notOwn" \in TreeRules => s # t
  /\ nodes' = Added(nodes, n, root[s])
  /\ asked' = [asked EXCEPT ![n] = Append(@, root[s])]
  /\ UNCHANGED <<root, broken>>

\* AddChild(tree). Into itself it makes a ring of parents that nothing owns.
Graft(t, n, s) ==
  /\ ~broken /\ root[s] # NoNode /\ n \in NodesOf(t)
  /\ "notOwn" \in TreeRules => s # t
  /\ nodes' = Added(nodes, n, root[s])
  /\ asked' = [asked EXCEPT ![n] = Append(@, root[s])]
  /\ root' = [root EXCEPT ![s] = NoNode]
  /\ UNCHANGED broken

\* Move construction, and move assignment: what t held is not freed.
Move(t, s) ==
  /\ ~broken /\ s # t
  /\ "overNone" \in TreeRules => root[t] = NoNode
  /\ root' = [root EXCEPT ![t] = root[s], ![s] = NoNode]
  /\ UNCHANGED <<nodes, broken, asked>>

\* FreeNode: what the walk shows is deleted, from the last to the first.
Freed(n) ==
  LET w == LevelOrder(nodes, n)
  IN  /\ broken' = ~(w.todo = <<>> /\ IsInjective(w.seen) /\ Range(w.seen) \subseteq Alive)
      /\ nodes' = Restrict(nodes, Alive \ Range(w.seen))
      /\ asked' = Restrict(asked, Alive \ Range(w.seen))

\* ~Tree, and a new tree in its place.
Remake(t) ==
  /\ ~broken
  /\ IF root[t] # NoNode
     THEN Freed(root[t]) /\ root' = [root EXCEPT ![t] = NoNode]
     ELSE /\ Alive # Nodes_
          /\ nodes' = [m \in Alive \cup {Fresh} |->
                         IF m = Fresh THEN Alone(m) ELSE nodes[m]]
          /\ asked' = [m \in Alive \cup {Fresh} |->
                         IF m = Fresh THEN <<>> ELSE asked[m]]
          /\ root' = [root EXCEPT ![t] = Fresh]
          /\ UNCHANGED broken

Init ==
  /\ nodes = <<>>
  /\ root = [t \in Trees |-> NoNode]
  /\ broken = FALSE
  /\ asked = <<>>

Next ==
  \E t \in Trees :
    \/ \E n \in Alive : AddChild(t, n) \/ \E s \in Trees : Graft(t, n, s)
    \/ \E s \in Trees : Move(t, s)
    \/ Remake(t)

Spec == Init /\ [][Next]_treeVars

-----------------------------------------------------------------------------

\* Type invariant, and every node belongs to one tree: what the walks of the
\* trees meet is all there is, no node twice, and no deleted one.
Owned ==
  /\ \A n \in Alive :
       /\ {nodes[n].next, nodes[n].prev} \subseteq Alive
       /\ {nodes[n].child, nodes[n].parent} \subseteq Alive \cup {NoNode}
  /\ ~broken
  /\ UNION {NodesOf(t) : t \in Trees} = Alive
  /\ \A s, t \in Trees : s # t => NodesOf(s) \cap NodesOf(t) = {}
  /\ \A t \in Trees : root[t] # NoNode => IsInjective(LevelOrder(nodes, root[t]).seen)

\* What was asked for, level by level and branch by branch.
Level(n, d) ==
  LET row[i \in 0..MaxNodes] ==
        IF i = 0 THEN <<n>>
        ELSE FlattenSeq([j \in DOMAIN row[i-1] |-> asked[row[i-1][j]]])
  IN  row[d]

Branch(n) ==
  LET under[d \in 0..MaxNodes] ==
        [m \in Alive |-> IF d = 0 THEN <<>>
                         ELSE <<m>> \o FlattenSeq([j \in DOMAIN asked[m] |->
                                                     under[d-1][asked[m][j]]])]
  IN  under[MaxNodes][n]

\* The level walk shows the nodes by their depth and the pre-order walk each
\* node before its branch, siblings always in the order they were added,
\* whatever was grafted where.
WalksInOrder ==
  \A t \in Trees : root[t] # NoNode =>
    /\ LevelOrder(nodes, root[t]).seen
         = FlattenSeq([d \in 1..MaxNodes |-> Level(root[t], d - 1)])
    /\ PreOrder(nodes, root[t]).seen = Branch(root[t])

=============================================================================
