-------------------------------- MODULE MCData --------------------------------
(***************************************************************************)
(* What holds data: the buffer, the sequence hash, the two-way map, the    *)
(* tree, and the reflection of structs to JSON and XML.  Each has its own  *)
(* state; `part` says which of them a behaviour uses.                      *)
(*                                                                         *)
(* The buffer is a vector of two elements that six bytes are written to:   *)
(* it is compacted, grows, and grows again after a compaction.             *)
(***************************************************************************)
EXTENDS MCContainers, TLC

CONSTANTS a1, a2, a3, a4, a5

VARIABLES
  type, value, json, state, target, old, absent,  \* JsonReflect
  xml, sent, writes, got,                         \* XmlReflect
  wrong

jsonVars == <<type, value, json, state, target, old, absent>>
xmlVars  == <<xml, sent, writes, got>>

allVars == <<containerVars, jsonVars, xmlVars, wrong>>

\* Two containers over four keys that share five addresses: freed addresses
\* are used again, and a move replaces a container that is not empty. The
\* addresses are alike, and it is enough to exchange four of them; a node's
\* key is not, it has its place in seqs.
FourKeys  == {"k1", "k2", "k3", "k4"}
TwoHashes == {"c", "d"}
FiveNodes == {a1, a2, a3, a4, a5}
Symmetry  == Permutations({a1, a2, a3, a4})

RulesAll == {"notBeforeHead", "notAfterTail"}

\* Three left and three right keys: an entry may push out two others.
ThreeKeys == 1..3
TwoData   == [key : 1..3, data : 1..2]
KeyOf(v)  == v.key

TwoTrees  == {"s", "t"}
BothRules == {"notOwn", "overNone"}

-----------------------------------------------------------------------------
\* Types of the members of a struct, and values of each.

Scalar(is)   == [is |-> is]
ListOf(T)    == [is |-> "list", of |-> T]
PtrTo(T)     == [is |-> "ptr", of |-> T]
PairOf(S, T) == [is |-> "struct", of |-> <<S, T>>]

JInt == Scalar("int")
One  == PairOf(JInt, ListOf(JInt))

Members == {JInt, Scalar("uint"), Scalar("str"), ListOf(JInt), PtrTo(One),
            ListOf(PtrTo(One))}

JsonSample(T) ==
  LET ones == {<<1, <<1>>>>, <<0, <<2, 3>>>>, <<1, <<>>>>}
  IN  CASE T = JInt              -> {-1, 1, 9}
        [] T = Scalar("uint")    -> {0, 9}
        [] T = Scalar("str")     -> {"", "s"}
        [] T = ListOf(JInt)      -> {<<>>, <<1>>, <<2, -1>>}
        [] T = PtrTo(One)        -> {<<>>} \cup {<<x>> : x \in ones}
        [] T = ListOf(PtrTo(One)) -> {<<>>, <<<<>>>>}
                                       \cup {<<<<x>>, <<y>>>> : x, y \in ones}

\* Four bits for the reader's int: 9 does not fit.
Json == INSTANCE JsonReflect WITH
          doc <- json, failed <- wrong, Structs <- Members \X Members,
          Sample <- JsonSample, IntBits <- 4,
          JsonRules <- {"noEmpty", "narrow", "onceList"}

Text == Scalar("text")
Leaf == [is |-> "struct", attrs |-> 1, tags |-> <<Text>>]
Big  == [is |-> "struct", attrs |-> 1, tags |-> <<ListOf(Text), PtrTo(Leaf)>>]

XmlSample(T) ==
  LET blank  == " "
      leaves == {[attrs |-> <<"x">>, tags |-> <<"">>],
                 [attrs |-> <<blank>>, tags |-> <<"y">>]}
  IN  CASE T = Text        -> {"x", "", blank}
        [] T = Big         -> [attrs : {<<"x">>},
                               tags : {<<<<>>, <<>>>>}
                                 \cup {<<<<"x", "y">>, <<l>>>> : l \in leaves}]
        [] T = PtrTo(Leaf) -> {<<>>} \cup {<<l>> : l \in leaves}
        [] T = ListOf(PtrTo(Leaf)) -> {<<>>, <<<<>>>>}
                                 \cup {<<<<l>>, <<m>>>> : l, m \in leaves}

Xml == INSTANCE XmlReflect WITH
         doc <- xml, fault <- wrong,
         Types <- {Text, Big, ListOf(PtrTo(Leaf)), PtrTo(Leaf)},
         Sample <- XmlSample, Names <- {"a", "b"},
         Paths <- {<<>>, <<"a">>, <<"b", "a">>}, MaxWrites <- 2,
         XmlRules <- {"onePath", "noNull", "noBlank"}

-----------------------------------------------------------------------------

MCInit ==
  /\ part \in {"buffer", "hash", "map", "tree", "json", "xml"}
  /\ ContainersInit /\ Json!Init /\ Xml!Init
  /\ part # "json" => type = <<JInt, JInt>> /\ value = <<1, 1>> /\ target = <<1, 1>>

Contains == ContainersNext /\ UNCHANGED <<jsonVars, xmlVars, wrong>>

Jsons == /\ part = "json" /\ Json!Next
         /\ UNCHANGED <<containerVars, xmlVars>>

Xmls == /\ part = "xml" /\ Xml!Next
        /\ UNCHANGED <<containerVars, jsonVars>>

\* A behaviour of the containers, as far as these are concerned.
MCNext == Contains \/ Jsons \/ Xmls

MCSpec == MCInit /\ [][MCNext]_allVars

-----------------------------------------------------------------------------

\* What is written to JSON or XML is read back as it was.
ReadsBack == /\ part = "json" => Json!ReadsBack
             /\ part = "xml" => Xml!XmlReadsBack

=============================================================================
