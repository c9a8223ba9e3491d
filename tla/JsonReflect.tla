----------------------------- MODULE JsonReflect ------------------------------
(***************************************************************************)
(* Reflection to JSON over yyjson: an object is written, sent as text,     *)
(* perhaps edited by a peer, and read into an object that has values       *)
(* already.  Types are descriptors, documents are trees of tagged nodes.   *)
(***************************************************************************)
EXTENDS Integers, Sequences, SequencesExt

CONSTANTS
  Structs,      \* the struct types, each a sequence of field types
  Sample(_),    \* values of a field type
  IntBits,      \* the bits of yyjson_mut_get_int's result (32)
  JsonRules     \* the rules of use the user follows

\* "noEmpty": no list is empty and no pointer null.
\* "narrow":  integers fit the bits of an int.
\* "onceList": an object is read into when its lists are empty.
AllJsonRules == {"noEmpty", "narrow", "onceList"}

VARIABLES
  type,    \* the fields of the object's type
  value,   \* the object that is written
  doc,     \* root_, or what its text says
  state,   \* "new", "written", "sent" or "read"
  target,  \* the object that is read into
  old,     \* history: what it was before
  absent,  \* history: the fields the peer took out or made null
  failed   \* an assertion of the reader failed

jsonVars == <<type, value, doc, state, target, old, absent, failed>>

-----------------------------------------------------------------------------
\* Nodes. A key that is not found gives no value at all.

Node(tag, v) == [tag |-> tag, v |-> v]

Empty == Node("obj", <<>>)  \* NewEmptyValueFrom

NoValue == Node("none", 0)

IsNull(json) == json.tag \in {"none", "null"}

ValueOfKey(json, key) ==
  LET at == {i \in 1..(IF json.tag = "obj" THEN Len(json.v) ELSE 0) : json.v[i].key = key}
  IN  IF at = {} THEN NoValue ELSE json.v[CHOOSE i \in at : \A j \in at : i <= j].val

\* Append makes an array of whatever json was.
AppendTo(json, val) ==
  Node("arr", Append(IF json.tag = "arr" THEN json.v ELSE <<>>, val))

\* (int)uni.i64.
ToInt(n) == ((n + 2^(IntBits - 1)) % 2^IntBits) - 2^(IntBits - 1)

\* The type's value-initialised object.
RECURSIVE New(_)
New(T) == CASE T.is \in {"int", "uint"} -> 0
            [] T.is = "str" -> ""
            [] T.is \in {"list", "ptr"} -> <<>>
            [] T.is = "struct" -> [i \in DOMAIN T.of |-> New(T.of[i])]

-----------------------------------------------------------------------------
\* JsonWriter. ToJson writes v into json.

RECURSIVE ToJson(_, _, _)

\* Mutant: all elements are written into one node.
ListToJson_OneNode(T, v, json) ==
  IF v = <<>> THEN json
  ELSE Node("arr", [i \in DOMAIN v |-> ToJson(T.of, Last(v), Empty)])

\* ArrayMeta::ToJson appends to json, an object until then.
ListToJson(T, v, json) ==
  FoldLeft(LAMBDA j, x : AppendTo(j, ToJson(T.of, x, Empty)), json, v)

\* Each member is written under its name, here its place.
StructToJson(T, v, json) ==
  Node("obj", json.v \o [i \in DOMAIN T.of |->
                           [key |-> i, val |-> ToJson(T.of[i], v[i], Empty)]])

ToJson(T, v, json) ==
  CASE T.is = "int"    -> Node("sint", v)
    [] T.is = "uint"   -> Node("uint", v)
    [] T.is = "str"    -> Node("str", v)
    [] T.is = "ptr"    -> IF v = <<>> THEN json ELSE ToJson(T.of, v[1], json)
    [] T.is = "list"   -> ListToJson(T, v, json)
    [] T.is = "struct" -> StructToJson(T, v, json)

\* ToString, and JsonDocumentReader of the text.
RECURSIVE Parsed(_)
Parsed(json) ==
  CASE json.tag = "sint" /\ json.v >= 0 -> Node("uint", json.v)
    [] json.tag = "arr" -> Node("arr", [i \in DOMAIN json.v |-> Parsed(json.v[i])])
    [] json.tag = "obj" -> Node("obj", [i \in DOMAIN json.v |->
                             [json.v[i] EXCEPT !.val = Parsed(@)]])
    [] OTHER -> json

-----------------------------------------------------------------------------
\* JsonReader. FromJson reads json into v: whether it did, what v becomes, and
\* whether an assertion failed on the way.

Got(ok, v, bad) == [ok |-> ok, v |-> v, bad |-> bad]

RECURSIVE FromJson(_, _, _)

\* GetValue of an integer, and of a string.
GetInt(json, v) ==
  CASE json.tag = "null" -> Got(FALSE, v, FALSE)
    [] json.tag \in {"sint", "uint"} -> Got(TRUE, ToInt(json.v), FALSE)
    [] OTHER -> Got(TRUE, 0, TRUE)

GetUint(json, v) ==
  CASE json.tag = "null" -> Got(FALSE, v, FALSE)
    [] json.tag = "uint" -> Got(TRUE, json.v, FALSE)
    [] OTHER -> Got(TRUE, 0, TRUE)

GetString(json, v) ==
  IF json.tag = "str" THEN Got(TRUE, json.v, FALSE) ELSE Got(FALSE, v, FALSE)

\* A null pointer gets an object before the value is looked at.
GetPointed(T, json, v) ==
  LET was == IF v = <<>> THEN New(T.of) ELSE v[1]
      r   == FromJson(T.of, json, was)
  IN  IF IsNull(json) THEN Got(FALSE, <<was>>, FALSE) ELSE [r EXCEPT !.v = <<@>>]

\* FromJsonArray adds to what the list holds, up to the first failure.
GetList(T, json, v) ==
  LET next(r, x) ==
        LET e == FromJson(T.of, x, New(T.of))
        IN  IF ~r.ok THEN r
            ELSE Got(e.ok, IF e.ok THEN Append(r.v, e.v) ELSE r.v, r.bad \/ e.bad)
  IN  IF json.tag # "arr" THEN Got(TRUE, v, TRUE)
      ELSE FoldLeft(next, Got(TRUE, v, FALSE), json.v)

\* Mutant: a member without a value gets its type's.
Member_Reset(T, json, key, v) ==
  LET x == ValueOfKey(json, key)
  IN  IF IsNull(x) THEN Got(FALSE, New(T), FALSE) ELSE FromJson(T, x, v)

\* FromJson(key, member): a member without a value is left as it is.
Member(T, json, key, v) ==
  LET x == ValueOfKey(json, key)
  IN  IF IsNull(x) THEN Got(FALSE, v, FALSE) ELSE FromJson(T, x, v)

\* A struct is always read, whatever became of its members.
GetStruct(T, json, v) ==
  LET m == [i \in DOMAIN T.of |-> Member(T.of[i], json, i, v[i])]
  IN  Got(TRUE, [i \in DOMAIN m |-> m[i].v], \E i \in DOMAIN m : m[i].bad)

FromJson(T, json, v) ==
  CASE T.is = "int"    -> GetInt(json, v)
    [] T.is = "uint"   -> GetUint(json, v)
    [] T.is = "str"    -> GetString(json, v)
    [] T.is = "ptr"    -> GetPointed(T, json, v)
    [] T.is = "list"   -> GetList(T, json, v)
    [] T.is = "struct" -> GetStruct(T, json, v)

-----------------------------------------------------------------------------

This == [is |-> "struct", of |-> type]

Write ==
  /\ state = "new"
  /\ doc' = ToJson(This, value, Empty)
  /\ state' = "written"
  /\ UNCHANGED <<type, value, target, old, absent, failed>>

Send ==
  /\ state = "written"
  /\ doc' = Parsed(doc)
  /\ state' = "sent"
  /\ UNCHANGED <<type, value, target, old, absent, failed>>

\* The peer leaves a member out, or makes it null.
PeerDrops(i) ==
  /\ state = "sent" /\ i \notin absent
  /\ \/ doc' = [doc EXCEPT !.v = SelectSeq(@, LAMBDA m : m.key # i)]
     \/ doc' = [doc EXCEPT !.v = [j \in DOMAIN @ |->
                  IF @[j].key = i THEN [@[j] EXCEPT !.val = Node("null", 0)] ELSE @[j]]]
  /\ absent' = absent \cup {i}
  /\ UNCHANGED <<type, value, state, target, old, failed>>

\* Into a target that may have been read into before.
Read ==
  /\ state = "sent" \/ (state = "read" /\ "onceList" \notin JsonRules)
  /\ LET r == FromJson(This, doc, target)
     IN  target' = r.v /\ failed' = (failed \/ r.bad)
  /\ state' = "read"
  /\ UNCHANGED <<type, value, doc, old, absent>>

\* Objects of the rules.
RECURSIVE Ruled(_, _)
Ruled(T, v) ==
  CASE T.is = "int" -> "narrow" \in JsonRules => ToInt(v) = v
    [] T.is \in {"list", "ptr"} ->
         /\ "noEmpty" \in JsonRules => v # <<>>
         /\ \A i \in DOMAIN v : Ruled(T.of, v[i])
    [] T.is = "struct" -> \A i \in DOMAIN T.of : Ruled(T.of[i], v[i])
    [] OTHER -> TRUE

\* The target's lists are empty; its other members may have any value.
Init ==
  /\ type \in Structs
  /\ value \in {<<a, b>> : a \in Sample(type[1]), b \in Sample(type[2])}
  /\ Ruled(This, value)
  /\ target \in {<<a, b>> : a \in Sample(type[1]), b \in Sample(type[2])}
  /\ \A i \in DOMAIN type : type[i].is \in {"list", "ptr"} => target[i] = <<>>
  /\ doc = NoValue /\ state = "new" /\ old = target /\ absent = {} /\ failed = FALSE

Next == Write \/ Send \/ (\E i \in DOMAIN type : PeerDrops(i)) \/ Read

Spec == Init /\ [][Next]_jsonVars

-----------------------------------------------------------------------------

\* What is written, sent and read is what it was, member by member, except
\* for those that the text does not have: they keep what the target had, and
\* disturb no other.
ReadsBack ==
  state = "read" =>
    ~failed /\ target = [i \in DOMAIN type |-> IF i \in absent THEN old[i] ELSE value[i]]

=============================================================================
