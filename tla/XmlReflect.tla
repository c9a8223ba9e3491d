------------------------------ MODULE XmlReflect ------------------------------
(***************************************************************************)
(* Reflection to XML over pugixml: objects are written into a document     *)
(* under paths of tags, the document is sent as text, and they are read    *)
(* from where they were written.                                           *)
(***************************************************************************)
EXTENDS Integers, Sequences, SequencesExt

CONSTANTS
  Types,      \* types of what is written
  Sample(_),  \* values of a type
  Names,      \* of tags
  Paths,      \* sequences of names
  MaxWrites,
  XmlRules    \* the rules of use the user follows

\* "onePath": a tag of the document is opened by one Write with a path, or
\*            only by Writes without.
\* "noNull":  a null pointer is only written as a member.
\* "noBlank": no text between tags is blank: the parser drops it.
AllXmlRules == {"onePath", "noNull", "noBlank"}

Blank == " "

VARIABLES
  doc,     \* the document
  sent,    \* it went through text
  writes,  \* history: what was written, and where
  got,     \* what was read last, and of which write
  fault    \* a null pointer was dereferenced

xmlVars == <<doc, sent, writes, got, fault>>

-----------------------------------------------------------------------------
\* Nodes. Attributes and children have names; a node that is not found has
\* no value, no attributes and no children.

NewNode == [there |-> TRUE, attrs |-> <<>>, kids |-> <<>>, text |-> ""]

NotFound == [NewNode EXCEPT !.there = FALSE]

HasValue(node) == node.there

\* ForEachChilds.
Childs(node, tag) ==
  LET them == SelectSeq(node.kids, LAMBDA k : k.tag = tag)
  IN  [i \in DOMAIN them |-> them[i].node]

FindChild(node, tag) ==
  IF Childs(node, tag) = <<>> THEN NotFound ELSE Head(Childs(node, tag))

\* CreateChild, of a child that becomes `child`.
WithChild(node, tag, child) ==
  [node EXCEPT !.kids = Append(@, [tag |-> tag, node |-> child])]

GetAttribute(node, name, v) ==
  LET them == SelectSeq(node.attrs, LAMBDA a : a.name = name)
  IN  IF them = <<>> THEN v ELSE Head(them).text

-----------------------------------------------------------------------------
\* XmlMeta. A member's name is its place.

RECURSIVE New(_), Write(_, _, _), Read(_, _, _)

New(T) == CASE T.is = "text" -> ""
            [] T.is \in {"list", "ptr"} -> <<>>
            [] T.is = "struct" -> [attrs |-> [i \in 1..T.attrs |-> ""],
                                   tags  |-> [i \in DOMAIN T.tags |-> New(T.tags[i])]]

\* Elements of a list, each in a child of its own.
WriteList(T, node, name, vs) ==
  FoldLeft(LAMBDA n, v : WithChild(n, name, Write(T, NewNode, v)), node, vs)

\* Mutant: a null pointer is written as an empty tag.
WriteTag_Always(T, node, name, v) ==
  CASE T.is = "list" -> WriteList(T.of, node, name, v)
    [] T.is = "ptr" /\ v = <<>> -> WithChild(node, name, NewNode)
    [] OTHER -> WithChild(node, name, Write(T, NewNode, v))

\* WriteTagImpl: nothing for an empty list or a null pointer.
WriteTag(T, node, name, v) ==
  CASE T.is = "list" -> WriteList(T.of, node, name, v)
    [] T.is = "ptr" /\ v = <<>> -> node
    [] OTHER -> WithChild(node, name, Write(T, NewNode, v))

WriteStruct(T, node, v) ==
  LET n == [node EXCEPT !.attrs = @ \o [i \in 1..T.attrs |->
                                          [name |-> i, text |-> v.attrs[i]]]]
  IN  FoldLeft(LAMBDA m, i : WriteTag(T.tags[i], m, i, v.tags[i]),
               n, [i \in DOMAIN T.tags |-> i])

Write(T, node, v) ==
  CASE T.is = "text"   -> [node EXCEPT !.text = v]
    [] T.is = "ptr"    -> Write(T.of, node, v[1])
    [] T.is = "struct" -> WriteStruct(T, node, v)

ReadList(T, node, name, vs) ==
  LET cs == Childs(node, name)
  IN  vs \o [i \in DOMAIN cs |-> Read(T, cs[i], New(T))]

\* ReadTagImpl: a member without a tag is left as it is.
ReadTag(T, node, name, v) ==
  CASE T.is = "list" -> ReadList(T.of, node, name, v)
    [] T.is # "list" /\ HasValue(FindChild(node, name)) -> Read(T, FindChild(node, name), v)
    [] OTHER -> v

ReadStruct(T, node, v) ==
  [attrs |-> [i \in 1..T.attrs |-> GetAttribute(node, i, v.attrs[i])],
   tags  |-> [i \in DOMAIN T.tags |-> ReadTag(T.tags[i], node, i, v.tags[i])]]

Read(T, node, v) ==
  CASE T.is = "text"   -> IF HasValue(node) THEN node.text ELSE v
    [] T.is = "ptr"    -> <<Read(T.of, node, IF v = <<>> THEN New(T.of) ELSE v[1])>>
    [] T.is = "struct" -> ReadStruct(T, node, v)

-----------------------------------------------------------------------------
\* XmlWriter and XmlReader. A Write makes all of its path anew.

RECURSIVE WriteAt(_, _, _, _, _)
WriteAt(T, node, path, name, v) ==
  CASE path # <<>> -> WithChild(node, Head(path), WriteAt(T, NewNode, Tail(path), name, v))
    [] path = <<>> /\ T.is = "list" -> WriteList(T.of, node, name, v)
    [] OTHER -> WithChild(node, name, Write(T, NewNode, v))

FindPath(node, path) == FoldLeft(FindChild, node, path)

\* Read of a list, of the index-th of the nodes, or of the first.
ReadAt(T, node, path, name, index) ==
  LET at == FindPath(node, path)
      cs == Childs(at, name)
  IN  CASE T.is = "list" -> ReadList(T.of, at, name, New(T))
        [] T.is # "list" /\ index = 0 -> Read(T, FindChild(at, name), New(T))
        [] OTHER -> IF index \in DOMAIN cs THEN Read(T, cs[index], New(T)) ELSE New(T)

\* What the text of a node says.
RECURSIVE Parsed(_)
Parsed(node) ==
  [node EXCEPT !.text = IF @ = Blank THEN "" ELSE @,
               !.kids = [i \in DOMAIN @ |-> [@[i] EXCEPT !.node = Parsed(@)]]]

-----------------------------------------------------------------------------

\* XmlMeta<std::shared_ptr>::Write is reached with a null pointer.
NullWritten(T, v) ==
  \/ T.is = "ptr" /\ v = <<>>
  \/ T.is = "list" /\ T.of.is = "ptr" /\ \E i \in DOMAIN v : v[i] = <<>>

RECURSIVE HasBlank(_, _)
HasBlank(T, v) ==
  CASE T.is = "text"   -> v = Blank
    [] T.is \in {"list", "ptr"} -> \E i \in DOMAIN v : HasBlank(T.of, v[i])
    [] T.is = "struct" -> \E i \in DOMAIN T.tags : HasBlank(T.tags[i], v.tags[i])

First(path, name) == Head(Append(path, name))

\* XmlWriter::Write.
WriteValue(T, path, name, v) ==
  /\ ~sent /\ ~fault /\ Len(writes) < MaxWrites
  /\ "noNull" \in XmlRules => ~NullWritten(T, v)
  /\ "noBlank" \in XmlRules => ~HasBlank(T, v)
  /\ "onePath" \in XmlRules =>
       \A i \in DOMAIN writes :
         First(path, name) = First(writes[i].path, writes[i].name) =>
           path = <<>> /\ writes[i].path = <<>> /\ writes[i].type = T
  /\ IF NullWritten(T, v) THEN fault' = TRUE /\ UNCHANGED doc
     ELSE doc' = WriteAt(T, doc, path, name, v) /\ UNCHANGED fault
  /\ writes' = Append(writes, [type |-> T, path |-> path, name |-> name, v |-> v])
  /\ UNCHANGED <<sent, got>>

Send ==
  /\ ~sent /\ ~fault
  /\ doc' = Parsed(doc)
  /\ sent' = TRUE
  /\ UNCHANGED <<writes, got, fault>>

\* The i-th write is read: a list whole, another one by its index, or as the
\* first.
ReadValue(i) ==
  /\ sent
  /\ LET w     == writes[i]
         same  == SelectSeq(SubSeq(writes, 1, i),
                            LAMBDA x : x.path = w.path /\ x.name = w.name)
         index == IF w.type.is = "list" \/ Len(same) = 1 THEN {0, Len(same)} ELSE {Len(same)}
     IN  \E k \in index :
           got' = [of |-> i, v |-> ReadAt(w.type, doc, w.path, w.name, k)]
  /\ UNCHANGED <<doc, sent, writes, fault>>

Init ==
  /\ doc = NewNode /\ sent = FALSE /\ writes = <<>>
  /\ got = [of |-> 0] /\ fault = FALSE

Next ==
  \/ \E T \in Types, path \in Paths, name \in Names :
       \E v \in Sample(T) : WriteValue(T, path, name, v)
  \/ Send
  \/ \E i \in DOMAIN writes : ReadValue(i)

Spec == Init /\ [][Next]_xmlVars

-----------------------------------------------------------------------------

\* What was written under a name: for lists, all that was.
Expected(w) ==
  IF w.type.is # "list" THEN w.v
  ELSE FlattenSeq([i \in DOMAIN writes |->
                     IF writes[i].path = w.path /\ writes[i].name = w.name
                     THEN writes[i].v ELSE <<>>])

\* Whatever was written into a document, where and in which order, is read
\* from where it was written as it was, null members and empty lists too.
XmlReadsBack == got.of # 0 => got.v = Expected(writes[got.of])

=============================================================================
