------------------------------- MODULE MCXml --------------------------------
(* Small documents and each of them with a part missing.                   *)
EXTENDS XmlDocument, TLC

CONSTANTS n1, n2, n3, n4, n5

MCNodes == {document, n1, n2, n3, n4, n5}
MCAlpha == {"a", "b", "version"}
MCValues == {Value(<<"b">>, <<>>)}
MCAttrValues == {<<"\"", " ", "'", "&", "x">>}

Configuration ==
  <<"<", "?xml", " ", "version", "=", "\"", "1", "\"", "?", ">", " ",
    "<", "a", " ", "b", "=", "\"", "&quot;", " ", "x", "\"", ">", " ", "x", " ", " ", "&lt;", "<", "/", "a", ">">>
Nested ==
  <<"<", "a", ">", "<", "b", " ", "a", "=", "x", " ", "b", "=", "\"", "x", "\"", "/", ">", "x", "<", "/", "a", ">">>
Commented == <<"<", "a", ">", "<", "b", "/", ">", "x", "<", "!--", "x", "--", ">", "<", "/", "a", ">">>
CDataAndUnknown == <<"<", "a", ">", "<", "![CDATA[", "<", "]]", ">", "<", "/", "a", ">", "<", "!", "x", ">">>

Entities ==
  <<"<", "a", " ", "a", "=", "'", "\"", "&apos;", "'", " ", "b", "=", "\"", "&amp;", "&", "#97;", "x", "\"", ">",
    "&amp;", "x", " ", "&", "<", "b", "/", ">", "&", "<", "/", "a", ">">>
Reference ==
  <<"<", "a", " ", "b", "=", "\"", "&amp;", "#x61;", "\"", ">", "&", "#x61;", " ", "&", " ", "x", "<", "/", "a", ">">>
Malformations ==
  {<<"<", "a", ">", "x", " ", "&", "#x", "x", "<", "/", "a", ">">>,
   <<"<", "a", " ", "b", "=", "'", "x", "&", "#x", "'", "/", ">">>,
   <<"<", "a", " ", "b", "=", "'", "&amp;", "#x", "&lt;", "&lt;", "'", "/", ">">>}

Damaged(d) == Prefixes(d) \cup {RemoveAt(d, i) : i \in DOMAIN d}
MCInputs ==
  {Configuration, Commented, Entities, Reference} \cup Malformations
    \cup Damaged(Nested) \cup Damaged(CDataAndUnknown)

Abstract == INSTANCE OrderedTree WITH
  live <- {n \in Nodes : Live(heap, n)}, kids <- [n \in Nodes |-> Children(heap, n)],
  carries <- [n \in Nodes |-> <<heap[n].kind, heap[n].value>>]

(* What a call that was asked for a place, a child and a node is to do.    *)
Place(c) == CHOOSE i \in DOMAIN Children(heap, heap[c].parent) : Children(heap, heap[c].parent)[i] = c
Behind(p) == Len(Children(heap, p)) + 1
DoesAsAsked(p, c, n) ==
  CASE called'.call = "new" -> \E m \in Nodes : Abstract!Create(m)
    [] called'.call = "delete" -> Abstract!Delete(n)
    [] called'.call = "Clear" -> Abstract!Clear(p)
    [] called'.call = "LinkEndChild" -> Abstract!Insert(p, Behind(p), n)
    [] called'.call = "InsertEndChild" -> Abstract!InsertCopy(p, Behind(p), n)
    [] called'.call = "InsertBeforeChild" -> Abstract!InsertCopy(p, Place(c), n)
    [] called'.call = "InsertAfterChild" -> Abstract!InsertCopy(p, Place(c) + 1, n)
    [] called'.call = "ReplaceChild" -> Abstract!ReplaceKid(p, Place(c), n)
    [] called'.call = "RemoveChild" -> Abstract!RemoveKid(p, Place(c))

(* What a turn of the parser does: it clears the document, makes a node,   *)
(* at the end of the children of the innermost element or of nobody yet,   *)
(* puts the innermost element at the end of its parent's children, or      *)
(* reads an attribute of it.                                               *)
ParsesInOrder ==
  LET e == Last(open)
      p == IF Len(open) = 1 THEN document ELSE open[Len(open) - 1]
  IN \/ Abstract!Clear(document)
     \/ \E n \in Nodes : Abstract!Create(n) \/ Abstract!CreateAndInsert(Innermost, Behind(Innermost), n)
     \/ open # <<>> /\ (Abstract!Write(e) \/ Abstract!WriteAndInsert(p, Behind(p), e))

(* The pointers that TiXmlNode keeps are an ordered tree, and every call   *)
(* changes it as its user expects: LinkEndChild adds the node it was given *)
(* and the Insert calls a copy of it, with what its nodes carry, at the    *)
(* place asked for, ReplaceChild puts a copy in the place of the child,    *)
(* what is removed takes nothing else with it, and parsing adds what it    *)
(* reads at the end.                                                       *)
AsAsked ==
  IF edits' # edits THEN DoesAsAsked(called'.on, called'.child, called'.node)
  ELSE IF sets' # sets THEN \E e \in Nodes : Abstract!Write(e)
  ELSE ParsesInOrder
ImplementsOrderedTree == Abstract!Spec /\ [][AsAsked]_heap
=============================================================================
