------------------------------- MODULE XmlTree -------------------------------
(***************************************************************************)
(* The nodes of an XML document as TinyXML keeps them: every TiXmlNode has *)
(* pointers to its parent, its first and last child and its siblings, and  *)
(* every call that changes the tree writes some of them.  A heap is a      *)
(* function from addresses to nodes; the calls are operators from heaps to *)
(* heaps, so that one call can be made of others (InsertEndChild clones a  *)
(* tree and links the clone).                                              *)
(*                                                                         *)
(* Identify also sets the parent of a node it makes, for the sake of error *)
(* reports; here a node has a parent from the moment it is linked.         *)
(***************************************************************************)
EXTENDS Naturals, FiniteSets

CONSTANTS
  Nodes,   \* the addresses of nodes
  Null,    \* no node
  Values,  \* what a node may carry: names, texts
  NoValue  \* of memory that is free, and of the document

ASSUME NullAssumption == Null \notin Nodes
ASSUME NodesAssumption == IsFiniteSet(Nodes)

VARIABLE heap

Pointers == Nodes \cup {Null}
Kinds == {"document", "element", "text", "cdata", "comment", "unknown", "declaration"}
Node ==
  [kind : Kinds \cup {"free"}, value : Values \cup {NoValue}, parent : Pointers,
   firstChild : Pointers, lastChild : Pointers, prev : Pointers, next : Pointers]

(* The constructor of TiXmlNode.                                           *)
NewNode(kind, value) ==
  [kind |-> kind, value |-> value, parent |-> Null,
   firstChild |-> Null, lastChild |-> Null, prev |-> Null, next |-> Null]
Free == NewNode("free", NoValue)

(* Which of the free addresses new gives is the allocator's choice.        *)
FreeNodes(h) == {n \in Nodes : h[n] = Free}
NewAddress(h) == CHOOSE n \in FreeNodes(h) : TRUE
Live(h, n) == n \in Nodes /\ h[n].kind # "free"
Detached(h, n) == Live(h, n) /\ h[n].parent = Null

(* A node and what is below it: the smallest set that has the node and is  *)
(* closed under children.                                                  *)
Closed(h, S) == \A m \in Nodes : h[m].parent \in S => m \in S
Subtree(h, n) ==
  LET around == {S \in SUBSET Nodes : n \in S /\ Closed(h, S)}
  IN {m \in Nodes : \A S \in around : m \in S}

New(h, n, kind, value) == [h EXCEPT ![n] = NewNode(kind, value)]

(* Mutant: the sibling behind keeps its pointer back.                      *)
LinkedForward(h, p, left, right, n) ==
  [m \in Nodes |->
     IF m = n THEN [h[n] EXCEPT !.parent = p, !.prev = left, !.next = right]
     ELSE [h[m] EXCEPT
             !.next = IF m = left THEN n ELSE @,
             !.firstChild = IF m = p /\ left = Null THEN n ELSE @,
             !.lastChild = IF m = p /\ right = Null THEN n ELSE @]]

(* The pointers written when n becomes a child of p between two siblings.  *)
Linked(h, p, left, right, n) ==
  [m \in Nodes |->
     IF m = n THEN [h[n] EXCEPT !.parent = p, !.prev = left, !.next = right]
     ELSE [h[m] EXCEPT
             !.next = IF m = left THEN n ELSE @,
             !.prev = IF m = right THEN n ELSE @,
             !.firstChild = IF m = p /\ left = Null THEN n ELSE @,
             !.lastChild = IF m = p /\ right = Null THEN n ELSE @]]

LinkEndChild(h, p, n) == Linked(h, p, h[p].lastChild, Null, n)

(* TiXmlNode::Clone: a copy of the tree under n, in memory that was free.  *)
Copies(h, n) ==
  LET tree == Subtree(h, n)
      Apart(f) == \A x, y \in tree : f[x] = f[y] => x = y
  IN IF \E f \in [tree -> FreeNodes(h)] : Apart(f)
     THEN {CHOOSE f \in [tree -> FreeNodes(h)] : Apart(f)} ELSE {}
Moved(f, q) == IF q \in DOMAIN f THEN f[q] ELSE Null
Copied(h, n, f) ==
  [m \in Nodes |->
     IF \E x \in DOMAIN f : f[x] = m
     THEN LET x == CHOOSE y \in DOMAIN f : f[y] = m IN
          IF x = n
          THEN [h[n] EXCEPT !.parent = Null, !.prev = Null, !.next = Null,
                            !.firstChild = Moved(f, @), !.lastChild = Moved(f, @)]
          ELSE [h[x] EXCEPT !.parent = Moved(f, @), !.prev = Moved(f, @), !.next = Moved(f, @),
                            !.firstChild = Moved(f, @), !.lastChild = Moved(f, @)]
     ELSE h[m]]

(* A child is taken out of its list.                                       *)
Unlinked(h, n) ==
  [m \in Nodes |->
     IF m = n THEN [h[n] EXCEPT !.parent = Null, !.prev = Null, !.next = Null]
     ELSE [h[m] EXCEPT
             !.prev = IF m = h[n].next THEN h[n].prev ELSE @,
             !.next = IF m = h[n].prev THEN h[n].next ELSE @,
             !.lastChild = IF m = h[n].parent /\ h[n].next = Null THEN h[n].prev ELSE @,
             !.firstChild = IF m = h[n].parent /\ h[n].prev = Null THEN h[n].next ELSE @]]

(* TiXmlNode::~TiXmlNode deletes the children, and theirs.                 *)
Deleted(h, gone) == [m \in Nodes |-> IF m \in gone THEN Free ELSE h[m]]

(* TiXmlNode::Clear                                                        *)
Cleared(h, n) ==
  LET gone == Subtree(h, n) \ {n}
  IN Deleted([h EXCEPT ![n].firstChild = Null, ![n].lastChild = Null], gone)
-----------------------------------------------------------------------------
(* The calls.  The caller owns what it links and does not link a node to   *)
(* something below it.  A document cannot become a child, except that      *)
(* ReplaceChild does not look and puts a copy of it among the children.    *)
Create ==
  /\ FreeNodes(heap) # {}
  /\ \E k \in Kinds, v \in Values : heap' = New(heap, NewAddress(heap), k, v)

delete(n) == Detached(heap, n) /\ heap' = Deleted(heap, Subtree(heap, n))

linkEndChild(p, n) ==
  /\ Live(heap, p) /\ Detached(heap, n)
  /\ heap[n].kind # "document" /\ p \notin Subtree(heap, n)
  /\ heap' = LinkEndChild(heap, p, n)

InsertEndChild(p, n) ==
  /\ Live(heap, p) /\ Live(heap, n) /\ heap[n].kind # "document"
  /\ \E f \in Copies(heap, n) : heap' = LinkEndChild(Copied(heap, n, f), p, f[n])

(* Mutant: the copy goes behind the child, not before it.                  *)
InsertBehindChild(p, before, n) ==
  /\ Live(heap, p) /\ Live(heap, n) /\ heap[n].kind # "document"
  /\ heap[before].parent = p
  /\ \E f \in Copies(heap, n) :
       LET h == Copied(heap, n, f) IN heap' = Linked(h, p, before, h[before].next, f[n])

InsertBeforeChild(p, before, n) ==
  /\ Live(heap, p) /\ Live(heap, n) /\ heap[n].kind # "document"
  /\ heap[before].parent = p
  /\ \E f \in Copies(heap, n) :
       LET h == Copied(heap, n, f) IN heap' = Linked(h, p, h[before].prev, before, f[n])

InsertAfterChild(p, after, n) ==
  /\ Live(heap, p) /\ Live(heap, n) /\ heap[n].kind # "document"
  /\ heap[after].parent = p
  /\ \E f \in Copies(heap, n) :
       LET h == Copied(heap, n, f) IN heap' = Linked(h, p, after, h[after].next, f[n])

(* The clone is made first: the tree may be a part of what it replaces.    *)
ReplaceChild(p, c, n) ==
  /\ Live(heap, p) /\ Live(heap, n)
  /\ heap[c].parent = p
  /\ \E f \in Copies(heap, n) :
       LET h == Copied(heap, n, f)
           left == h[c].prev
           right == h[c].next
       IN heap' = Linked(Deleted(Unlinked(h, c), Subtree(heap, c)), p, left, right, f[n])

RemoveChild(p, c) ==
  /\ Live(heap, p) /\ heap[c].parent = p
  /\ heap' = Deleted(Unlinked(heap, c), Subtree(heap, c))

Clear(p) == Live(heap, p) /\ heap' = Cleared(heap, p)

Edit ==
  \/ \E p, n \in Nodes : linkEndChild(p, n) \/ InsertEndChild(p, n) \/ RemoveChild(p, n)
  \/ \E p, c, n \in Nodes :
       InsertBeforeChild(p, c, n) \/ InsertAfterChild(p, c, n) \/ ReplaceChild(p, c, n)
  \/ \E p \in Nodes : Clear(p)

TreeInit == heap = [n \in Nodes |-> Free]
TreeNext == Create \/ (\E n \in Nodes : delete(n)) \/ Edit
TreeSpec == TreeInit /\ [][TreeNext]_heap
-----------------------------------------------------------------------------
(* The type of the state.                                                  *)
TreeTypeOK == heap \in [Nodes -> Node]

(* The lists of siblings are sound: next and prev are inverse, siblings    *)
(* have one parent, which has the two ends of their list, and nothing      *)
(* points to a node that was deleted or has no parent.                     *)
WellLinked(h) ==
  /\ \A m, n \in Nodes : h[m].next = n <=> h[n].prev = m
  /\ \A m, n \in Nodes : h[m].next = n => h[m].parent = h[n].parent /\ h[n].parent # Null
  /\ \A m, n \in Nodes :
       /\ h[m].firstChild = n <=> h[n].parent = m /\ h[n].prev = Null
       /\ h[m].lastChild = n <=> h[n].parent = m /\ h[n].next = Null
       /\ h[n].parent = m => Live(h, m) /\ Live(h, n)
  /\ \A m \in Nodes : h[m].parent = Null => h[m].prev = Null /\ h[m].next = Null

ListsWellLinked == WellLinked(heap)
=============================================================================
