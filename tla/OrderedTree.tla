----------------------------- MODULE OrderedTree -----------------------------
(***************************************************************************)
(* What a tree of XML nodes is to its users: every node has a sequence of  *)
(* children, a node is a child once at most, and a call changes the        *)
(* children of one node and what no other node carries.  TiXmlNode         *)
(* (XmlTree) implements it with five pointers per node.                    *)
(***************************************************************************)
EXTENDS Naturals, FiniteSets, Sequences, SequencesExt

CONSTANT Nodes

VARIABLES
  live,    \* the nodes that exist
  kids,    \* node -> its children, in order
  carries  \* node -> its kind, name, text and attributes

Init == live \subseteq Nodes /\ kids = [n \in Nodes |-> <<>>]

(* What was there before and after, but for one node, carries the same.    *)
KeptBut(n) == \A m \in (live \cap live') \ {n} : carries'[m] = carries[m]
Kept == \A m \in live \cap live' : carries'[m] = carries[m]

IsRoot(n) == \A p \in Nodes : n \notin ToSet(kids[p])

(* The nodes in the tree under n, n included, level by level.              *)
Under(n) ==
  LET Within[k \in Nat] ==
        IF k = 0 THEN {n}
        ELSE LET S == Within[k - 1] IN S \cup UNION {ToSet(kids[m]) : m \in S}
  IN Within[Cardinality(Nodes)]

(* A copy of the tree under n has a new node for each of its nodes.        *)
Copies(n) ==
  LET new == live' \ live IN
  IF Cardinality(new) # Cardinality(Under(n)) THEN {}
  ELSE {f \in [Under(n) -> new] : \A x, y \in Under(n) : f[x] = f[y] => x = y}
Image(f) == {f[x] : x \in DOMAIN f}
Same(f) == \A x \in DOMAIN f : carries'[f[x]] = carries[x]
Mapped(f, s) == [i \in DOMAIN s |-> f[s[i]]]
CopyOf(f, y) == CHOOSE x \in DOMAIN f : f[x] = y

Create(n) ==
  /\ n \notin live
  /\ live' = live \cup {n}
  /\ Kept
  /\ UNCHANGED kids

Write(n) == KeptBut(n) /\ UNCHANGED <<live, kids>>

Link(p, i, n) ==
  /\ {p, n} \subseteq live /\ IsRoot(n) /\ p \notin Under(n)
  /\ kids' = [kids EXCEPT ![p] = InsertAt(@, i, n)]
  /\ UNCHANGED live

Insert(p, i, n) == Link(p, i, n) /\ Kept

WriteAndInsert(p, i, n) == Link(p, i, n) /\ KeptBut(n)

CreateAndInsert(p, i, n) ==
  /\ p \in live /\ n \notin live
  /\ live' = live \cup {n}
  /\ Kept
  /\ kids' = [kids EXCEPT ![p] = InsertAt(@, i, n)]

InsertCopy(p, i, n) ==
  /\ {p, n} \subseteq live /\ kids'[p] # kids[p]
  /\ Kept
  /\ \E f \in Copies(n) :
       /\ live' = live \cup Image(f)
       /\ Same(f)
       /\ kids' = [m \in Nodes |->
                     IF m = p THEN InsertAt(kids[p], i, f[n])
                     ELSE IF m \in Image(f) THEN Mapped(f, kids[CopyOf(f, m)])
                     ELSE kids[m]]

(* Another tree takes the place of a child, which is deleted.              *)
ReplaceKid(p, i, n) ==
  /\ {p, n} \subseteq live /\ kids'[p] # kids[p]
  /\ Kept
  /\ \E f \in Copies(n) :
       LET gone == Under(kids[p][i]) IN
       /\ live' = (live \cup Image(f)) \ gone
       /\ Same(f)
       /\ kids' = [m \in Nodes |->
                     IF m = p THEN [kids[p] EXCEPT ![i] = f[n]]
                     ELSE IF m \in Image(f) THEN Mapped(f, kids[CopyOf(f, m)])
                     ELSE IF m \in gone THEN <<>>
                     ELSE kids[m]]

RemoveKid(p, i) ==
  LET gone == Under(kids[p][i]) IN
  /\ p \in live
  /\ live' = live \ gone
  /\ Kept
  /\ kids' = [m \in Nodes |-> IF m = p THEN RemoveAt(kids[p], i)
                              ELSE IF m \in gone THEN <<>> ELSE kids[m]]

(* All children of a node are deleted, or a node that is nobody's child.   *)
Clear(p) ==
  LET gone == Under(p) \ {p} IN
  /\ live' = live \ gone
  /\ Kept
  /\ kids' = [m \in Nodes |-> IF m = p \/ m \in gone THEN <<>> ELSE kids[m]]

Delete(n) ==
  /\ n \in live /\ IsRoot(n)
  /\ live' = live \ Under(n)
  /\ Kept
  /\ kids' = [m \in Nodes |-> IF m \in Under(n) THEN <<>> ELSE kids[m]]

Next ==
  \/ \E n \in Nodes : Create(n) \/ Write(n) \/ Delete(n) \/ Clear(n)
  \/ \E p, n \in Nodes : \E i \in 1..Len(kids[p]) + 1 :
       \/ Insert(p, i, n) \/ WriteAndInsert(p, i, n)
       \/ CreateAndInsert(p, i, n) \/ InsertCopy(p, i, n)
  \/ \E p \in Nodes : \E i \in 1..Len(kids[p]) :
       RemoveKid(p, i) \/ \E n \in Nodes : ReplaceKid(p, i, n)

Spec == Init /\ [][Next]_<<live, kids, carries>>
=============================================================================
