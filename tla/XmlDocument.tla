----------------------------- MODULE XmlDocument -----------------------------
(***************************************************************************)
(* TiXmlDocument, which holds the configuration: LoadFile parses a text    *)
(* into a tree of nodes (XmlTree), calls change the tree, SaveFile prints  *)
(* it to a text that is parsed again - CUniteDataModule::GetConfigXml      *)
(* hands the configuration to the modules in this way.                     *)
(*                                                                         *)
(* A text is a sequence of characters; runs that the parser tells apart    *)
(* only as a whole ("--", "?xml", "&lt;") are one character here, letters  *)
(* are few, and every space is " ".  The functions that parse call one     *)
(* another once per level of the tree: here `open` is the stack of the     *)
(* elements being parsed and every turn of a loop is a step.               *)
(***************************************************************************)
EXTENDS XmlTree, Sequences, SequencesExt

CONSTANTS
  Alpha,      \* letters
  Inputs,     \* the texts to load
  document,   \* the address of the TiXmlDocument
  AttrValues, \* values that SetAttribute is called with
  MaxEdits    \* bound: calls that change the document after it was loaded

VARIABLES
  text,    \* the text being parsed
  at,      \* the next character, 0 for NULL
  open,    \* the elements being parsed, outermost first
  mode,    \* which loop the parser is in
  error,   \* errorId, or "none"
  edits,   \* calls so far that change the tree
  sets,    \* calls so far that change an attribute
  called,  \* the last call that changed the tree, or NoCall
  saved    \* what was saved, or NoValue

calls == <<edits, sets>>
vars == <<heap, text, at, open, mode, error, calls, called, saved>>
parser == <<heap, at, open, mode, error>>

Space == " "
NameChars == Alpha \cup {"--"}
Quotes == {"\"", "'"}
Encoding ==
  [amp |-> <<"&", "&amp;">>, lt |-> <<"<", "&lt;">>, gt |-> <<">", "&gt;">>,
   quot |-> <<"\"", "&quot;">>, apos |-> <<"'", "&apos;">>]

(* What follows the '&' of a reference to the letter "a" by its number,    *)
(* and of one that has no ';' or a wrong digit before it.                  *)
Hexadecimal == "#x61;"
Decimal == "#97;"
Malformed == "#x"
-----------------------------------------------------------------------------
(* Reading.  Position 0 is NULL, one behind the last character is the      *)
(* deadline, where the terminating zero is.                                *)
End == Len(text) + 1
At(q) == IF q \in 1..Len(text) THEN text[q] ELSE "NUL"
Slice(q, r) == SubSeq(text, q, r - 1)
Looks(q, tag) == q + Len(tag) <= End /\ Slice(q, q + Len(tag)) = tag

(* The first position from q on with a character of the set, or the end.   *)
Find(q, chars) ==
  CHOOSE r \in q..End :
    (r = End \/ text[r] \in chars) /\ \A i \in q..(r - 1) : text[i] \notin chars
FindTag(q, tag) ==
  CHOOSE r \in q..End :
    (r = End \/ Looks(r, tag)) /\ \A i \in q..(r - 1) : ~Looks(i, tag)

SkipWhiteSpace(q) ==
  IF q = 0 \/ q >= End THEN 0
  ELSE CHOOSE r \in q..End : At(r) # Space /\ \A i \in q..(r - 1) : text[i] = Space

NameEnd(q) == CHOOSE r \in q..End : At(r) \notin NameChars /\ \A i \in q..(r - 1) : text[i] \in NameChars
ReadName(q) == IF At(q) \in Alpha THEN NameEnd(q) ELSE 0


(* EncodeString: what follows "&#x" in a value is taken for a reference    *)
(* and printed as it is, up to a ';' or to the last character of the value.*)
Encode(c) == IF \E e \in DOMAIN Encoding : Encoding[e][1] = c
             THEN Encoding[CHOOSE e \in DOMAIN Encoding : Encoding[e][1] = c][2] ELSE c
Refers(s, i, references) == s[i] = "&" /\ i < Len(s) /\ s[i + 1] \in references
PassedThrough(s, i) ==
  /\ i < Len(s)
  /\ \E j \in 1..i : /\ Refers(s, j, {Hexadecimal, Malformed})
                    /\ \A k \in (j + 1)..(i - 1) : s[k] \notin {Hexadecimal, Decimal}
EncodeString(s) == [i \in DOMAIN s |-> IF PassedThrough(s, i) THEN s[i] ELSE Encode(s[i])]

(* GetEntity: a '&' that starts no entity is dropped.  At one that starts  *)
(* a malformed reference it returns NULL (Stops), and reading ends there.  *)
Entity(c) == IF \E e \in DOMAIN Encoding : Encoding[e][2] = c
             THEN Encoding[CHOOSE e \in DOMAIN Encoding : Encoding[e][2] = c][1] ELSE c
GetChar(s, i) ==
  IF Refers(s, i, {Hexadecimal, Decimal}) THEN <<"a">>
  ELSE IF s[i] = "&" \/ (i > 1 /\ Refers(s, i - 1, {Hexadecimal, Decimal})) THEN <<>>
  ELSE <<Entity(s[i])>>
Stops(q, end) == \E i \in q..(end - 1) : Refers(text, i, {Malformed})
Stop(q, end) ==
  CHOOSE i \in q..(end - 1) :
    /\ Refers(text, i, {Malformed})
    /\ \A j \in q..(i - 1) : ~Refers(text, j, {Malformed})
Each(Op(_), s) == [i \in DOMAIN s |-> Op(s[i])]
Decoded(s) == FlattenSeq([i \in DOMAIN s |-> GetChar(s, i)])

(* ReadText with white space condensed: none at the start, one space for   *)
(* a run of them before the next character.                                *)
Condensed(s) ==
  LET Kept(i) == \/ s[i] # Space
                 \/ i < Len(s) /\ s[i + 1] # Space /\ \E j \in 1..(i - 1) : s[j] # Space
      kept == SelectSeq([i \in DOMAIN s |-> i], Kept)
  IN Decoded([k \in DOMAIN kept |-> s[kept[k]]])
-----------------------------------------------------------------------------
(* Nodes without children: where the parser goes on (0: an error), the     *)
(* value and the error.                                                    *)
Value(name, attrs) == [name |-> name, attrs |-> attrs]
Attr(name, value) == [name |-> name, text |-> value]
Read(q, v, e) == [next |-> q, value |-> v, error |-> e]
Nothing == Value(<<>>, <<>>)
NoAttr == Attr(<<>>, <<>>)

(* TiXmlAttribute::Parse from a name on.  A value whose closing quote is   *)
(* missing ends behind the terminating zero.  One without quotes is not    *)
(* decoded; the texts here have no '&' in such a value.                    *)
Attribute(q) ==
  LET named == ReadName(q)
      equals == SkipWhiteSpace(named)
      start == SkipWhiteSpace(equals + 1)
      name == Slice(q, named)
      quoted == Find(start + 1, {At(start)})
      bare == Find(start, {Space, "/", ">"} \cup Quotes)
  IN IF named = 0 \/ named = End \/ equals = 0 \/ At(equals) # "=" \/ start = 0 \/ start = End
     THEN Read(0, NoAttr, "READING_ATTRIBUTES")
     ELSE IF At(start) \in Quotes /\ Stops(start + 1, quoted)
     THEN Read(0, NoAttr, "PARSING_ELEMENT")
     ELSE IF At(start) \in Quotes
     THEN Read(quoted + 1, Attr(name, Decoded(Slice(start + 1, quoted))), "none")
     ELSE IF At(bare) \in Quotes THEN Read(0, NoAttr, "READING_ATTRIBUTES")
     ELSE Read(bare, Attr(name, Slice(start, bare)), "none")

(* TiXmlComment::Parse: an end that is missing is looked for behind the    *)
(* terminating zero.                                                       *)
Comment(q) ==
  LET end == FindTag(q + 2, <<"--", ">">>)
  IN Read(end + 2, Value(Slice(q + 2, end), <<>>), "none")

(* TiXmlText::Parse of a CDATA section.                                    *)
CData(q) ==
  LET end == FindTag(q + 2, <<"]]", ">">>)
  IN IF end = End THEN Read(0, Nothing, "PARSING_CDATA")
     ELSE Read(end + 2, Value(Slice(q + 2, end), <<>>), "none")

(* TiXmlText::Parse of anything else, up to the next '<', or to where a    *)
(* malformed reference ends the parsing; what was read so far is kept.     *)
Text(q) ==
  LET end == Find(q, {"<"})
      Upto(last) == Value(Condensed(Slice(q, last)), <<>>)
  IN IF Stops(q, end) THEN Read(0, Upto(Stop(q, end) + 1), "READING_ELEMENT_VALUE")
     ELSE Read(end, Upto(end), "none")

(* TiXmlUnknown::Parse                                                     *)
Unknown(q) ==
  LET end == Find(q + 1, {">"})
  IN Read(IF end = End THEN End ELSE end + 1, Value(Slice(q + 1, end), <<>>), "none")

(* TiXmlDeclaration::Parse: it knows three attributes, of which "version"  *)
(* stands for all, and reads over everything else.                         *)
RECURSIVE DeclarationFrom(_, _)
DeclarationFrom(q, v) ==
  LET r == SkipWhiteSpace(q)
      a == Attribute(r)
  IN IF q = 0 \/ q >= End THEN Read(0, Nothing, "PARSING_DECLARATION")
     ELSE IF At(q) = ">" THEN Read(q + 1, Value(v, <<>>), "none")
     ELSE IF At(r) = "version" THEN DeclarationFrom(a.next, a.value.text)
     ELSE DeclarationFrom(Find(r, {">", Space}), v)
Declaration(q) == DeclarationFrom(q + 2, <<>>)

Blank(value) == Range(value) \subseteq {Space}

(* What starts at a '<'.                                                   *)
Identify(q) ==
  CASE At(q + 1) = "?xml" -> "declaration"
    [] At(q + 1) = "!--" -> "comment"
    [] At(q + 1) = "![CDATA[" -> "cdata"
    [] At(q + 1) \in Alpha -> "element"
    [] OTHER -> "unknown"

Parsed(kind, q) ==
  CASE kind = "declaration" -> Declaration(q)
    [] kind = "comment" -> Comment(q)
    [] kind = "cdata" -> CData(q)
    [] kind = "unknown" -> Unknown(q)
    [] kind = "text" -> Text(q)
-----------------------------------------------------------------------------
(* The tree.                                                               *)
RECURSIVE Siblings(_, _)
Siblings(h, n) == IF n = Null THEN <<>> ELSE <<n>> \o Siblings(h, h[n].next)
Children(h, n) == Siblings(h, h[n].firstChild)
Name(n) == heap[n].value.name

RECURSIVE Tree(_, _)
Tree(h, n) ==
  [kind |-> h[n].kind, value |-> h[n].value,
   kids |-> [i \in DOMAIN Children(h, n) |-> Tree(h, Children(h, n)[i])]]

(* TiXmlAttributeSet: in the order they came, one for a name.              *)
AttributeFind(attrs, name) == SelectInSeq(attrs, LAMBDA a : a.name = name)
AttributeSet(attrs, a) ==
  LET i == AttributeFind(attrs, a.name)
  IN IF i = 0 THEN Append(attrs, a) ELSE [attrs EXCEPT ![i] = a]
AttributeRemove(attrs, name) ==
  LET i == AttributeFind(attrs, name) IN IF i = 0 THEN attrs ELSE RemoveAt(attrs, i)

(* TiXmlElement::Attribute: an attribute that is missing reads as "".      *)
AttributeOf(h, n, name) ==
  LET i == AttributeFind(h[n].value.attrs, name)
  IN IF i = 0 THEN <<>> ELSE h[n].value.attrs[i].text

(* Looking up: along one of the pointers to the first node that is one of  *)
(* those looked for, by its value or its kind.                             *)
Elements(h) == {n \in Nodes : h[n].kind = "element"}
Called(h, name) == {n \in Nodes : Live(h, n) /\ h[n].value # NoValue /\ h[n].value.name = name}

RECURSIVE Seek(_, _, _, _)
Seek(h, n, step, match) ==
  IF n = Null \/ n \in match THEN n ELSE Seek(h, h[n][step], step, match)

FirstChild(h, p, match) == Seek(h, h[p].firstChild, "next", match)
LastChild(h, p, match) == Seek(h, h[p].lastChild, "prev", match)
NextSibling(h, n, match) == Seek(h, h[n].next, "next", match)
PreviousSibling(h, n, match) == Seek(h, h[n].prev, "prev", match)
FirstChildElement(h, p, match) == FirstChild(h, p, match \cap Elements(h))
Documents(h) == {n \in Nodes : h[n].kind = "document"}
GetDocument(h, n) == Seek(h, n, "parent", Documents(h))

IterateChildren(h, p, previous, match) ==
  IF previous = Null THEN FirstChild(h, p, match) ELSE NextSibling(h, previous, match)

(* What a loop over IterateChildren visits after a node, and a loop from   *)
(* the last child back.                                                    *)
RECURSIVE Iterated(_, _, _, _), Backwards(_, _, _)
Iterated(h, p, previous, match) ==
  LET n == IterateChildren(h, p, previous, match)
  IN IF n = Null THEN <<>> ELSE <<n>> \o Iterated(h, p, n, match)
Backwards(h, n, match) ==
  IF n = Null THEN <<>> ELSE Append(Backwards(h, PreviousSibling(h, n, match), match), n)
-----------------------------------------------------------------------------
(* Printing: every space and line break is one Space, an indentation of    *)
(* any depth as well.                                                      *)
PrintAttribute(a) ==
  LET quote == IF "\"" \in Range(a.text) THEN "'" ELSE "\""
  IN <<Space>> \o a.name \o <<"=", quote>> \o EncodeString(a.text) \o <<quote>>
Indent(depth) == IF depth = 0 THEN <<>> ELSE <<Space>>

PrintDeclaration(version) ==
  <<"<", "?xml", Space>>
    \o (IF version = <<>> THEN <<>> ELSE <<"version", "=", "\"">> \o version \o <<"\"", Space>>)
    \o <<"?", ">">>
PrintComment(value, depth) == Indent(depth) \o <<"<", "!--">> \o value \o <<"--", ">">>
PrintUnknown(value, depth) == Indent(depth) \o <<"<">> \o value \o <<">">>
PrintText(kind, value) ==
  IF kind = "cdata" THEN <<Space, "<", "![CDATA[">> \o value \o <<"]]", ">", Space>>
  ELSE EncodeString(value)

(* An element: empty, with a text alone, or with its children one a line.  *)
IsText(h, n) == h[n].kind \in {"text", "cdata"}

RECURSIVE PrintNode(_, _, _)
PrintDocument(h, n, depth) ==
  FlattenSeq(Each(LAMBDA c : Append(PrintNode(h, c, depth), Space), Children(h, n)))

PrintElement(h, n, depth) ==
  LET v == h[n].value
      kids == Children(h, n)
      Line(c) == (IF IsText(h, c) THEN <<>> ELSE <<Space>>) \o PrintNode(h, c, depth + 1)
      end == <<"<", "/">> \o v.name \o <<">">>
  IN Indent(depth) \o <<"<">> \o v.name \o FlattenSeq(Each(PrintAttribute, v.attrs)) \o
       (IF kids = <<>> THEN <<Space, "/", ">">>
        ELSE IF Len(kids) = 1 /\ IsText(h, kids[1])
        THEN <<">">> \o PrintNode(h, kids[1], depth + 1) \o end
        ELSE <<">">> \o FlattenSeq(Each(Line, kids)) \o <<Space>> \o end)

PrintNode(h, n, depth) ==
  LET v == h[n].value.name IN
  CASE h[n].kind = "declaration" -> PrintDeclaration(v)
    [] h[n].kind = "comment" -> PrintComment(v, depth)
    [] h[n].kind = "unknown" -> PrintUnknown(v, depth)
    [] h[n].kind = "element" -> PrintElement(h, n, depth)
    [] IsText(h, n) -> PrintText(h[n].kind, v)
    [] h[n].kind = "document" -> PrintDocument(h, n, depth)
-----------------------------------------------------------------------------
(* Parsing, one turn of a loop at a time.                                  *)
Innermost == IF open = <<>> THEN document ELSE Last(open)

(* TiXmlDocument::SetError: the first error is the one that is kept.       *)
First(e) == IF error = "none" THEN e ELSE error
Fail(e) == mode' = "unwind" /\ error' = First(e)

LoadText(t) ==
  /\ text' = t /\ open' = <<>> /\ heap' = Cleared(heap, document)
  /\ IF t = <<>>
     THEN mode' = "loaded" /\ error' = First("DOCUMENT_EMPTY") /\ at' = 0
     ELSE mode' = "document" /\ error' = "none"
          /\ at' = CHOOSE r \in 1..(Len(t) + 1) :
                     /\ \A i \in 1..(r - 1) : t[i] = Space
                     /\ r <= Len(t) => t[r] # Space

LoadFile ==
  /\ mode = "new"
  /\ \/ \E t \in Inputs : LoadText(t)
     \/ mode' = "loaded" /\ error' = First("OPENING_FILE") /\ UNCHANGED <<heap, text, at, open>>
  /\ UNCHANGED <<calls, called, saved>>

(* The innermost element is done: its parent links it and goes on at q.    *)
EndElement(h, q) ==
  LET rest == Front(open) IN
  /\ heap' = LinkEndChild(h, IF rest = <<>> THEN document ELSE Last(rest), Last(open))
  /\ open' = rest
  /\ mode' = IF rest = <<>> THEN "document" ELSE "value"
  /\ at' = SkipWhiteSpace(q)
  /\ UNCHANGED error

(* What stands at a '<': the start of an element, or a node that is parsed *)
(* and linked.  The document does not link what it could not parse.        *)
StartElement ==
  /\ At(at) = "<" /\ Identify(at) = "element"
  /\ LET q == ReadName(at + 1)
         n == NewAddress(heap)
     IN /\ heap' = New(heap, n, "element", Value(Slice(at + 1, q), <<>>))
        /\ open' = Append(open, n)
        /\ at' = q
        /\ IF q = End THEN Fail("FAILED_TO_READ_ELEMENT_NAME")
           ELSE mode' = "attributes" /\ UNCHANGED error

ParseLeaf(kind) ==
  LET r == Parsed(kind, at)
      n == NewAddress(heap)
      h == New(heap, n, kind, r.value)
  IN /\ at' = SkipWhiteSpace(r.next)
     /\ heap' = IF kind = "text" /\ Blank(r.value.name) THEN heap
                ELSE IF r.next = 0 /\ open = <<>> THEN h ELSE LinkEndChild(h, Innermost, n)
     /\ IF r.next = 0 THEN Fail(r.error) ELSE UNCHANGED <<mode, error>>
     /\ UNCHANGED open

Leaf == At(at) = "<" /\ Identify(at) # "element" /\ ParseLeaf(Identify(at))

(* The end of TiXmlDocument::Parse, with text that no node starts with     *)
(* left unread.                                                            *)
EndDocument ==
  /\ At(at) # "<"
  /\ mode' = "loaded"
  /\ error' = IF \/ heap[document].firstChild = Null
                 \/ heap[heap[document].firstChild].kind = "unknown"
                 \/ FirstChildElement(heap, document, Nodes) = Null
              THEN First("PARSING_ELEMENT") ELSE error
  /\ text' = <<>> /\ at' = 0
  /\ UNCHANGED <<heap, open>>

ParseDocument ==
  /\ mode = "document"
  /\ EndDocument \/ ((StartElement \/ Leaf) /\ UNCHANGED text)
  /\ UNCHANGED <<calls, called, saved>>

(* A turn of the loop of TiXmlElement::Parse.  An attribute of a name that *)
(* is there replaces its value, and the element counts as failed.          *)
Attributed(a) ==
  LET e == Last(open) IN [heap EXCEPT ![e].value.attrs = AttributeSet(@, a)]

ReadAttribute(q) ==
  LET a == Attribute(q)
      known == AttributeFind(heap[Last(open)].value.attrs, a.value.name) # 0
  IN \/ /\ a.next \in {0, End}
        /\ Fail(IF a.next = 0 THEN a.error ELSE "PARSING_ELEMENT")
        /\ UNCHANGED <<heap, at, open>>
     \/ /\ a.next \in 1..Len(text)
        /\ heap' = Attributed(a.value)
        /\ at' = a.next
        /\ IF known THEN mode' = "unwind" ELSE UNCHANGED mode
        /\ UNCHANGED <<open, error>>
     \/ /\ a.next > End    \* whatever byte is behind the terminating zero
        /\ \/ Fail("PARSING_ELEMENT") /\ UNCHANGED <<heap, at, open>>
           \/ known /\ heap' = Attributed(a.value) /\ mode' = "unwind" /\ UNCHANGED <<at, open, error>>
           \/ ~known /\ EndElement(Attributed(a.value), a.next)

ParseAttributes ==
  LET q == SkipWhiteSpace(at) IN
  /\ mode = "attributes"
  /\ \/ q = End /\ Fail("READING_ATTRIBUTES") /\ UNCHANGED <<heap, at, open>>
     \/ /\ At(q) = "/"
        /\ IF At(q + 1) = ">" THEN EndElement(heap, q + 2)
           ELSE Fail("PARSING_EMPTY") /\ UNCHANGED <<heap, at, open>>
     \/ At(q) = ">" /\ mode' = "value" /\ at' = SkipWhiteSpace(q + 1) /\ UNCHANGED <<heap, open, error>>
     \/ q # End /\ At(q) \notin {"/", ">"} /\ ReadAttribute(q)
  /\ UNCHANGED <<text, calls, called, saved>>

EndTag ==
  /\ At(at) = "<" /\ At(at + 1) = "/"
  /\ LET tag == <<"<", "/">> \o Name(Last(open)) \o <<">">>
     IN IF Looks(at, tag) THEN EndElement(heap, at + Len(tag))
        ELSE Fail("READING_END_TAG") /\ UNCHANGED <<heap, at, open>>

(* A turn of the loop of TiXmlElement::ReadValue.                          *)
ParseValue ==
  /\ mode = "value"
  /\ \/ at = 0 /\ Fail("READING_ELEMENT_VALUE") /\ UNCHANGED <<heap, at, open>>
     \/ at = End /\ Fail("READING_END_TAG") /\ UNCHANGED <<heap, at, open>>
     \/ at \in 1..Len(text) /\ At(at) # "<" /\ ParseLeaf("text")
     \/ EndTag
     \/ At(at) = "<" /\ At(at + 1) # "/" /\ (StartElement \/ Leaf)
  /\ UNCHANGED <<text, calls, called, saved>>

(* The element could not be parsed: its parent links it and fails as well; *)
(* the document does not.                                                  *)
Unwind ==
  /\ mode = "unwind"
  /\ IF open = <<>>
     THEN /\ mode' = "loaded" /\ error' = First("PARSING_ELEMENT")
          /\ text' = <<>> /\ at' = 0
          /\ UNCHANGED <<heap, open>>
     ELSE /\ open' = Front(open)
          /\ heap' = IF Len(open) = 1 THEN heap ELSE LinkEndChild(heap, open[Len(open) - 1], Last(open))
          /\ error' = IF Len(open) = 1 THEN error ELSE First("READING_ELEMENT_VALUE")
          /\ UNCHANGED <<mode, text, at>>
  /\ UNCHANGED <<calls, called, saved>>
-----------------------------------------------------------------------------
(* Calls that change the tree, and GetConfigXml, which prints the document *)
(* and loads what was printed (into a document of the caller's, in place   *)
(* of which it is the same one here).                                      *)
MayEdit == mode = "loaded" /\ edits + sets < MaxEdits

Call(name, p, c, n) == [call |-> name, on |-> p, child |-> c, node |-> n]
NoCall == Call("none", Null, Null, Null)
Calling(name, p, c, n) == called' = Call(name, p, c, n)

EditTree ==
  /\ MayEdit
  /\ edits' = edits + 1
  /\ \/ Create /\ Calling("new", Null, Null, Null)
     \/ \E n \in Nodes : delete(n) /\ Calling("delete", Null, Null, n)
     \/ \E p \in Nodes : Clear(p) /\ Calling("Clear", p, Null, Null)
     \/ \E p, n \in Nodes : linkEndChild(p, n) /\ Calling("LinkEndChild", p, Null, n)
     \/ \E p, n \in Nodes : InsertEndChild(p, n) /\ Calling("InsertEndChild", p, Null, n)
     \/ \E p, c \in Nodes : RemoveChild(p, c) /\ Calling("RemoveChild", p, c, Null)
     \/ \E p, c, n \in Nodes : InsertBeforeChild(p, c, n) /\ Calling("InsertBeforeChild", p, c, n)
     \/ \E p, c, n \in Nodes : InsertAfterChild(p, c, n) /\ Calling("InsertAfterChild", p, c, n)
     \/ \E p, c, n \in Nodes : ReplaceChild(p, c, n) /\ Calling("ReplaceChild", p, c, n)
  /\ Live(heap', document)
  /\ UNCHANGED <<text, at, open, mode, error, sets, saved>>

SetAttribute(e, name, value) ==
  heap' = [heap EXCEPT ![e].value.attrs = AttributeSet(@, Attr(name, value))]
RemoveAttribute(e, name) == heap' = [heap EXCEPT ![e].value.attrs = AttributeRemove(@, name)]

EditAttributes ==
  /\ MayEdit /\ edits = 0    \* bound: not after a change of the tree
  /\ sets' = sets + 1
  /\ \E e \in Elements(heap), c \in Alpha :
       RemoveAttribute(e, <<c>>) \/ \E value \in AttrValues : SetAttribute(e, <<c>>, value)
  /\ UNCHANGED <<text, at, open, mode, error, edits, called, saved>>

SaveFile ==
  /\ mode = "loaded" /\ saved = NoValue
  /\ edits < MaxEdits    \* bound: what was changed most is not saved
  /\ saved' = [tree |-> Tree(heap, document), error |-> error, calls |-> calls]
  /\ LoadText(PrintDocument(heap, document, 0))
  /\ called' = NoCall
  /\ UNCHANGED calls

DocInit ==
  /\ heap = [n \in Nodes |-> IF n = document THEN NewNode("document", NoValue) ELSE Free]
  /\ text = <<>> /\ at = 0 /\ open = <<>> /\ mode = "new"
  /\ error = "none" /\ edits = 0 /\ sets = 0 /\ called = NoCall /\ saved = NoValue

Parse == ParseDocument \/ ParseAttributes \/ ParseValue \/ Unwind
DocNext == LoadFile \/ Parse \/ EditTree \/ EditAttributes \/ SaveFile
DocSpec == DocInit /\ [][DocNext]_vars
-----------------------------------------------------------------------------
(* The pointers are sound, and whoever looks something up through them     *)
(* sees the tree: loops over the children forwards and backwards, by a     *)
(* name or by a kind, visit those children once each in one order, every   *)
(* node below a document finds it, unless a copy of one that ReplaceChild  *)
(* put among the nodes is in between, and an element answers each of its   *)
(* attributes with the value it carries.                                   *)
Wanted(h) == {Nodes, Elements(h)} \cup {Called(h, v.name) : v \in Values}
LookUpsAgree ==
  /\ \A p \in Nodes, match \in Wanted(heap) :
       LET visited == Iterated(heap, p, Null, match)
       IN /\ Range(visited) = {n \in match : heap[n].parent = p}
          /\ IsInjective(visited)
          /\ visited = Backwards(heap, LastChild(heap, p, match), match)
  /\ \A d \in Documents(heap) :
       LET below == Subtree(heap, d)
       IN {n \in Nodes : GetDocument(heap, n) = d}
            = below \ UNION {Subtree(heap, e) : e \in (below \cap Documents(heap)) \ {d}}
  /\ \A e \in Elements(heap) : \A a \in Range(heap[e].value.attrs) :
       AttributeOf(heap, e, a.name) = a.text

TreeSound == ListsWellLinked /\ LookUpsAgree

(* What was loaded without an error is the same tree after it was saved    *)
(* and loaded again: every module is configured by what the file says.     *)
(* Two things do not survive: what starts with a "&#x" that was written    *)
(* "&amp;#x" is taken for a reference when it is printed, so that it is    *)
(* read as the letter it refers to or, malformed, ends the parsing; and a  *)
(* space at the end of a text, or next to another one, which only a        *)
(* dropped '&' kept when it was loaded, is lost.                           *)
SurvivesEncoding(value) == \A i \in DOMAIN value : ~Refers(value, i, {Hexadecimal, Malformed})
SurvivesCondensing(value) ==
  /\ Space \notin {Head(value), Last(value)}
  /\ \A i \in 1..(Len(value) - 1) : ~(value[i] = Space /\ value[i + 1] = Space)
RECURSIVE Survives(_)
Survives(tree) ==
  /\ tree.kind = "text" =>
       SurvivesEncoding(tree.value.name) /\ SurvivesCondensing(tree.value.name)
  /\ tree.kind = "element" => \A a \in Range(tree.value.attrs) : SurvivesEncoding(a.text)
  /\ \A kid \in Range(tree.kids) : Survives(kid)

=============================================================================
