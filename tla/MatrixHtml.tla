----------------------------- MODULE MatrixHtml -----------------------------
(***************************************************************************)
(* The HTML of a Matrix message turned into the text and the annotations   *)
(* of a Google Chat message: src/pkg/msgconv/matrixfmt.                    *)
(*                                                                         *)
(* A tree is the sequence of its nodes in document order, each with its    *)
(* depth.  What every node turns into is a text with entities, the places  *)
(* of which are shifted and cut whenever the text is trimmed, split into   *)
(* lines, indented or joined.  An entity's value is the node it is made    *)
(* for; bold, italic, colour and links are one kind of node.               *)
(*                                                                         *)
(* A unit of the text is a letter "x" or "room" of a text node, or one     *)
(* that is written in: white space "sp" or "nl", or a mark "#".            *)
(***************************************************************************)
EXTENDS Naturals, Sequences
LOCAL INSTANCE SequencesExt

Node(kind, depth, content) == [kind |-> kind, depth |-> depth, content |-> content]

Blocks == {"p", "pre", "quote", "ol", "ul", "li", "header", "div", "hr"}
Inlines == {"format", "code", "pill", "mailto", "span"}
Leaves == {"text", "br", "hr"}

(* Node 0 is the document. *)
DepthOf(tree, n) == IF n = 0 THEN 0 ELSE tree[n].depth
Ancestors(tree, n) ==
  {m \in 1..n - 1 : \A k \in m + 1 .. n : tree[k].depth > tree[m].depth}
IsChild(tree, k, n) ==
  /\ k > n /\ tree[k].depth = DepthOf(tree, n) + 1
  /\ n = 0 \/ n \in Ancestors(tree, k)
Children(tree, n) ==
  SelectSeq([k \in 1..Len(tree) |-> k], LAMBDA k : IsChild(tree, k, n))

(* What the HTML parser leaves below what. *)
Fits(tree, kind, depth) ==
  LET n == Len(tree) + 1
      grown == Append(tree, Node(kind, depth, <<>>))
      above == {tree[m].kind : m \in Ancestors(grown, n)}
      parents == {tree[m].kind : m \in {k \in Ancestors(grown, n) : tree[k].depth = depth - 1}}
  IN  /\ depth = 1 \/ (parents # {} /\ parents \cap Leaves = {})
      /\ parents \cap {"ol", "ul"} # {} => kind \in {"li", "text"}
      /\ kind = "li" => parents \cap {"ol", "ul"} # {}
      /\ "p" \in above => kind \notin Blocks
      /\ kind = "header" => kind \notin parents
      /\ kind = "text" /\ n > 1 => tree[n - 1].kind # "text" \/ tree[n - 1].depth # depth
      /\ kind \in {"pill", "mailto"} => above \cap {"pill", "mailto"} = {}

(***************************************************************************)
(* EntityString.  A nil one, of a node without children, stays nil.        *)
(***************************************************************************)
NilString == [nil |-> TRUE, text |-> <<>>, entities |-> {}]
Plain(units) == [nil |-> FALSE, text |-> units, entities |-> {}]
Written(c) == [c |-> c, at |-> <<0, 0>>]

EntityEnd(e) == e.start + e.length

(* Mutant: TrimSpace and Split shift the entities and do not cut them. *)
ClipShifts(entities, from, to) ==
  {[e EXCEPT !.start = IF @ < from THEN 0 ELSE @ - from] : e \in entities}

(* TruncateStart, TruncateEnd, Offset: what lies within from .. to. *)
Clip(entities, from, to) ==
  LET start(e) == IF e.start < from THEN from ELSE e.start
      end(e) == IF EntityEnd(e) > to THEN to ELSE EntityEnd(e)
  IN  {[e EXCEPT !.start = start(e) - from, !.length = end(e) - start(e)] :
         e \in {f \in entities : start(f) < end(f)}}

(* The part of s behind unit number from, up to unit number to. *)
Part(s, from, to) ==
  [nil |-> FALSE, text |-> SubSeq(s.text, from + 1, to), entities |-> Clip(s.entities, from, to)]

Concat(s, t) ==
  IF s.nil THEN t ELSE
  IF t.nil THEN s ELSE
    [s EXCEPT !.text = @ \o t.text,
              !.entities = @ \cup {[e EXCEPT !.start = @ + Len(s.text)] : e \in t.entities}]

Format(s, value) ==
  IF s.nil THEN s
  ELSE [s EXCEPT !.entities = @ \cup {[start |-> 0, length |-> Len(s.text), value |-> value]}]

IsSpace(unit) == unit.c \in {"sp", "nl"}

TrimSpace(s) ==
  LET dark == {i \in DOMAIN s.text : ~IsSpace(s.text[i])}
      first == CHOOSE i \in dark : \A j \in dark : i <= j
      last == CHOOSE i \in dark : \A j \in dark : i >= j
  IN  IF s.nil THEN s
      ELSE IF dark = {} THEN Plain(<<>>)
      ELSE IF Len(s.text) = last - first + 1 THEN s
      ELSE Part(s, first - 1, last)

(* Split at the line breaks; what follows the last one is a line only if   *)
(* there is something.                                                     *)
Lines(s) ==
  LET breaks == SelectSeq([i \in DOMAIN s.text |-> i], LAMBDA i : s.text[i].c = "nl")
      ends == IF breaks # <<>> /\ breaks[Len(breaks)] = Len(s.text) THEN breaks
              ELSE Append(breaks, Len(s.text) + 1)
  IN  IF s.nil THEN <<>>
      ELSE IF breaks = <<>> THEN <<s>>
      ELSE [i \in DOMAIN ends |-> Part(s, IF i = 1 THEN 0 ELSE ends[i - 1], ends[i] - 1)]

(* JoinEntityString: a nil item leaves its separator. *)
Join(separator, strings) ==
  LET Add(s, t) == Concat(Concat(s, Plain(separator)), t)
  IN  IF strings = <<>> THEN Plain(<<>>)
      ELSE FoldLeft(Add, Concat(Plain(<<>>), Head(strings)), Tail(strings))

(* Prefix the first line with one mark and the others with another. *)
Indent(lines, first, other) ==
  [i \in DOMAIN lines |-> Concat(Plain(IF i = 1 THEN first ELSE other), lines[i])]

(***************************************************************************)
(* HTMLParser.                                                             *)
(***************************************************************************)

(* textToEntityString: white space is collapsed, and each @room becomes an *)
(* @all of its own, unless in <pre> or <code>.                             *)
TextString(tree, n, preserve) ==
  LET content == tree[n].content
      unit(i) == IF content[i] \in {"sp", "nl"} THEN Written(content[i])
                 ELSE [c |-> content[i], at |-> <<n, i>>]
      units == [i \in DOMAIN content |-> unit(i)]
      kept == SelectSeq([i \in DOMAIN units |-> i],
                        LAMBDA i : ~(i > 1 /\ IsSpace(units[i]) /\ IsSpace(units[i - 1])))
      text == [i \in DOMAIN kept |->
                 IF IsSpace(units[kept[i]]) THEN Written("sp") ELSE units[kept[i]]]
  IN  IF preserve THEN Plain(units)
      ELSE [Plain(text) EXCEPT !.entities =
              {[start |-> i - 1, length |-> 1, value |-> n] :
                 i \in {j \in DOMAIN text : text[j].c = "room"}}]

RECURSIVE NodeString(_, _, _), TagAware(_, _, _)

(* nodeToString: the children without anything between them. *)
Flat(tree, n, preserve) ==
  LET kids == Children(tree, n)
  IN  Join(<<>>, [i \in DOMAIN kids |-> NodeString(tree, kids[i], preserve)])

(* nodeToTagAwareString: a line of its own for each block. *)
TagAware(tree, n, preserve) ==
  LET newline == Plain(<<Written("nl")>>)
      Add(made, k) ==
        LET block == tree[k].kind \in Blocks
            inner == NodeString(tree, k, preserve)
            line == IF ~block THEN inner
                    ELSE IF made.block THEN Concat(inner, newline)
                    ELSE Concat(newline, Concat(inner, newline))
        IN  [string |-> Concat(made.string, line), block |-> made.block \/ block]
  IN  TrimSpace(FoldLeft(Add, [string |-> NilString, block |-> FALSE], Children(tree, n)).string)

(* Nodes of a list that are no <li> are dropped. *)
Items(tree, n) == SelectSeq(Children(tree, n), LAMBDA k : tree[k].kind = "li")

UnorderedList(tree, n, preserve) ==
  LET items == Items(tree, n)
  IN  Format(Join(<<Written("nl")>>,
                  [i \in DOMAIN items |-> Format(NodeString(tree, items[i], preserve), items[i])]),
             n)

OrderedList(tree, n, preserve) ==
  LET items == Items(tree, n)
      mark == <<Written("#"), Written("sp")>>
      indent == <<Written("sp"), Written("sp")>>
      item(k) == Lines(Concat(Plain(mark), NodeString(tree, k, preserve)))
      indented == [i \in DOMAIN items |-> Indent(item(items[i]), <<>>, indent)]
  IN  Join(<<Written("nl")>>, FlattenSeq(indented))

Blockquote(tree, n, preserve) ==
  LET mark == <<Written("#"), Written("sp")>>
  IN  Join(<<Written("nl")>>,
           Indent(Lines(TrimSpace(TagAware(tree, n, preserve))), mark, mark))

(* preToString: a first child <code> stands for the whole. *)
InnerOfPre(tree, n) ==
  LET kids == Children(tree, n)
  IN  IF kids # <<>> /\ tree[kids[1]].kind = "code" THEN kids[1] ELSE n

NodeString(tree, n, preserve) ==
  LET kind == tree[n].kind
      inside == TagAware(tree, n, preserve)
  IN  CASE kind = "text" -> TextString(tree, n, preserve)
        [] kind = "br" -> Plain(<<Written("nl")>>)
        [] kind = "hr" -> Plain(<<Written("#")>>)
        [] kind = "quote" -> Blockquote(tree, n, preserve)
        [] kind = "ol" -> OrderedList(tree, n, preserve)
        [] kind = "ul" -> UnorderedList(tree, n, preserve)
        [] kind = "header" ->
             Format(Concat(Plain(<<Written("#"), Written("sp")>>), Flat(tree, n, preserve)), n)
        [] kind = "format" -> Format(inside, n)
        [] kind = "code" -> Format(Flat(tree, n, TRUE), n)
        [] kind = "pre" -> Format(Flat(tree, InnerOfPre(tree, n), TRUE), n)
        [] kind = "p" -> Concat(inside, Plain(<<Written("nl")>>))
        [] kind = "pill" -> Format(Plain(<<Written("#")>> \o inside.text), n)
        [] kind = "mailto" -> Plain(<<Written("#")>>)
        [] OTHER -> inside \* "li", "div" and "span", which is every other tag

(* Parse: the text and the annotations. *)
ToGoogleChat(tree) == TagAware(tree, 0, FALSE)
=============================================================================
