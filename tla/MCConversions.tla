--------------------------- MODULE MCConversions ---------------------------
(***************************************************************************)
(* The pure conversions on every small input: the body of a poll fed to    *)
(* the parser in pieces (Framing), a text with annotations turned into     *)
(* HTML (Annotations), and HTML turned into a text with annotations        *)
(* (MatrixHtml).  A behavior does one of them.                             *)
(***************************************************************************)
EXTENDS Framing, Annotations, MatrixHtml
LOCAL INSTANCE SequencesExt

CONSTANTS MaxMixed,  \* bound on the annotations if some are not Proper
          MaxNamed,  \* bound on them if some are mentions without a pill
          TreeKinds, \* the elements that occur in a tree
          MaxNodes,  \* bound on its nodes
          MaxAny     \* bound on them if there are other elements

VARIABLE tree \* the HTML of a message from Matrix

vars == <<framingVars, annotationVars, tree>>

(* The content of a text node: all that the code treats differently. *)
Words == <<"sp", "x", "nl", "room", "sp">>

Init == FramingInit /\ AnnotationsInit /\ tree = <<>>

FeedPiece ==
  /\ annotations = <<>> /\ tree = <<>>
  /\ FramingNext
  /\ UNCHANGED <<annotationVars, tree>>

(* The code sorts the annotations first: they may come in that order. *)
InOrder(a) ==
  annotations # <<>> =>
    LET b == annotations[Len(annotations)]
    IN  b.start < a.start \/ (b.start = a.start /\ b.length >= a.length)

(* What MarkupKept is about; MaxMixed annotations may be anything. *)
Proper(a) ==
  /\ a.kind # "plain" /\ (a.kind = "chip" <=> a.length = 0)
  /\ SpanWithinParent(a, 0, TextLength)

Pilled(a) == a.kind \notin {"named", "unknown"}

(* One more of this kind keeps the message within the bounds. *)
Bounded(a) ==
  LET All(P(_)) == P(a) /\ \A i \in DOMAIN annotations : P(annotations[i])
  IN  \/ Len(annotations) < MaxMixed
      \/ All(Proper) /\ (Len(annotations) < MaxNamed \/ All(Pilled))

MessageAnnotation ==
  /\ fed = <<>> /\ tree = <<>>
  /\ \E a \in Annotation :
       /\ InOrder(a) /\ Bounded(a)
       /\ Arrive(a)
  /\ UNCHANGED <<framingVars, tree>>

ConvertMessage == Convert /\ UNCHANGED <<framingVars, tree>>

Usual(kind) == kind \in TreeKinds \cup {"text"}

(* One more node, behind the last one or below one that is still open. *)
Grow ==
  /\ fed = <<>> /\ annotations = <<>> /\ Len(tree) < MaxNodes
  /\ \E depth \in 1 .. Len(tree) + 1 :
       \/ \E kind \in Blocks \cup Inlines \cup {"br"} :
            /\ Fits(tree, kind, depth) /\ tree' = Append(tree, Node(kind, depth, <<>>))
            /\ Len(tree) < MaxAny \/ \A n \in DOMAIN tree' : Usual(tree'[n].kind)
       \/ /\ Fits(tree, "text", depth) /\ tree' = Append(tree, Node("text", depth, Words))
          /\ Len(tree) < MaxAny \/ \A n \in DOMAIN tree : Usual(tree[n].kind)
  /\ UNCHANGED <<framingVars, annotationVars>>

Next == FeedPiece \/ MessageAnnotation \/ ConvertMessage \/ Grow
Spec == Init /\ [][Next]_vars

(***************************************************************************)
(* Properties of ToGoogleChat.                                             *)
(***************************************************************************)

Under(n, kinds) == {m \in Ancestors(tree, n) : tree[m].kind \in kinds}
ParentOf(n) == {m \in Ancestors(tree, n) : IsChild(tree, n, m)}

(* What the code drops with the words around it: what stands in a list but *)
(* in no item of it, and the text of an address.                           *)
Kept(n) ==
  /\ Under(n, {"mailto"}) = {}
  /\ \A m \in Ancestors(tree, n) \cup {n} : \A p \in ParentOf(m) :
       tree[p].kind \in {"ol", "ul"} => tree[m].kind = "li"

(* "unwrapping a sole <code> child" *)
BesideCode(n) ==
  \E p \in Under(n, {"pre"}) :
    InnerOfPre(tree, p) # p /\ InnerOfPre(tree, p) \notin Ancestors(tree, n)

(* The letters of the text nodes, in document order. *)
Letters ==
  LET texts == SelectSeq([n \in DOMAIN tree |-> n], LAMBDA n : tree[n].kind = "text" /\ Kept(n))
      of(n) == SelectSeq([i \in DOMAIN tree[n].content |-> <<n, i>>],
                         LAMBDA at : tree[n].content[at[2]] \in {"x", "room"})
  IN  FlattenSeq([i \in DOMAIN texts |-> of(texts[i])])

(* The elements that format what is in node n, and an @all itself.  A pill *)
(* is all that is left of the formats within it.                           *)
FormattedBy(n, c) ==
  LET pills == Under(n, {"pill"})
      own == Under(n, {"format", "header", "pill", "ul"})
               \cup {m \in Under(n, {"li"}) : \A p \in ParentOf(m) : tree[p].kind = "ul"}
               \cup {m \in Under(n, {"pre", "code"}) :
                       \A p \in Under(m, {"pre"}) : InnerOfPre(tree, p) # m}
      all == IF c = "room" /\ Under(n, {"pre", "code"}) = {} THEN {n} ELSE {}
  IN  {m \in own \cup all : \A p \in pills : m <= p}

(* Whatever elements are nested in whatever way: the text of the message   *)
(* arrives whole and in order, every annotation lies in it, and each letter *)
(* is under the annotations of the elements around it and no others, after *)
(* all the trimming, splitting into lines, indenting and joining: "every   *)
(* mutation shifts entity offsets in the same step" (EntityString).        *)
AnnotationsFollowTheTree ==
  LET sent == ToGoogleChat(tree)
      letters == SelectSeq(sent.text, LAMBDA u : u.at # <<0, 0>>)
  IN  (\A n \in DOMAIN tree : ~BesideCode(n)) =>
        /\ [i \in DOMAIN letters |-> letters[i].at] = Letters
        /\ \A e \in sent.entities : EntityEnd(e) <= Len(sent.text)
        /\ \A i \in DOMAIN sent.text :
             LET unit == sent.text[i]
             IN  unit.at # <<0, 0>> =>
                   FormattedBy(unit.at[1], unit.c) =
                     {e.value : e \in {f \in sent.entities : f.start < i /\ i <= EntityEnd(f)}}

(* The same wherever a <pre> begins with a <code>: nothing of a message is  *)
(* lost.  It does not hold (README, Violations).                           *)
PreIsWhole ==
  LET letters == SelectSeq(ToGoogleChat(tree).text, LAMBDA u : u.at # <<0, 0>>)
  IN  [i \in DOMAIN letters |-> letters[i].at] = Letters
=============================================================================
