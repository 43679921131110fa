---------------------------- MODULE Annotations ----------------------------
(***************************************************************************)
(* The text and the annotations of a Google Chat message turned into       *)
(* Matrix HTML: Parse of src/pkg/msgconv/gchatfmt/convert.go.              *)
(*                                                                         *)
(* The annotations may overlap; they are sorted and split so that they     *)
(* nest, at every level of the recursion anew.  The recursion passes a     *)
(* slice of the same array on and the splitting writes through pointers,   *)
(* so a nested call changes what its caller goes on with.  The model keeps *)
(* that: annotations live in a heap, a slice is a sequence of places in    *)
(* it, and the calls of renderAnnotations under way are a stack, each with *)
(* its locals; when one returns, its caller's slice is what it left.       *)
(*                                                                         *)
(* A rendering is a sequence of pieces: a unit of the text, an opening     *)
(* tag, the pill of a mention or a name, with the annotations whose tags   *)
(* are around it.  Every tag is one kind here; escaping, line breaks, the  *)
(* tags' names and the closing tags are left out.                          *)
(***************************************************************************)
EXTENDS Integers, Sequences, FiniteSets

CONSTANTS TextLength,    \* the UTF-16 units of the text are 0 .. TextLength - 1
          Starts,        \* the starts of annotations that occur
          Lengths,       \* their lengths
          Kinds,         \* the kinds of annotations
          MaxAnnotations \* bound on the annotations of a message

ASSUME AnnotationsAssumption ==
    /\ TextLength \in Nat /\ Starts \subseteq Int /\ Lengths \subseteq Int
    /\ Kinds \subseteq {"tag", "hidden", "mention", "named", "unknown", "plain", "chip"}
    /\ MaxAnnotations \in Nat

VARIABLES annotations, \* the message's annotations, in the order of the wire
          heap,        \* the clones, and the tails split off
          calls,       \* the calls of renderAnnotations under way, innermost last
          parsed,      \* "no", "ok", or Parse falls back to the text: "failed",
                       \* or "empty", if nothing was rendered
          html         \* the pieces, if parsed = "ok"

annotationVars == <<annotations, heap, calls, parsed, html>>

(* "tag": a format or a link.  "hidden": FormatMetadata_HIDDEN.  "mention": *)
(* everyone, or a user the resolver knows.  "named": a user it has but the  *)
(* name of; "unknown": one it has nothing of, whose text is written as it   *)
(* is.  "plain": a format or a link that is rendered as its text, or no     *)
(* metadata at all.  "chip": rendered as an attachment, not here.           *)
Annotation == [start : Starts, length : Lengths, kind : Kinds]

EndOf(a) == a.start + a.length

SpanWithinParent(a, offset, length) ==
  a.start >= offset /\ a.length >= 0 /\ EndOf(a) <= offset + length

Units(from, to) ==
  [i \in 1..(to - from) |-> [is |-> "unit", at |-> from + i - 1, around |-> {}]]

Surround(pieces, id) ==
  [i \in DOMAIN pieces |-> [pieces[i] EXCEPT !.around = @ \cup {id}]]

(* sort.SliceStable by start, the longer one first. *)
Before(p, q) ==
  heap[p].start < heap[q].start
    \/ (heap[p].start = heap[q].start /\ heap[p].length > heap[q].length)

Earlier(ids, i, k) ==
  Before(ids[i], ids[k]) \/ (i < k /\ ~Before(ids[k], ids[i]))

Sorted(ids) ==
  LET Rank(i) == Cardinality({k \in DOMAIN ids : Earlier(ids, k, i)})
  IN  [n \in DOMAIN ids |-> ids[CHOOSE i \in DOMAIN ids : Rank(i) = n - 1]]

(* A call of renderAnnotations for the text of an annotation or, of Parse,  *)
(* the whole one.  It sorts the slice, and begins to split what overlaps.   *)
(* "given" is the slice of its caller once "ids" is an array of its own.    *)
(* Tails that append puts into spare capacity count as a new array: they    *)
(* start behind all that the caller sees, and no later sort mixes the two.  *)
Call(span, ids) ==
  [span |-> span, ids |-> Sorted(ids), given |-> Sorted(ids), copied |-> FALSE,
   splitting |-> ids # <<>>, i |-> 1, j |-> 2, tails |-> <<>>, out |-> <<>>, last |-> 0]

Top == calls[Len(calls)]
GoOn(call) == calls' = [calls EXCEPT ![Len(calls)] = call]

AnnotationsInit ==
  annotations = <<>> /\ heap = <<>> /\ calls = <<>> /\ parsed = "no" /\ html = <<>>

(* The message arrives, annotation by annotation. *)
Arrive(a) ==
  /\ heap = <<>> /\ Len(annotations) < MaxAnnotations
  /\ annotations' = Append(annotations, a)
  /\ UNCHANGED <<heap, calls, parsed, html>>

CloneAnnotations ==
  /\ annotations # <<>> /\ heap = <<>>
  /\ heap' = [i \in DOMAIN annotations |->
                [start |-> annotations[i].start, length |-> annotations[i].length,
                 kind |-> annotations[i].kind, id |-> i]]
  /\ UNCHANGED <<annotations, calls, parsed, html>>

WholeText == [start |-> 0, length |-> TextLength, kind |-> "plain", id |-> 0]

Parse ==
  /\ heap # <<>> /\ calls = <<>> /\ parsed = "no"
  /\ calls' = <<Call(WholeText, [i \in DOMAIN annotations |-> i])>>
  /\ UNCHANGED <<annotations, heap, parsed, html>>

(***************************************************************************)
(* normalizeAnnotations.                                                   *)
(***************************************************************************)

Splitting == calls # <<>> /\ Top.splitting

(* The next annotation begins within the current one: it is cut at its end. *)
Cut ==
  LET id == Top.ids[Top.j]
      end == EndOf(heap[Top.ids[Top.i]])
      crosses == EndOf(heap[id]) > end
      tail == [heap[id] EXCEPT !.start = end, !.length = EndOf(heap[id]) - end]
  IN  /\ Splitting /\ Top.i <= Len(Top.ids) /\ Top.j <= Len(Top.ids)
      /\ heap[id].start < end
      /\ heap' = IF crosses THEN Append([heap EXCEPT ![id].length = end - heap[id].start], tail)
                 ELSE heap
      /\ GoOn([Top EXCEPT
           !.j = @ + 1, !.tails = IF crosses THEN Append(@, Len(heap) + 1) ELSE @])
      /\ UNCHANGED <<annotations, parsed, html>>

(* It begins later: the tails go in front of it, in a new array, and the   *)
(* loop goes on with the first of them.                                    *)
Insert ==
  /\ Splitting /\ Top.i <= Len(Top.ids) /\ Top.j <= Len(Top.ids)
  /\ heap[Top.ids[Top.j]].start >= EndOf(heap[Top.ids[Top.i]])
  /\ GoOn([Top EXCEPT
       !.ids = SubSeq(@, 1, Top.j - 1) \o Top.tails \o SubSeq(@, Top.j, Len(@)),
       !.copied = TRUE, !.tails = <<>>, !.i = Top.j, !.j = @ + 1])
  /\ UNCHANGED <<annotations, heap, parsed, html>>

(* None begins later. *)
Advance ==
  /\ Splitting /\ Top.i <= Len(Top.ids) /\ Top.j > Len(Top.ids)
  /\ GoOn([Top EXCEPT !.i = @ + 1, !.j = Top.i + 2])
  /\ UNCHANGED <<annotations, heap, parsed, html>>

(* Mutant: the last tails are dropped. *)
NormalizedForgets ==
  /\ Splitting /\ Top.i > Len(Top.ids)
  /\ GoOn([Top EXCEPT !.splitting = FALSE, !.i = 1])
  /\ UNCHANGED <<annotations, heap, parsed, html>>

(* The tails that are left go to the end. *)
Normalized ==
  /\ Splitting /\ Top.i > Len(Top.ids)
  /\ GoOn([Top EXCEPT
       !.ids = @ \o Top.tails, !.copied = @ \/ Top.tails # <<>>,
       !.splitting = FALSE, !.i = 1])
  /\ UNCHANGED <<annotations, heap, parsed, html>>

(***************************************************************************)
(* The loop of renderAnnotations.                                          *)
(***************************************************************************)

Walking == calls # <<>> /\ ~Top.splitting

Current == heap[Top.ids[Top.i]]
AtEnd == Top.i <= Len(Top.ids) => Current.start >= EndOf(Top.span)
WithinSpan == SpanWithinParent(Current, Top.span.start, Top.span.length)
Behind == Current.start - Top.span.start < Top.last

Skip ==
  /\ Walking /\ ~AtEnd
  /\ Current.kind = "chip" \/ (WithinSpan /\ Behind)
  /\ GoOn([Top EXCEPT !.i = @ + 1])
  /\ UNCHANGED <<annotations, heap, parsed, html>>

OutOfBounds ==
  /\ Walking /\ ~AtEnd /\ Current.kind # "chip" /\ ~WithinSpan
  /\ parsed' = "failed" /\ calls' = <<>>
  /\ UNCHANGED <<annotations, heap, html>>

Enter ==
  /\ Walking /\ ~AtEnd /\ Current.kind # "chip" /\ WithinSpan /\ ~Behind
  /\ calls' = Append(calls, Call(Current, SubSeq(Top.ids, Top.i + 1, Len(Top.ids))))
  /\ UNCHANGED <<annotations, heap, parsed, html>>

Mark(what, id) == [is |-> what, at |-> id, around |-> {}]

(* renderOne: what is written for annotation a around the pieces inside it. *)
Entity(a, pieces) ==
  CASE a.kind = "tag" -> <<Mark("tag", a.id)>> \o Surround(pieces, a.id)
    [] a.kind = "mention" -> <<Mark("pill", a.id)>>
    [] a.kind = "named" -> <<Mark("name", a.id)>>
    [] a.kind = "unknown" -> pieces
    [] OTHER -> <<>>

(* Mutant: the text of an entity that renderOne skipped counts as written. *)
LastOffsetSkipped(a, rel) == rel + a.length

(* The text up to here is written; a "plain" entity leaves its text to come. *)
LastOffset(a, rel) == IF a.kind = "plain" THEN rel ELSE rel + a.length

(* The nested call sorted the slice it shares with its caller. *)
SliceAfter(call, inner) ==
  SubSeq(call.ids, 1, call.i) \o (IF inner.copied THEN inner.given ELSE inner.ids)

Rendering(call) ==
  call.out \o Units(call.span.start + call.last, EndOf(call.span))

Return ==
  LET caller == calls[Len(calls) - 1]
      a == Top.span
  IN  /\ Walking /\ AtEnd /\ Len(calls) > 1
      /\ calls' = [SubSeq(calls, 1, Len(calls) - 1) EXCEPT ![Len(calls) - 1] =
           [caller EXCEPT
              !.ids = SliceAfter(caller, Top), !.i = @ + 1,
              !.out = @ \o Units(caller.span.start + caller.last, a.start) \o Entity(a, Rendering(Top)),
              !.last = LastOffset(a, a.start - caller.span.start)]]
      /\ UNCHANGED <<annotations, heap, parsed, html>>

Finish ==
  /\ Walking /\ AtEnd /\ Len(calls) = 1
  /\ html' = Rendering(Top) /\ calls' = <<>>
  /\ parsed' = IF html' = <<>> THEN "empty" ELSE "ok"
  /\ UNCHANGED <<annotations, heap>>

Convert ==
  \/ CloneAnnotations \/ Parse
  \/ Cut \/ Insert \/ Advance \/ Normalized
  \/ Skip \/ OutOfBounds \/ Enter \/ Return \/ Finish

AnnotationsNext == (\E a \in Annotation : Arrive(a)) \/ Convert

AnnotationsSpec == AnnotationsInit /\ [][AnnotationsNext]_annotationVars

(* collectMentions. *)
CollectMentions ==
  {i \in DOMAIN annotations :
     annotations[i].kind = "mention" /\ SpanWithinParent(annotations[i], 0, TextLength)}

(***************************************************************************)
(* Properties.                                                             *)
(***************************************************************************)

Covers(a, u) == a.start <= u /\ u < EndOf(a)
CoveredBy(u, kinds) ==
  {i \in DOMAIN annotations : annotations[i].kind \in kinds /\ Covers(annotations[i], u)}
PlacesOf(u) == {p \in DOMAIN html : html[p].is = "unit" /\ html[p].at = u}

(* The annotations whose text is not written. *)
NotWritten == {"hidden", "mention", "named"}

(* Whatever annotations the server sends, overlapping or out of bounds: if *)
(* there is HTML, no unit of the text is in it twice or out of order, none *)
(* is missing that is not hidden or behind a pill or a name, none has a    *)
(* tag that the sender did not put on it, and every pill is a mention's.   *)
TextRenderedOnce ==
  parsed = "ok" =>
    /\ \A p, q \in DOMAIN html :
         p < q /\ html[p].is = "unit" /\ html[q].is = "unit" => html[p].at < html[q].at
    /\ \A u \in 0 .. TextLength - 1 :
         CoveredBy(u, NotWritten) = {} => PlacesOf(u) # {}
    /\ \A p \in DOMAIN html :
         html[p].is = "unit" => html[p].around \subseteq CoveredBy(html[p].at, {"tag"})
    /\ \A p \in DOMAIN html :
         html[p].is = "pill" => annotations[html[p].at].kind = "mention"

InBounds ==
  \A i \in DOMAIN annotations : SpanWithinParent(annotations[i], 0, TextLength)
ChipsCoverNothing ==
  \A i \in DOMAIN annotations :
    annotations[i].kind = "chip" => annotations[i].length = 0
NonePlain == \A i \in DOMAIN annotations : annotations[i].kind # "plain"

Exact ==
  /\ \A u \in 0 .. TextLength - 1 : \A p \in PlacesOf(u) :
       /\ html[p].around = CoveredBy(u, {"tag"})
       /\ CoveredBy(u, NotWritten) = {}
  /\ \A p \in DOMAIN html : html[p].is = "pill" => html[p].at \in CollectMentions

(* Annotations within the text make Parse fall back to plain text only if  *)
(* all of the text is hidden (and then it is shown: HiddenStaysHidden does *)
(* not hold); else each unit has exactly the tags of the annotations that  *)
(* cover it, hidden text is left out, and whoever has a pill is pinged,    *)
(* however the spans overlap: "splits overlapping spans so they nest"      *)
(* (normalizeAnnotations).                                                 *)
MarkupKept ==
  InBounds /\ ChipsCoverNothing /\ NonePlain =>
    /\ parsed # "failed" /\ (parsed = "ok" => Exact)
    /\ parsed = "empty" => \A u \in 0 .. TextLength - 1 : CoveredBy(u, {"hidden"}) # {}

(* A message that is hidden as a whole is not shown: "Don't append the     *)
(* text -- it's meant to be invisible."                                    *)
HiddenStaysHidden == InBounds => parsed # "empty"

(* The same without the condition on chips: what is rendered separately    *)
(* does not disturb the rest.                                              *)
InBoundsRenders == InBounds => parsed # "failed"

(* Nor does what is rendered as its text. *)
PlainIsHarmless ==
  InBounds /\ ChipsCoverNothing => (parsed = "ok" => Exact)
=============================================================================
