------------------------- MODULE AnnotationsProofs -------------------------
(***************************************************************************)
(* Proofs about Annotations, for a text of any length and any annotations. *)
(*                                                                         *)
(* IInv says of every call of renderAnnotations under way what it has      *)
(* written so far: Rendered, for the stretch of the text that it is        *)
(* through with.  A call that returns hands its stretch to its caller,     *)
(* which has come to the start of it.                                      *)
(*                                                                         *)
(* MInv, in the second half, is about the splitting: which annotations can *)
(* still cross at every point of it, and that no mark is lost.             *)
(***************************************************************************)
EXTENDS Annotations, FiniteSetTheorems, SequenceTheorems, TLAPS

EveryKind == {"tag", "hidden", "mention", "named", "unknown", "plain", "chip"}

(* Of a message, whatever it is: annotations with numbers in them.         *)
Received == [start : Int, length : Int, kind : EveryKind]
Message(A) == A \in Seq(Received)

Span == [start : Int, length : Int, kind : EveryKind, id : Int]

(* What the heap holds: a clone of an annotation, cut short or split off.  *)
PartOf(A, a) ==
  /\ a \in Span /\ a.id \in 1..Len(A)
  /\ a.kind = A[a.id].kind
  /\ A[a.id].start <= a.start /\ EndOf(a) <= EndOf(A[a.id])

Covering(A, u, kinds) ==
  {i \in DOMAIN A : A[i].kind \in kinds /\ Covers(A[i], u)}

Piece(A) == [is : {"unit", "tag", "pill", "name"}, at : Int, around : SUBSET DOMAIN A]

(* The pieces are a rendering of the text from one unit to before another. *)
(* There are none only if no text is, or all of it is hidden.              *)
InRange(pieces, from, to) ==
  \A p \in DOMAIN pieces : pieces[p].is = "unit" => from <= pieces[p].at /\ pieces[p].at < to
InOrder(pieces) ==
  \A p, q \in DOMAIN pieces :
    p < q /\ pieces[p].is = "unit" /\ pieces[q].is = "unit" => pieces[p].at < pieces[q].at
Complete(A, pieces, from, to) ==
  \A u \in Int :
    from <= u /\ u < to /\ Covering(A, u, NotWritten) = {} =>
      \E p \in DOMAIN pieces : pieces[p].is = "unit" /\ pieces[p].at = u
Deserved(A, pieces) ==
  \A p \in DOMAIN pieces :
    /\ pieces[p].is = "unit" => pieces[p].around \subseteq Covering(A, pieces[p].at, {"tag"})
    /\ pieces[p].is = "pill" =>
         pieces[p].at \in DOMAIN A /\ A[pieces[p].at].kind = "mention"

Visible(A, pieces, from, to) ==
  pieces = <<>> =>
    \A u \in Int : from <= u /\ u < to => Covering(A, u, {"hidden"}) # {}

Rendered(A, pieces, from, to) ==
  /\ pieces \in Seq(Piece(A))
  /\ InRange(pieces, from, to) /\ InOrder(pieces)
  /\ Complete(A, pieces, from, to) /\ Deserved(A, pieces)
  /\ Visible(A, pieces, from, to)

(***************************************************************************)
(* What is written for a stretch of the text.                              *)
(***************************************************************************)

(* The text itself, without markup. *)
LEMMA RenderedUnits ==
  ASSUME NEW A, NEW from \in Int, NEW to \in Int, from <= to
  PROVE  Rendered(A, Units(from, to), from, to)
  <1> DEFINE s == Units(from, to)
  <1>1. /\ s \in Seq(Piece(A)) /\ DOMAIN s = 1..(to - from)
        /\ \A i \in DOMAIN s : /\ s[i].is = "unit" /\ s[i].at = from + i - 1
                               /\ s[i].around = {}
    <2>1. to - from \in Nat
      OBVIOUS
    <2>2. \A i \in 1..(to - from) : s[i] \in Piece(A)
      BY DEF Units, Piece
    <2> QED
      BY <2>1, <2>2 DEF Units
  <1>2. InRange(s, from, to) /\ InOrder(s) /\ Deserved(A, s)
    BY <1>1 DEF InRange, InOrder, Deserved
  <1>3. ASSUME NEW u \in Int, from <= u, u < to
        PROVE  \E p \in DOMAIN s : s[p].is = "unit" /\ s[p].at = u
    <2>1. u - from + 1 \in 1..(to - from) /\ from + (u - from + 1) - 1 = u
      BY <1>3
    <2> QED
      BY <1>1, <2>1
  <1>4. Visible(A, s, from, to)
    <2> SUFFICES ASSUME s = <<>>, NEW u \in Int, from <= u, u < to
                 PROVE  FALSE
      BY DEF Visible
    <2>1. PICK p \in DOMAIN s : s[p].at = u
      BY <1>3
    <2> QED
      BY <2>1
  <1> QED
    BY <1>1, <1>2, <1>3, <1>4 DEF Rendered, Complete

(* One stretch after another. *)
LEMMA RenderedConcat ==
  ASSUME NEW A, NEW s, NEW t, NEW from \in Int, NEW mid \in Int, NEW to \in Int,
         from <= mid, mid <= to,
         Rendered(A, s, from, mid), Rendered(A, t, mid, to)
  PROVE  Rendered(A, s \o t, from, to)
  <1> DEFINE r == s \o t
  <1>1. /\ s \in Seq(Piece(A)) /\ t \in Seq(Piece(A)) /\ r \in Seq(Piece(A))
        /\ Len(s) \in Nat /\ Len(t) \in Nat
        /\ DOMAIN s = 1..Len(s) /\ DOMAIN t = 1..Len(t) /\ DOMAIN r = 1..(Len(s) + Len(t))
        /\ \A p \in DOMAIN r : /\ p <= Len(s) => p \in DOMAIN s /\ r[p] = s[p]
                               /\ p > Len(s) => p - Len(s) \in DOMAIN t /\ r[p] = t[p - Len(s)]
    BY DEF Rendered
  <1>2. ASSUME NEW p \in DOMAIN r
        PROVE  \/ p \in DOMAIN s /\ r[p] = s[p] /\ p <= Len(s)
               \/ p - Len(s) \in DOMAIN t /\ r[p] = t[p - Len(s)] /\ p > Len(s)
    BY <1>1
  <1>3. \A p \in DOMAIN r : r[p].at \in Int
    <2>1. \A p \in DOMAIN r : r[p] \in Piece(A)
      BY <1>1, ElementOfSeq
    <2> QED
      BY <2>1 DEF Piece
  <1>4. InRange(r, from, to)
    BY <1>2, <1>3 DEF InRange, Rendered
  <1>5. InOrder(r)
    <2> SUFFICES ASSUME NEW p \in DOMAIN r, NEW q \in DOMAIN r, p < q,
                        r[p].is = "unit", r[q].is = "unit"
                 PROVE  r[p].at < r[q].at
      BY DEF InOrder
    <2>1. p \in Nat /\ q \in Nat
      BY <1>1
    <2>2. CASE q <= Len(s)
      BY <2>1, <2>2, <1>1, SMTT(30) DEF Rendered, InOrder
    <2>3. CASE p > Len(s)
      <3>1. p - Len(s) < q - Len(s)
        BY <2>1, <1>1
      <3> QED
        BY <2>1, <2>3, <3>1, <1>1, SMTT(30) DEF Rendered, InOrder
    <2>4. CASE p <= Len(s) /\ q > Len(s)
      <3>1. r[p].at < mid
        BY <2>4, <1>1 DEF Rendered, InRange
      <3>2. mid <= r[q].at
        BY <2>4, <1>1 DEF Rendered, InRange
      <3> QED
        BY <3>1, <3>2, <1>3, SMTT(30)
    <2> QED
      BY <2>1, <2>2, <2>3, <2>4, <1>1
  <1>6. Complete(A, r, from, to)
    <2> SUFFICES ASSUME NEW u \in Int, from <= u, u < to,
                        Covering(A, u, NotWritten) = {}
                 PROVE  \E p \in DOMAIN r : r[p].is = "unit" /\ r[p].at = u
      BY DEF Complete
    <2>1. CASE u < mid
      <3>1. PICK p \in DOMAIN s : s[p].is = "unit" /\ s[p].at = u
        BY <2>1 DEF Rendered, Complete
      <3>2. p \in DOMAIN r /\ p <= Len(s)
        BY <1>1
      <3> QED
        BY <3>1, <3>2, <1>1
    <2>2. CASE mid <= u
      <3>1. PICK p \in DOMAIN t : t[p].is = "unit" /\ t[p].at = u
        BY <2>2 DEF Rendered, Complete
      <3>2. p + Len(s) \in DOMAIN r /\ p + Len(s) > Len(s) /\ (p + Len(s)) - Len(s) = p
        BY <1>1
      <3> QED
        BY <3>1, <3>2, <1>1
    <2> QED
      BY <2>1, <2>2
  <1>7. Deserved(A, r)
    BY <1>2 DEF Deserved, Rendered
  <1>8. Visible(A, r, from, to)
    <2> SUFFICES ASSUME r = <<>>, NEW u \in Int, from <= u, u < to
                 PROVE  Covering(A, u, {"hidden"}) # {}
      BY DEF Visible
    <2>1. Len(r) = Len(s) + Len(t) /\ Len(r) = 0
      BY <1>1
    <2>2. s = <<>> /\ t = <<>>
      BY <1>1, <2>1
    <2>3. u < mid \/ mid <= u
      OBVIOUS
    <2> QED
      BY <2>2, <2>3 DEF Rendered, Visible
  <1> QED
    BY <1>1, <1>4, <1>5, <1>6, <1>7, <1>8 DEF Rendered

(* What is written in the place of the text: an opening tag, which has     *)
(* none to write, or a pill or a name.                                     *)
LEMMA RenderedMark ==
  ASSUME NEW A, NEW piece \in Piece(A), NEW from \in Int, NEW to \in Int,
         piece.is # "unit",
         piece.is = "pill" => piece.at \in DOMAIN A /\ A[piece.at].kind = "mention",
         \A u \in Int : from <= u /\ u < to => Covering(A, u, NotWritten) # {}
  PROVE  Rendered(A, <<piece>>, from, to)
  <1> DEFINE s == <<piece>>
  <1>1. s \in Seq(Piece(A)) /\ s # <<>> /\ \A p \in DOMAIN s : s[p] = piece
    OBVIOUS
  <1> HIDE DEF s
  <1>2. InRange(s, from, to) /\ InOrder(s) /\ Deserved(A, s)
    BY <1>1 DEF InRange, InOrder, Deserved
  <1>3. Complete(A, s, from, to) /\ Visible(A, s, from, to)
    BY <1>1 DEF Complete, Visible
  <1>4. Rendered(A, s, from, to)
    BY <1>1, <1>2, <1>3 DEF Rendered
  <1> QED
    BY <1>4 DEF s

(* Where the text is written up to once annotation a is dealt with.        *)
Reached(a) == IF a.kind = "plain" THEN a.start ELSE EndOf(a)

(* What renderOne makes of the pieces inside an annotation. *)
LEMMA RenderedEntity ==
  ASSUME NEW A, Message(A), NEW a, PartOf(A, a), a.kind # "chip", a.length >= 0,
         NEW pieces, Rendered(A, pieces, a.start, EndOf(a))
  PROVE  Rendered(A, Entity(a, pieces), a.start, Reached(a))
  <1>1. /\ a.start \in Int /\ a.length \in Int /\ a.kind \in EveryKind /\ EndOf(a) \in Int
        /\ a.start <= EndOf(a) /\ a.id \in DOMAIN A /\ A[a.id].kind = a.kind
        /\ A[a.id].start \in Int /\ A[a.id].length \in Int
    <2>1. a \in Span /\ a.id \in 1..Len(A) /\ a.kind = A[a.id].kind
      BY DEF PartOf
    <2>2. DOMAIN A = 1..Len(A) /\ A[a.id] \in Received
      BY <2>1 DEF Message
    <2> QED
      BY <2>1, <2>2 DEF Span, EndOf, Received
  <1>2. ASSUME NEW u \in Int, a.start <= u, u < EndOf(a)
        PROVE  Covers(A[a.id], u)
    BY <1>1, <1>2 DEF Covers, EndOf, PartOf
  <1>3. CASE a.kind = "tag"
    <2> DEFINE s == Surround(pieces, a.id)
    <2>1. /\ pieces \in Seq(Piece(A)) /\ DOMAIN s = DOMAIN pieces
          /\ DOMAIN pieces = 1..Len(pieces) /\ Len(pieces) \in Nat
          /\ \A p \in DOMAIN pieces : pieces[p] \in Piece(A)
      BY DEF Rendered, Surround
    <2>2. \A p \in DOMAIN s : /\ s[p].is = pieces[p].is /\ s[p].at = pieces[p].at
                              /\ s[p].around = pieces[p].around \cup {a.id}
                              /\ s[p] \in Piece(A)
      BY <2>1, <1>1 DEF Surround, Piece
    <2>3. s \in Seq(Piece(A))
      <3>1. s \in [1..Len(pieces) -> Piece(A)]
        BY <2>1, <2>2 DEF Surround
      <3> QED
        BY <2>1, <3>1
    <2>4. /\ InRange(s, a.start, EndOf(a)) /\ InOrder(s)
          /\ Complete(A, s, a.start, EndOf(a)) /\ Visible(A, s, a.start, EndOf(a))
      <3>1. ASSUME s = <<>> PROVE pieces = <<>>
        <4>1. DOMAIN s = {}
          BY <3>1
        <4>2. Len(pieces) = 0
          BY <2>1, <4>1
        <4> QED
          BY <2>1, <4>2
      <3> QED
        BY <2>1, <2>2, <3>1 DEF Rendered, InRange, InOrder, Complete, Visible
    <2>5. ASSUME NEW p \in DOMAIN s, s[p].is = "unit"
          PROVE  s[p].around \subseteq Covering(A, s[p].at, {"tag"})
      <3>1. s[p].at \in Int /\ a.start <= s[p].at /\ s[p].at < EndOf(a)
        BY <2>4, <2>5, <2>2 DEF InRange, Piece
      <3>2. a.id \in Covering(A, s[p].at, {"tag"})
        BY <3>1, <1>1, <1>2, <1>3 DEF Covering
      <3> QED
        BY <3>2, <2>1, <2>2, <2>5 DEF Rendered, Deserved
    <2>6. ASSUME NEW p \in DOMAIN s, s[p].is = "pill"
          PROVE  s[p].at \in DOMAIN A /\ A[s[p].at].kind = "mention"
      BY <2>6, <2>1, <2>2 DEF Rendered, Deserved
    <2>7. Rendered(A, s, a.start, EndOf(a))
      BY <2>3, <2>4, <2>5, <2>6 DEF Rendered, Deserved
    <2> DEFINE tag == Mark("tag", a.id)
    <2>8. tag \in Piece(A) /\ tag.is = "tag"
      BY <1>1 DEF Piece, PartOf, Span, Mark
    <2> HIDE DEF s, tag
    <2>9. Rendered(A, <<tag>>, a.start, a.start)
      <3>1. \A u \in Int : ~(a.start <= u /\ u < a.start)
        BY <1>1
      <3> QED
        BY <1>1, <2>8, <3>1, RenderedMark
    <2>10. Rendered(A, <<tag>> \o s, a.start, EndOf(a))
      BY <1>1, <2>7, <2>9, RenderedConcat
    <2>11. Entity(a, pieces) = <<tag>> \o s /\ Reached(a) = EndOf(a)
      BY <1>3 DEF Entity, Reached, s, tag
    <2> QED
      BY <2>10, <2>11
  <1>4. ASSUME NEW u \in Int, a.start <= u, u < EndOf(a)
        PROVE  /\ a.kind \in NotWritten => Covering(A, u, NotWritten) # {}
               /\ a.kind = "hidden" => Covering(A, u, {"hidden"}) # {}
    BY <1>4, <1>1, <1>2 DEF Covering
  <1>5. ASSUME NEW what \in {"pill", "name"}, a.kind \in NotWritten,
               what = "pill" => a.kind = "mention"
        PROVE  Rendered(A, <<Mark(what, a.id)>>, a.start, EndOf(a))
    <2> DEFINE piece == Mark(what, a.id)
    <2>1. /\ piece \in Piece(A) /\ piece.is # "unit"
          /\ piece.is = "pill" => piece.at \in DOMAIN A /\ A[piece.at].kind = "mention"
      BY <1>1, <1>5 DEF Piece, PartOf, Span, Mark
    <2> HIDE DEF piece
    <2>2. Rendered(A, <<piece>>, a.start, EndOf(a))
      BY <1>1, <1>4, <1>5, <2>1, RenderedMark
    <2> QED
      BY <2>2 DEF piece
  <1>6. CASE a.kind \in {"mention", "named"}
    <2>1. a.kind \in NotWritten /\ Reached(a) = EndOf(a)
      BY <1>6 DEF NotWritten, Reached
    <2>2. CASE a.kind = "mention"
      <3>1. Entity(a, pieces) = <<Mark("pill", a.id)>>
        BY <2>2 DEF Entity
      <3> QED
        BY <1>5, <2>1, <2>2, <3>1
    <2>3. CASE a.kind = "named"
      <3>1. Entity(a, pieces) = <<Mark("name", a.id)>>
        BY <2>3 DEF Entity
      <3> QED
        BY <1>5, <2>1, <3>1
    <2> QED
      BY <1>6, <2>2, <2>3
  <1>7. CASE a.kind = "hidden"
    <2>1. a.kind \in NotWritten /\ Entity(a, pieces) = <<>> /\ Reached(a) = EndOf(a)
      BY <1>7 DEF NotWritten, Entity, Reached
    <2>2. <<>> \in Seq(Piece(A)) /\ InRange(<<>>, a.start, EndOf(a)) /\ InOrder(<<>>)
          /\ Deserved(A, <<>>)
      BY DEF InRange, InOrder, Deserved
    <2>3. Complete(A, <<>>, a.start, EndOf(a)) /\ Visible(A, <<>>, a.start, EndOf(a))
      BY <1>4, <1>7, <2>1 DEF Complete, Visible
    <2> QED
      BY <2>1, <2>2, <2>3 DEF Rendered
  <1>8. CASE a.kind = "unknown"
    <2>1. Entity(a, pieces) = pieces /\ Reached(a) = EndOf(a)
      BY <1>8 DEF Entity, Reached
    <2> QED
      BY <2>1
  <1>9. CASE a.kind = "plain"
    <2>1. InRange(<<>>, a.start, a.start) /\ InOrder(<<>>) /\ Deserved(A, <<>>)
      BY DEF InRange, InOrder, Deserved
    <2>2. Complete(A, <<>>, a.start, a.start) /\ Visible(A, <<>>, a.start, a.start)
      BY <1>1 DEF Complete, Visible
    <2> QED
      BY <1>9, <2>1, <2>2 DEF Entity, Reached, Rendered
  <1> QED
    BY <1>1, <1>3, <1>6, <1>7, <1>8, <1>9 DEF EveryKind

(***************************************************************************)
(* Sorting.                                                                *)
(***************************************************************************)

(* Pairs of numbers in the order of the sort, and of two equal ones the    *)
(* one at the earlier place.                                               *)
Lower(si, li, i, sj, lj, j) ==
  \/ si < sj \/ (si = sj /\ li > lj)
  \/ i < j /\ ~(sj < si \/ (sj = si /\ lj > li))

LEMMA LowerIsAnOrder ==
  ASSUME NEW si \in Int, NEW li \in Int, NEW i \in Int,
         NEW sj \in Int, NEW lj \in Int, NEW j \in Int,
         NEW sk \in Int, NEW lk \in Int, NEW k \in Int
  PROVE  /\ ~Lower(si, li, i, si, li, i)
         /\ i # j => Lower(si, li, i, sj, lj, j) \/ Lower(sj, lj, j, si, li, i)
         /\ Lower(si, li, i, sj, lj, j) /\ Lower(sj, lj, j, sk, lk, k)
              => Lower(si, li, i, sk, lk, k)
  BY DEF Lower

(* What comes first is settled for any two places of a slice. *)
LEMMA EarlierIsAnOrder ==
  ASSUME heap \in Seq(Span), NEW ids \in Seq(1..Len(heap)),
         NEW i \in 1..Len(ids), NEW j \in 1..Len(ids), NEW k \in 1..Len(ids)
  PROVE  /\ ~Earlier(ids, i, i)
         /\ i # j => Earlier(ids, i, j) \/ Earlier(ids, j, i)
         /\ Earlier(ids, i, j) /\ Earlier(ids, j, k) => Earlier(ids, i, k)
  <1> DEFINE s(p) == heap[ids[p]].start
             l(p) == heap[ids[p]].length
  <1>1. \A p \in 1..Len(ids) : s(p) \in Int /\ l(p) \in Int /\ p \in Int
    <2> TAKE p \in 1..Len(ids)
    <2>1. ids[p] \in 1..Len(heap)
      OBVIOUS
    <2>2. heap[ids[p]] \in Span
      BY <2>1
    <2>3. \A a \in Span : a.start \in Int /\ a.length \in Int
      BY DEF Span
    <2>4. p \in Int
      OBVIOUS
    <2> QED
      BY <2>2, <2>3, <2>4
  <1>2. \A p, q : Earlier(ids, p, q) <=> Lower(s(p), l(p), p, s(q), l(q), q)
    BY DEF Earlier, Before, Lower
  <1> HIDE DEF s, l
  <1> QED
    BY <1>1, <1>2, LowerIsAnOrder

LEMMA IntervalSize ==
  ASSUME NEW n \in Nat
  PROVE  /\ IsFiniteSet(1..n) /\ Cardinality(1..n) = n
         /\ IsFiniteSet(0..(n - 1)) /\ Cardinality(0..(n - 1)) = n
  <1>1. 0 \in Int /\ 1 \in Int /\ n \in Int /\ n - 1 \in Int
    OBVIOUS
  <1>2. IsFiniteSet(1..n) /\ Cardinality(1..n) = IF 1 > n THEN 0 ELSE n - 1 + 1
    BY <1>1, FS_Interval, Zenon
  <1>3. IsFiniteSet(0..(n - 1)) /\ Cardinality(0..(n - 1)) = IF 0 > n - 1 THEN 0 ELSE n - 1 - 0 + 1
    BY <1>1, FS_Interval, Zenon
  <1> QED
    BY <1>2, <1>3

(* How many places of the slice come before one.                           *)
RankOf(ids, i) == Cardinality({k \in DOMAIN ids : Earlier(ids, k, i)})

(* The places of a slice have one rank each, and every rank is taken. *)
LEMMA Ranks ==
  ASSUME heap \in Seq(Span), NEW ids \in Seq(1..Len(heap))
  PROVE  /\ \A i \in 1..Len(ids) : RankOf(ids, i) \in 0..(Len(ids) - 1)
         /\ \A i, j \in 1..Len(ids) : Earlier(ids, i, j) => RankOf(ids, i) < RankOf(ids, j)
         /\ \A i, j \in 1..Len(ids) : RankOf(ids, i) = RankOf(ids, j) => i = j
         /\ \A n \in 1..Len(ids) : \E i \in 1..Len(ids) : RankOf(ids, i) = n - 1
  <1> DEFINE D == 1..Len(ids)
             First(i) == {k \in D : Earlier(ids, k, i)}
             f == [i \in D |-> RankOf(ids, i)]
  <1>1. Len(ids) \in Nat /\ DOMAIN ids = D /\ IsFiniteSet(D) /\ Cardinality(D) = Len(ids)
    <2>1. Len(ids) \in Nat /\ DOMAIN ids = D
      OBVIOUS
    <2> QED
      BY <2>1, IntervalSize
  <1>2. \A i : RankOf(ids, i) = Cardinality(First(i))
    BY <1>1 DEF RankOf
  <1>3. ASSUME NEW i \in D
        PROVE  IsFiniteSet(First(i)) /\ Cardinality(First(i)) \in 0..(Len(ids) - 1)
    <2>1. First(i) \in SUBSET (D \ {i})
      BY EarlierIsAnOrder
    <2>2. IsFiniteSet(D \ {i}) /\ Cardinality(D \ {i}) = Len(ids) - 1
      BY <1>1, FS_RemoveElement
    <2>3. IsFiniteSet(First(i)) /\ Cardinality(First(i)) <= Len(ids) - 1
      <3> HIDE DEF First
      <3> QED
        BY <2>1, <2>2, FS_Subset
    <2>4. Cardinality(First(i)) \in Nat
      BY <2>3, FS_CardinalityType
    <2> QED
      BY <1>1, <2>3, <2>4
  <1>4. ASSUME NEW i \in D, NEW j \in D, Earlier(ids, i, j)
        PROVE  RankOf(ids, i) < RankOf(ids, j)
    <2>1. First(i) \in SUBSET First(j)
      BY <1>4, EarlierIsAnOrder
    <2>2. i \in First(j) /\ i \notin First(i)
      BY <1>4, EarlierIsAnOrder
    <2> HIDE DEF First
    <2>3. /\ Cardinality(First(i)) <= Cardinality(First(j))
          /\ Cardinality(First(i)) # Cardinality(First(j))
      BY <1>3, <2>1, <2>2, FS_Subset
    <2> QED
      BY <1>2, <1>3, <2>3
  <1>5. \A i, j \in D : RankOf(ids, i) = RankOf(ids, j) => i = j
    <2> SUFFICES ASSUME NEW i \in D, NEW j \in D, RankOf(ids, i) = RankOf(ids, j), i # j
                 PROVE  FALSE
      OBVIOUS
    <2>1. RankOf(ids, i) \in Int /\ RankOf(ids, j) \in Int
      <3> HIDE DEF First
      <3> QED
        BY <1>2, <1>3
    <2> QED
      BY <1>4, <2>1, EarlierIsAnOrder
  <1>6. f \in Surjection(D, 0..(Len(ids) - 1))
    <2>1. f \in [D -> 0..(Len(ids) - 1)]
      <3> HIDE DEF First
      <3> QED
        BY <1>2, <1>3
    <2>2. \A i, j \in D : f[i] = f[j] => i = j
      BY <1>5
    <2>3. f \in Injection(D, 0..(Len(ids) - 1))
      <3> HIDE DEF f
      <3> QED
        BY <2>1, <2>2 DEF Injection, IsInjective
    <2>4. /\ IsFiniteSet(0..(Len(ids) - 1))
          /\ Cardinality(0..(Len(ids) - 1)) = Len(ids)
      BY <1>1, IntervalSize
    <2> HIDE DEF f
    <2> QED
      BY <1>1, <2>3, <2>4, FS_Injection
  <1>7. ASSUME NEW n \in D
        PROVE  \E i \in D : RankOf(ids, i) = n - 1
    <2>1. n - 1 \in 0..(Len(ids) - 1)
      BY <1>1
    <2>2. PICK i \in D : f[i] = n - 1
      <3> HIDE DEF f
      <3> QED
        BY <1>6, <2>1 DEF Surjection
    <2> QED
      BY <2>2
  <1>8. \A i \in D : RankOf(ids, i) \in 0..(Len(ids) - 1)
    <2> HIDE DEF First
    <2> QED
      BY <1>2, <1>3
  <1> QED
    BY <1>4, <1>5, <1>7, <1>8

(* Sorted puts at each place of the slice the one with that rank.          *)
LEMMA SortedPlaces ==
  ASSUME heap \in Seq(Span), NEW ids \in Seq(1..Len(heap))
  PROVE  /\ Sorted(ids) \in Seq(1..Len(heap)) /\ Len(Sorted(ids)) = Len(ids)
         /\ \A n \in 1..Len(ids) : \E i \in 1..Len(ids) :
              RankOf(ids, i) = n - 1 /\ Sorted(ids)[n] = ids[i]
  <1> DEFINE D == 1..Len(ids)
             c(n) == CHOOSE i \in D : RankOf(ids, i) = n - 1
  <1>1. Len(ids) \in Nat /\ DOMAIN ids = D
    OBVIOUS
  <1>2. \A n \in D : c(n) \in D /\ RankOf(ids, c(n)) = n - 1
    <2> HIDE DEF D
    <2> QED
      BY Ranks DEF D
  <1>3. Sorted(ids) = [n \in D |-> ids[c(n)]]
    BY <1>1 DEF Sorted, RankOf
  <1> HIDE DEF c
  <1>4. \A n \in D : ids[c(n)] \in 1..Len(heap)
    BY <1>2, SMTT(30)
  <1>5. Sorted(ids) \in [1..Len(ids) -> 1..Len(heap)]
    BY <1>3, <1>4
  <1>6. Sorted(ids) \in Seq(1..Len(heap)) /\ Len(Sorted(ids)) = Len(ids)
    BY <1>1, <1>5
  <1> QED
    BY <1>2, <1>3, <1>6

(***************************************************************************)
(* The invariant.                                                          *)
(***************************************************************************)

(* The locals of a call; n is the number of annotations on the heap.       *)
Frame(A, n) ==
  [span : Span, ids : Seq(1..n), given : Seq(1..n), tails : Seq(1..n),
   copied : BOOLEAN, splitting : BOOLEAN, i : Nat \ {0}, j : Nat \ {0},
   out : Seq(Piece(A)), last : Nat]

(* A call has written its text up to lastOffset. *)
FrameOK(A, n, f) ==
  /\ f \in Frame(A, n)
  /\ f.last <= f.span.length
  /\ Rendered(A, f.out, f.span.start, f.span.start + f.last)

(* The annotation a call is for, and where the one that made it stands: at *)
(* that annotation, with nothing written behind the start of it.           *)
NestOK(A, caller, f) ==
  /\ PartOf(A, f.span) /\ f.span.kind # "chip"
  /\ caller.i <= Len(caller.ids)
  /\ caller.span.start + caller.last <= f.span.start
  /\ EndOf(f.span) <= EndOf(caller.span)

StackOK(A, n, cs) ==
  /\ cs \in Seq(Frame(A, n))
  /\ \A k \in 1..Len(cs) : FrameOK(A, n, cs[k])
  /\ \A k \in 1..Len(cs) : k > 1 => NestOK(A, cs[k-1], cs[k])
  /\ cs # <<>> => cs[1].span = WholeText

HeapOK(A, h) == h \in Seq(Span) /\ \A p \in 1..Len(h) : PartOf(A, h[p])

IInv ==
  /\ Message(annotations)
  /\ HeapOK(annotations, heap)
  /\ StackOK(annotations, Len(heap), calls)
  /\ parsed \in {"no", "ok", "failed", "empty"}
  /\ parsed \in {"ok", "empty"} => Rendered(annotations, html, 0, TextLength)
  /\ parsed = "empty" => html = <<>>
  /\ heap = <<>> => calls = <<>> /\ parsed = "no"
  /\ heap # <<>> => Len(annotations) <= Len(heap)

(***************************************************************************)
(* Changes of the stack.                                                   *)
(***************************************************************************)

LEMMA FrameGrows ==
  ASSUME NEW A, NEW n \in Nat, NEW m \in Nat, n <= m, NEW f, FrameOK(A, n, f)
  PROVE  FrameOK(A, m, f)
  <1>1. 1..n \subseteq 1..m
    OBVIOUS
  <1>2. Seq(1..n) \subseteq Seq(1..m)
    BY <1>1
  <1>3. Frame(A, n) \subseteq Frame(A, m)
    BY <1>2 DEF Frame
  <1> QED
    BY <1>3 DEF FrameOK

LEMMA StackGrows ==
  ASSUME NEW A, NEW n \in Nat, NEW m \in Nat, n <= m, NEW cs, StackOK(A, n, cs)
  PROVE  StackOK(A, m, cs)
  <1>1. \A k \in 1..Len(cs) : FrameOK(A, m, cs[k])
    BY FrameGrows DEF StackOK
  <1>2. cs \in Seq(Frame(A, m))
    <2>1. Len(cs) \in Nat /\ cs \in [1..Len(cs) -> Frame(A, n)]
      BY DEF StackOK
    <2>2. \A k \in 1..Len(cs) : cs[k] \in Frame(A, m)
      BY <1>1 DEF FrameOK
    <2>3. cs \in [1..Len(cs) -> Frame(A, m)]
      BY <2>1, <2>2
    <2> QED
      BY <2>1, <2>3
  <1> QED
    BY <1>1, <1>2 DEF StackOK

(* The innermost call goes on. *)
LEMMA TopGoesOn ==
  ASSUME NEW A, NEW n \in Nat, NEW cs, StackOK(A, n, cs), cs # <<>>,
         NEW f, FrameOK(A, n, f), f.span = cs[Len(cs)].span
  PROVE  StackOK(A, n, [cs EXCEPT ![Len(cs)] = f])
  <1> DEFINE ds == [cs EXCEPT ![Len(cs)] = f]
  <1>1. cs \in Seq(Frame(A, n)) /\ Len(cs) \in Nat \ {0} /\ Len(cs) \in 1..Len(cs)
    BY DEF StackOK
  <1>2. f \in Frame(A, n)
    BY DEF FrameOK
  <1>3. /\ ds \in Seq(Frame(A, n)) /\ Len(ds) = Len(cs)
        /\ \A k \in 1..Len(cs) : ds[k] = IF k = Len(cs) THEN f ELSE cs[k]
    BY <1>1, <1>2, ExceptSeq
  <1>4. ds[Len(cs)] = f /\ \A k \in 1..Len(cs) : k # Len(cs) => ds[k] = cs[k]
    BY <1>1, <1>3, Zenon
  <1> HIDE DEF ds
  <1>5. \A k \in 1..Len(cs) : FrameOK(A, n, ds[k]) /\ ds[k].span = cs[k].span
    BY <1>1, <1>4 DEF StackOK
  <1>6. ASSUME NEW k \in 1..Len(cs), k > 1
        PROVE  NestOK(A, ds[k-1], ds[k])
    <2>1. k - 1 \in 1..Len(cs) /\ k - 1 # Len(cs) /\ ds[k-1] = cs[k-1]
      BY <1>1, <1>4, <1>6
    <2>2. NestOK(A, cs[k-1], cs[k])
      BY <1>6 DEF StackOK
    <2> QED
      BY <1>5, <2>1, <2>2 DEF NestOK
  <1>7. ds # <<>> => ds[1].span = WholeText
    BY <1>1, <1>5 DEF StackOK
  <1> QED
    BY <1>3, <1>5, <1>6, <1>7 DEF StackOK, ds

(* One more call. *)
LEMMA CallEntered ==
  ASSUME NEW A, NEW n \in Nat, NEW cs, StackOK(A, n, cs), NEW f, FrameOK(A, n, f),
         cs = <<>> => f.span = WholeText,
         cs # <<>> => NestOK(A, cs[Len(cs)], f)
  PROVE  StackOK(A, n, Append(cs, f))
  <1> DEFINE ds == Append(cs, f)
  <1>1. /\ Len(cs) \in Nat /\ cs \in Seq(Frame(A, n)) /\ f \in Frame(A, n)
        /\ cs # <<>> => Len(cs) > 0
    BY DEF StackOK, FrameOK
  <1>2. /\ ds \in Seq(Frame(A, n)) /\ Len(ds) = Len(cs) + 1
        /\ ds[Len(cs) + 1] = f /\ \A k \in 1..Len(cs) : ds[k] = cs[k]
    BY <1>1
  <1> HIDE DEF ds
  <1>3. ASSUME NEW k \in 1..Len(ds)
        PROVE  FrameOK(A, n, ds[k])
    <2>1. k \in 1..Len(cs) \/ k = Len(cs) + 1
      BY <1>1, <1>2
    <2> QED
      BY <1>2, <2>1 DEF StackOK
  <1>4. ASSUME NEW k \in 1..Len(ds), k > 1
        PROVE  NestOK(A, ds[k-1], ds[k])
    <2>1. CASE k \in 1..Len(cs)
      <3>1. k - 1 \in 1..Len(cs)
        BY <1>1, <1>4, <2>1
      <3> QED
        BY <1>2, <1>4, <2>1, <3>1 DEF StackOK
    <2>2. CASE k = Len(cs) + 1
      <3>1. k - 1 = Len(cs) /\ Len(cs) \in 1..Len(cs) /\ cs # <<>>
        BY <1>1, <1>4, <2>2
      <3> QED
        BY <1>2, <2>2, <3>1
    <2> QED
      BY <1>1, <1>2, <2>1, <2>2
  <1>5. ds[1].span = WholeText
    <2>1. CASE cs = <<>>
      BY <1>2, <2>1
    <2>2. CASE cs # <<>>
      BY <1>1, <1>2, <2>2 DEF StackOK
    <2> QED
      BY <2>1, <2>2
  <1> QED
    BY <1>2, <1>3, <1>4, <1>5 DEF StackOK, ds

(* The innermost call is gone. *)
LEMMA CallLeft ==
  ASSUME NEW A, NEW n \in Nat, NEW cs, StackOK(A, n, cs), Len(cs) > 1
  PROVE  LET ds == SubSeq(cs, 1, Len(cs) - 1)
         IN  /\ StackOK(A, n, ds) /\ Len(ds) = Len(cs) - 1 /\ ds # <<>>
             /\ \A k \in 1..Len(ds) : ds[k] = cs[k]
  <1> DEFINE ds == SubSeq(cs, 1, Len(cs) - 1)
  <1>1. Len(cs) \in Nat /\ cs \in Seq(Frame(A, n))
    BY DEF StackOK
  <1>2. /\ ds \in Seq(Frame(A, n)) /\ Len(ds) = Len(cs) - 1
        /\ \A k \in 1..(Len(cs) - 1) : ds[k] = cs[k]
    BY <1>1
  <1> HIDE DEF ds
  <1>3. ds # <<>>
    BY <1>1, <1>2
  <1>4. \A k \in 1..Len(ds) : k \in 1..Len(cs) /\ (k > 1 => k - 1 \in 1..Len(ds))
    BY <1>1, <1>2
  <1>5. ds[1].span = WholeText
    BY <1>1, <1>2 DEF StackOK
  <1>6. StackOK(A, n, ds)
    BY <1>2, <1>4, <1>5 DEF StackOK
  <1> QED
    BY <1>2, <1>3, <1>6 DEF ds

(***************************************************************************)
(* Every step keeps it.                                                    *)
(***************************************************************************)

LEMMA TopFacts ==
  ASSUME IInv, calls # <<>>
  PROVE  /\ Len(heap) \in Nat /\ StackOK(annotations, Len(heap), calls)
         /\ Len(calls) \in 1..Len(calls) /\ Len(calls) \in Nat /\ heap # <<>>
         /\ FrameOK(annotations, Len(heap), Top) /\ Top \in Frame(annotations, Len(heap))
  <1>1. heap \in Seq(Span) /\ StackOK(annotations, Len(heap), calls) /\ heap # <<>>
    BY DEF IInv, HeapOK
  <1>2. Len(calls) \in 1..Len(calls) /\ Len(calls) \in Nat
    BY <1>1 DEF StackOK
  <1>3. FrameOK(annotations, Len(heap), Top)
    BY <1>1, <1>2 DEF StackOK, Top
  <1> QED
    BY <1>1, <1>2, <1>3 DEF FrameOK

(* A call whose slice and counters change has written what it had. *)
LEMMA OnlyLocals ==
  ASSUME NEW A, NEW n \in Nat, NEW f, FrameOK(A, n, f), NEW g \in Frame(A, n),
         g.span = f.span, g.out = f.out, g.last = f.last
  PROVE  FrameOK(A, n, g)
  BY DEF FrameOK

LEMMA GoOnKeeps ==
  ASSUME IInv, calls # <<>>, NEW g, FrameOK(annotations, Len(heap), g), g.span = Top.span,
         GoOn(g), UNCHANGED <<annotations, heap, parsed, html>>
  PROVE  IInv'
  <1>1. StackOK(annotations, Len(heap), [calls EXCEPT ![Len(calls)] = g])
    BY TopFacts, TopGoesOn DEF Top
  <1> QED
    BY <1>1, TopFacts DEF IInv, GoOn

LEMMA AdvanceStep == IInv /\ Advance => IInv'
  <1> SUFFICES ASSUME IInv, Advance PROVE IInv'
    OBVIOUS
  <1> DEFINE i == Top.i + 1
             j == Top.i + 2
             g == [Top EXCEPT !.i = i, !.j = j]
  <1>1. calls # <<>> /\ GoOn(g) /\ UNCHANGED <<annotations, heap, parsed, html>>
    BY DEF Advance, Splitting
  <1>2. Top \in Frame(annotations, Len(heap))
    BY <1>1, TopFacts
  <1>3. i \in Nat \ {0} /\ j \in Nat \ {0}
    BY <1>2 DEF Frame
  <1> HIDE DEF i, j
  <1>4. g \in Frame(annotations, Len(heap)) /\ g.span = Top.span /\ g.out = Top.out /\ g.last = Top.last
    BY <1>2, <1>3 DEF Frame
  <1> HIDE DEF g
  <1> QED
    BY <1>1, <1>4, TopFacts, OnlyLocals, GoOnKeeps

LEMMA SkipStep == IInv /\ Skip => IInv'
  <1> SUFFICES ASSUME IInv, Skip PROVE IInv'
    OBVIOUS
  <1> DEFINE i == Top.i + 1
             g == [Top EXCEPT !.i = i]
  <1>1. calls # <<>> /\ GoOn(g) /\ UNCHANGED <<annotations, heap, parsed, html>>
    BY DEF Skip, Walking
  <1>2. Top \in Frame(annotations, Len(heap))
    BY <1>1, TopFacts
  <1>3. i \in Nat \ {0}
    BY <1>2 DEF Frame
  <1> HIDE DEF i
  <1>4. g \in Frame(annotations, Len(heap)) /\ g.span = Top.span /\ g.out = Top.out /\ g.last = Top.last
    BY <1>2, <1>3 DEF Frame
  <1> HIDE DEF g
  <1> QED
    BY <1>1, <1>4, TopFacts, OnlyLocals, GoOnKeeps

LEMMA NormalizedStep == IInv /\ Normalized => IInv'
  <1> SUFFICES ASSUME IInv, Normalized PROVE IInv'
    OBVIOUS
  <1> DEFINE ids == Top.ids \o Top.tails
             copied == Top.copied \/ Top.tails # <<>>
             i == 1
             g == [Top EXCEPT !.ids = ids, !.copied = copied, !.splitting = FALSE, !.i = i]
  <1>1. calls # <<>> /\ GoOn(g) /\ UNCHANGED <<annotations, heap, parsed, html>>
    BY DEF Normalized, Splitting
  <1>2. Top \in Frame(annotations, Len(heap))
    BY <1>1, TopFacts
  <1>3. ids \in Seq(1..Len(heap)) /\ copied \in BOOLEAN /\ i \in Nat \ {0}
    BY <1>2 DEF Frame
  <1> HIDE DEF ids, copied, i
  <1>4. g \in Frame(annotations, Len(heap)) /\ g.span = Top.span /\ g.out = Top.out /\ g.last = Top.last
    BY <1>2, <1>3 DEF Frame
  <1> HIDE DEF g
  <1> QED
    BY <1>1, <1>4, TopFacts, OnlyLocals, GoOnKeeps

LEMMA InsertStep == IInv /\ Insert => IInv'
  <1> SUFFICES ASSUME IInv, Insert PROVE IInv'
    OBVIOUS
  <1> DEFINE ids == SubSeq(Top.ids, 1, Top.j - 1) \o Top.tails \o SubSeq(Top.ids, Top.j, Len(Top.ids))
             i == Top.j
             j == Top.j + 1
             g == [Top EXCEPT !.ids = ids, !.copied = TRUE, !.tails = <<>>, !.i = i, !.j = j]
  <1>1. /\ calls # <<>> /\ GoOn(g) /\ UNCHANGED <<annotations, heap, parsed, html>>
        /\ Top.j <= Len(Top.ids)
    BY DEF Insert, Splitting
  <1>2. Top \in Frame(annotations, Len(heap))
    BY <1>1, TopFacts
  <1>3. ids \in Seq(1..Len(heap)) /\ i \in Nat \ {0} /\ j \in Nat \ {0}
    <2>1. /\ Top.ids \in Seq(1..Len(heap)) /\ Top.tails \in Seq(1..Len(heap))
          /\ Top.j \in Nat \ {0}
      BY <1>2 DEF Frame
    <2>2. SubSeq(Top.ids, 1, Top.j - 1) \in Seq(1..Len(heap))
      BY <2>1, <1>1
    <2>3. SubSeq(Top.ids, Top.j, Len(Top.ids)) \in Seq(1..Len(heap))
      BY <2>1, <1>1
    <2> QED
      BY <2>1, <2>2, <2>3
  <1>4. <<>> \in Seq(1..Len(heap))
    OBVIOUS
  <1> HIDE DEF ids, i, j
  <1>5. g \in Frame(annotations, Len(heap)) /\ g.span = Top.span /\ g.out = Top.out /\ g.last = Top.last
    BY <1>2, <1>3, <1>4 DEF Frame
  <1> HIDE DEF g
  <1> QED
    BY <1>1, <1>5, TopFacts, OnlyLocals, GoOnKeeps

(* An annotation is cut, and its tail is the newest place of the heap. *)
LEMMA CutStep == IInv /\ Cut => IInv'
  <1> SUFFICES ASSUME IInv, Cut PROVE IInv'
    OBVIOUS
  <1> DEFINE n == Len(heap)
             id == Top.ids[Top.j]
             end == EndOf(heap[Top.ids[Top.i]])
             crosses == EndOf(heap[id]) > end
             tail == [heap[id] EXCEPT !.start = end, !.length = EndOf(heap[id]) - end]
             cut == [heap[id] EXCEPT !.length = end - heap[id].start]
             m == IF crosses THEN n + 1 ELSE n
             j == Top.j + 1
             tails == IF crosses THEN Append(Top.tails, n + 1) ELSE Top.tails
             g == [Top EXCEPT !.j = j, !.tails = tails]
  <1>1. /\ calls # <<>> /\ GoOn(g) /\ UNCHANGED <<annotations, parsed, html>>
        /\ Top.i <= Len(Top.ids) /\ Top.j <= Len(Top.ids) /\ heap[id].start < end
        /\ heap' = IF crosses THEN Append([heap EXCEPT ![id].length = end - heap[id].start], tail)
                   ELSE heap
    BY DEF Cut, Splitting
  <1>2. /\ Top \in Frame(annotations, n) /\ n \in Nat /\ StackOK(annotations, n, calls)
        /\ FrameOK(annotations, n, Top) /\ heap # <<>>
    BY <1>1, TopFacts
  <1>3. /\ id \in 1..n /\ Top.ids[Top.i] \in 1..n /\ heap \in Seq(Span)
        /\ PartOf(annotations, heap[id]) /\ heap[id] \in Span
        /\ heap[Top.ids[Top.i]] \in Span
    <2>1. Top.i \in 1..Len(Top.ids) /\ Top.j \in 1..Len(Top.ids) /\ Top.ids \in Seq(1..n)
      BY <1>1, <1>2 DEF Frame
    <2>2. id \in 1..n /\ Top.ids[Top.i] \in 1..n
      BY <2>1, ElementOfSeq
    <2> QED
      BY <2>2 DEF IInv, HeapOK
  <1>4. end \in Int /\ EndOf(heap[id]) \in Int /\ heap[id].start \in Int /\ heap[id].length \in Int
    <2>1. \A a \in Span : a.start \in Int /\ a.length \in Int /\ EndOf(a) \in Int
      BY DEF Span, EndOf
    <2> QED
      BY <1>3, <2>1
  <1> HIDE DEF id, end
  <1>5. crosses => PartOf(annotations, tail) /\ PartOf(annotations, cut)
    <2> HAVE crosses
    <2> DEFINE a == heap[id]
    <2>1. /\ a \in Span /\ PartOf(annotations, a) /\ end \in Int /\ a.start < end
          /\ EndOf(a) > end /\ a.start \in Int /\ a.length \in Int
      BY <1>1, <1>3, <1>4
    <2> HIDE DEF a
    <2> DEFINE rest == EndOf(a) - end
               kept == end - a.start
    <2>2. rest \in Int /\ kept \in Int /\ end + rest = EndOf(a) /\ a.start + kept = end
      BY <2>1, <1>4 DEF EndOf
    <2> HIDE DEF rest, kept
    <2>3. /\ [a EXCEPT !.start = end, !.length = rest] \in Span
          /\ [a EXCEPT !.length = kept] \in Span
      BY <2>1, <2>2 DEF Span
    <2>4. /\ [a EXCEPT !.start = end, !.length = rest].start = end
          /\ [a EXCEPT !.start = end, !.length = rest].length = rest
          /\ [a EXCEPT !.start = end, !.length = rest].kind = a.kind
          /\ [a EXCEPT !.start = end, !.length = rest].id = a.id
          /\ [a EXCEPT !.length = kept].start = a.start
          /\ [a EXCEPT !.length = kept].length = kept
          /\ [a EXCEPT !.length = kept].kind = a.kind
          /\ [a EXCEPT !.length = kept].id = a.id
      BY <2>1 DEF Span
    <2>5. a.id \in DOMAIN annotations /\ annotations[a.id].start \in Int
          /\ EndOf(annotations[a.id]) \in Int
      <3>1. annotations \in Seq(Received) /\ a.id \in 1..Len(annotations)
        BY <2>1 DEF PartOf, IInv, Message
      <3>2. annotations[a.id] \in Received
        BY <3>1, ElementOfSeq
      <3> QED
        BY <3>1, <3>2 DEF Received, EndOf
    <2>6. PartOf(annotations, [a EXCEPT !.start = end, !.length = rest])
      BY <2>1, <2>2, <2>3, <2>4, <2>5 DEF PartOf, EndOf
    <2>7. PartOf(annotations, [a EXCEPT !.length = kept])
      BY <2>1, <2>2, <2>3, <2>4, <2>5 DEF PartOf, EndOf
    <2> QED
      BY <2>6, <2>7 DEF a, rest, kept
  <1> HIDE DEF tail, cut
  <1>6. HeapOK(annotations, heap') /\ Len(heap') = m
    <2>1. CASE ~crosses
      BY <1>1, <2>1 DEF IInv, HeapOK
    <2>2. CASE crosses
      <3>1. heap' = Append([heap EXCEPT ![id] = cut], tail)
        BY <1>1, <2>2 DEF cut
      <3>2. tail \in Span /\ cut \in Span
        BY <1>5, <2>2 DEF PartOf
      <3> DEFINE h == [heap EXCEPT ![id] = cut]
      <3>3. /\ h \in Seq(Span) /\ Len(h) = n
            /\ \A p \in 1..n : h[p] = IF p = id THEN cut ELSE heap[p]
        BY <1>3, <3>2, ExceptSeq
      <3> HIDE DEF h
      <3>4. /\ heap' \in Seq(Span) /\ Len(heap') = n + 1 /\ heap'[n + 1] = tail
            /\ \A p \in 1..n : heap'[p] = h[p]
        BY <1>2, <3>1, <3>2, <3>3 DEF h
      <3>5. ASSUME NEW p \in 1..(n + 1)
            PROVE  PartOf(annotations, heap'[p])
        <4>1. CASE p = n + 1
          BY <1>5, <2>2, <3>4, <4>1
        <4>2. CASE p \in 1..n
          BY <1>5, <2>2, <3>3, <3>4, <4>2 DEF IInv, HeapOK
        <4> QED
          BY <1>2, <4>1, <4>2
      <3> QED
        BY <2>2, <3>4, <3>5 DEF HeapOK
    <2> QED
      BY <2>1, <2>2
  <1>7. m \in Nat /\ n <= m /\ (crosses => n + 1 \in 1..m) /\ 1..n \subseteq 1..m
    BY <1>2
  <1>8. FrameOK(annotations, m, Top) /\ StackOK(annotations, m, calls)
    <2> HIDE DEF m
    <2> QED
      BY <1>2, <1>7, FrameGrows, StackGrows
  <1>9. FrameOK(annotations, m, g) /\ g.span = Top.span
    <2>1. Top \in Frame(annotations, m) /\ Top.tails \in Seq(1..m)
      BY <1>8 DEF FrameOK, Frame
    <2>2. tails \in Seq(1..m)
      <3>1. CASE crosses
        <4> HIDE DEF m, crosses
        <4> QED
          BY <1>7, <2>1, <3>1
      <3>2. CASE ~crosses
        <4> HIDE DEF m, crosses
        <4> QED
          BY <2>1, <3>2
      <3> QED
        BY <3>1, <3>2
    <2>3. j \in Nat \ {0}
      BY <1>2 DEF Frame
    <2> HIDE DEF m, j, tails
    <2>4. g \in Frame(annotations, m) /\ g.span = Top.span /\ g.out = Top.out /\ g.last = Top.last
      BY <2>1, <2>2, <2>3 DEF Frame
    <2> HIDE DEF g
    <2> QED
      BY <1>7, <1>8, <2>4, OnlyLocals
  <1> HIDE DEF g, m
  <1>10. StackOK(annotations, m, [calls EXCEPT ![Len(calls)] = g])
    BY <1>1, <1>7, <1>8, <1>9, TopGoesOn DEF Top
  <1>11. heap' # <<>>
    BY <1>2, <1>6, <1>7 DEF IInv, HeapOK
  <1>12. Len(annotations) \in Nat /\ Len(annotations) <= Len(heap')
    BY <1>2, <1>6, <1>7 DEF IInv, Message
  <1> QED
    BY <1>1, <1>6, <1>10, <1>11, <1>12 DEF IInv, GoOn

LEMMA ArriveStep ==
  ASSUME IInv, NEW a \in Annotation, Arrive(a)
  PROVE  IInv'
  <1>1. a \in Received
    BY AnnotationsAssumption DEF Annotation, Received, EveryKind
  <1>2. Message(annotations')
    BY <1>1 DEF IInv, Message, Arrive
  <1>3. heap = <<>> /\ calls = <<>> /\ parsed = "no"
    BY DEF IInv, Arrive
  <1>4. HeapOK(annotations', <<>>) /\ StackOK(annotations', Len(heap), <<>>)
    BY DEF HeapOK, StackOK
  <1> QED
    BY <1>2, <1>3, <1>4 DEF IInv, Arrive

LEMMA CloneStep == IInv /\ CloneAnnotations => IInv'
  <1> SUFFICES ASSUME IInv, CloneAnnotations PROVE IInv'
    OBVIOUS
  <1>1. /\ annotations \in Seq(Received) /\ annotations # <<>>
        /\ Len(annotations) \in Nat /\ DOMAIN annotations = 1..Len(annotations)
        /\ calls = <<>> /\ parsed = "no"
    BY DEF IInv, Message, CloneAnnotations
  <1> DEFINE clone(p) == [start |-> annotations[p].start, length |-> annotations[p].length,
                          kind |-> annotations[p].kind, id |-> p]
  <1>2. ASSUME NEW p \in 1..Len(annotations)
        PROVE  clone(p) \in Span /\ PartOf(annotations, clone(p))
    <2>1. annotations[p] \in Received /\ p \in Int
      BY <1>1
    <2>2. clone(p) \in Span
      BY <2>1 DEF Span, Received
    <2>3. annotations[p].start \in Int /\ annotations[p].length \in Int
      BY <2>1 DEF Received
    <2> QED
      BY <2>2, <2>3 DEF PartOf, EndOf
  <1>3. heap' = [p \in 1..Len(annotations) |-> clone(p)]
    BY <1>1 DEF CloneAnnotations
  <1> HIDE DEF clone
  <1>4. HeapOK(annotations, heap') /\ heap' # <<>>
    <2>1. heap' \in [1..Len(annotations) -> Span]
      BY <1>2, <1>3
    <2>2. heap' \in Seq(Span) /\ Len(heap') = Len(annotations)
      BY <1>1, <2>1
    <2>3. Len(annotations) # 0
      BY <1>1
    <2> QED
      BY <1>2, <1>3, <2>2, <2>3 DEF HeapOK
  <1>5. StackOK(annotations, Len(heap'), <<>>)
    BY DEF StackOK
  <1>6. Len(annotations) <= Len(heap')
    BY <1>1, <1>3
  <1> QED
    BY <1>1, <1>4, <1>5, <1>6 DEF IInv, CloneAnnotations

(* A new call has written nothing. *)
LEMMA NewCall ==
  ASSUME IInv, NEW span \in Span, span.length >= 0, NEW ids \in Seq(1..Len(heap))
  PROVE  FrameOK(annotations, Len(heap), Call(span, ids)) /\ Call(span, ids).span = span
  <1> DEFINE f == Call(span, ids)
             s == Sorted(ids)
  <1>1. s \in Seq(1..Len(heap))
    BY SortedPlaces DEF IInv, HeapOK
  <1>2. span.start \in Int /\ span.length \in Int
    BY DEF Span
  <1>3. <<>> \in Seq(1..Len(heap)) /\ <<>> \in Seq(Piece(annotations))
    OBVIOUS
  <1>4. f = [span |-> span, ids |-> s, given |-> s, copied |-> FALSE,
             splitting |-> ids # <<>>, i |-> 1, j |-> 2, tails |-> <<>>, out |-> <<>>, last |-> 0]
    BY DEF Call
  <1>5. f \in Frame(annotations, Len(heap)) /\ f.span = span /\ f.last = 0 /\ f.out = <<>>
    <2> HIDE DEF s, f
    <2> QED
      BY <1>1, <1>3, <1>4 DEF Frame
  <1> HIDE DEF f
  <1>6. Rendered(annotations, <<>>, span.start, span.start)
    <2>1. /\ InRange(<<>>, span.start, span.start) /\ InOrder(<<>>)
          /\ Deserved(annotations, <<>>)
      BY DEF InRange, InOrder, Deserved
    <2>2. /\ Complete(annotations, <<>>, span.start, span.start)
          /\ Visible(annotations, <<>>, span.start, span.start)
      BY <1>2 DEF Complete, Visible
    <2> QED
      BY <1>3, <2>1, <2>2 DEF Rendered
  <1>7. span.start + 0 = span.start
    BY <1>2
  <1> QED
    BY <1>2, <1>5, <1>6, <1>7 DEF FrameOK, f

LEMMA ParseStep == IInv /\ Parse => IInv'
  <1> SUFFICES ASSUME IInv, Parse PROVE IInv'
    OBVIOUS
  <1> DEFINE n == Len(heap)
             ids == [i \in DOMAIN annotations |-> i]
             f == Call(WholeText, ids)
  <1>1. /\ heap # <<>> /\ calls = <<>> /\ parsed = "no" /\ calls' = <<f>>
        /\ UNCHANGED <<annotations, heap, parsed, html>>
    BY DEF Parse
  <1>2. WholeText \in Span /\ WholeText.length >= 0
    BY AnnotationsAssumption DEF WholeText, Span, EveryKind
  <1>3. /\ n \in Nat /\ Len(annotations) \in Nat /\ Len(annotations) <= n
        /\ DOMAIN annotations = 1..Len(annotations)
    BY <1>1 DEF IInv, HeapOK, Message
  <1>4. ids \in Seq(1..n)
    <2>1. ids \in [1..Len(annotations) -> 1..n]
      BY <1>3
    <2> QED
      BY <1>3, <2>1
  <1> HIDE DEF ids
  <1>5. FrameOK(annotations, n, f) /\ f.span = WholeText
    BY <1>2, <1>4, NewCall
  <1>6. StackOK(annotations, n, <<>>)
    BY DEF StackOK
  <1> HIDE DEF f
  <1>7. StackOK(annotations, n, Append(<<>>, f))
    BY <1>3, <1>5, <1>6, CallEntered
  <1>8. Append(<<>>, f) = <<f>>
    OBVIOUS
  <1> QED
    BY <1>1, <1>7, <1>8 DEF IInv

LEMMA OutOfBoundsStep == IInv /\ OutOfBounds => IInv'
  <1> SUFFICES ASSUME IInv, OutOfBounds PROVE IInv'
    OBVIOUS
  <1>1. StackOK(annotations, Len(heap), <<>>)
    BY DEF StackOK
  <1>2. calls # <<>>
    BY DEF OutOfBounds, Walking
  <1> QED
    BY <1>1, <1>2 DEF IInv, OutOfBounds

(* The annotation the innermost call has come to. *)
LEMMA CurrentFacts ==
  ASSUME IInv, Walking, ~AtEnd
  PROVE  /\ Top.i \in 1..Len(Top.ids) /\ Len(Top.ids) \in Nat
         /\ Top.ids \in Seq(1..Len(heap))
         /\ Current \in Span /\ PartOf(annotations, Current)
         /\ Top.span \in Span /\ Top.last \in Nat
  <1>1. calls # <<>> /\ Top.i <= Len(Top.ids)
    BY DEF Walking, AtEnd
  <1>2. Top \in Frame(annotations, Len(heap))
    BY <1>1, TopFacts
  <1>3. /\ Top.i \in Nat \ {0} /\ Top.ids \in Seq(1..Len(heap)) /\ Top.span \in Span
        /\ Top.last \in Nat
    BY <1>2 DEF Frame
  <1>4. Top.i \in 1..Len(Top.ids) /\ Len(Top.ids) \in Nat
    BY <1>1, <1>3
  <1>5. Top.ids[Top.i] \in 1..Len(heap)
    BY <1>3, <1>4, ElementOfSeq
  <1>6. PartOf(annotations, Current)
    BY <1>5 DEF IInv, HeapOK, Current
  <1> QED
    BY <1>3, <1>4, <1>6 DEF PartOf

LEMMA EnterStep == IInv /\ Enter => IInv'
  <1> SUFFICES ASSUME IInv, Enter PROVE IInv'
    OBVIOUS
  <1> DEFINE n == Len(heap)
             ids == SubSeq(Top.ids, Top.i + 1, Len(Top.ids))
             f == Call(Current, ids)
  <1>1. /\ calls # <<>> /\ calls' = Append(calls, f) /\ UNCHANGED <<annotations, heap, parsed, html>>
        /\ Walking /\ ~AtEnd /\ Current.kind # "chip" /\ WithinSpan /\ ~Behind
    BY DEF Enter, Walking
  <1>2. /\ Top.i \in 1..Len(Top.ids) /\ Len(Top.ids) \in Nat
        /\ Top.ids \in Seq(1..n)
        /\ Current \in Span /\ PartOf(annotations, Current)
        /\ Top.span \in Span /\ Top.last \in Nat
    BY <1>1, CurrentFacts
  <1>3. ids \in Seq(1..n)
    BY <1>2
  <1>4. /\ Current.start \in Int /\ Current.length \in Int
        /\ Top.span.start \in Int /\ Top.span.length \in Int
    BY <1>2 DEF Span
  <1>5. /\ Current.length >= 0 /\ EndOf(Current) <= EndOf(Top.span)
        /\ Top.span.start + Top.last <= Current.start
    <2>1. ~(Current.start - Top.span.start < Top.last)
      BY <1>1 DEF Behind
    <2>2. Current.length >= 0 /\ EndOf(Current) <= Top.span.start + Top.span.length
      BY <1>1 DEF WithinSpan, SpanWithinParent
    <2> QED
      BY <1>2, <1>4, <2>1, <2>2 DEF EndOf
  <1> HIDE DEF ids
  <1>6. FrameOK(annotations, n, f) /\ f.span = Current
    BY <1>2, <1>3, <1>5, NewCall
  <1> HIDE DEF f
  <1>7. NestOK(annotations, Top, f)
    BY <1>1, <1>2, <1>5, <1>6 DEF NestOK
  <1>8. StackOK(annotations, n, calls) /\ n \in Nat /\ heap # <<>>
    BY <1>1, TopFacts
  <1>9. StackOK(annotations, n, Append(calls, f))
    BY <1>1, <1>6, <1>7, <1>8, CallEntered DEF Top
  <1> QED
    BY <1>1, <1>8, <1>9 DEF IInv

(* What a call that has come to its end leaves: its text, rendered.        *)
LEMMA PiecesRendered ==
  ASSUME NEW A, NEW n \in Nat, NEW f, FrameOK(A, n, f)
  PROVE  Rendered(A, Rendering(f), f.span.start, EndOf(f.span))
  <1> DEFINE mid == f.span.start + f.last
  <1>1. /\ f.span.start \in Int /\ f.span.length \in Int /\ f.last \in Nat
        /\ f.last <= f.span.length
    BY DEF FrameOK, Frame, Span
  <1>2. mid \in Int /\ EndOf(f.span) \in Int /\ f.span.start <= mid /\ mid <= EndOf(f.span)
    BY <1>1 DEF EndOf
  <1>3. Rendered(A, f.out, f.span.start, mid)
    BY DEF FrameOK
  <1>4. Rendering(f) = f.out \o Units(mid, EndOf(f.span))
    BY DEF Rendering
  <1> HIDE DEF mid
  <1>5. Rendered(A, Units(mid, EndOf(f.span)), mid, EndOf(f.span))
    BY <1>2, RenderedUnits
  <1> QED
    BY <1>1, <1>2, <1>3, <1>4, <1>5, RenderedConcat

LEMMA FinishStep == IInv /\ Finish => IInv'
  <1> SUFFICES ASSUME IInv, Finish PROVE IInv'
    OBVIOUS
  <1>1. /\ calls # <<>> /\ Len(calls) = 1 /\ html' = Rendering(Top)
        /\ parsed' \in {"ok", "empty"} /\ (parsed' = "empty" => html' = <<>>)
        /\ calls' = <<>> /\ UNCHANGED <<annotations, heap>>
    BY DEF Finish, Walking
  <1>2. FrameOK(annotations, Len(heap), Top) /\ Len(heap) \in Nat /\ heap # <<>>
    BY <1>1, TopFacts
  <1>3. Top.span = WholeText
    BY <1>1, TopFacts DEF StackOK, Top
  <1>4. Rendered(annotations, Rendering(Top), Top.span.start, EndOf(Top.span))
    BY <1>2, PiecesRendered
  <1>5. WholeText.start = 0 /\ EndOf(WholeText) = TextLength
    BY AnnotationsAssumption DEF WholeText, EndOf
  <1>6. StackOK(annotations, Len(heap), <<>>)
    BY DEF StackOK
  <1> QED
    BY <1>1, <1>2, <1>3, <1>4, <1>5, <1>6 DEF IInv

(* The caller of the innermost call takes over what that has written.      *)
LEMMA ReturnStep == IInv /\ Return => IInv'
  <1> SUFFICES ASSUME IInv, Return PROVE IInv'
    OBVIOUS
  <1> DEFINE A == annotations
             n == Len(heap)
             m == Len(calls) - 1
             caller == calls[m]
             a == Top.span
             rest == SubSeq(calls, 1, Len(calls) - 1)
             ids == SliceAfter(caller, Top)
             i == caller.i + 1
             before == Units(caller.span.start + caller.last, a.start)
             out == caller.out \o before \o Entity(a, Rendering(Top))
             last == LastOffset(a, a.start - caller.span.start)
             g == [caller EXCEPT !.ids = ids, !.i = i, !.out = out, !.last = last]
  <1>1. /\ calls # <<>> /\ Len(calls) > 1 /\ calls' = [rest EXCEPT ![m] = g]
        /\ UNCHANGED <<annotations, heap, parsed, html>>
    <2>1. caller.out \o before \o Entity(a, Rendering(Top)) = out
      OBVIOUS
    <2> QED
      BY DEF Return, Walking
  <1>2. /\ n \in Nat /\ heap # <<>> /\ StackOK(A, n, calls) /\ Len(calls) \in Nat
        /\ FrameOK(A, n, Top) /\ Top \in Frame(A, n)
    BY <1>1, TopFacts
  <1>3. /\ StackOK(A, n, rest) /\ Len(rest) = m /\ rest # <<>> /\ m \in 1..Len(rest)
        /\ rest[m] = caller
    <2>1. m \in 1..m
      BY <1>1, <1>2
    <2> QED
      BY <1>1, <1>2, <2>1, CallLeft
  <1>4. FrameOK(A, n, caller) /\ caller \in Frame(A, n)
    BY <1>3 DEF StackOK, FrameOK
  <1>5. NestOK(A, caller, Top)
    <2>1. Len(calls) \in 1..Len(calls)
      BY <1>1, <1>2
    <2> QED
      BY <1>1, <1>2, <2>1 DEF StackOK, Top
  <1> HIDE DEF caller, rest, m
  <1>6. /\ a.start \in Int /\ a.length \in Nat /\ a.kind # "chip" /\ PartOf(A, a)
        /\ caller.span.start \in Int /\ caller.span.length \in Int /\ caller.last \in Nat
        /\ caller.span.start + caller.last <= a.start /\ EndOf(a) <= EndOf(caller.span)
    <2>1. a \in Span /\ caller.span \in Span /\ caller.last \in Nat /\ Top.last \in Nat
      BY <1>2, <1>4 DEF Frame
    <2>2. Top.last <= a.length
      BY <1>2 DEF FrameOK
    <2>3. \A s \in Span : s.start \in Int /\ s.length \in Int
      BY DEF Span
    <2>4. a.length \in Nat
      BY <2>1, <2>2, <2>3
    <2> QED
      BY <1>5, <2>1, <2>3, <2>4 DEF NestOK
  <1>7. ids \in Seq(1..n)
    <2>1. /\ caller.ids \in Seq(1..n) /\ caller.i \in Nat \ {0} /\ caller.i <= Len(caller.ids)
          /\ Top.ids \in Seq(1..n) /\ Top.given \in Seq(1..n)
      BY <1>2, <1>4, <1>5 DEF Frame, NestOK
    <2>2. SubSeq(caller.ids, 1, caller.i) \in Seq(1..n)
      BY <2>1
    <2>3. (IF Top.copied THEN Top.given ELSE Top.ids) \in Seq(1..n)
      BY <2>1
    <2> QED
      BY <2>2, <2>3 DEF SliceAfter
  <1>8. i \in Nat \ {0}
    BY <1>4 DEF Frame
  <1>9. last \in Nat /\ last <= caller.span.length /\ caller.span.start + last = Reached(a)
    BY <1>6 DEF LastOffset, Reached, EndOf
  <1>10. Rendered(A, out, caller.span.start, caller.span.start + last)
    <2> DEFINE mid == caller.span.start + caller.last
    <2>1. mid \in Int /\ mid <= a.start /\ caller.span.start <= mid
      BY <1>6
    <2>2. Rendered(A, caller.out, caller.span.start, mid)
      BY <1>4 DEF FrameOK
    <2>3. Rendered(A, before, mid, a.start)
      BY <1>6, <2>1, RenderedUnits
    <2> HIDE DEF mid, before
    <2>4. Rendered(A, caller.out \o before, caller.span.start, a.start)
      BY <1>6, <2>1, <2>2, <2>3, RenderedConcat
    <2>5. Rendered(A, Rendering(Top), a.start, EndOf(a))
      BY <1>2, PiecesRendered
    <2>6. Rendered(A, Entity(a, Rendering(Top)), a.start, Reached(a))
      BY <1>6, <2>5, RenderedEntity DEF IInv
    <2>7. Reached(a) \in Int /\ a.start <= Reached(a)
      BY <1>6 DEF Reached, EndOf
    <2>8. caller.span.start <= a.start
      BY <1>6
    <2>9. Rendered(A, (caller.out \o before) \o Entity(a, Rendering(Top)), caller.span.start, Reached(a))
      BY <1>6, <2>4, <2>6, <2>7, <2>8, RenderedConcat
    <2> QED
      BY <1>9, <2>9
  <1> HIDE DEF ids, i, out, last
  <1>11. FrameOK(A, n, g) /\ g.span = caller.span
    <2>1. out \in Seq(Piece(A))
      BY <1>10 DEF Rendered
    <2>2. g \in Frame(A, n) /\ g.span = caller.span /\ g.out = out /\ g.last = last
      BY <1>4, <1>7, <1>8, <1>9, <2>1 DEF Frame
    <2> HIDE DEF g
    <2> QED
      BY <1>9, <1>10, <2>2 DEF FrameOK
  <1> HIDE DEF g
  <1>12. StackOK(A, n, [rest EXCEPT ![m] = g])
    BY <1>2, <1>3, <1>11, TopGoesOn
  <1> QED
    BY <1>1, <1>2, <1>12 DEF IInv

LEMMA InitInv == AnnotationsInit => IInv
  <1> SUFFICES ASSUME AnnotationsInit PROVE IInv
    OBVIOUS
  <1>1. HeapOK(<<>>, <<>>) /\ Message(<<>>) /\ StackOK(<<>>, 0, <<>>) /\ Len(<<>>) = 0
    BY DEF HeapOK, Message, StackOK
  <1> QED
    BY <1>1 DEF AnnotationsInit, IInv

LEMMA NextInv == IInv /\ [AnnotationsNext]_annotationVars => IInv'
  <1> SUFFICES ASSUME IInv, [AnnotationsNext]_annotationVars PROVE IInv'
    OBVIOUS
  <1>1. ASSUME NEW a \in Annotation, Arrive(a)
        PROVE  IInv'
    BY <1>1, ArriveStep
  <1>2. CASE Convert
    BY <1>2, CloneStep, ParseStep, CutStep, InsertStep, AdvanceStep, NormalizedStep,
       SkipStep, OutOfBoundsStep, EnterStep, ReturnStep, FinishStep DEF Convert
  <1>3. CASE UNCHANGED annotationVars
    BY <1>3 DEF IInv, annotationVars
  <1> QED
    BY <1>1, <1>2, <1>3 DEF AnnotationsNext

(* Whatever annotations a message has, wherever they lie: if it is turned  *)
(* into HTML, that has each unit of the text once and in order, with no    *)
(* other tags than the sender's, and none is missing but what is hidden or *)
(* behind a pill or a name.                                                *)
THEOREM TextSurvives == AnnotationsSpec => []TextRenderedOnce
  <1>1. IInv => TextRenderedOnce
    <2> SUFFICES ASSUME IInv, parsed = "ok" PROVE TextRenderedOnce
      BY DEF TextRenderedOnce
    <2>1. Rendered(annotations, html, 0, TextLength)
      BY DEF IInv
    <2>2. \A u, kinds : CoveredBy(u, kinds) = Covering(annotations, u, kinds)
      BY DEF CoveredBy, Covering
    <2>3. \A p, q \in DOMAIN html :
            p < q /\ html[p].is = "unit" /\ html[q].is = "unit" => html[p].at < html[q].at
      BY <2>1 DEF Rendered, InOrder
    <2>4. ASSUME NEW u \in 0..(TextLength - 1), CoveredBy(u, NotWritten) = {}
          PROVE  PlacesOf(u) # {}
      <3>1. u \in Int /\ 0 <= u /\ u < TextLength
        BY AnnotationsAssumption
      <3>2. \E p \in DOMAIN html : html[p].is = "unit" /\ html[p].at = u
        BY <2>1, <2>2, <2>4, <3>1 DEF Rendered, Complete
      <3> QED
        BY <3>2 DEF PlacesOf
    <2>5. \A p \in DOMAIN html :
            html[p].is = "unit" => html[p].around \subseteq CoveredBy(html[p].at, {"tag"})
      BY <2>1, <2>2 DEF Rendered, Deserved
    <2>6. \A p \in DOMAIN html : html[p].is = "pill" => annotations[html[p].at].kind = "mention"
      BY <2>1 DEF Rendered, Deserved
    <2> QED
      BY <2>3, <2>4, <2>5, <2>6 DEF TextRenderedOnce
  <1> QED
    BY <1>1, InitInv, NextInv, PTL DEF AnnotationsSpec

(***************************************************************************)
(* The markup.                                                             *)
(*                                                                         *)
(* MInv says what the splitting achieves at every depth of the recursion.  *)
(* Annotations that cross (Cross) are left only below one that nothing     *)
(* crosses and that ends before another begins (Clean): there the          *)
(* splitting jumps, and leaves what is below to the nested call.  What     *)
(* lies beyond the text of a call (From its Edge) was split by its caller, *)
(* and is not cut again.                                                   *)
(***************************************************************************)

(* What MarkupKept is about. *)
Good(A) ==
  \A n \in DOMAIN A : /\ SpanWithinParent(A[n], 0, TextLength) /\ A[n].kind # "plain"
                      /\ A[n].kind = "chip" => A[n].length = 0

(* Where the annotation at a place begins and ends, and that at a place of *)
(* a slice.                                                                *)
Start(h, p) == h[p].start
Till(h, p) == EndOf(h[p])
StartAt(h, s, p) == Start(h, s[p])
TillAt(h, s, p) == Till(h, s[p])
ChipAt(h, s, p) == h[s[p]].kind = "chip"

HeapGood(h) ==
  \A p \in 1..Len(h) : /\ Start(h, p) <= Till(h, p) /\ h[p].kind # "plain"
                       /\ h[p].kind = "chip" => Till(h, p) = Start(h, p)

PlacesIn(s) == {s[p] : p \in 1..Len(s)}
Distinct(s) == \A p, q \in 1..Len(s) : s[p] = s[q] => p = q

(* Place p of a slice may stand before place q of another in a sorted one. *)
Front(h, s, p, t, q) ==
  \/ StartAt(h, s, p) < StartAt(h, t, q)
  \/ StartAt(h, s, p) = StartAt(h, t, q) /\ TillAt(h, t, q) <= TillAt(h, s, p)

Cross(h, p, q) ==
  Start(h, p) < Start(h, q) /\ Start(h, q) < Till(h, p) /\ Till(h, p) < Till(h, q)
Holds(h, k, p, q) == Start(h, k) <= Start(h, p) /\ Till(h, q) <= Till(h, k)
Free(h, P, k) == \A r \in P : ~Cross(h, k, r) /\ ~Cross(h, r, k)
Parted(h, P, k) == \E r \in P : Till(h, k) <= Start(h, r)
Clean(h, P) ==
  \A p, q \in P : Cross(h, p, q) =>
    \E k \in P : Holds(h, k, p, q) /\ Free(h, P, k) /\ Parted(h, P, k)

From(h, P, x) == {p \in P : Start(h, p) >= x}

(* Sorted, as far as it lies from x on by length too. *)
Arrayed(h, s, x) ==
  \A p, q \in 1..Len(s) : p < q =>
    StartAt(h, s, p) <= StartAt(h, s, q) /\ (StartAt(h, s, p) >= x => Front(h, s, p, s, q))

Within(h, s, from, to) ==
  \A p \in 1..Len(s) : /\ from <= StartAt(h, s, p)
                       /\ StartAt(h, s, p) < to => TillAt(h, s, p) <= to

Markup == {"tag"} \cup NotWritten

(* No mark over unit u is lost: a part of the annotation is still to come, *)
(* or a call under way is for one.                                         *)
Marked(A, h, P, u, around) ==
  \A n \in Covering(A, u, Markup) :
    n \in around \/ \E p \in P : h[p].id = n /\ Start(h, p) <= u /\ u < Till(h, p)

(* What is written lacks only the marks of the calls under way. *)
Exactly(A, pieces, around) ==
  \A p \in DOMAIN pieces : pieces[p].is = "unit" =>
    /\ Covering(A, pieces[p].at, {"tag"}) \subseteq pieces[p].around \cup around
    /\ Covering(A, pieces[p].at, NotWritten) \subseteq around

Edge(f) == EndOf(f.span)
Pos(f) == f.span.start + f.last

Done(ids, i) == {ids[p] : p \in {q \in 1..Len(ids) : q < i}}
Rest(ids, i) == {ids[p] : p \in {q \in 1..Len(ids) : q >= i}}

(* The slice of a call, and the one its caller shares with it. *)
SliceOK(h, f) ==
  /\ Distinct(f.ids) /\ Within(h, f.ids, f.span.start, Edge(f))
  /\ Distinct(f.given) /\ Arrayed(h, f.given, Edge(f))
  /\ ~f.copied => Arrayed(h, f.ids, Edge(f)) /\ PlacesIn(f.ids) = PlacesIn(f.given)

(* While a call splits.  The first annotation that is not a chip is the    *)
(* first one of all.                                                       *)
HeadOK(h, ids, tails) ==
  \A p \in 1..Len(ids) : (\A r \in 1..(p-1) : ChipAt(h, ids, r)) =>
    /\ \A q \in 1..Len(ids) : p < q => Front(h, ids, p, ids, q)
    /\ \A b \in 1..Len(tails) : Front(h, ids, p, tails, b)

(* The tails lie within the text of the call, behind what is still to be   *)
(* split, and do not cross each other.                                     *)
TailOK(h, ids, tails, i, j, from, x, b) ==
  /\ \A p \in 1..Len(ids) : ids[p] # tails[b]
  /\ StartAt(h, tails, b) < TillAt(h, tails, b)
  /\ from <= StartAt(h, tails, b) /\ TillAt(h, tails, b) <= x
  /\ \E p \in 1..Len(ids) : p <= i /\ ~ChipAt(h, ids, p)
  /\ \/ i <= Len(ids) /\ StartAt(h, ids, i) < x
     \/ \A p \in 1..Len(ids) : StartAt(h, ids, p) < x
  /\ \A c \in 1..Len(tails) : b < c =>
       \/ StartAt(h, tails, b) = StartAt(h, tails, c)
       \/ TillAt(h, tails, c) <= StartAt(h, tails, b)
  /\ i <= Len(ids) =>
       /\ TillAt(h, ids, i) <= StartAt(h, tails, b)
       /\ \A q \in 1..Len(ids) : q > i =>
            \/ TillAt(h, ids, q) <= StartAt(h, tails, b)
            \/ q >= j /\ StartAt(h, tails, b) = TillAt(h, ids, i)
TailsOK(h, ids, tails, i, j, from, x) ==
  Distinct(tails) /\ \A b \in 1..Len(tails) : TailOK(h, ids, tails, i, j, from, x, b)

(* What lies from x on is in order, and without any crossing but below     *)
(* what the splitting jumps over.                                          *)
BeyondOK(h, ids, i, x) ==
  /\ \A p, q \in 1..Len(ids) : p < q /\ StartAt(h, ids, p) >= x => Front(h, ids, p, ids, q)
  /\ \A p \in 1..Len(ids) : p < i /\ StartAt(h, ids, p) >= x =>
       \/ \A q \in 1..Len(ids) : q >= i => TillAt(h, ids, p) <= StartAt(h, ids, q)
       \/ \A q \in 1..Len(ids) : StartAt(h, ids, q) < TillAt(h, ids, p)
  /\ Clean(h, From(h, PlacesIn(ids), x))

(* From place i on some tails, each behind all that follows, then what is  *)
(* sorted.  What was compared with annotation i is within it.              *)
RowsOK(h, ids, i, j) ==
  /\ \A p \in 1..Len(ids) : p >= i =>
      \/ \A q, r \in 1..Len(ids) : p <= q /\ q < r => StartAt(h, ids, q) <= StartAt(h, ids, r)
      \/ StartAt(h, ids, p) < TillAt(h, ids, p) /\ \A q \in 1..Len(ids) : p < q =>
           /\ StartAt(h, ids, q) <= StartAt(h, ids, p)
           /\ TillAt(h, ids, q) <= StartAt(h, ids, p) \/ StartAt(h, ids, q) = StartAt(h, ids, p)
  /\ \A q \in 1..Len(ids) : i < q /\ q < j =>
       StartAt(h, ids, q) < TillAt(h, ids, i) /\ TillAt(h, ids, q) <= TillAt(h, ids, i)

(* What is split crosses nothing that is to be split, and is clean. *)
Apart(h, p, q) ==
  \/ Till(h, p) <= Start(h, q)
  \/ Till(h, q) <= Till(h, p) /\ (Start(h, p) <= Start(h, q) \/ Till(h, q) <= Start(h, p))
DoneOK(h, ids, tails, i) ==
  /\ \A p \in Done(ids, i), q \in Rest(ids, i) \cup PlacesIn(tails) : Apart(h, p, q)
  /\ \A p, q \in Done(ids, i) : Cross(h, p, q) =>
       \E k \in Done(ids, i) :
         /\ Holds(h, k, p, q) /\ Free(h, Done(ids, i), k)
         /\ Parted(h, PlacesIn(ids) \cup PlacesIn(tails), k)

ToCome(f) == PlacesIn(f.ids) \cup PlacesIn(f.tails)

SplitOK(A, h, f, around) ==
  /\ f.i < f.j /\ f.last = 0
  /\ HeadOK(h, f.ids, f.tails)
  /\ TailsOK(h, f.ids, f.tails, f.i, f.j, f.span.start, Edge(f))
  /\ BeyondOK(h, f.ids, f.i, Edge(f))
  /\ RowsOK(h, f.ids, f.i, f.j)
  /\ DoneOK(h, f.ids, f.tails, f.i)
  /\ \A u \in Int : f.span.start <= u /\ u < Edge(f) => Marked(A, h, ToCome(f), u, around)

(* While a call walks: what is to come is in order as soon as a nested     *)
(* call has sorted it, which the first one does.                           *)
OrderOK(h, ids, i, pos) ==
  \A p, q \in 1..Len(ids) :
    /\ i <= p /\ p < q
    /\ \A r \in 1..Len(ids) : i <= r /\ r < p => ChipAt(h, ids, r) \/ StartAt(h, ids, r) < pos
    => /\ StartAt(h, ids, p) <= StartAt(h, ids, q)
       /\ StartAt(h, ids, p) >= pos => Front(h, ids, p, ids, q)

WalkOK(A, h, f, around) ==
  /\ \A p \in Rest(f.ids, f.i) : Start(h, p) < Pos(f) => Till(h, p) <= Pos(f)
  /\ OrderOK(h, f.ids, f.i, Pos(f))
  /\ Clean(h, From(h, Rest(f.ids, f.i), Pos(f)))
  /\ \A u \in Int : Pos(f) <= u /\ u < Edge(f) => Marked(A, h, Rest(f.ids, f.i), u, around)

(* While a call waits for the one for annotation a. *)
WaitOK(A, h, f, a, around) ==
  /\ ~f.splitting /\ f.i <= Len(f.ids)
  /\ StartAt(h, f.ids, f.i) = a.start /\ a.start < Edge(f)
  /\ \A p \in Rest(f.ids, f.i + 1) :
       /\ a.start <= Start(h, p)
       /\ Start(h, p) < EndOf(a) => Till(h, p) <= EndOf(a)
  /\ Clean(h, From(h, Rest(f.ids, f.i + 1), EndOf(a)))
  /\ \A u \in Int : Pos(f) <= u /\ u < a.start => Covering(A, u, Markup) \subseteq around
  /\ \A u \in Int :
       EndOf(a) <= u /\ u < Edge(f) => Marked(A, h, Rest(f.ids, f.i + 1), u, around)

AroundOf(cs, k) == {cs[m].span.id : m \in 1..k}

CallOK(A, h, cs, k) ==
  /\ SliceOK(h, cs[k]) /\ Exactly(A, cs[k].out, AroundOf(cs, k))
  /\ k < Len(cs) => /\ WaitOK(A, h, cs[k], cs[k+1].span, AroundOf(cs, k))
                    /\ PlacesIn(cs[k+1].given) = Rest(cs[k].ids, cs[k].i + 1)
  /\ k = Len(cs) => IF cs[k].splitting THEN SplitOK(A, h, cs[k], AroundOf(cs, k))
                    ELSE WalkOK(A, h, cs[k], AroundOf(cs, k))

CallsOK(A, h, cs) ==
  /\ \A k \in 1..Len(cs) : CallOK(A, h, cs, k)
  /\ \A k, m \in 1..Len(cs) : k <= m => Edge(cs[m]) <= Edge(cs[k])

(* The clones, as long as none is cut. *)
Cloned(A, h) ==
  /\ Len(h) = Len(A)
  /\ \A n \in 1..Len(A) : /\ h[n].id = n /\ Start(h, n) = A[n].start
                          /\ h[n].length = A[n].length

MInv ==
  Good(annotations) =>
    /\ parsed # "failed"
    /\ parsed = "ok" => Exactly(annotations, html, {0})
    /\ HeapGood(heap)
    /\ calls = <<>> /\ parsed = "no" /\ heap # <<>> => Cloned(annotations, heap)
    /\ CallsOK(annotations, heap, calls)

(***************************************************************************)
(* Places and their numbers.                                               *)
(***************************************************************************)

(* A place of the heap has numbers. *)
Placed(h, p) ==
  /\ Start(h, p) \in Int /\ Till(h, p) \in Int /\ Start(h, p) <= Till(h, p)
  /\ h[p].kind = "chip" => Till(h, p) = Start(h, p)

(* A slice of such places. *)
Numbered(h, s) ==
  /\ Len(s) \in Nat
  /\ \A p \in 1..Len(s) :
       /\ p \in Int /\ StartAt(h, s, p) \in Int /\ TillAt(h, s, p) \in Int
       /\ StartAt(h, s, p) <= TillAt(h, s, p)
       /\ ChipAt(h, s, p) => TillAt(h, s, p) = StartAt(h, s, p)

(* So are all of a slice. *)
AllPlaced(h, s) == \A p \in 1..Len(s) : Placed(h, s[p])

(* Every place of a good heap has numbers. *)
LEMMA PlaceNumbers ==
  ASSUME NEW h \in Seq(Span), HeapGood(h)
  PROVE  /\ Len(h) \in Nat
         /\ \A p \in 1..Len(h) : h[p] \in Span /\ Placed(h, p)
  <1>1. \A p \in 1..Len(h) : h[p] \in Span
    OBVIOUS
  <1>2. \A a \in Span : a.start \in Int /\ EndOf(a) \in Int
    BY DEF Span, EndOf
  <1> QED
    BY <1>1, <1>2 DEF HeapGood, Placed, Start, Till

(* So has every slice of it. *)
LEMMA Numbers ==
  ASSUME NEW h \in Seq(Span), HeapGood(h), NEW s \in Seq(1..Len(h))
  PROVE  Numbered(h, s) /\ AllPlaced(h, s)
  <1>1. Len(s) \in Nat /\ \A p \in 1..Len(s) : s[p] \in 1..Len(h) /\ p \in Int
    OBVIOUS
  <1> QED
    BY <1>1, PlaceNumbers DEF Numbered, AllPlaced, Placed, StartAt, TillAt, ChipAt

(* What is apart does not cross. *)
LEMMA ApartNoCross ==
  ASSUME NEW h, NEW p, NEW q, Placed(h, p), Placed(h, q), Apart(h, p, q)
  PROVE  ~Cross(h, p, q) /\ ~Cross(h, q, p)
  BY DEF Apart, Cross, Placed

(* What lies beyond the text of a call is not cut. *)
LEMMA CutInside ==
  ASSUME NEW h, NEW ids, Numbered(h, ids),
         NEW i \in 1..Len(ids), NEW j \in 1..Len(ids), i < j,
         NEW from, NEW x \in Int, Within(h, ids, from, x), BeyondOK(h, ids, i, x),
         StartAt(h, ids, j) < TillAt(h, ids, i), TillAt(h, ids, i) < TillAt(h, ids, j)
  PROVE  StartAt(h, ids, j) < x
  <1> SUFFICES ASSUME StartAt(h, ids, j) >= x PROVE FALSE
    BY DEF Numbered
  <1>2. \A p, q \in 1..Len(ids) : p < q /\ StartAt(h, ids, p) >= x => Front(h, ids, p, ids, q)
    BY DEF BeyondOK
  <1>3. \A p \in 1..Len(ids) : p < i /\ StartAt(h, ids, p) >= x =>
          \/ \A q \in 1..Len(ids) : q >= i => TillAt(h, ids, p) <= StartAt(h, ids, q)
          \/ \A q \in 1..Len(ids) : StartAt(h, ids, q) < TillAt(h, ids, p)
    BY DEF BeyondOK
  <1>4. \A p \in 1..Len(ids) : StartAt(h, ids, p) < x => TillAt(h, ids, p) <= x
    BY DEF Within
  <1>5. StartAt(h, ids, i) >= x /\ StartAt(h, ids, i) < StartAt(h, ids, j)
    BY <1>2, <1>4 DEF Numbered, Front
  <1>6. PICK q, m \in 1..Len(ids) :
          /\ StartAt(h, ids, q) >= x /\ StartAt(h, ids, q) <= StartAt(h, ids, i)
          /\ TillAt(h, ids, j) <= TillAt(h, ids, q) /\ TillAt(h, ids, q) <= StartAt(h, ids, m)
    <2> DEFINE P == From(h, PlacesIn(ids), x)
    <2>1. Clean(h, P) /\ ids[i] \in P /\ ids[j] \in P /\ Cross(h, ids[i], ids[j])
      BY <1>5 DEF BeyondOK, From, PlacesIn, Cross, StartAt, TillAt
    <2>2. PICK k \in P : Holds(h, k, ids[i], ids[j]) /\ Parted(h, P, k)
      BY <2>1 DEF Clean
    <2>3. PICK r \in P : Till(h, k) <= Start(h, r)
      BY <2>2 DEF Parted
    <2>4. PICK q \in 1..Len(ids) : k = ids[q] /\ Start(h, k) >= x
      BY DEF From, PlacesIn
    <2>5. PICK m \in 1..Len(ids) : r = ids[m]
      BY DEF From, PlacesIn
    <2> QED
      BY <2>2, <2>3, <2>4, <2>5 DEF Holds, StartAt, TillAt
  <1>7. q < i
    <2>1. CASE q > i
      <3>1. Front(h, ids, i, ids, q)
        BY <2>1, <1>2, <1>5
      <3> QED
        BY <3>1, <1>6 DEF Numbered, Front
    <2> QED
      BY <2>1, <1>6 DEF Numbered
  <1> QED
    BY <1>3, <1>5, <1>6, <1>7, SMTT(30) DEF Numbered

(***************************************************************************)
(* Sorting.                                                                *)
(***************************************************************************)

(* Sorted orders a slice, and changes nothing else about it. *)
LEMMA SortedFacts ==
  ASSUME heap \in Seq(Span), HeapGood(heap), NEW ids \in Seq(1..Len(heap)), Distinct(ids)
  PROVE  /\ Sorted(ids) \in Seq(1..Len(heap)) /\ Len(Sorted(ids)) = Len(ids)
         /\ PlacesIn(Sorted(ids)) = PlacesIn(ids) /\ Distinct(Sorted(ids))
         /\ \A p, q \in 1..Len(ids) : p < q => Front(heap, Sorted(ids), p, Sorted(ids), q)
  <1> DEFINE s == Sorted(ids)
             D == 1..Len(ids)
  <1>1. s \in Seq(1..Len(heap)) /\ Len(s) = Len(ids)
    BY SortedPlaces
  <1>2. \A n \in D : \E i \in D : RankOf(ids, i) = n - 1 /\ s[n] = ids[i]
    BY SortedPlaces
  <1> HIDE DEF s
  <1>3. \A i, j \in D : RankOf(ids, i) = RankOf(ids, j) => i = j
    BY Ranks
  <1>4. Len(ids) \in Nat /\ \A i \in D : RankOf(ids, i) \in 0..(Len(ids) - 1)
    BY Ranks
  <1>5. PlacesIn(s) \subseteq PlacesIn(ids)
    BY <1>1, <1>2 DEF PlacesIn
  <1>6. PlacesIn(ids) \subseteq PlacesIn(s)
    <2> SUFFICES ASSUME NEW i \in D PROVE \E n \in D : s[n] = ids[i]
      BY <1>1 DEF PlacesIn
    <2>1. RankOf(ids, i) + 1 \in D /\ (RankOf(ids, i) + 1) - 1 = RankOf(ids, i)
      BY <1>4
    <2>2. PICK k \in D : RankOf(ids, k) = RankOf(ids, i) /\ s[RankOf(ids, i) + 1] = ids[k]
      BY <1>2, <2>1
    <2>3. k = i
      BY <1>3, <2>2
    <2> QED
      BY <2>1, <2>2, <2>3
  <1>7. Distinct(s)
    <2> SUFFICES ASSUME NEW n \in D, NEW m \in D, s[n] = s[m] PROVE n = m
      BY <1>1 DEF Distinct
    <2>1. PICK i \in D : RankOf(ids, i) = n - 1 /\ s[n] = ids[i]
      BY <1>2
    <2>2. PICK k \in D : RankOf(ids, k) = m - 1 /\ s[m] = ids[k]
      BY <1>2
    <2>3. i = k
      BY <2>1, <2>2 DEF Distinct
    <2>4. n - 1 = m - 1 /\ n \in Int /\ m \in Int
      BY <2>1, <2>2, <2>3
    <2> QED
      BY <2>4
  <1>8. ASSUME NEW n \in D, NEW m \in D, n < m
        PROVE  Front(heap, s, n, s, m)
    <2>1. PICK i \in D : RankOf(ids, i) = n - 1 /\ s[n] = ids[i]
      BY <1>2
    <2>2. PICK k \in D : RankOf(ids, k) = m - 1 /\ s[m] = ids[k]
      BY <1>2
    <2>3. RankOf(ids, i) < RankOf(ids, k)
      BY <1>8, <2>1, <2>2
    <2>4. ~Earlier(ids, k, i) /\ i # k
      <3>1. RankOf(ids, i) \in Int /\ RankOf(ids, k) \in Int
        BY <1>4
      <3>2. Earlier(ids, k, i) => RankOf(ids, k) < RankOf(ids, i)
        BY Ranks
      <3> QED
        BY <2>3, <3>1, <3>2
    <2>5. Earlier(ids, i, k)
      BY <2>4, EarlierIsAnOrder
    <2>6. ids[i] \in 1..Len(heap) /\ ids[k] \in 1..Len(heap)
      OBVIOUS
    <2> DEFINE a == ids[i]
               b == ids[k]
    <2>7. Before(a, b) \/ ~Before(b, a)
      BY <2>5 DEF Earlier
    <2>8. /\ heap[a].start \in Int /\ heap[a].length \in Int
          /\ heap[b].start \in Int /\ heap[b].length \in Int
      <3>1. heap[a] \in Span /\ heap[b] \in Span
        BY <2>6
      <3> QED
        BY <3>1 DEF Span
    <2> HIDE DEF a, b
    <2> DEFINE sa == heap[a].start
               la == heap[a].length
               sb == heap[b].start
               lb == heap[b].length
    <2>9. sa < sb \/ (sa = sb /\ sb + lb <= sa + la)
      <3>1. (sa < sb \/ (sa = sb /\ la > lb)) \/ ~(sb < sa \/ (sb = sa /\ lb > la))
        BY <2>7 DEF Before
      <3>2. sa \in Int /\ la \in Int /\ sb \in Int /\ lb \in Int
        BY <2>8
      <3> HIDE DEF sa, la, sb, lb
      <3> QED
        BY <3>1, <3>2
    <2>10. s[n] = a /\ s[m] = b
      BY <2>1, <2>2 DEF a, b
    <2> QED
      BY <2>9, <2>10 DEF Front, StartAt, TillAt, Start, Till, EndOf
  <1> QED
    BY <1>1, <1>5, <1>6, <1>7, <1>8 DEF s

(***************************************************************************)
(* A new call.                                                             *)
(***************************************************************************)

(* Within is about the places, not their order. *)
LEMMA WithinPlaces ==
  ASSUME NEW h, NEW s, NEW t, NEW from, NEW to, PlacesIn(s) \subseteq PlacesIn(t),
         Within(h, t, from, to)
  PROVE  Within(h, s, from, to)
  <1>1. \A p \in 1..Len(s) : \E q \in 1..Len(t) : s[p] = t[q]
    BY DEF PlacesIn
  <1> QED
    BY <1>1 DEF Within, StartAt, TillAt

(* What is sorted is arrayed, from wherever on. *)
LEMMA FrontArrayed ==
  ASSUME NEW h, NEW s, Numbered(h, s),
         \A p, q \in 1..Len(s) : p < q => Front(h, s, p, s, q)
  PROVE  /\ \A p, q \in 1..Len(s) : p < q => StartAt(h, s, p) <= StartAt(h, s, q)
         /\ \A x : Arrayed(h, s, x)
  <1>1. \A p, q \in 1..Len(s) : p < q => StartAt(h, s, p) <= StartAt(h, s, q)
    BY DEF Numbered, Front
  <1> QED
    BY <1>1 DEF Arrayed

(* It sorts its slice, and has all of it to split.                         *)
LEMMA FreshCall ==
  ASSUME heap \in Seq(Span), HeapGood(heap), NEW ids \in Seq(1..Len(heap)), Distinct(ids),
         NEW span, NEW A, NEW around, span.start \in Int, span.start + 0 = span.start,
         Within(heap, ids, span.start, EndOf(span)),
         Clean(heap, From(heap, PlacesIn(ids), EndOf(span))),
         \A u \in Int : span.start <= u /\ u < EndOf(span) =>
           Marked(A, heap, PlacesIn(ids), u, around)
  PROVE  LET f == Call(span, ids)
         IN  /\ f.span = span /\ f.out = <<>> /\ PlacesIn(f.given) = PlacesIn(ids)
             /\ SliceOK(heap, f)
             /\ IF f.splitting THEN SplitOK(A, heap, f, around) ELSE WalkOK(A, heap, f, around)
  <1> DEFINE f == Call(span, ids)
             s == Sorted(ids)
             x == EndOf(span)
  <1>1. /\ f.span = span /\ f.ids = s /\ f.given = s /\ f.copied = FALSE
        /\ f.splitting = (ids # <<>>) /\ f.i = 1 /\ f.j = 2 /\ f.tails = <<>> /\ f.out = <<>>
        /\ f.last = 0
    BY DEF Call
  <1> HIDE DEF f
  <1>2. /\ s \in Seq(1..Len(heap)) /\ Len(s) = Len(ids)
        /\ PlacesIn(s) = PlacesIn(ids) /\ Distinct(s)
        /\ \A p, q \in 1..Len(s) : p < q => Front(heap, s, p, s, q)
    BY SortedFacts
  <1> HIDE DEF s
  <1>3. Numbered(heap, s)
    BY <1>2, Numbers
  <1>4. /\ \A p, q \in 1..Len(s) : p < q => StartAt(heap, s, p) <= StartAt(heap, s, q)
        /\ \A y : Arrayed(heap, s, y)
    BY <1>2, <1>3, FrontArrayed
  <1>5. Within(heap, s, span.start, x)
    BY <1>2, WithinPlaces
  <1>6. SliceOK(heap, f)
    BY <1>1, <1>2, <1>4, <1>5 DEF SliceOK, Edge
  <1>7. ASSUME ids = <<>>
        PROVE  IF f.splitting THEN SplitOK(A, heap, f, around) ELSE WalkOK(A, heap, f, around)
    <2>1. Len(s) = 0 /\ PlacesIn(s) = {} /\ Rest(s, 1) = {}
      BY <1>2, <1>7 DEF PlacesIn, Rest
    <2>2. From(heap, {}, x) = {} /\ From(heap, {}, span.start) = {} /\ Clean(heap, {})
      BY DEF From, Clean
    <2>3. OrderOK(heap, s, 1, span.start)
      BY <2>1 DEF OrderOK
    <2>4. WalkOK(A, heap, f, around)
      BY <1>1, <1>2, <2>1, <2>2, <2>3 DEF WalkOK, Pos, Edge
    <2>5. f.splitting = FALSE
      BY <1>1, <1>7
    <2> QED
      BY <2>4, <2>5
  <1>8. ASSUME ids # <<>>
        PROVE  IF f.splitting THEN SplitOK(A, heap, f, around) ELSE WalkOK(A, heap, f, around)
    <2>1. Len(<<>>) = 0 /\ 1..Len(<<>>) = {} /\ PlacesIn(<<>>) = {}
      BY DEF PlacesIn
    <2>2. HeadOK(heap, s, <<>>)
      BY <1>2, <2>1 DEF HeadOK
    <2>3. TailsOK(heap, s, <<>>, 1, 2, span.start, x)
      BY <2>1 DEF TailsOK, Distinct
    <2>4. BeyondOK(heap, s, 1, x)
      <3>1. \A p \in 1..Len(s) : ~(p < 1)
        OBVIOUS
      <3> QED
        BY <1>2, <3>1 DEF BeyondOK
    <2>5. RowsOK(heap, s, 1, 2)
      <3>1. \A q \in 1..Len(s) : ~(1 < q /\ q < 2)
        OBVIOUS
      <3> QED
        BY <1>4, <3>1 DEF RowsOK
    <2>6. DoneOK(heap, s, <<>>, 1)
      <3>1. Done(s, 1) = {}
        BY DEF Done
      <3> QED
        BY <3>1 DEF DoneOK
    <2>7. ToCome(f) = PlacesIn(ids)
      BY <1>1, <1>2, <2>1 DEF ToCome
    <2>8. SplitOK(A, heap, f, around)
      BY <1>1, <2>2, <2>3, <2>4, <2>5, <2>6, <2>7 DEF SplitOK, Edge
    <2>9. f.splitting = TRUE
      BY <1>1, <1>8
    <2> QED
      BY <2>8, <2>9
  <1>9. IF f.splitting THEN SplitOK(A, heap, f, around) ELSE WalkOK(A, heap, f, around)
    BY <1>7, <1>8
  <1> QED
    BY <1>1, <1>2, <1>6, <1>9 DEF f

(***************************************************************************)
(* None begins later: the loop of the splitting goes on.                   *)
(***************************************************************************)

(* What the splitting knows of its slice. *)
Splits(h, ids, tails, i, j, from, x) ==
  /\ Numbered(h, ids) /\ AllPlaced(h, ids) /\ Numbered(h, tails) /\ AllPlaced(h, tails)
  /\ Distinct(ids) /\ Within(h, ids, from, x)
  /\ HeadOK(h, ids, tails) /\ TailsOK(h, ids, tails, i, j, from, x)
  /\ BeyondOK(h, ids, i, x) /\ RowsOK(h, ids, i, j) /\ DoneOK(h, ids, tails, i)

(* Advance: the tails still lie behind what is to be split. *)
LEMMA AdvanceTails ==
  ASSUME NEW h, NEW ids, NEW tails, NEW from \in Int, NEW x \in Int,
         NEW i \in 1..Len(ids), NEW j \in Int, j > Len(ids),
         Splits(h, ids, tails, i, j, from, x)
  PROVE  TailsOK(h, ids, tails, i + 1, i + 2, from, x)
  <1>1. /\ Numbered(h, ids) /\ Numbered(h, tails)
        /\ TailsOK(h, ids, tails, i, j, from, x) /\ Distinct(tails)
    BY DEF Splits, TailsOK
  <1>2. \A q \in 1..Len(ids) : q > i =>
          StartAt(h, ids, q) < TillAt(h, ids, i) /\ TillAt(h, ids, q) <= TillAt(h, ids, i)
    BY DEF Splits, RowsOK, Numbered
  <1>3. \A p, q \in 1..Len(ids) : p < q /\ StartAt(h, ids, p) >= x => Front(h, ids, p, ids, q)
    BY DEF Splits, BeyondOK
  <1>4. StartAt(h, ids, i) < x => TillAt(h, ids, i) <= x
    BY DEF Splits, Within
  <1> SUFFICES ASSUME NEW b \in 1..Len(tails)
               PROVE  TailOK(h, ids, tails, i + 1, i + 2, from, x, b)
    BY <1>1 DEF TailsOK
  <1>5. TailOK(h, ids, tails, i, j, from, x, b) /\ i <= Len(ids)
    BY <1>1 DEF TailsOK
  <1>6. \E p \in 1..Len(ids) : p <= i + 1 /\ ~ChipAt(h, ids, p)
    BY <1>5 DEF TailOK, Numbered
  <1>7. \A p \in 1..Len(ids) : StartAt(h, ids, p) < x
    <2>1. CASE \A p \in 1..Len(ids) : StartAt(h, ids, p) < x
      BY <2>1
    <2>2. CASE StartAt(h, ids, i) < x
      <3> SUFFICES ASSUME NEW p \in 1..Len(ids) PROVE StartAt(h, ids, p) < x
        OBVIOUS
      <3>1. CASE p < i
        <4> SUFFICES ASSUME StartAt(h, ids, p) >= x PROVE FALSE
          BY <1>1 DEF Numbered
        <4>1. Front(h, ids, p, ids, i)
          BY <1>3, <3>1
        <4> QED
          BY <1>1, <2>2, <4>1 DEF Numbered, Front
      <3>2. CASE p > i
        BY <1>1, <1>2, <1>4, <2>2, <3>2 DEF Numbered
      <3> QED
        BY <2>2, <3>1, <3>2
    <2> QED
      BY <1>5, <2>1, <2>2 DEF TailOK
  <1>8. ASSUME NEW q \in 1..Len(ids), q > i
        PROVE  TillAt(h, ids, q) <= StartAt(h, tails, b)
    <2>1. TillAt(h, ids, i) <= StartAt(h, tails, b)
      BY <1>5 DEF TailOK
    <2> QED
      BY <1>1, <1>2, <1>8, <2>1 DEF Numbered
  <1>9. i + 1 <= Len(ids) =>
          /\ TillAt(h, ids, i + 1) <= StartAt(h, tails, b)
          /\ \A q \in 1..Len(ids) : q > i + 1 => TillAt(h, ids, q) <= StartAt(h, tails, b)
    BY <1>1, <1>8 DEF Numbered
  <1> QED
    BY <1>5, <1>6, <1>7, <1>9 DEF TailOK

(* What lies beyond is as it was; the annotation left behind cannot reach    *)
(* over some of it only, as all of it was compared.                          *)
LEMMA AdvanceBeyond ==
  ASSUME NEW h, NEW ids, NEW tails, NEW from \in Int, NEW x \in Int,
         NEW i \in 1..Len(ids), NEW j \in Int, j > Len(ids),
         Splits(h, ids, tails, i, j, from, x)
  PROVE  BeyondOK(h, ids, i + 1, x)
  <1>1. Numbered(h, ids)
    BY DEF Splits
  <1>2. \A q \in 1..Len(ids) : q > i =>
          StartAt(h, ids, q) < TillAt(h, ids, i) /\ TillAt(h, ids, q) <= TillAt(h, ids, i)
    BY DEF Splits, RowsOK, Numbered
  <1>3. \A p, q \in 1..Len(ids) : p < q /\ StartAt(h, ids, p) >= x => Front(h, ids, p, ids, q)
    BY DEF Splits, BeyondOK
  <1>4. \A p \in 1..Len(ids) : p < i /\ StartAt(h, ids, p) >= x =>
          \/ \A q \in 1..Len(ids) : q >= i => TillAt(h, ids, p) <= StartAt(h, ids, q)
          \/ \A q \in 1..Len(ids) : StartAt(h, ids, q) < TillAt(h, ids, p)
    BY DEF Splits, BeyondOK
  <1>5. ASSUME NEW p \in 1..Len(ids), p < i + 1, StartAt(h, ids, p) >= x
        PROVE  \/ \A q \in 1..Len(ids) : q >= i + 1 => TillAt(h, ids, p) <= StartAt(h, ids, q)
               \/ \A q \in 1..Len(ids) : StartAt(h, ids, q) < TillAt(h, ids, p)
    <2>1. CASE p < i
      <3>1. \A q \in 1..Len(ids) : q >= i + 1 => q >= i
        OBVIOUS
      <3> QED
        BY <1>4, <1>5, <2>1, <3>1
    <2>2. CASE p = i /\ i = Len(ids)
      BY <2>2
    <2>3. CASE p = i /\ i < Len(ids)
      <3>1. i + 1 \in 1..Len(ids) /\ i < i + 1
        BY <1>1, <2>3 DEF Numbered
      <3>2. StartAt(h, ids, i) < TillAt(h, ids, i)
        <4>1. Front(h, ids, i, ids, i + 1)
          BY <1>3, <1>5, <2>3, <3>1
        <4> QED
          BY <1>1, <1>2, <3>1, <4>1 DEF Numbered, Front
      <3> SUFFICES ASSUME NEW q \in 1..Len(ids) PROVE StartAt(h, ids, q) < TillAt(h, ids, i)
        BY <2>3
      <3>3. CASE q < i
        <4>1. CASE StartAt(h, ids, q) < x
          BY <1>1, <1>5, <2>3, <3>2, <4>1 DEF Numbered
        <4>2. CASE StartAt(h, ids, q) >= x
          <5>1. Front(h, ids, q, ids, i)
            BY <1>3, <3>3, <4>2
          <5> QED
            BY <1>1, <3>2, <5>1 DEF Numbered, Front
        <4> QED
          BY <1>1, <4>1, <4>2 DEF Numbered
      <3>4. CASE q > i
        BY <1>2, <3>4
      <3> QED
        BY <3>2, <3>3, <3>4
    <2> QED
      BY <1>1, <1>5, <2>1, <2>2, <2>3 DEF Numbered
  <1>6. Clean(h, From(h, PlacesIn(ids), x))
    BY DEF Splits, BeyondOK
  <1> QED
    BY <1>3, <1>5, <1>6 DEF BeyondOK

(* The rows are only shorter. *)
LEMMA AdvanceRows ==
  ASSUME NEW h, NEW ids, NEW i \in 1..Len(ids), NEW j, RowsOK(h, ids, i, j)
  PROVE  RowsOK(h, ids, i + 1, i + 2)
  <1>1. \A q \in 1..Len(ids) : /\ ~(i + 1 < q /\ q < i + 2)
                               /\ q >= i + 1 => q >= i
    OBVIOUS
  <1> QED
    BY <1>1 DEF RowsOK

(* The annotation left behind crosses nothing: it was compared with all. *)
LEMMA AdvanceDone ==
  ASSUME NEW h, NEW ids, NEW tails, NEW from \in Int, NEW x \in Int,
         NEW i \in 1..Len(ids), NEW j \in Int, j > Len(ids),
         Splits(h, ids, tails, i, j, from, x)
  PROVE  DoneOK(h, ids, tails, i + 1)
  <1> DEFINE D == Done(ids, i)
             R == Rest(ids, i) \cup PlacesIn(tails)
             c == ids[i]
  <1>1. /\ Numbered(h, ids) /\ AllPlaced(h, ids) /\ AllPlaced(h, tails)
        /\ DoneOK(h, ids, tails, i) /\ RowsOK(h, ids, i, j)
    BY DEF Splits
  <1>2. \A p \in D, q \in R : Apart(h, p, q)
    BY <1>1 DEF DoneOK
  <1>3. Done(ids, i + 1) = D \cup {c} /\ c \in R
    <2>1. \A q \in 1..Len(ids) : q < i + 1 <=> q < i \/ q = i
      OBVIOUS
    <2> QED
      BY <2>1 DEF Done, Rest
  <1>4. /\ Rest(ids, i + 1) \cup PlacesIn(tails) \subseteq R
        /\ \A q \in Rest(ids, i + 1) : \E p \in 1..Len(ids) : p > i /\ q = ids[p]
    <2>1. \A q \in 1..Len(ids) : q >= i + 1 => q >= i /\ q > i
      OBVIOUS
    <2> QED
      BY <2>1 DEF Rest
  <1>5. \A p \in D \cup R : Placed(h, p)
    BY <1>1 DEF AllPlaced, Done, Rest, PlacesIn
  <1>6. ASSUME NEW q \in Rest(ids, i + 1) \cup PlacesIn(tails)
        PROVE  Apart(h, c, q)
    <2>1. ASSUME NEW p \in 1..Len(ids), p > i, q = ids[p]
          PROVE  Apart(h, c, q)
      <3>1. TillAt(h, ids, p) <= TillAt(h, ids, i)
        BY <1>1, <2>1 DEF RowsOK, Numbered
      <3>2. \/ StartAt(h, ids, i) <= StartAt(h, ids, p)
            \/ TillAt(h, ids, p) <= StartAt(h, ids, i)
            \/ StartAt(h, ids, p) = StartAt(h, ids, i)
        <4>1. i >= i /\ i <= i
          BY <1>1 DEF Numbered
        <4> QED
          BY <1>1, <2>1, <4>1 DEF RowsOK
      <3>3. StartAt(h, ids, i) <= StartAt(h, ids, p) \/ TillAt(h, ids, p) <= StartAt(h, ids, i)
        BY <1>1, <3>2 DEF Numbered
      <3> QED
        BY <2>1, <3>1, <3>3 DEF Apart, StartAt, TillAt
    <2>2. ASSUME NEW b \in 1..Len(tails), q = tails[b]
          PROVE  Apart(h, c, q)
      <3>1. TillAt(h, ids, i) <= StartAt(h, tails, b)
        BY DEF Splits, TailsOK, TailOK
      <3> QED
        BY <2>2, <3>1 DEF Apart, StartAt, TillAt
    <2> QED
      BY <1>4, <1>6, <2>1, <2>2 DEF PlacesIn
  <1>7. \A p \in D : ~Cross(h, p, c) /\ ~Cross(h, c, p)
    BY <1>2, <1>3, <1>5, ApartNoCross
  <1>8. ~Cross(h, c, c)
    BY <1>3, <1>5 DEF Cross, Placed
  <1>9. ASSUME NEW p \in D \cup {c}, NEW q \in D \cup {c}, Cross(h, p, q)
        PROVE  \E k \in D \cup {c} :
                 /\ Holds(h, k, p, q) /\ Free(h, D \cup {c}, k)
                 /\ Parted(h, PlacesIn(ids) \cup PlacesIn(tails), k)
    <2>1. p \in D /\ q \in D
      BY <1>7, <1>8, <1>9
    <2>2. PICK k \in D : /\ Holds(h, k, p, q) /\ Free(h, D, k)
                         /\ Parted(h, PlacesIn(ids) \cup PlacesIn(tails), k)
      BY <1>1, <1>9, <2>1 DEF DoneOK
    <2>3. Free(h, D \cup {c}, k)
      BY <1>7, <2>2 DEF Free
    <2> QED
      BY <2>2, <2>3
  <1> HIDE DEF D, R, c
  <1> QED
    BY <1>2, <1>3, <1>4, <1>6, <1>9, ZenonT(30) DEF DoneOK

(***************************************************************************)
(* An annotation that crosses the current one is cut.                      *)
(***************************************************************************)

(* Heap g is h with the annotation at place d cut at e, and its tail last. *)
Truncated(h, g, d, e) ==
  /\ Len(g) = Len(h) + 1
  /\ \A p \in 1..Len(h) : /\ Start(g, p) = Start(h, p)
                          /\ g[p].kind = h[p].kind /\ g[p].id = h[p].id
                          /\ p # d => Till(g, p) = Till(h, p)
  /\ d \in 1..Len(h) /\ Till(g, d) = e /\ Start(h, d) < e /\ e < Till(h, d)
  /\ Start(g, Len(h) + 1) = e /\ Till(g, Len(h) + 1) = Till(h, d)
  /\ g[Len(h) + 1].kind = h[d].kind /\ g[Len(h) + 1].id = h[d].id

(* The same seen from the slice and the tails, which are ts then.          *)
CutAt(h, g, ids, tails, ts, i, j) ==
  /\ \A q \in 1..Len(ids) : /\ StartAt(g, ids, q) = StartAt(h, ids, q)
                            /\ ChipAt(g, ids, q) = ChipAt(h, ids, q)
                            /\ q # j => TillAt(g, ids, q) = TillAt(h, ids, q)
  /\ TillAt(g, ids, j) = TillAt(h, ids, i)
  /\ \A b \in 1..Len(tails) : /\ StartAt(g, ts, b) = StartAt(h, tails, b)
                              /\ TillAt(g, ts, b) = TillAt(h, tails, b)
                              /\ ts[b] = tails[b]
  /\ Len(ts) = Len(tails) + 1
  /\ StartAt(g, ts, Len(tails) + 1) = TillAt(h, ids, i)
  /\ TillAt(g, ts, Len(tails) + 1) = TillAt(h, ids, j)
  /\ \A p \in 1..Len(ids) : ids[p] # ts[Len(tails) + 1]
  /\ \A b \in 1..Len(tails) : tails[b] # ts[Len(tails) + 1]

(* Truncated, as the slice and the tails see it. *)
LEMMA TruncatedAt ==
  ASSUME NEW h, Len(h) \in Nat, NEW g, NEW ids \in Seq(1..Len(h)), Distinct(ids),
         NEW tails \in Seq(1..Len(h)),
         NEW i \in 1..Len(ids), NEW j \in 1..Len(ids),
         Truncated(h, g, ids[j], TillAt(h, ids, i)),
         \A b \in 1..Len(tails) : \A p \in 1..Len(ids) : ids[p] # tails[b]
  PROVE  CutAt(h, g, ids, tails, Append(tails, Len(h) + 1), i, j)
  <1> DEFINE ts == Append(tails, Len(h) + 1)
             n == Len(tails) + 1
  <1>1. /\ Len(ts) = n /\ ts[n] = Len(h) + 1 /\ Len(tails) \in Nat
        /\ \A b \in 1..Len(tails) : ts[b] = tails[b] /\ tails[b] \in 1..Len(h)
        /\ \A p \in 1..Len(ids) : ids[p] \in 1..Len(h)
    BY SMTT(30)
  <1>2. Len(h) + 1 \notin 1..Len(h)
    OBVIOUS
  <1> HIDE DEF ts
  <1>3. \A q \in 1..Len(ids) : /\ StartAt(g, ids, q) = StartAt(h, ids, q)
                               /\ ChipAt(g, ids, q) = ChipAt(h, ids, q)
                               /\ q # j => TillAt(g, ids, q) = TillAt(h, ids, q)
    <2> TAKE q \in 1..Len(ids)
    <2>1. ids[q] \in 1..Len(h) /\ (q # j => ids[q] # ids[j])
      BY <1>1 DEF Distinct
    <2> QED
      BY <2>1 DEF Truncated, StartAt, TillAt, ChipAt
  <1>4. TillAt(g, ids, j) = TillAt(h, ids, i)
    BY DEF Truncated, TillAt
  <1>5. \A b \in 1..Len(tails) : /\ StartAt(g, ts, b) = StartAt(h, tails, b)
                                 /\ TillAt(g, ts, b) = TillAt(h, tails, b)
                                 /\ ts[b] = tails[b]
    <2> TAKE b \in 1..Len(tails)
    <2>1. ts[b] = tails[b] /\ tails[b] \in 1..Len(h) /\ tails[b] # ids[j]
      BY <1>1
    <2> QED
      BY <2>1 DEF Truncated, StartAt, TillAt
  <1>6. StartAt(g, ts, n) = TillAt(h, ids, i) /\ TillAt(g, ts, n) = TillAt(h, ids, j)
    BY <1>1 DEF Truncated, StartAt, TillAt
  <1>7. /\ \A p \in 1..Len(ids) : ids[p] # ts[n]
        /\ \A b \in 1..Len(tails) : tails[b] # ts[n]
    BY <1>1, <1>2
  <1>8. CutAt(h, g, ids, tails, ts, i, j)
    BY <1>1, <1>3, <1>4, <1>5, <1>6, <1>7 DEF CutAt
  <1> QED
    BY <1>8 DEF ts

(* The annotation that is cut is not a chip, and starts behind the other.  *)
LEMMA CutRow ==
  ASSUME NEW h, NEW ids, NEW tails, NEW from \in Int, NEW x \in Int,
         NEW i \in 1..Len(ids), NEW j \in 1..Len(ids), i < j,
         Splits(h, ids, tails, i, j, from, x),
         StartAt(h, ids, j) < TillAt(h, ids, i)
  PROVE  StartAt(h, ids, i) < TillAt(h, ids, i) /\ ~ChipAt(h, ids, i)
  <1>1. Numbered(h, ids) /\ i >= i /\ i <= i
    BY DEF Splits, Numbered
  <1>2. \/ StartAt(h, ids, i) <= StartAt(h, ids, j)
        \/ StartAt(h, ids, i) < TillAt(h, ids, i)
    BY <1>1 DEF Splits, RowsOK
  <1>3. StartAt(h, ids, i) < TillAt(h, ids, i)
    BY <1>1, <1>2 DEF Numbered
  <1> QED
    BY <1>1, <1>3 DEF Numbered

(* Cut: the first annotation is still the first. *)
LEMMA CutHead ==
  ASSUME NEW h, NEW g, NEW ids, NEW tails, NEW ts, NEW from \in Int, NEW x \in Int,
         NEW i \in 1..Len(ids), NEW j \in 1..Len(ids), i < j,
         Splits(h, ids, tails, i, j, from, x), CutAt(h, g, ids, tails, ts, i, j),
         StartAt(h, ids, j) < TillAt(h, ids, i), TillAt(h, ids, i) < TillAt(h, ids, j)
  PROVE  HeadOK(g, ids, ts)
  <1>1. Numbered(h, ids) /\ Numbered(h, tails) /\ ~ChipAt(h, ids, i)
    BY CutRow DEF Splits
  <1> SUFFICES ASSUME NEW p \in 1..Len(ids), \A r \in 1..(p - 1) : ChipAt(g, ids, r)
               PROVE  /\ \A q \in 1..Len(ids) : p < q => Front(g, ids, p, ids, q)
                      /\ \A b \in 1..Len(ts) : Front(g, ids, p, ts, b)
    BY DEF HeadOK
  <1>2. p <= i
    <2> SUFFICES ASSUME p > i PROVE FALSE
      BY <1>1 DEF Numbered
    <2>1. i \in 1..(p - 1)
      BY <1>1 DEF Numbered
    <2> QED
      BY <1>1, <2>1 DEF CutAt
  <1>3. /\ \A q \in 1..Len(ids) : p < q => Front(h, ids, p, ids, q)
        /\ \A b \in 1..Len(tails) : Front(h, ids, p, tails, b)
    <2>1. \A r \in 1..(p - 1) : ChipAt(h, ids, r)
      BY <1>1, <1>2 DEF CutAt, Numbered
    <2> QED
      BY <2>1 DEF Splits, HeadOK
  <1>4. /\ StartAt(g, ids, p) = StartAt(h, ids, p) /\ TillAt(g, ids, p) = TillAt(h, ids, p)
        /\ p < j
    BY <1>1, <1>2 DEF CutAt, Numbered
  <1>5. \A q \in 1..Len(ids) : /\ StartAt(g, ids, q) = StartAt(h, ids, q)
                               /\ TillAt(g, ids, q) <= TillAt(h, ids, q)
                               /\ TillAt(g, ids, q) \in Int
    <2> TAKE q \in 1..Len(ids)
    <2>1. CASE q = j
      BY <1>1, <2>1 DEF CutAt, Numbered
    <2>2. CASE q # j
      BY <1>1, <2>2 DEF CutAt, Numbered
    <2> QED
      BY <2>1, <2>2
  <1>6. ASSUME NEW q \in 1..Len(ids), p < q
        PROVE  Front(g, ids, p, ids, q)
    <2>1. Front(h, ids, p, ids, q)
      BY <1>3, <1>6
    <2> QED
      BY <1>1, <1>4, <1>5, <2>1 DEF Front, Numbered
  <1>7. ASSUME NEW b \in 1..Len(ts)
        PROVE  Front(g, ids, p, ts, b)
    <2>1. CASE b \in 1..Len(tails)
      <3>1. Front(h, ids, p, tails, b)
        BY <1>3, <2>1
      <3> QED
        BY <1>4, <2>1, <3>1 DEF Front, CutAt
    <2>2. CASE b = Len(tails) + 1
      <3>1. Front(h, ids, p, ids, j)
        BY <1>3, <1>4
      <3>2. StartAt(h, ids, p) < TillAt(h, ids, i)
        BY <1>1, <3>1 DEF Front, Numbered
      <3> QED
        BY <1>4, <2>2, <3>2 DEF Front, CutAt
    <2>3. Len(ts) = Len(tails) + 1 /\ Len(tails) \in Nat
      BY <1>1 DEF CutAt, Numbered
    <2> QED
      BY <2>1, <2>2, <2>3
  <1> QED
    BY <1>6, <1>7

(* The tail is a good one: it starts at the end of the annotation that cuts. *)
LEMMA CutTails ==
  ASSUME NEW h, NEW g, NEW ids, NEW tails, NEW ts, NEW from \in Int, NEW x \in Int,
         NEW i \in 1..Len(ids), NEW j \in 1..Len(ids), i < j,
         Splits(h, ids, tails, i, j, from, x), CutAt(h, g, ids, tails, ts, i, j),
         StartAt(h, ids, j) < TillAt(h, ids, i), TillAt(h, ids, i) < TillAt(h, ids, j)
  PROVE  TailsOK(g, ids, ts, i, j + 1, from, x)
  <1> DEFINE n == Len(tails) + 1
             e == TillAt(h, ids, i)
  <1>1. /\ Numbered(h, ids) /\ Numbered(h, tails) /\ ~ChipAt(h, ids, i)
        /\ StartAt(h, ids, i) < TillAt(h, ids, i)
        /\ TailsOK(h, ids, tails, i, j, from, x)
    BY CutRow DEF Splits
  <1>2. /\ \A q \in 1..Len(ids) : /\ StartAt(g, ids, q) = StartAt(h, ids, q)
                                  /\ ChipAt(g, ids, q) = ChipAt(h, ids, q)
                                  /\ q # j => TillAt(g, ids, q) = TillAt(h, ids, q)
        /\ TillAt(g, ids, j) = e /\ TillAt(g, ids, i) = e
    BY <1>1 DEF CutAt, Numbered
  <1>3. StartAt(h, ids, j) < x /\ TillAt(h, ids, j) <= x /\ from <= StartAt(h, ids, j)
    <2>1. StartAt(h, ids, j) < x
      BY CutInside DEF Splits
    <2> QED
      BY <2>1 DEF Splits, Within
  <1>4. Len(ts) = n /\ Len(tails) \in Nat /\ n \in 1..Len(ts)
    BY <1>1 DEF CutAt, Numbered
  <1>5. \A b \in 1..Len(ts) : b \in 1..Len(tails) \/ b = n
    BY <1>4
  <1>6. Distinct(ts)
    <2>1. /\ \A b \in 1..Len(tails) : ts[b] = tails[b] /\ tails[b] # ts[n]
      BY DEF CutAt
    <2>2. Distinct(tails)
      BY <1>1 DEF TailsOK
    <2> QED
      BY <1>5, <2>1, <2>2 DEF Distinct
  <1>7. ASSUME NEW b \in 1..Len(tails)
        PROVE  TailOK(g, ids, ts, i, j + 1, from, x, b)
    <2>1. TailOK(h, ids, tails, i, j, from, x, b) /\ i <= Len(ids)
      BY <1>1 DEF TailsOK
    <2>2. /\ StartAt(g, ts, b) = StartAt(h, tails, b) /\ TillAt(g, ts, b) = TillAt(h, tails, b)
          /\ ts[b] = tails[b] /\ StartAt(g, ts, n) = e /\ TillAt(g, ts, n) = TillAt(h, ids, j)
      BY DEF CutAt
    <2>3. /\ \A p \in 1..Len(ids) : ids[p] # ts[b]
          /\ StartAt(g, ts, b) < TillAt(g, ts, b)
          /\ from <= StartAt(g, ts, b) /\ TillAt(g, ts, b) <= x
      BY <2>1, <2>2 DEF TailOK
    <2>4. /\ \E p \in 1..Len(ids) : p <= i /\ ~ChipAt(g, ids, p)
          /\ \/ i <= Len(ids) /\ StartAt(g, ids, i) < x
             \/ \A p \in 1..Len(ids) : StartAt(g, ids, p) < x
      BY <1>2, <2>1 DEF TailOK
    <2>5. \/ TillAt(h, ids, j) <= StartAt(h, tails, b)
          \/ StartAt(h, tails, b) = e
      BY <2>1 DEF TailOK
    <2>6. ASSUME NEW c \in 1..Len(ts), b < c
          PROVE  \/ StartAt(g, ts, b) = StartAt(g, ts, c)
                 \/ TillAt(g, ts, c) <= StartAt(g, ts, b)
      <3>1. CASE c \in 1..Len(tails)
        <4>1. \/ StartAt(h, tails, b) = StartAt(h, tails, c)
              \/ TillAt(h, tails, c) <= StartAt(h, tails, b)
          BY <2>1, <2>6, <3>1 DEF TailOK
        <4> QED
          BY <2>2, <3>1, <4>1 DEF CutAt
      <3>2. CASE c = n
        BY <2>2, <2>5, <3>2
      <3> QED
        BY <1>5, <3>1, <3>2
    <2>7. TillAt(g, ids, i) <= StartAt(g, ts, b)
      BY <1>2, <2>1, <2>2 DEF TailOK
    <2>8. ASSUME NEW q \in 1..Len(ids), q > i
          PROVE  \/ TillAt(g, ids, q) <= StartAt(g, ts, b)
                 \/ q >= j + 1 /\ StartAt(g, ts, b) = TillAt(g, ids, i)
      <3>1. CASE q = j
        BY <1>2, <2>7, <3>1
      <3>2. CASE q # j
        <4>1. \/ TillAt(h, ids, q) <= StartAt(h, tails, b)
              \/ q >= j /\ StartAt(h, tails, b) = e
          BY <2>1, <2>8 DEF TailOK
        <4>2. q >= j => q >= j + 1
          BY <3>2
        <4> QED
          BY <1>2, <2>2, <3>2, <4>1, <4>2
      <3> QED
        BY <3>1, <3>2
    <2> HIDE DEF e, n
    <2> QED
      BY <2>3, <2>4, <2>6, <2>7, <2>8 DEF TailOK
  <1>8. TailOK(g, ids, ts, i, j + 1, from, x, n)
    <2>1. /\ StartAt(g, ts, n) = e /\ TillAt(g, ts, n) = TillAt(h, ids, j)
          /\ \A p \in 1..Len(ids) : ids[p] # ts[n]
      BY DEF CutAt
    <2>2. from <= e /\ StartAt(h, ids, i) < x
      <3>1. StartAt(h, ids, i) < e /\ e < TillAt(h, ids, j) /\ TillAt(h, ids, j) <= x
        BY <1>1, <1>3
      <3> QED
        BY <1>1, <1>3, <3>1 DEF Numbered
    <2>3. \A c \in 1..Len(ts) : ~(n < c)
      BY <1>4
    <2>4. ASSUME NEW q \in 1..Len(ids), q > i
          PROVE  TillAt(g, ids, q) <= e \/ q >= j + 1
      <3>1. CASE q = j
        BY <1>1, <1>2, <3>1 DEF Numbered
      <3>2. CASE q < j
        <4>1. TillAt(h, ids, q) <= e
          BY <2>4, <3>2 DEF Splits, RowsOK
        <4> QED
          BY <1>2, <3>2, <4>1
      <3>3. CASE q > j
        BY <3>3
      <3> QED
        BY <3>1, <3>2, <3>3
    <2>5. TillAt(g, ids, i) <= e /\ i <= Len(ids) /\ i <= i
      BY <1>1, <1>2 DEF Numbered
    <2>6. StartAt(g, ts, n) < TillAt(g, ts, n) /\ from <= StartAt(g, ts, n) /\ TillAt(g, ts, n) <= x
      BY <1>3, <2>1, <2>2
    <2>7. ~ChipAt(g, ids, i) /\ StartAt(g, ids, i) < x /\ TillAt(g, ids, i) = e
      BY <1>1, <1>2, <2>2
    <2>8. \E p \in 1..Len(ids) : p <= i /\ ~ChipAt(g, ids, p)
      BY <2>5, <2>7
    <2>9. i <= Len(ids) =>
            /\ TillAt(g, ids, i) <= StartAt(g, ts, n)
            /\ \A q \in 1..Len(ids) : q > i =>
                 \/ TillAt(g, ids, q) <= StartAt(g, ts, n)
                 \/ q >= j + 1 /\ StartAt(g, ts, n) = TillAt(g, ids, i)
      <3> HIDE DEF e, n
      <3> QED
        BY <2>1, <2>4, <2>5, <2>7
    <2> HIDE DEF e, n
    <2> QED
      BY <2>1, <2>3, <2>5, <2>6, <2>7, <2>8, <2>9 DEF TailOK
  <1> QED
    BY <1>5, <1>6, <1>7, <1>8 DEF TailsOK

(* Clean depends on where annotations begin and end only. *)
LEMMA SameClean ==
  ASSUME NEW h, NEW g, NEW P, Clean(h, P),
         \A p \in P : Start(g, p) = Start(h, p) /\ Till(g, p) = Till(h, p)
  PROVE  Clean(g, P)
  BY DEF Clean, Cross, Holds, Free, Parted

(* What lies beyond the text of the call is not cut. *)
LEMMA CutBeyond ==
  ASSUME NEW h, NEW g, NEW ids, NEW tails, NEW ts, NEW from \in Int, NEW x \in Int,
         NEW i \in 1..Len(ids), NEW j \in 1..Len(ids), i < j,
         Splits(h, ids, tails, i, j, from, x), CutAt(h, g, ids, tails, ts, i, j),
         StartAt(h, ids, j) < TillAt(h, ids, i), TillAt(h, ids, i) < TillAt(h, ids, j)
  PROVE  BeyondOK(g, ids, i, x)
  <1>1. Numbered(h, ids) /\ BeyondOK(h, ids, i, x)
    BY DEF Splits
  <1>2. StartAt(h, ids, j) < x
    BY CutInside DEF Splits
  <1>3. \A q \in 1..Len(ids) :
          /\ StartAt(g, ids, q) = StartAt(h, ids, q)
          /\ StartAt(g, ids, q) >= x => TillAt(g, ids, q) = TillAt(h, ids, q)
          /\ TillAt(g, ids, q) <= TillAt(h, ids, q)
          /\ TillAt(g, ids, q) \in Int
    <2> TAKE q \in 1..Len(ids)
    <2>1. CASE q = j
      BY <1>1, <1>2, <2>1 DEF CutAt, Numbered
    <2>2. CASE q # j
      BY <1>1, <2>2 DEF CutAt, Numbered
    <2> QED
      BY <2>1, <2>2
  <1>4. ASSUME NEW p \in 1..Len(ids), NEW q \in 1..Len(ids), p < q, StartAt(g, ids, p) >= x
        PROVE  Front(g, ids, p, ids, q)
    <2>1. Front(h, ids, p, ids, q)
      BY <1>1, <1>3, <1>4 DEF BeyondOK
    <2> QED
      BY <1>1, <1>3, <1>4, <2>1 DEF Front, Numbered
  <1>5. ASSUME NEW p \in 1..Len(ids), p < i, StartAt(g, ids, p) >= x
        PROVE  \/ \A q \in 1..Len(ids) : q >= i => TillAt(g, ids, p) <= StartAt(g, ids, q)
               \/ \A q \in 1..Len(ids) : StartAt(g, ids, q) < TillAt(g, ids, p)
    <2>1. \/ \A q \in 1..Len(ids) : q >= i => TillAt(h, ids, p) <= StartAt(h, ids, q)
          \/ \A q \in 1..Len(ids) : StartAt(h, ids, q) < TillAt(h, ids, p)
      BY <1>1, <1>3, <1>5 DEF BeyondOK
    <2>2. TillAt(g, ids, p) = TillAt(h, ids, p)
      BY <1>3, <1>5
    <2> QED
      BY <1>3, <2>1, <2>2
  <1>6. Clean(g, From(g, PlacesIn(ids), x))
    <2> DEFINE P == From(h, PlacesIn(ids), x)
    <2>1. \A p \in PlacesIn(ids) : /\ Start(g, p) = Start(h, p)
                                   /\ Start(g, p) >= x => Till(g, p) = Till(h, p)
      BY <1>3 DEF PlacesIn, StartAt, TillAt
    <2>2. From(g, PlacesIn(ids), x) = P
      BY <2>1 DEF From
    <2>3. \A p \in P : Start(g, p) = Start(h, p) /\ Till(g, p) = Till(h, p)
      BY <2>1 DEF From
    <2>4. Clean(h, P)
      BY <1>1 DEF BeyondOK
    <2> HIDE DEF P
    <2> QED
      BY <2>2, <2>3, <2>4, SameClean
  <1> QED
    BY <1>4, <1>5, <1>6 DEF BeyondOK

(* The one that was cut ends where the current one does. *)
LEMMA CutRows ==
  ASSUME NEW h, NEW g, NEW ids, NEW tails, NEW ts, NEW from \in Int, NEW x \in Int,
         NEW i \in 1..Len(ids), NEW j \in 1..Len(ids), i < j,
         Splits(h, ids, tails, i, j, from, x), CutAt(h, g, ids, tails, ts, i, j),
         StartAt(h, ids, j) < TillAt(h, ids, i), TillAt(h, ids, i) < TillAt(h, ids, j)
  PROVE  RowsOK(g, ids, i, j + 1)
  <1>1. Numbered(h, ids) /\ RowsOK(h, ids, i, j)
    BY DEF Splits
  <1>2. \A q \in 1..Len(ids) :
          /\ StartAt(g, ids, q) = StartAt(h, ids, q)
          /\ TillAt(g, ids, q) <= TillAt(h, ids, q) /\ TillAt(g, ids, q) \in Int
          /\ StartAt(h, ids, q) < TillAt(h, ids, q) => StartAt(h, ids, q) < TillAt(g, ids, q)
    <2> TAKE q \in 1..Len(ids)
    <2>1. CASE q = j
      BY <1>1, <2>1 DEF CutAt, Numbered
    <2>2. CASE q # j
      BY <1>1, <2>2 DEF CutAt, Numbered
    <2> QED
      BY <2>1, <2>2
  <1>3. ASSUME NEW p \in 1..Len(ids), p >= i
        PROVE  \/ \A q, r \in 1..Len(ids) : p <= q /\ q < r => StartAt(g, ids, q) <= StartAt(g, ids, r)
               \/ StartAt(g, ids, p) < TillAt(g, ids, p) /\ \A q \in 1..Len(ids) : p < q =>
                    /\ StartAt(g, ids, q) <= StartAt(g, ids, p)
                    /\ TillAt(g, ids, q) <= StartAt(g, ids, p) \/ StartAt(g, ids, q) = StartAt(g, ids, p)
    <2>1. CASE \A q, r \in 1..Len(ids) : p <= q /\ q < r => StartAt(h, ids, q) <= StartAt(h, ids, r)
      BY <1>2, <2>1
    <2>2. CASE StartAt(h, ids, p) < TillAt(h, ids, p) /\ \A q \in 1..Len(ids) : p < q =>
                 /\ StartAt(h, ids, q) <= StartAt(h, ids, p)
                 /\ TillAt(h, ids, q) <= StartAt(h, ids, p) \/ StartAt(h, ids, q) = StartAt(h, ids, p)
      <3>1. StartAt(g, ids, p) < TillAt(g, ids, p)
        BY <1>2, <2>2
      <3>2. ASSUME NEW q \in 1..Len(ids), p < q
            PROVE  /\ StartAt(g, ids, q) <= StartAt(g, ids, p)
                   /\ TillAt(g, ids, q) <= StartAt(g, ids, p) \/ StartAt(g, ids, q) = StartAt(g, ids, p)
        <4>1. /\ StartAt(h, ids, q) <= StartAt(h, ids, p)
              /\ TillAt(h, ids, q) <= StartAt(h, ids, p) \/ StartAt(h, ids, q) = StartAt(h, ids, p)
          BY <2>2, <3>2
        <4>2. /\ StartAt(g, ids, q) = StartAt(h, ids, q) /\ StartAt(g, ids, p) = StartAt(h, ids, p)
              /\ TillAt(g, ids, q) <= TillAt(h, ids, q) /\ TillAt(g, ids, q) \in Int
              /\ TillAt(h, ids, q) \in Int /\ StartAt(h, ids, p) \in Int
          BY <1>1, <1>2 DEF Numbered
        <4> QED
          BY <4>1, <4>2
      <3> QED
        BY <3>1, <3>2
    <2> QED
      BY <1>1, <1>3, <2>1, <2>2 DEF RowsOK
  <1>4. ASSUME NEW q \in 1..Len(ids), i < q, q < j + 1
        PROVE  StartAt(g, ids, q) < TillAt(g, ids, i) /\ TillAt(g, ids, q) <= TillAt(g, ids, i)
    <2>1. TillAt(g, ids, i) = TillAt(h, ids, i)
      BY <1>1 DEF CutAt, Numbered
    <2>2. CASE q = j
      BY <1>1, <1>2, <2>1, <2>2 DEF CutAt, Numbered
    <2>3. CASE q < j
      <3>1. /\ StartAt(h, ids, q) < TillAt(h, ids, i) /\ TillAt(h, ids, q) <= TillAt(h, ids, i)
            /\ TillAt(g, ids, q) = TillAt(h, ids, q)
        BY <1>1, <1>4, <2>3 DEF RowsOK, CutAt
      <3> QED
        BY <1>2, <2>1, <3>1
    <2> QED
      BY <1>4, <2>2, <2>3
  <1> QED
    BY <1>3, <1>4 DEF RowsOK

(* What is split does not cross the pieces: neither crossed the whole. *)
LEMMA CutDone ==
  ASSUME NEW h, Len(h) \in Nat, NEW g, NEW ids \in Seq(1..Len(h)),
         NEW tails \in Seq(1..Len(h)), NEW from \in Int, NEW x \in Int,
         NEW i \in 1..Len(ids), NEW j \in 1..Len(ids), i < j,
         Splits(h, ids, tails, i, j, from, x), Truncated(h, g, ids[j], TillAt(h, ids, i))
  PROVE  DoneOK(g, ids, Append(tails, Len(h) + 1), i)
  <1> DEFINE D == Done(ids, i)
             R == Rest(ids, i) \cup PlacesIn(tails)
             d == ids[j]
             t == Len(h) + 1
             e == TillAt(h, ids, i)
             ts == Append(tails, t)
  <1>1. /\ DoneOK(h, ids, tails, i) /\ Numbered(h, ids) /\ Distinct(ids)
        /\ AllPlaced(h, ids) /\ AllPlaced(h, tails)
    BY DEF Splits
  <1>2. PlacesIn(ts) = PlacesIn(tails) \cup {t}
    <2>1. /\ Len(ts) = Len(tails) + 1 /\ ts[Len(tails) + 1] = t
          /\ \A b \in 1..Len(tails) : ts[b] = tails[b]
      OBVIOUS
    <2>2. 1..Len(ts) = 1..Len(tails) \cup {Len(tails) + 1}
      BY <2>1, SMTT(30)
    <2> HIDE DEF ts
    <2> QED
      BY <2>1, <2>2 DEF PlacesIn
  <1>3. /\ D \cup R \subseteq 1..Len(h) /\ d \in Rest(ids, i) /\ d \in 1..Len(h)
        /\ \A p \in D : p # d
    <2>1. i <= j
      BY <1>1 DEF Numbered
    <2>2. d \in Rest(ids, i)
      BY <2>1 DEF Rest
    <2>3. \A p \in D : p # d
      BY <1>1, <2>1, SMTT(30) DEF Done, Distinct, Numbered
    <2>4. /\ \A p \in 1..Len(ids) : ids[p] \in 1..Len(h)
          /\ \A p \in 1..Len(tails) : tails[p] \in 1..Len(h)
      BY ElementOfSeq
    <2> QED
      BY <2>2, <2>3, <2>4 DEF Done, Rest, PlacesIn
  <1>4. \A p \in D \cup R : Placed(h, p)
    BY <1>1 DEF AllPlaced, Done, Rest, PlacesIn
  <1>5. /\ \A p \in 1..Len(h) : /\ Start(g, p) = Start(h, p)
                                /\ p # d => Till(g, p) = Till(h, p)
        /\ Till(g, d) = e /\ Start(h, d) < e /\ e < Till(h, d)
        /\ Start(g, t) = e /\ Till(g, t) = Till(h, d)
    BY DEF Truncated
  <1>6. e \in Int
    BY <1>1 DEF Numbered
  <1>7. ASSUME NEW p \in D, NEW q \in R \cup {t}
        PROVE  Apart(g, p, q)
    <2>1. /\ Apart(h, p, d) /\ Placed(h, p) /\ Placed(h, d) /\ Start(g, p) = Start(h, p)
          /\ Till(g, p) = Till(h, p)
      BY <1>1, <1>3, <1>4, <1>5 DEF DoneOK
    <2>2. CASE q = d
      <3>1. Start(g, d) = Start(h, d)
        BY <1>3, <1>5
      <3> HIDE DEF d, e
      <3> QED
        BY <1>5, <1>6, <2>1, <2>2, <3>1 DEF Apart, Placed
    <2>3. CASE q = t
      <3> HIDE DEF d, e, t
      <3> QED
        BY <1>5, <1>6, <2>1, <2>3 DEF Apart, Placed
    <2>4. CASE q \in R /\ q # d
      <3>1. Apart(h, p, q) /\ q \in 1..Len(h)
        BY <1>1, <1>3, <2>4 DEF DoneOK
      <3> QED
        BY <1>5, <2>1, <2>4, <3>1 DEF Apart
    <2> QED
      BY <2>2, <2>3, <2>4
  <1>8. \A p \in D : Start(g, p) = Start(h, p) /\ Till(g, p) = Till(h, p)
    BY <1>3, <1>5
  <1>9. ASSUME NEW p \in D, NEW q \in D, Cross(g, p, q)
        PROVE  \E k \in D : /\ Holds(g, k, p, q) /\ Free(g, D, k)
                            /\ Parted(g, PlacesIn(ids) \cup PlacesIn(ts), k)
    <2>1. Cross(h, p, q)
      BY <1>8, <1>9 DEF Cross
    <2>2. PICK k \in D : /\ Holds(h, k, p, q) /\ Free(h, D, k)
                         /\ Parted(h, PlacesIn(ids) \cup PlacesIn(tails), k)
      BY <1>1, <2>1 DEF DoneOK
    <2>3. Holds(g, k, p, q) /\ Free(g, D, k)
      BY <1>8, <2>2 DEF Holds, Free, Cross
    <2>4. PICK r \in PlacesIn(ids) \cup PlacesIn(tails) : Till(h, k) <= Start(h, r)
      BY <2>2 DEF Parted
    <2>5. r \in 1..Len(h)
      <3>1. /\ \A m \in 1..Len(ids) : ids[m] \in 1..Len(h)
            /\ \A m \in 1..Len(tails) : tails[m] \in 1..Len(h)
        BY ElementOfSeq
      <3> QED
        BY <3>1 DEF PlacesIn
    <2>6. Till(g, k) <= Start(g, r)
      BY <1>5, <1>8, <2>4, <2>5
    <2> HIDE DEF ts
    <2>7. Parted(g, PlacesIn(ids) \cup PlacesIn(ts), k)
      BY <1>2, <2>6 DEF Parted
    <2> QED
      BY <2>3, <2>7
  <1> HIDE DEF ts, d, t, e, D
  <1>10. DoneOK(g, ids, ts, i)
    BY <1>2, <1>7, <1>9 DEF DoneOK, D
  <1> QED
    BY <1>10 DEF ts, t

(***************************************************************************)
(* The next annotation begins later: the tails go in front of it.          *)
(***************************************************************************)

(* Two places that hold the same annotation. *)
SameAt(h, s, p, t, q) ==
  /\ s[p] = t[q] /\ StartAt(h, s, p) = StartAt(h, t, q) /\ TillAt(h, s, p) = TillAt(h, t, q)
  /\ ChipAt(h, s, p) = ChipAt(h, t, q)

(* Where a place of the new slice comes from. *)
Origin(h, ids, tails, new, j, p) ==
  \/ p < j /\ p \in 1..Len(ids) /\ SameAt(h, new, p, ids, p)
  \/ \E b \in 1..Len(tails) : p = j - 1 + b /\ SameAt(h, new, p, tails, b)
  \/ \E q \in 1..Len(ids) : q >= j /\ p = q + Len(tails) /\ SameAt(h, new, p, ids, q)

(* The tails are put in front of place j. *)
Merged(h, ids, tails, new, j) ==
  /\ Len(new) = Len(ids) + Len(tails)
  /\ \A p \in 1..Len(new) : Origin(h, ids, tails, new, j, p)
  /\ \A p \in 1..Len(ids) : p < j => SameAt(h, new, p, ids, p)
  /\ \A p \in 1..Len(ids) : p >= j => SameAt(h, new, p + Len(tails), ids, p)
  /\ \A b \in 1..Len(tails) : SameAt(h, new, j - 1 + b, tails, b)

(* What has the same place of the heap is the same. *)
LEMMA SamePlace ==
  ASSUME NEW h, NEW s, NEW p, NEW t, NEW q, s[p] = t[q]
  PROVE  SameAt(h, s, p, t, q)
  BY DEF SameAt, StartAt, TillAt, ChipAt

(* Where the elements of two slices go. *)
LEMMA ConcatTwo ==
  ASSUME NEW n, NEW s \in Seq(n), NEW t \in Seq(n)
  PROVE  /\ s \o t \in Seq(n) /\ Len(s \o t) = Len(s) + Len(t)
         /\ Len(s) \in Nat /\ Len(t) \in Nat
         /\ \A p \in 1..Len(s) : (s \o t)[p] = s[p]
         /\ \A p \in 1..Len(t) : (s \o t)[Len(s) + p] = t[p]
  <1> DEFINE r == s \o t
  <1>1. /\ r \in Seq(n) /\ Len(r) = Len(s) + Len(t) /\ Len(s) \in Nat /\ Len(t) \in Nat
    OBVIOUS
  <1>2. \A p \in 1..(Len(s) + Len(t)) : r[p] = IF p <= Len(s) THEN s[p] ELSE t[p - Len(s)]
    BY ConcatProperties
  <1> HIDE DEF r
  <1>3. ASSUME NEW p \in 1..Len(s)
        PROVE  r[p] = s[p]
    <2>1. p \in 1..(Len(s) + Len(t)) /\ p <= Len(s)
      BY <1>1
    <2> QED
      BY <1>2, <2>1
  <1>4. ASSUME NEW p \in 1..Len(t)
        PROVE  r[Len(s) + p] = t[p]
    <2>1. Len(s) + p \in 1..(Len(s) + Len(t)) /\ ~(Len(s) + p <= Len(s)) /\ (Len(s) + p) - Len(s) = p
      BY <1>1
    <2> QED
      BY <1>2, <2>1
  <1>5. /\ r \in Seq(n) /\ Len(r) = Len(s) + Len(t)
        /\ Len(s) \in Nat /\ Len(t) \in Nat
        /\ \A p \in 1..Len(s) : r[p] = s[p]
        /\ \A p \in 1..Len(t) : r[Len(s) + p] = t[p]
    BY <1>1, <1>3, <1>4
  <1> QED
    BY <1>5 DEF r

(* And those of three. *)
LEMMA ConcatThree ==
  ASSUME NEW n, NEW a \in Seq(n), NEW t \in Seq(n), NEW b \in Seq(n)
  PROVE  /\ a \o t \o b \in Seq(n) /\ Len(a \o t \o b) = Len(a) + Len(t) + Len(b)
         /\ \A p \in 1..Len(a) : (a \o t \o b)[p] = a[p]
         /\ \A p \in 1..Len(t) : (a \o t \o b)[Len(a) + p] = t[p]
         /\ \A p \in 1..Len(b) : (a \o t \o b)[Len(a) + Len(t) + p] = b[p]
  <1> DEFINE c == a \o t
             d == c \o b
  <1>1. /\ c \in Seq(n) /\ Len(c) = Len(a) + Len(t) /\ Len(a) \in Nat /\ Len(t) \in Nat
        /\ \A p \in 1..Len(a) : c[p] = a[p]
        /\ \A p \in 1..Len(t) : c[Len(a) + p] = t[p]
    <2>1. \A s, r \in Seq(n) : s \o r \in Seq(n) /\ Len(s \o r) = Len(s) + Len(r)
      OBVIOUS
    <2> QED
      BY <2>1, ConcatTwo
  <1> HIDE DEF c
  <1>2. /\ d \in Seq(n) /\ Len(d) = Len(c) + Len(b) /\ Len(b) \in Nat
        /\ \A p \in 1..Len(c) : d[p] = c[p]
        /\ \A p \in 1..Len(b) : d[Len(c) + p] = b[p]
    <2>1. c \in Seq(n)
      BY <1>1
    <2> QED
      BY <2>1, ConcatTwo
  <1> HIDE DEF d
  <1>3. /\ \A p \in 1..Len(a) : p \in 1..Len(c)
        /\ \A p \in 1..Len(t) : Len(a) + p \in 1..Len(c)
    BY <1>1
  <1>4. /\ d \in Seq(n) /\ Len(d) = Len(a) + Len(t) + Len(b)
        /\ \A p \in 1..Len(a) : d[p] = a[p]
        /\ \A p \in 1..Len(t) : d[Len(a) + p] = t[p]
        /\ \A p \in 1..Len(b) : d[Len(a) + Len(t) + p] = b[p]
    BY <1>1, <1>2, <1>3
  <1> QED
    BY <1>4 DEF d, c

(* Insert merges them like that. *)
LEMMA MergedSlices ==
  ASSUME NEW h, NEW n, NEW ids \in Seq(n), NEW tails \in Seq(n), NEW j \in 1..(Len(ids) + 1)
  PROVE  LET new == SubSeq(ids, 1, j - 1) \o tails \o SubSeq(ids, j, Len(ids))
         IN  new \in Seq(n) /\ Merged(h, ids, tails, new, j)
  <1> DEFINE a == SubSeq(ids, 1, j - 1)
             b == SubSeq(ids, j, Len(ids))
             new == a \o tails \o b
  <1>1. Len(ids) \in Nat /\ Len(tails) \in Nat /\ j \in Nat /\ j >= 1 /\ j <= Len(ids) + 1
    OBVIOUS
  <1>2. /\ a \in Seq(n) /\ Len(a) = j - 1 /\ \A p \in 1..(j - 1) : a[p] = ids[p]
    OBVIOUS
  <1>3. /\ b \in Seq(n) /\ Len(b) = Len(ids) - j + 1
        /\ \A p \in 1..(Len(ids) - j + 1) : b[p] = ids[j + p - 1]
    OBVIOUS
  <1> HIDE DEF a, b
  <1>4. /\ new \in Seq(n) /\ Len(new) = Len(a) + Len(tails) + Len(b)
        /\ \A p \in 1..Len(a) : new[p] = a[p]
        /\ \A p \in 1..Len(tails) : new[Len(a) + p] = tails[p]
        /\ \A p \in 1..Len(b) : new[Len(a) + Len(tails) + p] = b[p]
    <2>1. a \in Seq(n) /\ b \in Seq(n)
      BY <1>2, <1>3
    <2> QED
      BY <2>1, ConcatThree
  <1> HIDE DEF new
  <1>5. Len(new) = Len(ids) + Len(tails)
    BY <1>1, <1>2, <1>3, <1>4
  <1>6. ASSUME NEW p \in 1..Len(ids), p < j
        PROVE  SameAt(h, new, p, ids, p)
    <2>1. p \in 1..(j - 1)
      BY <1>1, <1>6
    <2>2. new[p] = ids[p]
      BY <1>2, <1>4, <2>1
    <2> QED
      BY <2>2, SamePlace
  <1>7. ASSUME NEW p \in 1..Len(ids), p >= j
        PROVE  SameAt(h, new, p + Len(tails), ids, p)
    <2>1. /\ p - j + 1 \in 1..(Len(ids) - j + 1) /\ j + (p - j + 1) - 1 = p
          /\ (j - 1) + Len(tails) + (p - j + 1) = p + Len(tails)
      BY <1>1, <1>7
    <2>2. b[p - j + 1] = ids[p]
      BY <1>3, <2>1
    <2>3. new[p + Len(tails)] = ids[p]
      BY <1>2, <1>3, <1>4, <2>1, <2>2
    <2> QED
      BY <2>3, SamePlace
  <1>8. ASSUME NEW c \in 1..Len(tails)
        PROVE  SameAt(h, new, j - 1 + c, tails, c)
    BY <1>2, <1>4, SamePlace
  <1>9. ASSUME NEW p \in 1..Len(new)
        PROVE  Origin(h, ids, tails, new, j, p)
    <2>1. CASE p < j
      <3>1. p \in 1..Len(ids)
        BY <1>1, <1>5, <2>1
      <3> QED
        BY <1>6, <2>1, <3>1 DEF Origin
    <2>2. CASE p >= j /\ p < j + Len(tails)
      <3> DEFINE c == p - j + 1
      <3>1. c \in 1..Len(tails) /\ p = j - 1 + c
        BY <1>1, <2>2
      <3> HIDE DEF c
      <3>2. SameAt(h, new, p, tails, c)
        BY <1>8, <3>1
      <3> QED
        BY <3>1, <3>2 DEF Origin
    <2>3. CASE p >= j + Len(tails)
      <3> DEFINE q == p - Len(tails)
      <3>1. q \in 1..Len(ids) /\ q >= j /\ p = q + Len(tails)
        BY <1>1, <1>5, <2>3
      <3> HIDE DEF q
      <3>2. SameAt(h, new, p, ids, q)
        BY <1>7, <3>1
      <3> QED
        BY <3>1, <3>2 DEF Origin
    <2> QED
      BY <1>1, <2>1, <2>2, <2>3
  <1>10. Merged(h, ids, tails, new, j)
    BY <1>5, <1>6, <1>7, <1>8, <1>9 DEF Merged
  <1> QED
    BY <1>4, <1>10 DEF new, a, b

(* And loses no annotation. *)
LEMMA MergedPlaces ==
  ASSUME NEW h, NEW ids, NEW tails, NEW new, NEW j \in Int, Merged(h, ids, tails, new, j),
         Len(ids) \in Nat, Len(tails) \in Nat, 1 <= j, j <= Len(ids) + 1
  PROVE  /\ Done(new, j) = Done(ids, j)
         /\ Rest(new, j) = PlacesIn(tails) \cup Rest(ids, j)
         /\ PlacesIn(new) = PlacesIn(ids) \cup PlacesIn(tails)
  <1>1. /\ Len(new) = Len(ids) + Len(tails)
        /\ \A p \in 1..Len(ids) : p < j => new[p] = ids[p]
        /\ \A p \in 1..Len(ids) : p >= j => new[p + Len(tails)] = ids[p]
        /\ \A b \in 1..Len(tails) : new[j - 1 + b] = tails[b]
    BY DEF Merged, SameAt
  <1>2. \A p \in 1..Len(new) :
          \/ p < j /\ p \in 1..Len(ids) /\ new[p] = ids[p]
          \/ \E b \in 1..Len(tails) : p = j - 1 + b /\ new[p] = tails[b]
          \/ \E q \in 1..Len(ids) : q >= j /\ p = q + Len(tails) /\ new[p] = ids[q]
    BY DEF Merged, SameAt, Origin
  <1>3. Done(new, j) \subseteq Done(ids, j)
    <2> SUFFICES ASSUME NEW p \in 1..Len(new), p < j PROVE new[p] \in Done(ids, j)
      BY DEF Done
    <2>1. p \in 1..Len(ids) /\ new[p] = ids[p]
      BY <1>2
    <2> QED
      BY <2>1 DEF Done
  <1>4. Done(ids, j) \subseteq Done(new, j)
    <2> SUFFICES ASSUME NEW p \in 1..Len(ids), p < j PROVE ids[p] \in Done(new, j)
      BY DEF Done
    <2>1. p \in 1..Len(new) /\ new[p] = ids[p]
      BY <1>1
    <2> QED
      BY <2>1 DEF Done
  <1>5. Rest(new, j) \subseteq PlacesIn(tails) \cup Rest(ids, j)
    <2> SUFFICES ASSUME NEW p \in 1..Len(new), p >= j
                 PROVE  new[p] \in PlacesIn(tails) \cup Rest(ids, j)
      BY DEF Rest
    <2> QED
      BY <1>2 DEF PlacesIn, Rest
  <1>6. Rest(ids, j) \subseteq Rest(new, j)
    <2> SUFFICES ASSUME NEW p \in 1..Len(ids), p >= j PROVE ids[p] \in Rest(new, j)
      BY DEF Rest
    <2>1. p + Len(tails) \in 1..Len(new) /\ p + Len(tails) >= j /\ new[p + Len(tails)] = ids[p]
      BY <1>1
    <2> QED
      BY <2>1 DEF Rest
  <1>7. PlacesIn(tails) \subseteq Rest(new, j)
    <2> SUFFICES ASSUME NEW b \in 1..Len(tails) PROVE tails[b] \in Rest(new, j)
      BY DEF PlacesIn
    <2>1. j - 1 + b \in 1..Len(new) /\ j - 1 + b >= j /\ new[j - 1 + b] = tails[b]
      BY <1>1
    <2> QED
      BY <2>1 DEF Rest
  <1>8. PlacesIn(new) = Done(new, j) \cup Rest(new, j) /\ PlacesIn(ids) = Done(ids, j) \cup Rest(ids, j)
    BY DEF PlacesIn, Done, Rest
  <1> QED
    BY <1>3, <1>4, <1>5, <1>6, <1>7, <1>8

(* What lies before the one that begins later, and what follows it.        *)
LEMMA InsertFacts ==
  ASSUME NEW h, NEW ids, NEW tails, NEW from \in Int, NEW x \in Int,
         NEW i \in 1..Len(ids), NEW j \in 1..Len(ids), i < j,
         Splits(h, ids, tails, i, j, from, x), TillAt(h, ids, i) <= StartAt(h, ids, j)
  PROVE  /\ \A q, r \in 1..Len(ids) : i <= q /\ q < r => StartAt(h, ids, q) <= StartAt(h, ids, r)
         /\ \A q \in 1..Len(ids) : q >= j => TillAt(h, ids, i) <= StartAt(h, ids, q)
         /\ \A q \in 1..Len(ids) : i <= q /\ q < j => TillAt(h, ids, q) <= TillAt(h, ids, i)
         /\ \A b \in 1..Len(tails) :
              /\ TailOK(h, ids, tails, i, j, from, x, b)
              /\ TillAt(h, ids, i) <= StartAt(h, tails, b) /\ StartAt(h, tails, b) < x
              /\ \A q \in 1..Len(ids) : q < j => StartAt(h, ids, q) < x
  <1>1. Numbered(h, ids) /\ Numbered(h, tails) /\ RowsOK(h, ids, i, j) /\ i >= i
    BY DEF Splits, Numbered
  <1>2. \A q, r \in 1..Len(ids) : i <= q /\ q < r => StartAt(h, ids, q) <= StartAt(h, ids, r)
    <2>1. CASE StartAt(h, ids, i) < TillAt(h, ids, i) /\ \A q \in 1..Len(ids) : i < q =>
                 /\ StartAt(h, ids, q) <= StartAt(h, ids, i)
                 /\ TillAt(h, ids, q) <= StartAt(h, ids, i) \/ StartAt(h, ids, q) = StartAt(h, ids, i)
      <3>1. StartAt(h, ids, j) <= StartAt(h, ids, i)
        BY <2>1
      <3> QED
        BY <1>1, <2>1, <3>1 DEF Numbered
    <2> QED
      BY <1>1, <2>1 DEF RowsOK
  <1>3. \A q \in 1..Len(ids) : q >= j => TillAt(h, ids, i) <= StartAt(h, ids, q)
    <2> SUFFICES ASSUME NEW q \in 1..Len(ids), q > j
                 PROVE  TillAt(h, ids, i) <= StartAt(h, ids, q)
      BY <1>1 DEF Numbered
    <2>1. StartAt(h, ids, j) <= StartAt(h, ids, q) /\ i <= j
      BY <1>1, <1>2 DEF Numbered
    <2> QED
      BY <1>1, <2>1 DEF Numbered
  <1>4. \A q \in 1..Len(ids) : i < q /\ q < j =>
          StartAt(h, ids, q) < TillAt(h, ids, i) /\ TillAt(h, ids, q) <= TillAt(h, ids, i)
    BY <1>1 DEF RowsOK
  <1>5. \A q \in 1..Len(ids) : i <= q /\ q < j => TillAt(h, ids, q) <= TillAt(h, ids, i)
    <2> SUFFICES ASSUME NEW q \in 1..Len(ids), i <= q, q < j
                 PROVE  TillAt(h, ids, q) <= TillAt(h, ids, i)
      OBVIOUS
    <2>1. CASE q = i
      BY <1>1, <2>1 DEF Numbered
    <2>2. CASE i < q
      BY <1>4, <2>2
    <2> QED
      BY <1>1, <2>1, <2>2 DEF Numbered
  <1>6. ASSUME NEW b \in 1..Len(tails)
        PROVE  /\ TailOK(h, ids, tails, i, j, from, x, b)
               /\ TillAt(h, ids, i) <= StartAt(h, tails, b) /\ StartAt(h, tails, b) < x
               /\ \A q \in 1..Len(ids) : q < j => StartAt(h, ids, q) < x
    <2>1. TailOK(h, ids, tails, i, j, from, x, b)
      BY DEF Splits, TailsOK
    <2>2. /\ TillAt(h, ids, i) <= StartAt(h, tails, b)
          /\ StartAt(h, tails, b) < TillAt(h, tails, b) /\ TillAt(h, tails, b) <= x
      BY <2>1, <1>1 DEF TailOK, Numbered
    <2>3. StartAt(h, tails, b) < x
      BY <1>1, <2>2 DEF Numbered
    <2>4. CASE \A q \in 1..Len(ids) : StartAt(h, ids, q) < x
      BY <2>1, <2>2, <2>3, <2>4
    <2>5. CASE StartAt(h, ids, i) < x
      <3>1. TillAt(h, ids, i) <= x
        BY <2>5 DEF Splits, Within
      <3>2. ASSUME NEW q \in 1..Len(ids), q < j
            PROVE  StartAt(h, ids, q) < x
        <4>1. CASE q < i
          <5> SUFFICES ASSUME StartAt(h, ids, q) >= x PROVE FALSE
            BY <1>1 DEF Numbered
          <5>1. Front(h, ids, q, ids, i)
            BY <4>1 DEF Splits, BeyondOK
          <5> QED
            BY <1>1, <2>5, <5>1 DEF Numbered, Front
        <4>2. CASE q > i
          BY <1>1, <1>4, <3>1, <3>2, <4>2 DEF Numbered
        <4> QED
          BY <2>5, <4>1, <4>2, <1>1 DEF Numbered
      <3> QED
        BY <2>1, <2>2, <2>3, <3>2
    <2> QED
      BY <2>1, <2>4, <2>5 DEF TailOK
  <1> QED
    BY <1>2, <1>3, <1>5, <1>6

(* Insert: no annotation is there twice, and all lie in the text. *)
LEMMA InsertBase ==
  ASSUME NEW h, NEW ids, NEW tails, NEW new, NEW from \in Int, NEW x \in Int,
         NEW i, NEW k, NEW j \in 1..(Len(ids) + 1),
         Splits(h, ids, tails, i, k, from, x), Merged(h, ids, tails, new, j)
  PROVE  Distinct(new) /\ Within(h, new, from, x)
  <1>1. /\ Numbered(h, ids) /\ Numbered(h, tails) /\ Distinct(ids) /\ Distinct(tails)
        /\ \A b \in 1..Len(tails) : \A p \in 1..Len(ids) : ids[p] # tails[b]
    BY DEF Splits, TailsOK, TailOK
  <1>3. ASSUME NEW p \in 1..Len(new), NEW q \in 1..Len(new), new[p] = new[q]
        PROVE  p = q
    <2>1. \A m, n \in 1..Len(ids) :
            SameAt(h, new, p, ids, m) /\ SameAt(h, new, q, ids, n) => m = n
      BY <1>1, <1>3 DEF Distinct, SameAt
    <2>2. \A b, c \in 1..Len(tails) :
            SameAt(h, new, p, tails, b) /\ SameAt(h, new, q, tails, c) => b = c
      BY <1>1, <1>3 DEF Distinct, SameAt
    <2>3. \A m \in 1..Len(ids), b \in 1..Len(tails) :
            /\ ~(SameAt(h, new, p, ids, m) /\ SameAt(h, new, q, tails, b))
            /\ ~(SameAt(h, new, p, tails, b) /\ SameAt(h, new, q, ids, m))
      BY <1>1, <1>3 DEF SameAt
    <2>4. Origin(h, ids, tails, new, j, p) /\ Origin(h, ids, tails, new, j, q)
      BY DEF Merged
    <2>5. CASE p < j /\ p \in 1..Len(ids) /\ SameAt(h, new, p, ids, p)
      BY <2>1, <2>3, <2>4, <2>5 DEF Origin
    <2>6. CASE \E b \in 1..Len(tails) : p = j - 1 + b /\ SameAt(h, new, p, tails, b)
      BY <2>2, <2>3, <2>4, <2>6 DEF Origin
    <2>7. CASE \E m \in 1..Len(ids) : m >= j /\ p = m + Len(tails) /\ SameAt(h, new, p, ids, m)
      BY <2>1, <2>3, <2>4, <2>7 DEF Origin
    <2> QED
      BY <2>4, <2>5, <2>6, <2>7 DEF Origin
  <1>4. Distinct(new)
    BY <1>3 DEF Distinct
  <1>5. ASSUME NEW p \in 1..Len(new)
        PROVE  from <= StartAt(h, new, p) /\ (StartAt(h, new, p) < x => TillAt(h, new, p) <= x)
    <2>1. ASSUME NEW q \in 1..Len(ids), SameAt(h, new, p, ids, q)
          PROVE  from <= StartAt(h, new, p) /\ (StartAt(h, new, p) < x => TillAt(h, new, p) <= x)
      BY <2>1 DEF SameAt, Splits, Within
    <2>2. ASSUME NEW b \in 1..Len(tails), SameAt(h, new, p, tails, b)
          PROVE  from <= StartAt(h, new, p) /\ TillAt(h, new, p) <= x
      BY <2>2 DEF SameAt, Splits, TailsOK, TailOK
    <2>3. Origin(h, ids, tails, new, j, p)
      BY DEF Merged
    <2> QED
      BY <2>1, <2>2, <2>3 DEF Origin
  <1> QED
    BY <1>4, <1>5 DEF Within

(* The first annotation is still the first. *)
LEMMA InsertHead ==
  ASSUME NEW h, NEW ids, NEW tails, NEW new, NEW from \in Int, NEW x \in Int,
         NEW i \in 1..Len(ids), NEW j \in 1..Len(ids), i < j,
         Splits(h, ids, tails, i, j, from, x), Merged(h, ids, tails, new, j)
  PROVE  HeadOK(h, new, <<>>)
  <1>1. Numbered(h, ids) /\ Numbered(h, tails) /\ HeadOK(h, ids, tails)
    BY DEF Splits
  <1> SUFFICES ASSUME NEW p \in 1..Len(new), \A r \in 1..(p - 1) : ChipAt(h, new, r),
                      NEW q \in 1..Len(new), p < q
               PROVE  Front(h, new, p, new, q)
    <2>1. 1..Len(<<>>) = {}
      OBVIOUS
    <2> QED
      BY <2>1 DEF HeadOK
  <1>2. p \in 1..Len(ids) /\ SameAt(h, new, p, ids, p) /\ (p < j \/ Len(tails) = 0)
    <2>1. CASE Len(tails) = 0
      BY <1>1, <2>1 DEF Merged, Origin, Numbered
    <2>2. CASE Len(tails) > 0
      <3>1. 1 \in 1..Len(tails)
        BY <1>1, <2>2 DEF Numbered
      <3>2. PICK m \in 1..Len(ids) : m <= i /\ ~ChipAt(h, ids, m)
        BY <3>1 DEF Splits, TailsOK, TailOK
      <3>3. ~ChipAt(h, new, m)
        BY <1>1, <3>2, SMTT(30) DEF Merged, SameAt, Numbered
      <3>4. p <= m
        <4> SUFFICES ASSUME p > m PROVE FALSE
          BY <1>1 DEF Merged, Numbered
        <4>1. m \in 1..(p - 1)
          BY <1>1 DEF Numbered
        <4> QED
          BY <3>3, <4>1
      <3>5. p \in 1..Len(ids) /\ p < j
        BY <1>1, <3>2, <3>4 DEF Numbered
      <3> QED
        BY <3>5 DEF Merged
    <2> QED
      BY <1>1, <2>1, <2>2 DEF Numbered
  <1>3. \A r \in 1..(p - 1) : ChipAt(h, ids, r)
    <2> SUFFICES ASSUME NEW r \in 1..(p - 1) PROVE ChipAt(h, ids, r)
      OBVIOUS
    <2>1. r \in 1..Len(ids) /\ ChipAt(h, new, r)
      BY <1>1, <1>2 DEF Numbered
    <2>2. SameAt(h, new, r, ids, r)
      <3>1. CASE r < j
        BY <2>1, <3>1 DEF Merged
      <3>2. CASE Len(tails) = 0
        <4>1. r + 0 = r
          BY <2>1
        <4> QED
          BY <2>1, <3>1, <3>2, <4>1 DEF Merged
      <3> QED
        BY <1>2, <2>1, <3>1, <3>2
    <2> QED
      BY <2>1, <2>2 DEF SameAt
  <1>4. /\ \A m \in 1..Len(ids) : p < m => Front(h, ids, p, ids, m)
        /\ \A b \in 1..Len(tails) : Front(h, ids, p, tails, b)
    BY <1>1, <1>2, <1>3 DEF HeadOK
  <1>5. /\ \A m \in 1..Len(ids) : p < m /\ SameAt(h, new, q, ids, m) => Front(h, new, p, new, q)
        /\ \A b \in 1..Len(tails) : SameAt(h, new, q, tails, b) => Front(h, new, p, new, q)
    BY <1>2, <1>4 DEF Front, SameAt
  <1>6. Origin(h, ids, tails, new, j, q)
    BY DEF Merged
  <1>7. ASSUME NEW m \in 1..Len(ids), m >= j, q = m + Len(tails)
        PROVE  p < m
    BY <1>1, <1>2, <1>7 DEF Numbered
  <1> QED
    BY <1>5, <1>6, <1>7 DEF Origin

(* What lies beyond the text keeps its order.                              *)
LEMMA InsertOrder ==
  ASSUME NEW h, NEW ids, NEW tails, NEW new, NEW from \in Int, NEW x \in Int,
         NEW i \in 1..Len(ids), NEW j \in 1..Len(ids), i < j,
         Splits(h, ids, tails, i, j, from, x), TillAt(h, ids, i) <= StartAt(h, ids, j),
         Merged(h, ids, tails, new, j),
         NEW p \in 1..Len(new), StartAt(h, new, p) >= x
  PROVE  \E q \in 1..Len(ids) :
           /\ SameAt(h, new, p, ids, q)
           /\ p < j => q = p /\ Len(tails) = 0
           /\ p >= j => q >= j /\ p = q + Len(tails)
  <1>1. Numbered(h, ids) /\ Numbered(h, tails)
    BY DEF Splits
  <1>2. \A b \in 1..Len(tails) :
          /\ StartAt(h, tails, b) < x
          /\ \A q \in 1..Len(ids) : q < j => StartAt(h, ids, q) < x
    BY InsertFacts
  <1>3. Origin(h, ids, tails, new, j, p)
    BY DEF Merged
  <1>4. CASE p < j /\ p \in 1..Len(ids) /\ SameAt(h, new, p, ids, p)
    <2>1. Len(tails) = 0
      <3> SUFFICES ASSUME Len(tails) # 0 PROVE FALSE
        OBVIOUS
      <3>1. 1 \in 1..Len(tails)
        BY <1>1 DEF Numbered
      <3>2. StartAt(h, ids, p) < x /\ StartAt(h, ids, p) >= x
        BY <1>2, <1>4, <3>1 DEF SameAt
      <3> QED
        BY <1>1, <1>4, <3>2 DEF Numbered
    <2> QED
      BY <1>4, <2>1
  <1>5. CASE \E b \in 1..Len(tails) : p = j - 1 + b /\ SameAt(h, new, p, tails, b)
    BY <1>1, <1>2, <1>5 DEF SameAt, Numbered
  <1>6. CASE \E q \in 1..Len(ids) : q >= j /\ p = q + Len(tails) /\ SameAt(h, new, p, ids, q)
    BY <1>1, <1>6 DEF Numbered
  <1> QED
    BY <1>3, <1>4, <1>5, <1>6 DEF Origin

(* What lies beyond keeps its order. *)
LEMMA InsertBeyond ==
  ASSUME NEW h, NEW ids, NEW tails, NEW new, NEW from \in Int, NEW x \in Int,
         NEW i \in 1..Len(ids), NEW j \in 1..Len(ids), i < j,
         Splits(h, ids, tails, i, j, from, x), TillAt(h, ids, i) <= StartAt(h, ids, j),
         Merged(h, ids, tails, new, j)
  PROVE  BeyondOK(h, new, j, x)
  <1>1. Numbered(h, ids) /\ Numbered(h, tails) /\ BeyondOK(h, ids, i, x)
    BY DEF Splits
  <1>2. \A p \in 1..Len(new) : StartAt(h, new, p) >= x =>
          \E q \in 1..Len(ids) :
           /\ SameAt(h, new, p, ids, q)
           /\ p < j => q = p /\ Len(tails) = 0
           /\ p >= j => q >= j /\ p = q + Len(tails)
    BY InsertOrder
  <1>3. \A q \in 1..Len(new) : Origin(h, ids, tails, new, j, q)
    BY DEF Merged
  <1>4. ASSUME NEW p \in 1..Len(new), NEW q \in 1..Len(new), p < q, StartAt(h, new, p) >= x
        PROVE  Front(h, new, p, new, q)
    <2>1. PICK m \in 1..Len(ids) : /\ SameAt(h, new, p, ids, m)
                                   /\ p < j => m = p /\ Len(tails) = 0
                                   /\ p >= j => m >= j /\ p = m + Len(tails)
      BY <1>2, <1>4
    <2>2. PICK r \in 1..Len(ids) : m < r /\ SameAt(h, new, q, ids, r)
      BY <1>1, <1>3, <1>4, <2>1, SMTT(30) DEF Origin, Numbered
    <2>3. Front(h, ids, m, ids, r)
      BY <1>1, <1>4, <2>1, <2>2 DEF BeyondOK, SameAt
    <2> QED
      BY <2>1, <2>2, <2>3 DEF Front, SameAt
  <1>5. ASSUME NEW p \in 1..Len(new), p < j, StartAt(h, new, p) >= x
        PROVE  \/ \A q \in 1..Len(new) : q >= j => TillAt(h, new, p) <= StartAt(h, new, q)
               \/ \A q \in 1..Len(new) : StartAt(h, new, q) < TillAt(h, new, p)
    <2>1. p \in 1..Len(ids) /\ SameAt(h, new, p, ids, p) /\ Len(tails) = 0
      BY <1>2, <1>5
    <2>2. \A q \in 1..Len(new) : q \in 1..Len(ids) /\ SameAt(h, new, q, ids, q)
      BY <1>1, <1>3, <2>1 DEF Origin, Numbered
    <2>3. \/ \A q \in 1..Len(ids) : q >= j => TillAt(h, ids, p) <= StartAt(h, ids, q)
          \/ \A q \in 1..Len(ids) : StartAt(h, ids, q) < TillAt(h, ids, p)
      <3>1. CASE p < i
        <4>1. \A q \in 1..Len(ids) : q >= j => q >= i
          BY <1>1 DEF Numbered
        <4>2. StartAt(h, ids, p) >= x
          BY <1>5, <2>1 DEF SameAt
        <4> QED
          BY <1>1, <2>1, <3>1, <4>1, <4>2 DEF BeyondOK
      <3>2. CASE p >= i
        <4>1. TillAt(h, ids, p) <= TillAt(h, ids, i)
          BY <1>5, <2>1, <3>2, InsertFacts
        <4>2. \A q \in 1..Len(ids) : q >= j => TillAt(h, ids, i) <= StartAt(h, ids, q)
          BY InsertFacts
        <4> QED
          BY <1>1, <2>1, <4>1, <4>2, SMTT(30) DEF Numbered
      <3> QED
        BY <1>1, <2>1, <3>1, <3>2 DEF Numbered
    <2> QED
      BY <2>1, <2>2, <2>3 DEF SameAt
  <1>6. From(h, PlacesIn(new), x) = From(h, PlacesIn(ids), x)
    <2>1. PlacesIn(new) = PlacesIn(ids) \cup PlacesIn(tails)
      <3>1. 1 <= j /\ j <= Len(ids) + 1 /\ Len(ids) \in Nat /\ Len(tails) \in Nat /\ j \in Int
        BY <1>1 DEF Numbered
      <3> QED
        BY <3>1, MergedPlaces
    <2>2. \A b \in 1..Len(tails) : StartAt(h, tails, b) < x /\ StartAt(h, tails, b) \in Int
      BY <1>1, InsertFacts DEF Numbered
    <2>3. \A r \in PlacesIn(tails) : ~(Start(h, r) >= x)
      BY <2>2 DEF PlacesIn, StartAt
    <2> QED
      BY <2>1, <2>3 DEF From
  <1> QED
    BY <1>1, <1>4, <1>5, <1>6 DEF BeyondOK

(* The tails come first, then what was sorted. *)
LEMMA InsertRows ==
  ASSUME NEW h, NEW ids, NEW tails, NEW new, NEW from \in Int, NEW x \in Int,
         NEW i \in 1..Len(ids), NEW j \in 1..Len(ids), i < j,
         Splits(h, ids, tails, i, j, from, x), TillAt(h, ids, i) <= StartAt(h, ids, j),
         Merged(h, ids, tails, new, j)
  PROVE  RowsOK(h, new, j, j + 1)
  <1>1. Numbered(h, ids) /\ Numbered(h, tails)
    BY DEF Splits
  <1>2. \A p \in 1..Len(new) : Origin(h, ids, tails, new, j, p)
    BY DEF Merged
  <1>3. \A p \in 1..Len(new) : p >= j =>
          \/ \E b \in 1..Len(tails) : p = j - 1 + b /\ SameAt(h, new, p, tails, b)
          \/ \E q \in 1..Len(ids) : q >= j /\ p = q + Len(tails) /\ SameAt(h, new, p, ids, q)
    BY <1>1, <1>2 DEF Origin, Merged, Numbered
  <1>4. \A q, r \in 1..Len(ids) : j <= q /\ q < r => StartAt(h, ids, q) <= StartAt(h, ids, r)
    <2>1. \A q \in 1..Len(ids) : j <= q => i <= q
      BY <1>1 DEF Numbered
    <2> QED
      BY <2>1, InsertFacts
  <1>5. ASSUME NEW q \in 1..Len(new), NEW r \in 1..Len(new), q < r,
               NEW k \in 1..Len(ids), k >= j, q = k + Len(tails), SameAt(h, new, q, ids, k)
        PROVE  StartAt(h, new, q) <= StartAt(h, new, r)
    <2>1. PICK m \in 1..Len(ids) : m >= j /\ r = m + Len(tails) /\ SameAt(h, new, r, ids, m)
      <3>1. r >= j /\ \A b \in 1..Len(tails) : r # j - 1 + b
        BY <1>1, <1>5, SMTT(30) DEF Numbered
      <3> QED
        BY <1>3, <3>1
    <2>2. k < m /\ j <= k
      BY <1>1, <1>5, <2>1 DEF Numbered
    <2>3. StartAt(h, ids, k) <= StartAt(h, ids, m)
      BY <1>4, <2>2
    <2> QED
      BY <1>5, <2>1, <2>3 DEF SameAt
  <1>6. ASSUME NEW p \in 1..Len(new), p >= j
        PROVE  \/ \A q, r \in 1..Len(new) : p <= q /\ q < r => StartAt(h, new, q) <= StartAt(h, new, r)
               \/ StartAt(h, new, p) < TillAt(h, new, p) /\ \A q \in 1..Len(new) : p < q =>
                    /\ StartAt(h, new, q) <= StartAt(h, new, p)
                    /\ TillAt(h, new, q) <= StartAt(h, new, p) \/ StartAt(h, new, q) = StartAt(h, new, p)
    <2>1. ASSUME NEW k \in 1..Len(ids), k >= j, p = k + Len(tails)
          PROVE  \A q, r \in 1..Len(new) : p <= q /\ q < r => StartAt(h, new, q) <= StartAt(h, new, r)
      <3> SUFFICES ASSUME NEW q \in 1..Len(new), NEW r \in 1..Len(new), p <= q, q < r
                   PROVE  StartAt(h, new, q) <= StartAt(h, new, r)
        OBVIOUS
      <3>1. PICK m \in 1..Len(ids) : m >= j /\ q = m + Len(tails) /\ SameAt(h, new, q, ids, m)
        <4>1. q >= j /\ \A b \in 1..Len(tails) : q # j - 1 + b
          BY <1>1, <2>1, SMTT(30) DEF Numbered
        <4> QED
          BY <1>3, <4>1
      <3> QED
        BY <1>5, <3>1
    <2>2. ASSUME NEW b \in 1..Len(tails), p = j - 1 + b, SameAt(h, new, p, tails, b)
          PROVE  \/ \A q, r \in 1..Len(new) : p <= q /\ q < r => StartAt(h, new, q) <= StartAt(h, new, r)
                 \/ StartAt(h, new, p) < TillAt(h, new, p) /\ \A q \in 1..Len(new) : p < q =>
                      /\ StartAt(h, new, q) <= StartAt(h, new, p)
                      /\ TillAt(h, new, q) <= StartAt(h, new, p) \/ StartAt(h, new, q) = StartAt(h, new, p)
      <3> DEFINE e == TillAt(h, ids, i)
      <3>1. /\ TailOK(h, ids, tails, i, j, from, x, b) /\ e \in Int
            /\ \A c \in 1..Len(tails) : e <= StartAt(h, tails, c) /\ StartAt(h, tails, c) < TillAt(h, tails, c)
            /\ \A q \in 1..Len(ids) : q >= j => e <= StartAt(h, ids, q)
        <4>1. \A c \in 1..Len(tails) : TailOK(h, ids, tails, i, j, from, x, c) /\ e <= StartAt(h, tails, c)
          BY InsertFacts
        <4>2. \A q \in 1..Len(ids) : q >= j => e <= StartAt(h, ids, q)
          BY InsertFacts
        <4> QED
          BY <1>1, <4>1, <4>2 DEF TailOK, Numbered
      <3> HIDE DEF e
      <3>2. \A c \in 1..Len(tails) : b < c =>
              StartAt(h, tails, b) = StartAt(h, tails, c) \/ TillAt(h, tails, c) <= StartAt(h, tails, b)
        BY <3>1 DEF TailOK
      <3>3. CASE StartAt(h, tails, b) = e
        <4>1. \A c \in 1..Len(tails) : b <= c => StartAt(h, tails, c) = e
          BY <1>1, <3>1, <3>2, <3>3, SMTT(30) DEF Numbered
        <4>2. ASSUME NEW q \in 1..Len(new), NEW r \in 1..Len(new), p <= q, q < r
              PROVE  StartAt(h, new, q) <= StartAt(h, new, r)
          <5>1. ASSUME NEW c \in 1..Len(tails), q = j - 1 + c, SameAt(h, new, q, tails, c)
                PROVE  StartAt(h, new, q) <= StartAt(h, new, r)
            <6>1. StartAt(h, new, q) = e
              BY <1>1, <2>2, <4>1, <4>2, <5>1 DEF SameAt, Numbered
            <6>2. e <= StartAt(h, new, r)
              <7>1. r >= j
                BY <1>1, <4>2, <5>1 DEF Numbered
              <7>2. \A d \in 1..Len(tails) : SameAt(h, new, r, tails, d) => e <= StartAt(h, new, r)
                BY <3>1 DEF SameAt
              <7>3. \A m \in 1..Len(ids) : m >= j /\ SameAt(h, new, r, ids, m) => e <= StartAt(h, new, r)
                BY <3>1 DEF SameAt
              <7> QED
                BY <1>3, <7>1, <7>2, <7>3
            <6> QED
              BY <6>1, <6>2
          <5>2. q >= j
            BY <1>1, <2>2, <4>2 DEF Numbered
          <5> QED
            BY <1>3, <1>5, <4>2, <5>1, <5>2
        <4> QED
          BY <4>2
      <3>4. CASE StartAt(h, tails, b) # e
        <4>1. StartAt(h, new, p) < TillAt(h, new, p)
          BY <2>2, <3>1 DEF SameAt
        <4>2. ASSUME NEW q \in 1..Len(new), p < q
              PROVE  /\ StartAt(h, new, q) <= StartAt(h, new, p)
                     /\ TillAt(h, new, q) <= StartAt(h, new, p) \/ StartAt(h, new, q) = StartAt(h, new, p)
          <5>1. ASSUME NEW c \in 1..Len(tails), q = j - 1 + c, SameAt(h, new, q, tails, c)
                PROVE  /\ StartAt(h, new, q) <= StartAt(h, new, p)
                       /\ TillAt(h, new, q) <= StartAt(h, new, p) \/ StartAt(h, new, q) = StartAt(h, new, p)
            <6>1. StartAt(h, tails, b) = StartAt(h, tails, c) \/ TillAt(h, tails, c) <= StartAt(h, tails, b)
              BY <2>2, <3>2, <4>2, <5>1
            <6> QED
              BY <1>1, <2>2, <5>1, <6>1, SMTT(30) DEF SameAt, Numbered
          <5>2. ASSUME NEW m \in 1..Len(ids), m >= j, SameAt(h, new, q, ids, m)
                PROVE  /\ StartAt(h, new, q) <= StartAt(h, new, p)
                       /\ TillAt(h, new, q) <= StartAt(h, new, p) \/ StartAt(h, new, q) = StartAt(h, new, p)
            <6>1. m > i /\ i <= Len(ids)
              BY <1>1, <5>2 DEF Numbered
            <6>2. TillAt(h, ids, m) <= StartAt(h, tails, b)
              BY <3>1, <3>4, <6>1 DEF TailOK, e
            <6> QED
              BY <1>1, <2>2, <5>2, <6>2, SMTT(30) DEF SameAt, Numbered
          <5>3. q >= j
            BY <1>1, <2>2, <4>2 DEF Numbered
          <5> QED
            BY <1>3, <5>1, <5>2, <5>3
        <4> QED
          BY <4>1, <4>2
      <3> QED
        BY <3>3, <3>4
    <2> QED
      BY <1>3, <1>6, <2>1, <2>2
  <1>7. \A q \in 1..Len(new) : ~(j < q /\ q < j + 1)
    BY <1>1 DEF Numbered
  <1> QED
    BY <1>6, <1>7 DEF RowsOK

(* What is left behind was compared with all that begins before it ends,     *)
(* or the splitting jumps over it.                                           *)
LEMMA InsertDone ==
  ASSUME NEW h, NEW ids, NEW tails, NEW new, NEW from \in Int, NEW x \in Int,
         NEW i \in 1..Len(ids), NEW j \in 1..Len(ids), i < j,
         Splits(h, ids, tails, i, j, from, x), TillAt(h, ids, i) <= StartAt(h, ids, j),
         Merged(h, ids, tails, new, j)
  PROVE  DoneOK(h, new, <<>>, j)
  <1> DEFINE D == Done(ids, i)
             B == {ids[p] : p \in {q \in 1..Len(ids) : i <= q /\ q < j}}
             R == Rest(ids, i) \cup PlacesIn(tails)
             e == TillAt(h, ids, i)
             all == PlacesIn(ids) \cup PlacesIn(tails)
  <1>1. /\ Numbered(h, ids) /\ Numbered(h, tails) /\ AllPlaced(h, ids) /\ AllPlaced(h, tails)
        /\ DoneOK(h, ids, tails, i)
    BY DEF Splits
  <1>2. /\ Done(new, j) = Done(ids, j) /\ Rest(new, j) = PlacesIn(tails) \cup Rest(ids, j)
        /\ PlacesIn(new) = all
    <2>1. 1 <= j /\ j <= Len(ids) + 1 /\ Len(ids) \in Nat /\ Len(tails) \in Nat /\ j \in Int
      BY <1>1 DEF Numbered
    <2> QED
      BY <2>1, MergedPlaces
  <1>3. Done(ids, j) = D \cup B
    <2>1. \A q \in 1..Len(ids) : q < j <=> q < i \/ (i <= q /\ q < j)
      BY <1>1 DEF Numbered
    <2> QED
      BY <2>1 DEF Done
  <1>4. /\ B \subseteq R /\ PlacesIn(tails) \cup Rest(ids, j) \subseteq R /\ ids[i] \in B
        /\ all = D \cup R /\ ids[j] \in all
    <2>1. \A q \in 1..Len(ids) : /\ i <= q /\ q < j => q >= i
                                 /\ q >= j => q >= i
      BY <1>1 DEF Numbered
    <2> QED
      BY <1>1, <2>1 DEF Rest, Numbered, PlacesIn, Done
  <1>5. \A p \in D \cup R : Placed(h, p)
    BY <1>1 DEF AllPlaced, Done, Rest, PlacesIn
  <1>6. \A p \in D, q \in R : Apart(h, p, q)
    BY <1>1 DEF DoneOK
  <1>7. /\ e \in Int
        /\ \A p \in B : Till(h, p) <= e /\ Start(h, ids[i]) <= Start(h, p)
        /\ \A q \in PlacesIn(tails) \cup Rest(ids, j) : e <= Start(h, q)
        /\ Till(h, ids[i]) = e
    <2>1. \A p \in 1..Len(ids) : i <= p /\ p < j => Till(h, ids[p]) <= e
      BY InsertFacts DEF TillAt
    <2>2. \A p \in 1..Len(ids) : i <= p => Start(h, ids[i]) <= Start(h, ids[p])
      <3>1. \A p \in 1..Len(ids) : i <= i /\ i < p => StartAt(h, ids, i) <= StartAt(h, ids, p)
        BY InsertFacts
      <3>2. \A p \in 1..Len(ids) : i <= p => StartAt(h, ids, i) <= StartAt(h, ids, p)
        BY <1>1, <3>1 DEF Numbered
      <3> QED
        BY <3>2 DEF StartAt
    <2>3. \A q \in 1..Len(ids) : q >= j => e <= Start(h, ids[q])
      BY InsertFacts DEF StartAt
    <2>4. \A b \in 1..Len(tails) : e <= Start(h, tails[b])
      BY InsertFacts DEF StartAt
    <2>5. e \in Int /\ Till(h, ids[i]) = e
      BY <1>1 DEF Numbered, TillAt
    <2> HIDE DEF e
    <2> QED
      BY <2>1, <2>2, <2>3, <2>4, <2>5 DEF Rest, PlacesIn
  <1> HIDE DEF e, D, B, R, all
  <1>8. ASSUME NEW p \in D \cup B, NEW q \in PlacesIn(tails) \cup Rest(ids, j)
        PROVE  Apart(h, p, q)
    <2>1. CASE p \in D
      BY <1>4, <1>6, <2>1
    <2>2. CASE p \in B
      <3>1. Till(h, p) <= e /\ e <= Start(h, q) /\ Placed(h, p) /\ Placed(h, q)
        BY <1>4, <1>5, <1>7, <2>2
      <3> QED
        BY <1>7, <3>1 DEF Apart, Placed
    <2> QED
      BY <2>1, <2>2
  <1>9. \A p \in D, q \in B : ~Cross(h, p, q) /\ ~Cross(h, q, p)
    <2> SUFFICES ASSUME NEW p \in D, NEW q \in B PROVE ~Cross(h, p, q) /\ ~Cross(h, q, p)
      OBVIOUS
    <2>1. Placed(h, p) /\ Placed(h, q) /\ Apart(h, p, q)
      BY <1>4, <1>5, <1>6
    <2> QED
      BY <2>1, ApartNoCross
  <1>10. ASSUME NEW p \in D \cup B, NEW q \in D \cup B, Cross(h, p, q)
         PROVE  \E k \in D \cup B :
                  Holds(h, k, p, q) /\ Free(h, D \cup B, k) /\ Parted(h, all, k)
    <2>1. CASE p \in D /\ q \in D
      <3>1. PICK k \in D : Holds(h, k, p, q) /\ Free(h, D, k) /\ Parted(h, all, k)
        BY <1>1, <1>10, <2>1 DEF DoneOK, D, all
      <3>2. Free(h, D \cup B, k)
        BY <1>9, <3>1 DEF Free
      <3> QED
        BY <3>1, <3>2
    <2>2. CASE p \in B /\ q \in B
      <3> DEFINE k == ids[i]
      <3>1. k \in B /\ Holds(h, k, p, q)
        BY <1>4, <1>7, <2>2 DEF Holds
      <3>2. ASSUME NEW r \in B
            PROVE  ~Cross(h, k, r) /\ ~Cross(h, r, k)
        <4>1. /\ Start(h, k) <= Start(h, r) /\ Till(h, r) <= e /\ Till(h, k) = e
              /\ Placed(h, r) /\ Placed(h, k)
          BY <1>4, <1>5, <1>7
        <4> HIDE DEF k
        <4> QED
          BY <1>7, <4>1 DEF Cross, Placed
      <3>3. Free(h, D \cup B, k)
        BY <1>9, <3>1, <3>2 DEF Free
      <3>4. Parted(h, all, k)
        <4>1. e <= Start(h, ids[j])
          BY DEF e, StartAt
        <4> QED
          BY <1>4, <1>7, <4>1 DEF Parted
      <3> QED
        BY <3>1, <3>3, <3>4
    <2> QED
      BY <1>9, <1>10, <2>1, <2>2
  <1>11. PlacesIn(<<>>) = {}
    BY DEF PlacesIn
  <1> QED
    BY <1>2, <1>3, <1>8, <1>10, <1>11, ZenonT(30) DEF DoneOK

(***************************************************************************)
(* The steps of the splitting.                                             *)
(***************************************************************************)

(* The current annotation is dealt with. *)
LEMMA AdvanceSplits ==
  ASSUME NEW h, NEW ids, NEW tails, NEW from \in Int, NEW x \in Int,
         NEW i \in 1..Len(ids), NEW j \in Int, j > Len(ids),
         Splits(h, ids, tails, i, j, from, x)
  PROVE  Splits(h, ids, tails, i + 1, i + 2, from, x)
  <1>1. RowsOK(h, ids, i + 1, i + 2)
    BY AdvanceRows DEF Splits
  <1>2. TailsOK(h, ids, tails, i + 1, i + 2, from, x)
    BY AdvanceTails
  <1>3. BeyondOK(h, ids, i + 1, x)
    BY AdvanceBeyond
  <1>4. DoneOK(h, ids, tails, i + 1)
    BY AdvanceDone
  <1> QED
    BY <1>1, <1>2, <1>3, <1>4 DEF Splits

(* The loop jumps to the first tail. *)
LEMMA InsertSplits ==
  ASSUME NEW h \in Seq(Span), HeapGood(h), NEW ids \in Seq(1..Len(h)),
         NEW tails \in Seq(1..Len(h)), NEW from \in Int, NEW x \in Int,
         NEW i \in 1..Len(ids), NEW j \in 1..Len(ids), i < j,
         Splits(h, ids, tails, i, j, from, x), TillAt(h, ids, i) <= StartAt(h, ids, j)
  PROVE  LET new == SubSeq(ids, 1, j - 1) \o tails \o SubSeq(ids, j, Len(ids))
         IN  /\ new \in Seq(1..Len(h)) /\ Splits(h, new, <<>>, j, j + 1, from, x)
             /\ PlacesIn(new) = PlacesIn(ids) \cup PlacesIn(tails)
  <1> DEFINE new == SubSeq(ids, 1, j - 1) \o tails \o SubSeq(ids, j, Len(ids))
  <1>1. /\ j \in Int /\ 1 <= j /\ j <= Len(ids) + 1 /\ j \in 1..(Len(ids) + 1)
        /\ Len(ids) \in Nat /\ Len(tails) \in Nat
    OBVIOUS
  <1>2. new \in Seq(1..Len(h)) /\ Merged(h, ids, tails, new, j)
    BY <1>1, MergedSlices
  <1> HIDE DEF new
  <1>3. Numbered(h, new) /\ AllPlaced(h, new)
    BY <1>2, Numbers
  <1>4. PlacesIn(new) = PlacesIn(ids) \cup PlacesIn(tails)
    BY <1>1, <1>2, MergedPlaces
  <1>5. Distinct(new) /\ Within(h, new, from, x)
    BY <1>2, InsertBase
  <1>6. HeadOK(h, new, <<>>)
    BY <1>2, InsertHead
  <1>7. BeyondOK(h, new, j, x)
    BY <1>2, InsertBeyond
  <1>8. RowsOK(h, new, j, j + 1)
    BY <1>2, InsertRows
  <1>9. DoneOK(h, new, <<>>, j)
    BY <1>2, InsertDone
  <1>10. 1..Len(<<>>) = {} /\ Len(<<>>) = 0
    OBVIOUS
  <1>11. Numbered(h, <<>>) /\ AllPlaced(h, <<>>) /\ Distinct(<<>>)
    BY <1>10 DEF Numbered, AllPlaced, Distinct
  <1>12. TailsOK(h, new, <<>>, j, j + 1, from, x)
    BY <1>10, <1>11 DEF TailsOK
  <1>13. Splits(h, new, <<>>, j, j + 1, from, x)
    BY <1>3, <1>5, <1>6, <1>7, <1>8, <1>9, <1>11, <1>12 DEF Splits
  <1> QED
    BY <1>2, <1>4, <1>13 DEF new

(* The next annotation ends within the current one: nothing is cut.        *)
LEMMA PassSplits ==
  ASSUME NEW h, NEW ids, NEW tails, NEW from \in Int, NEW x \in Int,
         NEW i \in 1..Len(ids), NEW j \in 1..Len(ids), i < j,
         Splits(h, ids, tails, i, j, from, x),
         StartAt(h, ids, j) < TillAt(h, ids, i), TillAt(h, ids, j) <= TillAt(h, ids, i)
  PROVE  Splits(h, ids, tails, i, j + 1, from, x)
  <1>1. /\ Numbered(h, ids) /\ Numbered(h, tails) /\ Distinct(tails)
        /\ \A b \in 1..Len(tails) : TailOK(h, ids, tails, i, j, from, x, b)
    BY DEF Splits, TailsOK
  <1>2. ASSUME NEW b \in 1..Len(tails)
        PROVE  TailOK(h, ids, tails, i, j + 1, from, x, b)
    <2>1. TailOK(h, ids, tails, i, j, from, x, b) /\ i <= Len(ids)
      BY <1>1, SMTT(30) DEF TailOK, Numbered
    <2>2. TillAt(h, ids, j) <= StartAt(h, tails, b)
      BY <1>1, <2>1 DEF TailOK, Numbered
    <2>3. \A q \in 1..Len(ids) : q >= j => q = j \/ q >= j + 1
      BY <1>1 DEF Numbered
    <2>4. \A q \in 1..Len(ids) : q > i =>
            \/ TillAt(h, ids, q) <= StartAt(h, tails, b)
            \/ q >= j + 1 /\ StartAt(h, tails, b) = TillAt(h, ids, i)
      BY <2>1, <2>2, <2>3 DEF TailOK
    <2> QED
      BY <2>1, <2>4 DEF TailOK
  <1>3. TailsOK(h, ids, tails, i, j + 1, from, x)
    BY <1>1, <1>2 DEF TailsOK
  <1>4. RowsOK(h, ids, i, j + 1)
    <2>1. \A q \in 1..Len(ids) : q < j + 1 => q < j \/ q = j
      BY <1>1 DEF Numbered
    <2>2. RowsOK(h, ids, i, j)
      BY DEF Splits
    <2>3. \A q \in 1..Len(ids) : i < q /\ q < j + 1 =>
            StartAt(h, ids, q) < TillAt(h, ids, i) /\ TillAt(h, ids, q) <= TillAt(h, ids, i)
      BY <2>1, <2>2 DEF RowsOK
    <2> QED
      BY <2>2, <2>3 DEF RowsOK
  <1> QED
    BY <1>3, <1>4 DEF Splits

(* The next annotation is cut at the end of the current one. *)
LEMMA CutSplits ==
  ASSUME NEW h \in Seq(Span), NEW g \in Seq(Span), HeapGood(g), NEW ids \in Seq(1..Len(h)),
         NEW tails \in Seq(1..Len(h)), NEW from \in Int, NEW x \in Int,
         NEW i \in 1..Len(ids), NEW j \in 1..Len(ids), i < j,
         Splits(h, ids, tails, i, j, from, x), Truncated(h, g, ids[j], TillAt(h, ids, i)),
         StartAt(h, ids, j) < TillAt(h, ids, i), TillAt(h, ids, i) < TillAt(h, ids, j)
  PROVE  Splits(g, ids, Append(tails, Len(h) + 1), i, j + 1, from, x)
  <1> DEFINE ts == Append(tails, Len(h) + 1)
  <1>1. Len(h) \in Nat /\ Len(g) = Len(h) + 1
    BY DEF Truncated
  <1>2. Distinct(ids) /\ \A b \in 1..Len(tails) : \A p \in 1..Len(ids) : ids[p] # tails[b]
    BY DEF Splits, TailsOK, TailOK
  <1>3. CutAt(h, g, ids, tails, ts, i, j)
    BY <1>1, <1>2, TruncatedAt
  <1>4. ids \in Seq(1..Len(g)) /\ ts \in Seq(1..Len(g))
    <2>1. 1..Len(h) \subseteq 1..Len(g) /\ Len(h) + 1 \in 1..Len(g)
      BY <1>1
    <2>2. ids \in Seq(1..Len(g)) /\ tails \in Seq(1..Len(g))
      BY <2>1
    <2> QED
      BY <2>1, <2>2
  <1>5. DoneOK(g, ids, ts, i)
    BY <1>1, CutDone
  <1> HIDE DEF ts
  <1>6. Numbered(g, ids) /\ AllPlaced(g, ids) /\ Numbered(g, ts) /\ AllPlaced(g, ts)
    BY <1>4, Numbers
  <1>7. HeadOK(g, ids, ts)
    BY <1>3, CutHead
  <1>8. TailsOK(g, ids, ts, i, j + 1, from, x)
    BY <1>3, CutTails
  <1>9. BeyondOK(g, ids, i, x)
    BY <1>3, CutBeyond
  <1>10. RowsOK(g, ids, i, j + 1)
    BY <1>3, CutRows
  <1>11. Within(g, ids, from, x)
    <2>1. Within(h, ids, from, x) /\ Numbered(h, ids)
      BY DEF Splits
    <2>2. ASSUME NEW q \in 1..Len(ids)
          PROVE  from <= StartAt(g, ids, q) /\ (StartAt(g, ids, q) < x => TillAt(g, ids, q) <= x)
      <3>1. CASE q = j
        BY <1>3, <2>1, <3>1 DEF CutAt, Within, Numbered
      <3>2. CASE q # j
        BY <1>3, <2>1, <3>2 DEF CutAt, Within
      <3> QED
        BY <3>1, <3>2
    <2> QED
      BY <2>2 DEF Within
  <1>12. Splits(g, ids, ts, i, j + 1, from, x)
    BY <1>2, <1>5, <1>6, <1>7, <1>8, <1>9, <1>10, <1>11 DEF Splits
  <1> QED
    BY <1>12 DEF ts

(***************************************************************************)
(* The slice is split: what is left of the splitting's invariant.          *)
(***************************************************************************)

(* The last tails are put behind all. *)
LEMMA JoinedSlice ==
  ASSUME NEW h, NEW n, NEW ids \in Seq(n), NEW tails \in Seq(n)
  PROVE  /\ ids \o tails \in Seq(n) /\ Merged(h, ids, tails, ids \o tails, Len(ids) + 1)
         /\ tails = <<>> => ids \o tails = ids
  <1> DEFINE new == ids \o tails
  <1>1. /\ new \in Seq(n) /\ Len(new) = Len(ids) + Len(tails)
        /\ Len(ids) \in Nat /\ Len(tails) \in Nat
        /\ \A p \in 1..Len(ids) : new[p] = ids[p]
        /\ \A p \in 1..Len(tails) : new[Len(ids) + p] = tails[p]
    BY ConcatTwo
  <1>2. tails = <<>> => new = ids
    BY ConcatEmptySeq
  <1> HIDE DEF new
  <1>3. \A p \in 1..Len(ids) : SameAt(h, new, p, ids, p) /\ p < Len(ids) + 1 /\ ~(p >= Len(ids) + 1)
    BY <1>1, SamePlace
  <1>4. ASSUME NEW b \in 1..Len(tails)
        PROVE  SameAt(h, new, (Len(ids) + 1) - 1 + b, tails, b)
    <2>1. (Len(ids) + 1) - 1 + b = Len(ids) + b
      BY <1>1
    <2> QED
      BY <1>1, <2>1, SamePlace
  <1>5. ASSUME NEW p \in 1..Len(new)
        PROVE  Origin(h, ids, tails, new, Len(ids) + 1, p)
    <2>1. CASE p <= Len(ids)
      <3>1. p \in 1..Len(ids)
        BY <1>1, <2>1
      <3> QED
        BY <1>3, <3>1 DEF Origin
    <2>2. CASE p > Len(ids)
      <3> DEFINE b == p - Len(ids)
      <3>1. b \in 1..Len(tails) /\ p = (Len(ids) + 1) - 1 + b
        BY <1>1, <2>2
      <3> HIDE DEF b
      <3> QED
        BY <1>4, <3>1 DEF Origin
    <2> QED
      BY <1>1, <2>1, <2>2
  <1>6. Merged(h, ids, tails, new, Len(ids) + 1)
    BY <1>1, <1>3, <1>4, <1>5 DEF Merged
  <1> QED
    BY <1>1, <1>2, <1>6 DEF new

(* What comes first but for chips is the first of all. *)
LEMMA NormalizedOrder ==
  ASSUME NEW h, NEW ids, NEW tails, NEW new, NEW from \in Int, NEW x \in Int, NEW i, NEW j,
         Splits(h, ids, tails, i, j, from, x), Merged(h, ids, tails, new, Len(ids) + 1),
         Numbered(h, new), Within(h, new, from, x)
  PROVE  OrderOK(h, new, 1, from)
  <1>1. /\ Numbered(h, ids) /\ Numbered(h, tails) /\ HeadOK(h, ids, tails)
        /\ Len(new) = Len(ids) + Len(tails)
    BY DEF Splits, Merged
  <1> SUFFICES ASSUME NEW p \in 1..Len(new), NEW q \in 1..Len(new), p < q,
                      \A r \in 1..Len(new) : 1 <= r /\ r < p =>
                        ChipAt(h, new, r) \/ StartAt(h, new, r) < from
               PROVE  StartAt(h, new, p) <= StartAt(h, new, q) /\ Front(h, new, p, new, q)
    BY DEF OrderOK
  <1>2. \A r \in 1..Len(new) : r < p => ChipAt(h, new, r)
    <2>1. \A r \in 1..Len(new) : from <= StartAt(h, new, r) /\ 1 <= r
      BY DEF Within
    <2> QED
      BY <2>1 DEF Numbered
  <1>3. p \in 1..Len(ids)
    <2> SUFFICES ASSUME p > Len(ids) PROVE FALSE
      BY <1>1 DEF Numbered
    <2>1. 1 \in 1..Len(tails)
      BY <1>1 DEF Numbered
    <2>2. PICK m \in 1..Len(ids) : ~ChipAt(h, ids, m)
      BY <2>1 DEF Splits, TailsOK, TailOK
    <2>3. m \in 1..Len(new) /\ m < p /\ m < Len(ids) + 1
      BY <1>1 DEF Numbered
    <2>4. SameAt(h, new, m, ids, m)
      BY <2>3 DEF Merged
    <2> QED
      BY <1>2, <2>2, <2>3, <2>4 DEF SameAt
  <1>4. \A r \in 1..(p - 1) : ChipAt(h, ids, r)
    <2> TAKE r \in 1..(p - 1)
    <2>1. r \in 1..Len(ids) /\ r \in 1..Len(new) /\ r < p /\ r < Len(ids) + 1
      BY <1>1, <1>3 DEF Numbered
    <2>2. SameAt(h, new, r, ids, r)
      BY <2>1 DEF Merged
    <2> QED
      BY <1>2, <2>1, <2>2 DEF SameAt
  <1>5. SameAt(h, new, p, ids, p)
    <2>1. p < Len(ids) + 1
      BY <1>1, <1>3 DEF Numbered
    <2> QED
      BY <1>3, <2>1 DEF Merged
  <1>6. /\ \A m \in 1..Len(ids) : p < m => Front(h, ids, p, ids, m)
        /\ \A b \in 1..Len(tails) : Front(h, ids, p, tails, b)
    BY <1>1, <1>3, <1>4 DEF HeadOK
  <1>7. Front(h, new, p, new, q)
    <2>1. /\ \A m \in 1..Len(ids) : p < m /\ SameAt(h, new, q, ids, m) => Front(h, new, p, new, q)
          /\ \A b \in 1..Len(tails) : SameAt(h, new, q, tails, b) => Front(h, new, p, new, q)
      BY <1>5, <1>6 DEF Front, SameAt
    <2>2. Origin(h, ids, tails, new, Len(ids) + 1, q)
      BY DEF Merged
    <2>3. \A m \in 1..Len(ids) : ~(m >= Len(ids) + 1)
      BY <1>1 DEF Numbered
    <2> QED
      BY <2>1, <2>2, <2>3 DEF Origin
  <1>8. StartAt(h, new, p) <= StartAt(h, new, q)
    BY <1>7 DEF Front, Numbered
  <1> QED
    BY <1>7, <1>8

(* All that is split is clean. *)
LEMMA NormalizedClean ==
  ASSUME NEW h, NEW ids, NEW tails, NEW from \in Int, NEW x \in Int, NEW i \in Int, NEW j,
         Splits(h, ids, tails, i, j, from, x), i > Len(ids)
  PROVE  Clean(h, PlacesIn(ids) \cup PlacesIn(tails))
  <1> DEFINE D == PlacesIn(ids)
             T == PlacesIn(tails)
  <1>1. /\ DoneOK(h, ids, tails, i) /\ AllPlaced(h, ids) /\ AllPlaced(h, tails)
        /\ Numbered(h, ids) /\ Numbered(h, tails)
    BY DEF Splits
  <1>2. Done(ids, i) = D
    <2>1. \A p \in 1..Len(ids) : p < i
      BY <1>1 DEF Numbered
    <2> QED
      BY <2>1 DEF Done, PlacesIn
  <1>3. \A p \in D \cup T : Placed(h, p)
    BY <1>1 DEF AllPlaced, PlacesIn
  <1>4. \A p \in D, q \in T : ~Cross(h, p, q) /\ ~Cross(h, q, p)
    <2> SUFFICES ASSUME NEW p \in D, NEW q \in T PROVE ~Cross(h, p, q) /\ ~Cross(h, q, p)
      OBVIOUS
    <2>1. Placed(h, p) /\ Placed(h, q) /\ Apart(h, p, q)
      BY <1>1, <1>2, <1>3 DEF DoneOK
    <2> QED
      BY <2>1, ApartNoCross
  <1>5. ASSUME NEW p \in T, NEW q \in T
        PROVE  ~Cross(h, p, q)
    <2>1. PICK b \in 1..Len(tails) : p = tails[b]
      BY DEF PlacesIn
    <2>2. PICK c \in 1..Len(tails) : q = tails[c]
      BY DEF PlacesIn
    <2>3. /\ \A d \in 1..Len(tails) : b < d =>
               \/ StartAt(h, tails, b) = StartAt(h, tails, d)
               \/ TillAt(h, tails, d) <= StartAt(h, tails, b)
          /\ \A d \in 1..Len(tails) : c < d =>
               \/ StartAt(h, tails, c) = StartAt(h, tails, d)
               \/ TillAt(h, tails, d) <= StartAt(h, tails, c)
      BY DEF Splits, TailsOK, TailOK
    <2>4. ~(/\ StartAt(h, tails, b) < StartAt(h, tails, c)
            /\ StartAt(h, tails, c) < TillAt(h, tails, b)
            /\ TillAt(h, tails, b) < TillAt(h, tails, c))
      <3>1. /\ StartAt(h, tails, b) \in Int /\ TillAt(h, tails, b) \in Int
            /\ StartAt(h, tails, c) \in Int /\ TillAt(h, tails, c) \in Int
            /\ StartAt(h, tails, c) <= TillAt(h, tails, c)
        BY <1>1 DEF Numbered
      <3>2. CASE b < c
        BY <2>3, <3>1, <3>2
      <3>3. CASE c < b
        BY <2>3, <3>1, <3>3
      <3>4. CASE b = c
        BY <3>1, <3>4
      <3> QED
        BY <1>1, <3>2, <3>3, <3>4 DEF Numbered
    <2> QED
      BY <2>1, <2>2, <2>4 DEF Cross, StartAt, TillAt
  <1> HIDE DEF D, T
  <1>6. ASSUME NEW p \in D \cup T, NEW q \in D \cup T, Cross(h, p, q)
        PROVE  \E k \in D \cup T :
                 Holds(h, k, p, q) /\ Free(h, D \cup T, k) /\ Parted(h, D \cup T, k)
    <2>1. p \in D /\ q \in D
      BY <1>4, <1>5, <1>6
    <2>2. PICK k \in D : Holds(h, k, p, q) /\ Free(h, D, k) /\ Parted(h, D \cup T, k)
      BY <1>1, <1>2, <1>6, <2>1 DEF DoneOK, D, T
    <2>3. Free(h, D \cup T, k)
      BY <1>4, <2>2 DEF Free
    <2> QED
      BY <2>2, <2>3
  <1>7. Clean(h, D \cup T)
    BY <1>6 DEF Clean
  <1> QED
    BY <1>7 DEF D, T

(* The slice the loop of renderAnnotations starts with. *)
LEMMA NormalizedSlice ==
  ASSUME NEW h \in Seq(Span), HeapGood(h), NEW ids \in Seq(1..Len(h)),
         NEW tails \in Seq(1..Len(h)), NEW from \in Int, NEW x \in Int, NEW i \in Int, NEW j,
         Splits(h, ids, tails, i, j, from, x), i > Len(ids)
  PROVE  LET new == ids \o tails
         IN  /\ Distinct(new) /\ Within(h, new, from, x)
             /\ OrderOK(h, new, 1, from)
             /\ Rest(new, 1) = PlacesIn(ids) \cup PlacesIn(tails)
             /\ \A p \in Rest(new, 1) : ~(Start(h, p) < from)
             /\ Clean(h, From(h, Rest(new, 1), from))
             /\ tails = <<>> => new = ids
  <1> DEFINE new == ids \o tails
  <1>1. /\ new \in Seq(1..Len(h)) /\ Merged(h, ids, tails, new, Len(ids) + 1)
        /\ tails = <<>> => new = ids
    BY JoinedSlice
  <1> HIDE DEF new
  <1>2. /\ Len(ids) \in Nat /\ Len(tails) \in Nat /\ Len(ids) + 1 \in Int
        /\ 1 <= Len(ids) + 1 /\ Len(ids) + 1 <= Len(ids) + 1 /\ Len(ids) + 1 \in 1..(Len(ids) + 1)
    OBVIOUS
  <1>3. PlacesIn(new) = PlacesIn(ids) \cup PlacesIn(tails)
    BY <1>1, <1>2, MergedPlaces
  <1>4. Distinct(new) /\ Within(h, new, from, x)
    BY <1>1, <1>2, InsertBase
  <1>5. Numbered(h, new)
    BY <1>1, Numbers
  <1>6. OrderOK(h, new, 1, from)
    BY <1>1, <1>4, <1>5, NormalizedOrder
  <1>7. Rest(new, 1) = PlacesIn(new)
    <2>1. \A p \in 1..Len(new) : p >= 1
      OBVIOUS
    <2> QED
      BY <2>1 DEF Rest, PlacesIn
  <1>8. \A p \in PlacesIn(new) : Start(h, p) >= from /\ ~(Start(h, p) < from)
    <2>1. \A p \in 1..Len(new) : StartAt(h, new, p) >= from /\ ~(StartAt(h, new, p) < from)
      BY <1>4, <1>5 DEF Within, Numbered
    <2> QED
      BY <2>1 DEF PlacesIn, StartAt
  <1>9. From(h, Rest(new, 1), from) = PlacesIn(ids) \cup PlacesIn(tails)
    BY <1>3, <1>7, <1>8 DEF From
  <1>10. Clean(h, From(h, Rest(new, 1), from))
    BY <1>9, NormalizedClean, ZenonT(30)
  <1> QED
    BY <1>1, <1>3, <1>4, <1>6, <1>7, <1>8, <1>10 DEF new

(***************************************************************************)
(* Walking over the annotations.                                           *)
(***************************************************************************)

(* What the first one that is to come is to the others. *)
LEMMA FirstOfRest ==
  ASSUME NEW h, NEW ids, Numbered(h, ids), NEW i \in 1..Len(ids), NEW pos \in Int,
         OrderOK(h, ids, i, pos)
  PROVE  \A q \in 1..Len(ids) : q > i =>
           /\ StartAt(h, ids, i) <= StartAt(h, ids, q)
           /\ StartAt(h, ids, i) >= pos => Front(h, ids, i, ids, q)
  <1>1. i <= i /\ \A r \in 1..Len(ids) : ~(i <= r /\ r < i)
    BY DEF Numbered
  <1> QED
    BY <1>1 DEF OrderOK

(* What is to come is the current annotation and what is behind it. *)
LEMMA RestSplits ==
  ASSUME NEW h, NEW ids, Numbered(h, ids), NEW i \in 1..Len(ids)
  PROVE  /\ Rest(ids, i) = Rest(ids, i + 1) \cup {ids[i]}
         /\ \A p \in Rest(ids, i + 1) : \E q \in 1..Len(ids) : q > i /\ p = ids[q]
  <1>1. \A q \in 1..Len(ids) : /\ q >= i <=> q >= i + 1 \/ q = i
                               /\ q >= i + 1 => q > i
    BY DEF Numbered
  <1> QED
    BY <1>1 DEF Rest

(* An annotation that is not rendered, or was. *)
LEMMA SkipWalk ==
  ASSUME NEW h, NEW ids, Numbered(h, ids), AllPlaced(h, ids), NEW i \in 1..Len(ids),
         NEW pos \in Int, ChipAt(h, ids, i) \/ StartAt(h, ids, i) < pos,
         \A p \in Rest(ids, i) : Start(h, p) < pos => Till(h, p) <= pos,
         OrderOK(h, ids, i, pos), Clean(h, From(h, Rest(ids, i), pos))
  PROVE  /\ \A p \in Rest(ids, i + 1) : Start(h, p) < pos => Till(h, p) <= pos
         /\ OrderOK(h, ids, i + 1, pos)
         /\ Clean(h, From(h, Rest(ids, i + 1), pos))
         /\ \A A, u, around : u \in Int /\ pos <= u /\ Marked(A, h, Rest(ids, i), u, around) =>
              Marked(A, h, Rest(ids, i + 1), u, around)
  <1> DEFINE c == ids[i]
             P == From(h, Rest(ids, i), pos)
             N == From(h, Rest(ids, i + 1), pos)
  <1>1. /\ Rest(ids, i) = Rest(ids, i + 1) \cup {c}
        /\ \A p \in Rest(ids, i + 1) : \E q \in 1..Len(ids) : q > i /\ p = ids[q]
    BY RestSplits
  <1>2. \A p \in Rest(ids, i) : Placed(h, p)
    BY DEF AllPlaced, Rest
  <1>3. OrderOK(h, ids, i + 1, pos)
    <2>1. \A p \in 1..Len(ids) : i + 1 <= p => i <= p
      BY DEF Numbered
    <2>2. \A r \in 1..Len(ids) : i <= r => r = i \/ i + 1 <= r
      BY DEF Numbered
    <2> QED
      BY <2>1, <2>2 DEF OrderOK
  <1>4. \A p \in Rest(ids, i + 1) : Start(h, c) <= Start(h, p)
    <2>1. \A q \in 1..Len(ids) : q > i => Start(h, c) <= Start(h, ids[q])
      BY FirstOfRest DEF StartAt
    <2> QED
      BY <1>1, <2>1
  <1>5. Till(h, c) = Start(h, c) \/ Start(h, c) < pos
    BY DEF Numbered, StartAt, TillAt
  <1>6. Placed(h, c) /\ (Start(h, c) < pos => Till(h, c) <= pos)
    BY <1>1, <1>2
  <1> HIDE DEF c
  <1>7. /\ N \subseteq P /\ P \subseteq N \cup {c}
        /\ \A p \in P : Placed(h, p) /\ Start(h, p) >= pos
        /\ \A p \in N : Start(h, c) <= Start(h, p)
    BY <1>1, <1>2, <1>4 DEF From
  <1> HIDE DEF P, N
  <1>8. ASSUME NEW p \in N, NEW q \in N, Cross(h, p, q)
        PROVE  \E k \in N : Holds(h, k, p, q) /\ Free(h, N, k) /\ Parted(h, N, k)
    <2>1. PICK k \in P : Holds(h, k, p, q) /\ Free(h, P, k) /\ Parted(h, P, k)
      BY <1>7, <1>8 DEF Clean, P
    <2>2. Start(h, k) < Till(h, k)
      BY <1>7, <1>8, <2>1 DEF Holds, Cross, Placed
    <2>3. k \in N
      BY <1>5, <1>6, <1>7, <2>2 DEF Placed
    <2>4. PICK r \in P : Till(h, k) <= Start(h, r)
      BY <2>1 DEF Parted
    <2>5. r \in N
      <3> SUFFICES ASSUME r = c PROVE FALSE
        BY <1>7
      <3> QED
        BY <1>6, <1>7, <2>2, <2>3, <2>4 DEF Placed
    <2> QED
      BY <1>7, <2>1, <2>3, <2>4, <2>5 DEF Free, Parted
  <1>9. Clean(h, N)
    BY <1>8 DEF Clean
  <1>10. ASSUME NEW A, NEW u \in Int, NEW around, pos <= u, Marked(A, h, Rest(ids, i), u, around)
         PROVE  Marked(A, h, Rest(ids, i + 1), u, around)
    <2>1. ~(Start(h, c) <= u /\ u < Till(h, c))
      BY <1>5, <1>6, <1>10 DEF Placed
    <2> QED
      BY <1>1, <1>10, <2>1 DEF Marked
  <1> QED
    BY <1>1, <1>3, <1>9, <1>10 DEF N

(* The call for an annotation: nothing crosses it, or what follows it.     *)
LEMMA EnterWalk ==
  ASSUME NEW h, NEW ids, Numbered(h, ids), AllPlaced(h, ids), NEW i \in 1..Len(ids),
         NEW pos \in Int, pos <= StartAt(h, ids, i),
         OrderOK(h, ids, i, pos), Clean(h, From(h, Rest(ids, i), pos))
  PROVE  /\ \A p \in Rest(ids, i + 1) :
              /\ StartAt(h, ids, i) <= Start(h, p)
              /\ Start(h, p) < TillAt(h, ids, i) => Till(h, p) <= TillAt(h, ids, i)
         /\ Clean(h, From(h, Rest(ids, i + 1), TillAt(h, ids, i)))
         /\ \A A, u, around :
              u \in Int /\ StartAt(h, ids, i) <= u /\ Marked(A, h, Rest(ids, i), u, around) =>
                Marked(A, h, Rest(ids, i + 1), u, around \cup {h[ids[i]].id})
         /\ \A A, u, around :
              u \in Int /\ u < StartAt(h, ids, i) /\ Marked(A, h, Rest(ids, i), u, around) =>
                Covering(A, u, Markup) \subseteq around
         /\ \A A, u, around :
              u \in Int /\ TillAt(h, ids, i) <= u /\ Marked(A, h, Rest(ids, i), u, around) =>
                Marked(A, h, Rest(ids, i + 1), u, around)
  <1> DEFINE c == ids[i]
             P == From(h, Rest(ids, i), pos)
             N == From(h, Rest(ids, i + 1), Till(h, c))
  <1>1. /\ Rest(ids, i) = Rest(ids, i + 1) \cup {c}
        /\ \A p \in Rest(ids, i + 1) : \E q \in 1..Len(ids) : q > i /\ p = ids[q]
        /\ StartAt(h, ids, i) = Start(h, c) /\ TillAt(h, ids, i) = Till(h, c)
    BY RestSplits DEF StartAt, TillAt
  <1>2. \A p \in Rest(ids, i) : Placed(h, p)
    BY DEF AllPlaced, Rest
  <1>3. \A p \in Rest(ids, i + 1) :
          /\ Start(h, c) <= Start(h, p)
          /\ Start(h, c) < Start(h, p) \/ (Start(h, c) = Start(h, p) /\ Till(h, p) <= Till(h, c))
    <2>1. \A q \in 1..Len(ids) : q > i =>
            /\ StartAt(h, ids, i) <= StartAt(h, ids, q) /\ Front(h, ids, i, ids, q)
      <3>1. StartAt(h, ids, i) >= pos
        BY DEF Numbered
      <3> QED
        BY <3>1, FirstOfRest
    <2> QED
      BY <1>1, <2>1 DEF Front, StartAt, TillAt
  <1>4. Placed(h, c) /\ pos <= Start(h, c)
    BY <1>1, <1>2
  <1> HIDE DEF c
  <1>5. \A p \in Rest(ids, i) : p \in P
    BY <1>1, <1>2, <1>3, <1>4 DEF From, Placed
  <1>6. \A p \in P : Placed(h, p) /\ (p # c => p \in Rest(ids, i + 1))
    BY <1>1, <1>2 DEF From
  <1> HIDE DEF P
  <1>7. ASSUME NEW p \in Rest(ids, i + 1), Start(h, p) < Till(h, c)
        PROVE  Till(h, p) <= Till(h, c)
    <2> SUFFICES ASSUME Till(h, c) < Till(h, p) PROVE FALSE
      BY <1>1, <1>2, <1>4 DEF Placed
    <2>1. /\ Start(h, c) < Start(h, p) \/ (Start(h, c) = Start(h, p) /\ Till(h, p) <= Till(h, c))
          /\ Placed(h, p) /\ p \in P /\ c \in P
      BY <1>1, <1>2, <1>3, <1>5
    <2>2. Cross(h, c, p)
      BY <1>4, <1>7, <2>1 DEF Cross, Placed
    <2>3. PICK k \in P : Holds(h, k, c, p)
      BY <2>1, <2>2 DEF Clean, P
    <2>4. Start(h, k) <= Start(h, c) /\ Till(h, p) <= Till(h, k) /\ Placed(h, k)
      BY <1>6, <2>3 DEF Holds
    <2>5. k # c
      BY <1>4, <2>1, <2>4 DEF Placed
    <2>6. \/ Start(h, c) < Start(h, k)
          \/ Start(h, c) = Start(h, k) /\ Till(h, k) <= Till(h, c)
      BY <1>3, <1>6, <2>5
    <2> QED
      BY <1>4, <2>1, <2>4, <2>6 DEF Placed
  <1>8. \A p \in N : /\ p \in Rest(ids, i + 1) /\ p \in P /\ Start(h, p) >= Till(h, c)
                     /\ Placed(h, p)
    BY <1>1, <1>2, <1>5 DEF From
  <1>9. \A p \in Rest(ids, i + 1) : Start(h, p) >= Till(h, c) => p \in N
    BY DEF From
  <1> HIDE DEF N
  <1>10. ASSUME NEW p \in N, NEW q \in N, Cross(h, p, q)
         PROVE  \E k \in N : Holds(h, k, p, q) /\ Free(h, N, k) /\ Parted(h, N, k)
    <2>1. PICK k \in P : Holds(h, k, p, q) /\ Free(h, P, k) /\ Parted(h, P, k)
      BY <1>8, <1>10 DEF Clean, P
    <2>2. /\ Start(h, k) < Till(h, k) /\ Till(h, c) < Till(h, k) /\ Placed(h, k)
      BY <1>4, <1>6, <1>8, <1>10, <2>1 DEF Holds, Cross, Placed
    <2>3. k # c
      BY <1>4, <2>2 DEF Placed
    <2>4. k \in N
      <3>1. k \in Rest(ids, i + 1)
        BY <1>6, <2>3
      <3>2. Start(h, k) >= Till(h, c)
        BY <1>4, <1>7, <2>2, <3>1 DEF Placed
      <3> QED
        BY <1>9, <3>1, <3>2
    <2>5. PICK r \in P : Till(h, k) <= Start(h, r)
      BY <2>1 DEF Parted
    <2>6. r # c /\ Start(h, r) >= Till(h, c)
      BY <1>4, <1>6, <2>2, <2>5 DEF Placed
    <2>7. r \in N
      BY <1>6, <1>9, <2>6
    <2> QED
      BY <1>8, <2>1, <2>4, <2>5, <2>7 DEF Free, Parted
  <1>11. Clean(h, N)
    BY <1>10 DEF Clean
  <1>12. ASSUME NEW A, NEW u \in Int, NEW around, Marked(A, h, Rest(ids, i), u, around)
         PROVE  /\ Marked(A, h, Rest(ids, i + 1), u, around \cup {h[c].id})
                /\ u < Start(h, c) => Covering(A, u, Markup) \subseteq around
                /\ Till(h, c) <= u => Marked(A, h, Rest(ids, i + 1), u, around)
    <2>1. Marked(A, h, Rest(ids, i + 1), u, around \cup {h[c].id})
      BY <1>1, <1>12 DEF Marked
    <2>2. ASSUME u < Start(h, c)
          PROVE  Covering(A, u, Markup) \subseteq around
      <3>1. \A p \in Rest(ids, i) : ~(Start(h, p) <= u)
        BY <1>1, <1>2, <1>3, <1>4, <2>2 DEF Placed
      <3> QED
        BY <1>12, <3>1 DEF Marked
    <2>3. ASSUME Till(h, c) <= u
          PROVE  Marked(A, h, Rest(ids, i + 1), u, around)
      <3>1. ~(u < Till(h, c))
        BY <1>4, <2>3 DEF Placed
      <3> QED
        BY <1>1, <1>12, <3>1 DEF Marked
    <2> QED
      BY <2>1, <2>2, <2>3
  <1> QED
    BY <1>1, <1>3, <1>7, <1>11, <1>12 DEF N, c

(* The end of the text of a call: nothing is left that lies in it.         *)
LEMMA NothingLeft ==
  ASSUME NEW h, NEW ids, Numbered(h, ids), NEW i \in Nat \ {0}, NEW pos \in Int, NEW x \in Int,
         OrderOK(h, ids, i, pos), i <= Len(ids) => StartAt(h, ids, i) >= x,
         NEW A, NEW u \in Int, u < x, NEW around, Marked(A, h, Rest(ids, i), u, around)
  PROVE  Covering(A, u, Markup) \subseteq around
  <1>1. ASSUME NEW q \in 1..Len(ids), q >= i
        PROVE  x <= StartAt(h, ids, q)
    <2>1. i \in 1..Len(ids)
      BY <1>1 DEF Numbered
    <2>2. q > i => StartAt(h, ids, i) <= StartAt(h, ids, q)
      BY <2>1, FirstOfRest
    <2> QED
      BY <1>1, <2>1, <2>2 DEF Numbered
  <1>2. \A p \in Rest(ids, i) : ~(Start(h, p) <= u)
    <2>1. \A q \in 1..Len(ids) : q >= i => ~(StartAt(h, ids, q) <= u)
      BY <1>1 DEF Numbered
    <2> QED
      BY <2>1 DEF Rest, StartAt
  <1> QED
    BY <1>2 DEF Marked

(* The slice of the caller once a nested call has sorted what it was given. *)
LEMMA ReturnedSlice ==
  ASSUME NEW h \in Seq(Span), HeapGood(h), NEW ids \in Seq(1..Len(h)),
         NEW s \in Seq(1..Len(h)), NEW i \in 1..Len(ids),
         Distinct(ids), Distinct(s), PlacesIn(s) = Rest(ids, i + 1)
  PROVE  LET new == SubSeq(ids, 1, i) \o s
         IN  /\ new \in Seq(1..Len(h)) /\ Distinct(new)
             /\ PlacesIn(new) = PlacesIn(ids) /\ Rest(new, i + 1) = Rest(ids, i + 1)
             /\ \A p \in 1..Len(new) : p > i =>
                  \E b \in 1..Len(s) : p = i + b /\ SameAt(h, new, p, s, b)
             /\ \A p \in 1..Len(new) : p <= i => p \in 1..Len(ids) /\ SameAt(h, new, p, ids, p)
             /\ \A p \in 1..Len(new) : p > i =>
                  \E q \in 1..Len(ids) : q > i /\ SameAt(h, new, p, ids, q)
  <1> DEFINE a == SubSeq(ids, 1, i)
             new == a \o s
  <1>1. Len(ids) \in Nat /\ i \in Nat /\ 1 <= i /\ i <= Len(ids) /\ Len(s) \in Nat
    OBVIOUS
  <1>2. a \in Seq(1..Len(h)) /\ Len(a) = i /\ \A p \in 1..i : a[p] = ids[p]
    OBVIOUS
  <1> HIDE DEF a
  <1>3. /\ new \in Seq(1..Len(h)) /\ Len(new) = Len(a) + Len(s)
        /\ \A p \in 1..Len(a) : new[p] = a[p]
        /\ \A b \in 1..Len(s) : new[Len(a) + b] = s[b]
    <2>1. a \in Seq(1..Len(h))
      BY <1>2
    <2> QED
      BY <2>1, ConcatTwo
  <1> HIDE DEF new
  <1>4. /\ \A p \in 1..Len(new) : p <= i => p \in 1..Len(ids) /\ SameAt(h, new, p, ids, p)
        /\ \A p \in 1..Len(ids) : p <= i => p \in 1..Len(new) /\ SameAt(h, new, p, ids, p)
    <2>1. \A p \in 1..i : new[p] = ids[p]
      BY <1>2, <1>3
    <2>2. \A p \in 1..i : SameAt(h, new, p, ids, p)
      BY <2>1, SamePlace
    <2>3. /\ \A p \in 1..Len(new) : p <= i => p \in 1..Len(ids) /\ p \in 1..i
          /\ \A p \in 1..Len(ids) : p <= i => p \in 1..Len(new) /\ p \in 1..i
      BY <1>1, <1>2, <1>3, SMTT(30)
    <2> QED
      BY <2>2, <2>3
  <1>5. /\ \A b \in 1..Len(s) : i + b \in 1..Len(new) /\ i + b > i /\ SameAt(h, new, i + b, s, b)
    <2>1. \A b \in 1..Len(s) : new[i + b] = s[b] /\ i + b \in 1..Len(new) /\ i + b > i
      BY <1>1, <1>2, <1>3
    <2> QED
      BY <2>1, SamePlace
  <1>6. \A p \in 1..Len(new) : p > i =>
          \E b \in 1..Len(s) : p = i + b /\ SameAt(h, new, p, s, b)
    <2> SUFFICES ASSUME NEW p \in 1..Len(new), p > i
                 PROVE  \E b \in 1..Len(s) : p = i + b /\ SameAt(h, new, p, s, b)
      OBVIOUS
    <2>1. p - i \in 1..Len(s) /\ p = i + (p - i)
      BY <1>1, <1>2, <1>3
    <2> QED
      BY <1>5, <2>1
  <1>7. \A b \in 1..Len(s) : \E q \in 1..Len(ids) : q > i /\ s[b] = ids[q]
    <2>1. \A q \in 1..Len(ids) : q >= i + 1 => q > i
      BY <1>1
    <2>2. \A b \in 1..Len(s) : s[b] \in Rest(ids, i + 1)
      BY DEF PlacesIn
    <2> QED
      BY <2>1, <2>2 DEF Rest
  <1>8. \A p \in 1..Len(new) : p > i => \E q \in 1..Len(ids) : q > i /\ SameAt(h, new, p, ids, q)
    <2> SUFFICES ASSUME NEW p \in 1..Len(new), p > i
                 PROVE  \E q \in 1..Len(ids) : q > i /\ SameAt(h, new, p, ids, q)
      OBVIOUS
    <2>1. PICK b \in 1..Len(s) : SameAt(h, new, p, s, b)
      BY <1>6
    <2>2. PICK q \in 1..Len(ids) : q > i /\ s[b] = ids[q]
      BY <1>7
    <2>3. new[p] = ids[q]
      BY <2>1, <2>2 DEF SameAt
    <2> QED
      BY <2>2, <2>3, SamePlace
  <1>9. Rest(new, i + 1) = Rest(ids, i + 1)
    <2>1. \A p \in 1..Len(new) : p >= i + 1 <=> p > i
      BY <1>1
    <2>2. Rest(new, i + 1) \subseteq PlacesIn(s)
      <3> SUFFICES ASSUME NEW p \in 1..Len(new), p >= i + 1 PROVE new[p] \in PlacesIn(s)
        BY DEF Rest
      <3>1. PICK b \in 1..Len(s) : SameAt(h, new, p, s, b)
        BY <1>6, <2>1
      <3> QED
        BY <3>1 DEF PlacesIn, SameAt
    <2>3. PlacesIn(s) \subseteq Rest(new, i + 1)
      <3> SUFFICES ASSUME NEW b \in 1..Len(s) PROVE s[b] \in Rest(new, i + 1)
        BY DEF PlacesIn
      <3>1. /\ i + b \in 1..Len(new) /\ i + b >= i + 1 /\ SameAt(h, new, i + b, s, b)
        BY <1>5, <2>1
      <3> QED
        BY <3>1 DEF Rest, SameAt
    <2> QED
      BY <2>2, <2>3
  <1>10. PlacesIn(new) = PlacesIn(ids)
    <2>1. /\ \A p \in 1..Len(new) : p <= i \/ p >= i + 1
          /\ \A p \in 1..Len(ids) : p <= i \/ p >= i + 1
      BY <1>1
    <2>2. PlacesIn(new) = {new[p] : p \in {q \in 1..Len(new) : q <= i}} \cup Rest(new, i + 1)
      BY <2>1 DEF PlacesIn, Rest
    <2>3. PlacesIn(ids) = {ids[p] : p \in {q \in 1..Len(ids) : q <= i}} \cup Rest(ids, i + 1)
      BY <2>1 DEF PlacesIn, Rest
    <2>4. {new[p] : p \in {q \in 1..Len(new) : q <= i}} = {ids[p] : p \in {q \in 1..Len(ids) : q <= i}}
      BY <1>4 DEF SameAt
    <2> QED
      BY <1>9, <2>2, <2>3, <2>4
  <1>11. ASSUME NEW p \in 1..Len(new), NEW q \in 1..Len(new), new[p] = new[q]
         PROVE  p = q
    <2>1. \A m, k \in 1..Len(ids) : SameAt(h, new, p, ids, m) /\ SameAt(h, new, q, ids, k) => m = k
      BY <1>11 DEF Distinct, SameAt
    <2>2. \A b, c \in 1..Len(s) : SameAt(h, new, p, s, b) /\ SameAt(h, new, q, s, c) => b = c
      BY <1>11 DEF Distinct, SameAt
    <2>3. CASE p <= i /\ q <= i
      BY <1>4, <2>1, <2>3
    <2>4. CASE p > i /\ q > i
      BY <1>6, <2>2, <2>4
    <2>5. CASE p <= i /\ q > i
      BY <1>4, <1>8, <2>1, <2>5
    <2>6. CASE p > i /\ q <= i
      BY <1>4, <1>8, <2>1, <2>6
    <2> QED
      BY <1>1, <2>3, <2>4, <2>5, <2>6
  <1>12. Distinct(new)
    BY <1>11 DEF Distinct
  <1> QED
    BY <1>3, <1>4, <1>6, <1>8, <1>9, <1>10, <1>12 DEF new, a

(***************************************************************************)
(* What is written.                                                        *)
(***************************************************************************)

(* Text that no mark is over. *)
LEMMA ExactlyUnits ==
  ASSUME NEW A, NEW from \in Int, NEW to \in Int, from <= to, NEW around,
         \A u \in Int : from <= u /\ u < to => Covering(A, u, Markup) \subseteq around
  PROVE  Exactly(A, Units(from, to), around)
  <1>1. \A u : /\ Covering(A, u, {"tag"}) \subseteq Covering(A, u, Markup)
               /\ Covering(A, u, NotWritten) \subseteq Covering(A, u, Markup)
    BY DEF Covering, Markup
  <1>2. \A p \in DOMAIN Units(from, to) :
          LET u == Units(from, to)[p].at IN u \in Int /\ from <= u /\ u < to
    BY DEF Units
  <1> QED
    BY <1>1, <1>2 DEF Exactly

(* One stretch after another. *)
LEMMA ExactlyConcat ==
  ASSUME NEW A, NEW n, NEW s \in Seq(n), NEW t \in Seq(n), NEW around,
         Exactly(A, s, around), Exactly(A, t, around)
  PROVE  Exactly(A, s \o t, around)
  <1> DEFINE r == s \o t
  <1>1. /\ Len(s) \in Nat /\ Len(t) \in Nat
        /\ DOMAIN s = 1..Len(s) /\ DOMAIN t = 1..Len(t) /\ DOMAIN r = 1..(Len(s) + Len(t))
        /\ \A p \in DOMAIN r : /\ p <= Len(s) => p \in DOMAIN s /\ r[p] = s[p]
                               /\ p > Len(s) => p - Len(s) \in DOMAIN t /\ r[p] = t[p - Len(s)]
    OBVIOUS
  <1>2. \A p \in DOMAIN r : p <= Len(s) \/ p > Len(s)
    BY <1>1
  <1> HIDE DEF r
  <1>3. Exactly(A, r, around)
    BY <1>1, <1>2 DEF Exactly
  <1> QED
    BY <1>3 DEF r

(* What is left of the text of a call, and all that it writes. *)
LEMMA ExactlyRendering ==
  ASSUME NEW A, NEW n \in Nat, NEW f, FrameOK(A, n, f), NEW around, Exactly(A, f.out, around),
         \A u \in Int : Pos(f) <= u /\ u < Edge(f) => Covering(A, u, Markup) \subseteq around
  PROVE  Exactly(A, Rendering(f), around)
  <1> DEFINE mid == f.span.start + f.last
  <1>1. /\ f.span.start \in Int /\ f.span.length \in Int /\ f.last \in Nat
        /\ f.last <= f.span.length
    BY DEF FrameOK, Frame, Span
  <1>2. mid \in Int /\ EndOf(f.span) \in Int /\ mid <= EndOf(f.span)
    BY <1>1 DEF EndOf
  <1>3. f.out \in Seq(Piece(A))
    BY DEF FrameOK, Rendered
  <1>4. Rendering(f) = f.out \o Units(mid, EndOf(f.span))
    BY DEF Rendering
  <1>5. \A u \in Int : mid <= u /\ u < EndOf(f.span) => Covering(A, u, Markup) \subseteq around
    BY DEF Pos, Edge
  <1> HIDE DEF mid
  <1>6. Exactly(A, Units(mid, EndOf(f.span)), around)
    BY <1>2, <1>5, ExactlyUnits
  <1>7. Units(mid, EndOf(f.span)) \in Seq(Piece(A))
    BY <1>2, RenderedUnits DEF Rendered
  <1> QED
    BY <1>3, <1>4, <1>6, <1>7, ExactlyConcat

(* What renderOne writes has the mark of its annotation. *)
LEMMA ExactlyEntity ==
  ASSUME NEW A, NEW a, PartOf(A, a), a.kind # "plain", a.kind # "chip",
         NEW pieces \in Seq(Piece(A)), NEW around, Exactly(A, pieces, around \cup {a.id})
  PROVE  Exactly(A, Entity(a, pieces), around)
  <1>1. CASE a.kind = "tag"
    <2> DEFINE r == Surround(pieces, a.id)
    <2>1. \A u : a.id \notin Covering(A, u, NotWritten)
      BY <1>1 DEF Covering, PartOf, NotWritten
    <2>2. /\ DOMAIN r = DOMAIN pieces
          /\ \A p \in DOMAIN r : /\ r[p].is = pieces[p].is /\ r[p].at = pieces[p].at
                                 /\ r[p].around = pieces[p].around \cup {a.id}
      <3>1. \A p \in DOMAIN pieces : pieces[p] \in Piece(A)
        BY ElementOfSeq
      <3> QED
        BY <3>1 DEF Surround, Piece
    <2> HIDE DEF r
    <2>3. Exactly(A, r, around)
      BY <2>1, <2>2 DEF Exactly
    <2> DEFINE tag == Mark("tag", a.id)
               n == {r[p] : p \in DOMAIN r} \cup {tag}
    <2>4. tag.is = "tag"
      BY DEF Mark
    <2> HIDE DEF tag
    <2>5. r \in Seq(n) /\ <<tag>> \in Seq(n)
      <3>1. DOMAIN r = 1..Len(pieces) /\ Len(pieces) \in Nat /\ \A p \in DOMAIN r : r[p] \in n
        BY <2>2
      <3>2. r = [p \in 1..Len(pieces) |-> r[p]]
        BY <3>1 DEF r, Surround
      <3>3. r \in [1..Len(pieces) -> n]
        BY <3>1, <3>2
      <3> QED
        BY <3>1, <3>3
    <2>6. Exactly(A, <<tag>>, around)
      BY <2>4 DEF Exactly
    <2> HIDE DEF n
    <2>7. Exactly(A, <<tag>> \o r, around)
      BY <2>3, <2>5, <2>6, ExactlyConcat
    <2>8. Entity(a, pieces) = <<tag>> \o r
      BY <1>1 DEF Entity, r, tag
    <2> QED
      BY <2>7, <2>8
  <1>2. ASSUME NEW what \in {"pill", "name"}
        PROVE  Exactly(A, <<Mark(what, a.id)>>, around)
    <2>1. Mark(what, a.id).is # "unit"
      BY <1>2 DEF Mark
    <2> QED
      BY <2>1 DEF Exactly
  <1>3. CASE a.kind \in {"mention", "named"}
    <2>1. \E what \in {"pill", "name"} : Entity(a, pieces) = <<Mark(what, a.id)>>
      BY <1>3 DEF Entity
    <2> QED
      BY <1>2, <2>1
  <1>4. CASE a.kind = "unknown"
    <2>1. \A u : a.id \notin Covering(A, u, {"tag"}) /\ a.id \notin Covering(A, u, NotWritten)
      BY <1>4 DEF Covering, PartOf, NotWritten
    <2>2. Entity(a, pieces) = pieces
      BY <1>4 DEF Entity
    <2> QED
      BY <2>1, <2>2 DEF Exactly
  <1>5. CASE a.kind = "hidden"
    <2>1. Entity(a, pieces) = <<>>
      BY <1>5 DEF Entity
    <2> QED
      BY <2>1 DEF Exactly
  <1>6. a.kind \in EveryKind
    BY DEF PartOf, Span
  <1> QED
    BY <1>1, <1>3, <1>4, <1>5, <1>6 DEF EveryKind

(***************************************************************************)
(* The stack.                                                              *)
(***************************************************************************)

(* The locals of a call are numbers and slices. *)
LEMMA FrameNumbers ==
  ASSUME NEW A, NEW h, NEW f \in Frame(A, Len(h))
  PROVE  /\ f.ids \in Seq(1..Len(h)) /\ f.given \in Seq(1..Len(h)) /\ f.tails \in Seq(1..Len(h))
         /\ f.i \in Nat \ {0} /\ f.j \in Nat \ {0} /\ f.last \in Nat
         /\ f.span.start \in Int /\ Edge(f) \in Int /\ Pos(f) \in Int
         /\ f.span.start + 0 = f.span.start /\ f.copied \in BOOLEAN /\ f.splitting \in BOOLEAN
  <1>1. \A a \in Span : a.start \in Int /\ EndOf(a) \in Int /\ a.start + 0 = a.start
    BY DEF Span, EndOf
  <1>2. f.span \in Span /\ f.last \in Nat
    BY DEF Frame
  <1>3. f.span.start \in Int /\ Edge(f) \in Int /\ Pos(f) \in Int
        /\ f.span.start + 0 = f.span.start
    BY <1>1, <1>2 DEF Edge, Pos
  <1> QED
    BY <1>3 DEF Frame

(* The calls under way say what is around. *)
LEMMA AroundSame ==
  ASSUME NEW cs, NEW ds, NEW k \in Nat, \A m \in 1..k : cs[m].span = ds[m].span
  PROVE  AroundOf(cs, k) = AroundOf(ds, k)
  BY DEF AroundOf

(* A nested call adds its annotation. *)
LEMMA AroundMore ==
  ASSUME NEW cs, NEW k \in Nat
  PROVE  AroundOf(cs, k + 1) = AroundOf(cs, k) \cup {cs[k + 1].span.id}
  <1>1. 1..(k + 1) = 1..k \cup {k + 1}
    OBVIOUS
  <1> QED
    BY <1>1 DEF AroundOf

(* A call that waits knows of the one it waits for only its annotation and *)
(* the slice it was given.                                                 *)
LEMMA CallSame ==
  ASSUME NEW A, NEW h, NEW cs, NEW ds, Len(cs) \in Nat, Len(ds) \in Nat, NEW k \in Nat \ {0},
         k < Len(cs), k < Len(ds), \A m \in 1..k : ds[m] = cs[m],
         ds[k+1].span = cs[k+1].span, ds[k+1].given = cs[k+1].given, CallOK(A, h, cs, k)
  PROVE  CallOK(A, h, ds, k)
  <1>1. ds[k] = cs[k] /\ AroundOf(ds, k) = AroundOf(cs, k)
    <2>1. k \in 1..k
      OBVIOUS
    <2> QED
      BY <2>1, AroundSame
  <1>2. k # Len(ds) /\ k # Len(cs)
    OBVIOUS
  <1> QED
    BY <1>1, <1>2 DEF CallOK

(* The innermost call has changed, but not what it was made for. *)
LEMMA TopReplaced ==
  ASSUME NEW A, NEW h, NEW F, NEW cs \in Seq(F), cs # <<>>, NEW f \in F,
         f.span = cs[Len(cs)].span, f.given = cs[Len(cs)].given,
         \A k \in 1..Len(cs) : k < Len(cs) => CallOK(A, h, cs, k),
         \A k, m \in 1..Len(cs) : k <= m => Edge(cs[m]) <= Edge(cs[k]),
         SliceOK(h, f), Exactly(A, f.out, AroundOf(cs, Len(cs))),
         IF f.splitting THEN SplitOK(A, h, f, AroundOf(cs, Len(cs)))
         ELSE WalkOK(A, h, f, AroundOf(cs, Len(cs)))
  PROVE  CallsOK(A, h, [cs EXCEPT ![Len(cs)] = f])
  <1> DEFINE ds == [cs EXCEPT ![Len(cs)] = f]
  <1>1. Len(cs) \in Nat \ {0} /\ Len(cs) \in 1..Len(cs)
    OBVIOUS
  <1>2. /\ ds \in Seq(F) /\ Len(ds) = Len(cs)
        /\ \A k \in 1..Len(cs) : ds[k] = IF k = Len(cs) THEN f ELSE cs[k]
    BY <1>1, ExceptSeq
  <1>3. ds[Len(cs)] = f /\ \A k \in 1..Len(cs) : k # Len(cs) => ds[k] = cs[k]
    BY <1>1, <1>2, Zenon
  <1> HIDE DEF ds
  <1>4. \A k \in 1..Len(cs) : ds[k].span = cs[k].span /\ ds[k].given = cs[k].given
    BY <1>1, <1>3
  <1>5. AroundOf(ds, Len(cs)) = AroundOf(cs, Len(cs))
    BY <1>1, <1>4, AroundSame
  <1>6. ASSUME NEW k \in 1..Len(cs), k < Len(cs)
        PROVE  CallOK(A, h, ds, k)
    <2>1. /\ k \in Nat \ {0} /\ k + 1 \in 1..Len(cs)
          /\ \A m \in 1..k : m \in 1..Len(cs) /\ m # Len(cs)
      BY <1>1, <1>6
    <2>2. \A m \in 1..k : ds[m] = cs[m]
      BY <1>3, <2>1
    <2>3. CallOK(A, h, cs, k)
      BY <1>6
    <2> QED
      BY <1>1, <1>2, <1>4, <1>6, <2>1, <2>2, <2>3, CallSame
  <1>7. CallOK(A, h, ds, Len(cs))
    <2>1. ~(Len(cs) < Len(ds))
      BY <1>1, <1>2
    <2> QED
      BY <1>2, <1>3, <1>5, <2>1 DEF CallOK
  <1>8. \A k, m \in 1..Len(cs) : k <= m => Edge(ds[m]) <= Edge(ds[k])
    BY <1>4 DEF Edge
  <1>9. \A k \in 1..Len(cs) : CallOK(A, h, ds, k)
    BY <1>1, <1>6, <1>7
  <1>10. CallsOK(A, h, ds)
    BY <1>2, <1>8, <1>9 DEF CallsOK
  <1> QED
    BY <1>10 DEF ds

(* One more call. *)
LEMMA TopPushed ==
  ASSUME NEW A, NEW h, NEW cs \in Seq(Frame(A, Len(h))), cs # <<>>, CallsOK(A, h, cs),
         NEW f \in Frame(A, Len(h)), Edge(f) <= Edge(cs[Len(cs)]), f.out = <<>>,
         WaitOK(A, h, cs[Len(cs)], f.span, AroundOf(cs, Len(cs))),
         PlacesIn(f.given) = Rest(cs[Len(cs)].ids, cs[Len(cs)].i + 1), SliceOK(h, f),
         IF f.splitting THEN SplitOK(A, h, f, AroundOf(cs, Len(cs)) \cup {f.span.id})
         ELSE WalkOK(A, h, f, AroundOf(cs, Len(cs)) \cup {f.span.id})
  PROVE  CallsOK(A, h, Append(cs, f))
  <1> DEFINE ds == Append(cs, f)
             n == Len(cs)
  <1>1. /\ n \in Nat \ {0} /\ n \in 1..n /\ Len(ds) = n + 1 /\ Len(ds) \in Nat
        /\ ds[n + 1] = f /\ \A k \in 1..n : ds[k] = cs[k]
        /\ \A k \in 1..n : cs[k] \in Frame(A, Len(h))
    OBVIOUS
  <1>2. CallsOK(A, h, cs)
    OBVIOUS
  <1> HIDE DEF ds
  <1>3. AroundOf(ds, n) = AroundOf(cs, n) /\ AroundOf(ds, n + 1) = AroundOf(cs, n) \cup {f.span.id}
    <2>1. AroundOf(ds, n) = AroundOf(cs, n)
      BY <1>1, AroundSame
    <2>2. AroundOf(ds, n + 1) = AroundOf(ds, n) \cup {ds[n + 1].span.id}
      BY <1>1, AroundMore
    <2> QED
      BY <1>1, <2>1, <2>2
  <1>4. ASSUME NEW k \in 1..n, k < n
        PROVE  CallOK(A, h, ds, k)
    <2>1. /\ k \in Nat \ {0} /\ k + 1 \in 1..n /\ k < Len(ds)
          /\ \A m \in 1..k : m \in 1..n
      BY <1>1, <1>4
    <2>2. \A m \in 1..k : ds[m] = cs[m]
      BY <1>1, <2>1
    <2>3. CallOK(A, h, cs, k) /\ ds[k + 1] = cs[k + 1]
      BY <1>1, <1>2, <2>1 DEF CallsOK
    <2> QED
      BY <1>1, <1>4, <2>1, <2>2, <2>3, CallSame
  <1>5. CallOK(A, h, ds, n)
    <2>1. SliceOK(h, cs[n]) /\ Exactly(A, cs[n].out, AroundOf(cs, n))
      BY <1>1, <1>2 DEF CallsOK, CallOK
    <2>2. n < Len(ds) /\ n # Len(ds)
      BY <1>1
    <2> QED
      BY <1>1, <1>3, <2>1, <2>2 DEF CallOK
  <1>6. CallOK(A, h, ds, n + 1)
    <2>1. ~(n + 1 < Len(ds))
      BY <1>1
    <2>2. Exactly(A, f.out, AroundOf(ds, n + 1))
      BY DEF Exactly
    <2> QED
      BY <1>1, <1>3, <2>1, <2>2 DEF CallOK
  <1>7. ASSUME NEW k \in 1..Len(ds), NEW m \in 1..Len(ds), k <= m
        PROVE  Edge(ds[m]) <= Edge(ds[k])
    <2>1. \A p \in 1..n : Edge(cs[p]) \in Int /\ Edge(cs[n]) <= Edge(cs[p])
      <3>1. \A p \in 1..n : p <= n
        BY <1>1
      <3>2. \A p \in 1..n : Edge(cs[p]) \in Int
        BY <1>1, FrameNumbers
      <3> QED
        BY <1>1, <1>2, <3>1, <3>2 DEF CallsOK
    <2>2. Edge(f) \in Int
      BY FrameNumbers
    <2>3. CASE m \in 1..n
      <3>1. k \in 1..n
        BY <1>1, <1>7, <2>3
      <3> QED
        BY <1>1, <1>2, <1>7, <2>3, <3>1 DEF CallsOK
    <2>4. CASE m = n + 1 /\ k \in 1..n
      BY <1>1, <2>1, <2>2, <2>4
    <2>5. CASE m = n + 1 /\ k = n + 1
      BY <1>1, <2>2, <2>5
    <2> QED
      BY <1>1, <1>7, <2>3, <2>4, <2>5
  <1>8. \A k \in 1..Len(ds) : CallOK(A, h, ds, k)
    <2>1. \A k \in 1..Len(ds) : (k \in 1..n /\ k < n) \/ k = n \/ k = n + 1
      BY <1>1
    <2> QED
      BY <1>4, <1>5, <1>6, <2>1
  <1>9. CallsOK(A, h, ds)
    BY <1>7, <1>8 DEF CallsOK
  <1> QED
    BY <1>9 DEF ds

(* The splitting of the innermost call, and back. *)
LEMMA ToSplits ==
  ASSUME NEW A, NEW h \in Seq(Span), HeapGood(h), NEW f \in Frame(A, Len(h)), NEW around,
         SliceOK(h, f), SplitOK(A, h, f, around)
  PROVE  Splits(h, f.ids, f.tails, f.i, f.j, f.span.start, Edge(f))
  <1>1. f.ids \in Seq(1..Len(h)) /\ f.tails \in Seq(1..Len(h))
    BY FrameNumbers
  <1>2. /\ Numbered(h, f.ids) /\ AllPlaced(h, f.ids)
        /\ Numbered(h, f.tails) /\ AllPlaced(h, f.tails)
    BY <1>1, Numbers
  <1> QED
    BY <1>2 DEF Splits, SliceOK, SplitOK

(* And back. *)
LEMMA FromSplits ==
  ASSUME NEW A, NEW h, NEW f, NEW around, f.i < f.j, f.last = 0,
         Splits(h, f.ids, f.tails, f.i, f.j, f.span.start, Edge(f)),
         \A u \in Int : f.span.start <= u /\ u < Edge(f) => Marked(A, h, ToCome(f), u, around)
  PROVE  /\ SplitOK(A, h, f, around)
         /\ Distinct(f.ids) /\ Within(h, f.ids, f.span.start, Edge(f))
  BY DEF SplitOK, Splits

(***************************************************************************)
(* What a cut leaves as it was.                                            *)
(***************************************************************************)

(* Nothing moves, nothing gets longer, what begins later keeps its length. *)
LEMMA CutPlaces ==
  ASSUME NEW h \in Seq(Span), HeapGood(h), NEW g, NEW d, NEW e \in Int, Truncated(h, g, d, e),
         NEW s \in Seq(1..Len(h))
  PROVE  /\ \A p \in 1..Len(s) :
              /\ StartAt(g, s, p) = StartAt(h, s, p) /\ TillAt(g, s, p) <= TillAt(h, s, p)
              /\ StartAt(h, s, p) > Start(h, d) => TillAt(g, s, p) = TillAt(h, s, p)
              /\ StartAt(h, s, p) \in Int /\ TillAt(h, s, p) \in Int /\ TillAt(g, s, p) \in Int
         /\ Start(h, d) \in Int
  <1>1. /\ \A p \in 1..Len(h) : Placed(h, p) /\ Start(g, p) = Start(h, p)
        /\ \A p \in 1..Len(h) : p # d => Till(g, p) = Till(h, p)
        /\ d \in 1..Len(h) /\ Till(g, d) = e /\ Start(h, d) < e /\ e < Till(h, d)
        /\ Start(g, Len(h) + 1) = e
    BY PlaceNumbers DEF Truncated
  <1>3. \A p \in 1..Len(s) : s[p] \in 1..Len(h)
    BY ElementOfSeq
  <1>4. \A p \in 1..Len(h) :
          /\ Start(g, p) = Start(h, p) /\ Till(g, p) <= Till(h, p)
          /\ Start(h, p) > Start(h, d) => Till(g, p) = Till(h, p)
          /\ Start(h, p) \in Int /\ Till(h, p) \in Int /\ Till(g, p) \in Int
    BY <1>1 DEF Placed
  <1> QED
    BY <1>1, <1>3, <1>4 DEF StartAt, TillAt, Placed

(* A cut leaves what is arrayed arrayed, if it begins before. *)
LEMMA CutArrayed ==
  ASSUME NEW h \in Seq(Span), HeapGood(h), NEW g, NEW d, NEW e \in Int, Truncated(h, g, d, e),
         NEW s \in Seq(1..Len(h)), NEW x \in Int, Start(h, d) < x, Arrayed(h, s, x)
  PROVE  Arrayed(g, s, x)
  <1>1. /\ \A p \in 1..Len(s) :
             /\ StartAt(g, s, p) = StartAt(h, s, p) /\ TillAt(g, s, p) <= TillAt(h, s, p)
             /\ StartAt(h, s, p) > Start(h, d) => TillAt(g, s, p) = TillAt(h, s, p)
             /\ StartAt(h, s, p) \in Int /\ TillAt(h, s, p) \in Int /\ TillAt(g, s, p) \in Int
        /\ Start(h, d) \in Int
    BY CutPlaces
  <1>2. ASSUME NEW p \in 1..Len(s), NEW q \in 1..Len(s), p < q, StartAt(h, s, p) >= x
        PROVE  Front(g, s, p, s, q)
    <2>1. Front(h, s, p, s, q) /\ TillAt(g, s, p) = TillAt(h, s, p)
      BY <1>1, <1>2 DEF Arrayed
    <2> QED
      BY <1>1, <2>1 DEF Front
  <1> QED
    BY <1>1, <1>2 DEF Arrayed

(* So it leaves the slice of a call. *)
LEMMA CutSlice ==
  ASSUME NEW A, NEW h \in Seq(Span), HeapGood(h), NEW g, NEW d, NEW e \in Int, Truncated(h, g, d, e),
         NEW f \in Frame(A, Len(h)), Start(h, d) < Edge(f), SliceOK(h, f)
  PROVE  SliceOK(g, f)
  <1>1. f.ids \in Seq(1..Len(h)) /\ f.given \in Seq(1..Len(h)) /\ Edge(f) \in Int
    BY FrameNumbers
  <1>2. Arrayed(g, f.given, Edge(f)) /\ (~f.copied => Arrayed(g, f.ids, Edge(f)))
    BY <1>1, CutArrayed DEF SliceOK
  <1>3. Within(g, f.ids, f.span.start, Edge(f))
    <2>1. \A p \in 1..Len(f.ids) :
             /\ StartAt(g, f.ids, p) = StartAt(h, f.ids, p) /\ TillAt(g, f.ids, p) <= TillAt(h, f.ids, p)
             /\ TillAt(h, f.ids, p) \in Int /\ TillAt(g, f.ids, p) \in Int
      BY <1>1, CutPlaces
    <2>2. Within(h, f.ids, f.span.start, Edge(f))
      BY DEF SliceOK
    <2> QED
      BY <1>1, <2>1, <2>2 DEF Within
  <1> QED
    BY <1>2, <1>3 DEF SliceOK

(* And a call that waits. *)
LEMMA CutWait ==
  ASSUME NEW A, NEW h \in Seq(Span), HeapGood(h), NEW g, NEW d, NEW e \in Int, Truncated(h, g, d, e),
         NEW f \in Frame(A, Len(h)), NEW a \in Span, Start(h, d) < EndOf(a), NEW around,
         WaitOK(A, h, f, a, around)
  PROVE  WaitOK(A, g, f, a, around)
  <1> DEFINE R == Rest(f.ids, f.i + 1)
             x == EndOf(a)
  <1>1. f.ids \in Seq(1..Len(h)) /\ f.i \in Nat \ {0} /\ x \in Int /\ a.start \in Int
    BY FrameNumbers DEF Span, EndOf
  <1>2. R \subseteq 1..Len(h)
    <2>1. \A p \in 1..Len(f.ids) : f.ids[p] \in 1..Len(h)
      BY <1>1, ElementOfSeq
    <2> QED
      BY <2>1 DEF Rest
  <1>3. /\ \A p \in 1..Len(h) : /\ Placed(h, p) /\ Start(g, p) = Start(h, p)
                                /\ g[p].id = h[p].id
                                /\ p # d => Till(g, p) = Till(h, p)
        /\ d \in 1..Len(h) /\ Till(g, d) = e /\ Start(h, d) < e /\ e < Till(h, d)
    BY PlaceNumbers DEF Truncated
  <1>4. /\ ~f.splitting /\ f.i <= Len(f.ids)
        /\ StartAt(h, f.ids, f.i) = a.start /\ a.start < Edge(f)
        /\ \A p \in R : /\ a.start <= Start(h, p)
                        /\ Start(h, p) < x => Till(h, p) <= x
        /\ Clean(h, From(h, R, x))
        /\ \A u \in Int : Pos(f) <= u /\ u < a.start => Covering(A, u, Markup) \subseteq around
        /\ \A u \in Int : x <= u /\ u < Edge(f) => Marked(A, h, R, u, around)
    BY DEF WaitOK
  <1>5. StartAt(g, f.ids, f.i) = a.start
    <2>1. f.i \in 1..Len(f.ids)
      BY <1>1, <1>4
    <2>2. StartAt(g, f.ids, f.i) = StartAt(h, f.ids, f.i)
      BY <1>1, <2>1, CutPlaces
    <2> QED
      BY <1>4, <2>2
  <1> HIDE DEF R, x
  <1>7. ASSUME NEW p \in R
        PROVE  a.start <= Start(g, p) /\ (Start(g, p) < x => Till(g, p) <= x)
    <2>1. CASE p = d
      <3>1. Till(h, d) <= x
        BY <1>4, <1>7, <2>1 DEF x
      <3> QED
        BY <1>1, <1>2, <1>3, <1>4, <2>1, <3>1 DEF Placed
    <2>2. CASE p # d
      BY <1>2, <1>3, <1>4, <2>2
    <2> QED
      BY <2>1, <2>2
  <1>8. \A p \in R : Start(h, p) >= x => Till(g, p) = Till(h, p)
    <2> SUFFICES ASSUME NEW p \in R, Start(h, p) >= x, p = d PROVE FALSE
      BY <1>2, <1>3
    <2>1. Start(h, d) < x /\ Start(h, d) >= x
      BY DEF x
    <2>2. Start(h, d) \in Int
      BY <1>3 DEF Placed
    <2> QED
      BY <1>1, <2>1, <2>2
  <1>9. Clean(g, From(g, R, x))
    <2>1. From(g, R, x) = From(h, R, x)
      BY <1>2, <1>3 DEF From
    <2>2. \A p \in From(h, R, x) : Start(g, p) = Start(h, p) /\ Till(g, p) = Till(h, p)
      BY <1>2, <1>3, <1>8 DEF From
    <2> QED
      BY <1>4, <2>1, <2>2, SameClean
  <1>10. ASSUME NEW u \in Int, x <= u, u < Edge(f)
         PROVE  Marked(A, g, R, u, around)
    <2>1. Marked(A, h, R, u, around)
      BY <1>4, <1>10
    <2>2. \A p \in R : Start(h, p) <= u /\ u < Till(h, p) => p # d
      <3> SUFFICES ASSUME d \in R PROVE ~(u < Till(h, d))
        OBVIOUS
      <3>1. Till(h, d) <= x
        BY <1>4 DEF x
      <3> QED
        BY <1>1, <1>3, <1>10, <3>1 DEF Placed
    <2> QED
      BY <1>2, <1>3, <2>1, <2>2 DEF Marked
  <1> QED
    BY <1>4, <1>5, <1>7, <1>9, <1>10 DEF WaitOK, R, x

(* The calls that wait. *)
LEMMA CutLower ==
  ASSUME NEW A, NEW h \in Seq(Span), HeapGood(h), NEW g, NEW d, NEW e \in Int, Truncated(h, g, d, e),
         NEW cs \in Seq(Frame(A, Len(h))), CallsOK(A, h, cs), NEW k \in 1..Len(cs), k < Len(cs),
         Start(h, d) < Edge(cs[Len(cs)])
  PROVE  CallOK(A, g, cs, k)
  <1>1. /\ k + 1 \in 1..Len(cs) /\ Len(cs) \in 1..Len(cs) /\ k + 1 <= Len(cs) /\ k <= Len(cs)
        /\ k # Len(cs)
    OBVIOUS
  <1>2. cs[k] \in Frame(A, Len(h)) /\ cs[k+1] \in Frame(A, Len(h)) /\ cs[Len(cs)] \in Frame(A, Len(h))
    BY <1>1, ElementOfSeq
  <1>3. Edge(cs[k]) \in Int /\ Edge(cs[k+1]) \in Int /\ Edge(cs[Len(cs)]) \in Int
    BY <1>2, FrameNumbers
  <1>4. Edge(cs[Len(cs)]) <= Edge(cs[k]) /\ Edge(cs[Len(cs)]) <= Edge(cs[k+1])
    BY <1>1 DEF CallsOK
  <1>5. Start(h, d) \in Int
    BY PlaceNumbers DEF Truncated, Placed
  <1>6. Start(h, d) < Edge(cs[k]) /\ Start(h, d) < EndOf(cs[k+1].span)
    BY <1>3, <1>4, <1>5 DEF Edge
  <1>7. CallOK(A, h, cs, k)
    BY DEF CallsOK
  <1>8. SliceOK(g, cs[k])
    BY <1>2, <1>6, <1>7, CutSlice DEF CallOK
  <1>9. WaitOK(A, g, cs[k], cs[k+1].span, AroundOf(cs, k))
    <2>1. cs[k+1].span \in Span
      BY <1>2 DEF Frame
    <2>2. WaitOK(A, h, cs[k], cs[k+1].span, AroundOf(cs, k))
      BY <1>7 DEF CallOK
    <2> QED
      BY <1>2, <1>6, <2>1, <2>2, CutWait
  <1> QED
    BY <1>1, <1>7, <1>8, <1>9 DEF CallOK

(* No mark is lost by it. *)
LEMMA CutMarked ==
  ASSUME NEW A, NEW h \in Seq(Span), HeapGood(h), NEW g, NEW d, NEW e \in Int, Truncated(h, g, d, e),
         NEW P \in SUBSET (1..Len(h)), NEW u \in Int, NEW around, Marked(A, h, P, u, around)
  PROVE  Marked(A, g, P \cup {Len(h) + 1}, u, around)
  <1> DEFINE t == Len(h) + 1
  <1>1. /\ \A p \in 1..Len(h) : /\ Placed(h, p) /\ Start(g, p) = Start(h, p)
                                /\ g[p].id = h[p].id
                                /\ p # d => Till(g, p) = Till(h, p)
        /\ d \in 1..Len(h) /\ Till(g, d) = e /\ Start(h, d) < e /\ e < Till(h, d)
        /\ Start(g, t) = e /\ Till(g, t) = Till(h, d) /\ g[t].id = h[d].id
    BY PlaceNumbers DEF Truncated
  <1> HIDE DEF t
  <1>3. ASSUME NEW p \in P, Start(h, p) <= u, u < Till(h, p)
        PROVE  \E q \in P \cup {t} : g[q].id = h[p].id /\ Start(g, q) <= u /\ u < Till(g, q)
    <2>1. CASE p # d
      BY <1>1, <1>3, <2>1
    <2>2. CASE p = d /\ u < e
      BY <1>1, <1>3, <2>2
    <2>3. CASE p = d /\ e <= u
      BY <1>1, <1>3, <2>3
    <2> QED
      BY <2>1, <2>2, <2>3
  <1>4. Marked(A, g, P \cup {t}, u, around)
    BY <1>3 DEF Marked
  <1> QED
    BY <1>4 DEF t

(***************************************************************************)
(* Every step keeps it.                                                    *)
(***************************************************************************)

(* What the invariant says of the innermost call. *)
LEMMA TopMarks ==
  ASSUME IInv, MInv, Good(annotations), calls # <<>>
  PROVE  LET around == AroundOf(calls, Len(calls))
         IN  /\ heap \in Seq(Span) /\ HeapGood(heap) /\ CallsOK(annotations, heap, calls)
             /\ Top \in Frame(annotations, Len(heap)) /\ FrameOK(annotations, Len(heap), Top)
             /\ calls \in Seq(Frame(annotations, Len(heap)))
             /\ Len(calls) \in 1..Len(calls) /\ Len(calls) \in Nat
             /\ Top = calls[Len(calls)]
             /\ SliceOK(heap, Top) /\ Exactly(annotations, Top.out, around)
             /\ Top.splitting => SplitOK(annotations, heap, Top, around)
             /\ ~Top.splitting => WalkOK(annotations, heap, Top, around)
  <1>1. /\ Len(calls) \in 1..Len(calls) /\ Len(calls) \in Nat
        /\ StackOK(annotations, Len(heap), calls)
        /\ Top \in Frame(annotations, Len(heap)) /\ FrameOK(annotations, Len(heap), Top)
    BY TopFacts
  <1>2. heap \in Seq(Span) /\ HeapGood(heap) /\ CallsOK(annotations, heap, calls)
    BY DEF IInv, HeapOK, MInv
  <1>3. Top = calls[Len(calls)]
    BY DEF Top
  <1>4. CallOK(annotations, heap, calls, Len(calls))
    BY <1>1, <1>2 DEF CallsOK
  <1>5. calls \in Seq(Frame(annotations, Len(heap)))
    BY <1>1 DEF StackOK
  <1>6. /\ SliceOK(heap, Top) /\ Exactly(annotations, Top.out, AroundOf(calls, Len(calls)))
        /\ IF Top.splitting THEN SplitOK(annotations, heap, Top, AroundOf(calls, Len(calls)))
           ELSE WalkOK(annotations, heap, Top, AroundOf(calls, Len(calls)))
    BY <1>3, <1>4 DEF CallOK
  <1> QED
    BY <1>1, <1>2, <1>3, <1>5, <1>6

(* The innermost call goes on. *)
LEMMA GoOnMarks ==
  ASSUME IInv, MInv, Good(annotations), calls # <<>>,
         NEW g \in Frame(annotations, Len(heap)),
         g.span = Top.span, g.given = Top.given, g.out = Top.out,
         GoOn(g), UNCHANGED <<annotations, heap, parsed, html>>, SliceOK(heap, g),
         IF g.splitting THEN SplitOK(annotations, heap, g, AroundOf(calls, Len(calls)))
         ELSE WalkOK(annotations, heap, g, AroundOf(calls, Len(calls)))
  PROVE  MInv'
  <1>1. /\ CallsOK(annotations, heap, calls)
        /\ calls \in Seq(Frame(annotations, Len(heap))) /\ Top = calls[Len(calls)]
        /\ Exactly(annotations, Top.out, AroundOf(calls, Len(calls)))
        /\ Len(calls) \in 1..Len(calls) /\ Len(calls) \in Nat
    BY TopMarks
  <1>2. /\ \A k \in 1..Len(calls) : k < Len(calls) => CallOK(annotations, heap, calls, k)
        /\ \A k, m \in 1..Len(calls) : k <= m => Edge(calls[m]) <= Edge(calls[k])
    BY <1>1 DEF CallsOK
  <1>3. CallsOK(annotations, heap, [calls EXCEPT ![Len(calls)] = g])
    BY <1>1, <1>2, TopReplaced
  <1>4. calls' = [calls EXCEPT ![Len(calls)] = g]
    BY DEF GoOn
  <1>5. calls' # <<>>
    <2>1. Len(calls') = Len(calls)
      BY <1>1, <1>4, ExceptSeq
    <2> QED
      BY <1>1, <2>1
  <1> QED
    BY <1>3, <1>4, <1>5 DEF MInv

LEMMA AdvanceMarks == IInv /\ MInv /\ Good(annotations) /\ Advance => MInv'
  <1> SUFFICES ASSUME IInv, MInv, Good(annotations), Advance PROVE MInv'
    OBVIOUS
  <1> DEFINE i == Top.i + 1
             j == Top.i + 2
             g == [Top EXCEPT !.i = i, !.j = j]
             around == AroundOf(calls, Len(calls))
  <1>1. /\ calls # <<>> /\ GoOn(g) /\ UNCHANGED <<annotations, heap, parsed, html>>
        /\ Top.splitting /\ Top.i <= Len(Top.ids) /\ Top.j > Len(Top.ids)
    BY DEF Advance, Splitting
  <1>2. /\ Top \in Frame(annotations, Len(heap)) /\ heap \in Seq(Span) /\ HeapGood(heap)
        /\ SliceOK(heap, Top) /\ SplitOK(annotations, heap, Top, around)
    BY <1>1, TopMarks
  <1>3. /\ Top.ids \in Seq(1..Len(heap)) /\ Top.i \in 1..Len(Top.ids) /\ Top.j \in Int
        /\ Top.span.start \in Int /\ Edge(Top) \in Int
        /\ i \in Nat \ {0} /\ j \in Nat \ {0} /\ i < j
    <2>1. /\ Top.ids \in Seq(1..Len(heap)) /\ Top.i \in Nat \ {0} /\ Top.j \in Int
          /\ Top.span.start \in Int /\ Edge(Top) \in Int
      BY <1>2, FrameNumbers
    <2>2. Top.i \in 1..Len(Top.ids)
      BY <1>1, <2>1
    <2> QED
      BY <2>1, <2>2, SMTT(30)
  <1>4. Splits(heap, Top.ids, Top.tails, Top.i, Top.j, Top.span.start, Edge(Top))
    BY <1>2, ToSplits
  <1>5. Splits(heap, Top.ids, Top.tails, i, j, Top.span.start, Edge(Top))
    BY <1>1, <1>3, <1>4, AdvanceSplits
  <1> HIDE DEF i, j, around
  <1>6. /\ g \in Frame(annotations, Len(heap)) /\ g.span = Top.span /\ g.given = Top.given
        /\ g.out = Top.out /\ g.last = Top.last /\ g.ids = Top.ids /\ g.tails = Top.tails
        /\ g.copied = Top.copied /\ g.splitting = Top.splitting /\ g.i = i /\ g.j = j
    BY <1>2, <1>3 DEF Frame
  <1> HIDE DEF g
  <1>7. Edge(g) = Edge(Top) /\ ToCome(g) = ToCome(Top)
    BY <1>6 DEF Edge, ToCome
  <1>8. SplitOK(annotations, heap, g, around)
    <2>1. /\ g.i < g.j /\ g.last = 0
          /\ Splits(heap, g.ids, g.tails, g.i, g.j, g.span.start, Edge(g))
          /\ \A u \in Int : g.span.start <= u /\ u < Edge(g) =>
               Marked(annotations, heap, ToCome(g), u, around)
      BY <1>2, <1>3, <1>5, <1>6, <1>7 DEF SplitOK
    <2> QED
      BY <2>1, FromSplits
  <1>9. SliceOK(heap, g)
    BY <1>2, <1>6, <1>7 DEF SliceOK
  <1> QED
    BY <1>1, <1>6, <1>8, <1>9, GoOnMarks DEF around

(* A slice with the annotations of two. *)
Joined(new, ids, tails) == PlacesIn(new) = PlacesIn(ids) \cup PlacesIn(tails)

(* InsertSplits, with a name for the new slice. *)
LEMMA InsertedSlice ==
  ASSUME NEW h \in Seq(Span), HeapGood(h), NEW ids \in Seq(1..Len(h)),
         NEW tails \in Seq(1..Len(h)), NEW from \in Int, NEW x \in Int,
         NEW i \in 1..Len(ids), NEW j \in 1..Len(ids), i < j,
         Splits(h, ids, tails, i, j, from, x), TillAt(h, ids, i) <= StartAt(h, ids, j),
         NEW k, k = j + 1,
         NEW new, new = SubSeq(ids, 1, j - 1) \o tails \o SubSeq(ids, j, Len(ids))
  PROVE  /\ new \in Seq(1..Len(h)) /\ Splits(h, new, <<>>, j, k, from, x)
         /\ Joined(new, ids, tails)
  <1>1. /\ new \in Seq(1..Len(h)) /\ Splits(h, new, <<>>, j, k, from, x)
        /\ PlacesIn(new) = PlacesIn(ids) \cup PlacesIn(tails)
    BY InsertSplits, SMTT(30)
  <1> QED
    BY <1>1 DEF Joined

LEMMA InsertMarks == IInv /\ MInv /\ Good(annotations) /\ Insert => MInv'
  <1> SUFFICES ASSUME IInv, MInv, Good(annotations), Insert PROVE MInv'
    OBVIOUS
  <1> DEFINE ids == SubSeq(Top.ids, 1, Top.j - 1) \o Top.tails \o SubSeq(Top.ids, Top.j, Len(Top.ids))
             i == Top.j
             j == Top.j + 1
             g == [Top EXCEPT !.ids = ids, !.copied = TRUE, !.tails = <<>>, !.i = i, !.j = j]
             around == AroundOf(calls, Len(calls))
  <1>1. /\ calls # <<>> /\ GoOn(g) /\ UNCHANGED <<annotations, heap, parsed, html>>
        /\ Top.splitting /\ Top.i <= Len(Top.ids) /\ Top.j <= Len(Top.ids)
        /\ heap[Top.ids[Top.j]].start >= EndOf(heap[Top.ids[Top.i]])
    BY DEF Insert, Splitting
  <1>2. /\ Top \in Frame(annotations, Len(heap)) /\ heap \in Seq(Span) /\ HeapGood(heap)
        /\ SliceOK(heap, Top) /\ SplitOK(annotations, heap, Top, around)
    BY <1>1, TopMarks
  <1>3. /\ Top.ids \in Seq(1..Len(heap)) /\ Top.tails \in Seq(1..Len(heap))
        /\ Top.i \in 1..Len(Top.ids) /\ Top.j \in 1..Len(Top.ids)
        /\ Top.span.start \in Int /\ Edge(Top) \in Int
        /\ i \in Nat \ {0} /\ j \in Nat \ {0} /\ i < j
    <2>1. /\ Top.ids \in Seq(1..Len(heap)) /\ Top.tails \in Seq(1..Len(heap))
          /\ Top.i \in Nat \ {0} /\ Top.j \in Nat \ {0}
          /\ Top.span.start \in Int /\ Edge(Top) \in Int
      BY <1>2, FrameNumbers
    <2>2. Top.i \in 1..Len(Top.ids) /\ Top.j \in 1..Len(Top.ids)
      BY <1>1, <2>1
    <2>3. i \in Nat \ {0} /\ j \in Nat \ {0} /\ i < j
      BY <2>1
    <2> QED
      BY <2>1, <2>2, <2>3
  <1>4. Splits(heap, Top.ids, Top.tails, Top.i, Top.j, Top.span.start, Edge(Top)) /\ Top.i < Top.j
    BY <1>2, ToSplits DEF SplitOK
  <1>5. TillAt(heap, Top.ids, Top.i) <= StartAt(heap, Top.ids, Top.j)
    <2>1. StartAt(heap, Top.ids, Top.j) >= TillAt(heap, Top.ids, Top.i)
      BY <1>1 DEF TillAt, StartAt, Start, Till
    <2>2. Numbered(heap, Top.ids)
      BY <1>4 DEF Splits
    <2> QED
      BY <1>3, <2>1, <2>2 DEF Numbered
  <1>6. /\ ids \in Seq(1..Len(heap)) /\ Splits(heap, ids, <<>>, i, j, Top.span.start, Edge(Top))
        /\ PlacesIn(ids) = PlacesIn(Top.ids) \cup PlacesIn(Top.tails)
    <2>1. ids = SubSeq(Top.ids, 1, Top.j - 1) \o Top.tails \o SubSeq(Top.ids, Top.j, Len(Top.ids))
      OBVIOUS
    <2>2. i = Top.j /\ j = Top.j + 1
      OBVIOUS
    <2> HIDE DEF ids, i, j
    <2>3. /\ ids \in Seq(1..Len(heap))
          /\ Splits(heap, ids, <<>>, Top.j, j, Top.span.start, Edge(Top))
          /\ PlacesIn(ids) = PlacesIn(Top.ids) \cup PlacesIn(Top.tails)
      <3> HIDE DEF g, around
      <3>1. heap \in Seq(Span) /\ HeapGood(heap)
        BY <1>2
      <3> DEFINE s == Top.ids
                 tl == Top.tails
                 a == Top.i
                 b == Top.j
                 from == Top.span.start
                 x == Edge(Top)
      <3>2. /\ s \in Seq(1..Len(heap)) /\ tl \in Seq(1..Len(heap))
            /\ a \in 1..Len(s) /\ b \in 1..Len(s) /\ a < b /\ from \in Int /\ x \in Int
        BY <1>3, <1>4
      <3>3. Splits(heap, s, tl, a, b, from, x) /\ TillAt(heap, s, a) <= StartAt(heap, s, b)
        BY <1>4, <1>5
      <3>4. j = b + 1 /\ ids = SubSeq(s, 1, b - 1) \o tl \o SubSeq(s, b, Len(s))
        BY <2>1, <2>2
      <3> HIDE DEF s, tl, a, b, from, x
      <3>5. ids \in Seq(1..Len(heap))
        BY <3>1, <3>2, <3>3, <3>4, InsertedSlice
      <3>6. Splits(heap, ids, <<>>, b, j, from, x)
        BY <3>1, <3>2, <3>3, <3>4, InsertedSlice
      <3>7. Joined(ids, s, tl)
        BY <3>1, <3>2, <3>3, <3>4, InsertedSlice
      <3> QED
        BY <3>5, <3>6, <3>7 DEF Joined, s, tl, a, b, from, x
    <2> QED
      BY <2>2, <2>3
  <1> HIDE DEF ids, i, j, around
  <1>7. <<>> \in Seq(1..Len(heap)) /\ PlacesIn(<<>>) = {}
    BY DEF PlacesIn
  <1>8. /\ g \in Frame(annotations, Len(heap)) /\ g.span = Top.span /\ g.given = Top.given
        /\ g.out = Top.out /\ g.last = Top.last /\ g.ids = ids /\ g.tails = <<>>
        /\ g.copied = TRUE /\ g.splitting = Top.splitting /\ g.i = i /\ g.j = j
    BY <1>2, <1>3, <1>6, <1>7 DEF Frame
  <1> HIDE DEF g
  <1>9. Edge(g) = Edge(Top) /\ ToCome(g) = ToCome(Top)
    BY <1>6, <1>7, <1>8 DEF Edge, ToCome
  <1>10. SplitOK(annotations, heap, g, around) /\ Distinct(g.ids)
         /\ Within(heap, g.ids, g.span.start, Edge(g))
    <2>1. /\ g.i < g.j /\ g.last = 0
          /\ Splits(heap, g.ids, g.tails, g.i, g.j, g.span.start, Edge(g))
          /\ \A u \in Int : g.span.start <= u /\ u < Edge(g) =>
               Marked(annotations, heap, ToCome(g), u, around)
      BY <1>2, <1>3, <1>6, <1>8, <1>9 DEF SplitOK
    <2> QED
      BY <2>1, FromSplits
  <1>11. SliceOK(heap, g)
    BY <1>2, <1>8, <1>9, <1>10 DEF SliceOK
  <1> QED
    BY <1>1, <1>8, <1>10, <1>11, GoOnMarks DEF around

(* What Cut does to the heap. *)
LEMMA CutHeap ==
  ASSUME NEW h \in Seq(Span), HeapGood(h), NEW d \in 1..Len(h), NEW e \in Int,
         Start(h, d) < e, e < Till(h, d)
  PROVE  LET g == Append([h EXCEPT ![d].length = e - h[d].start],
                         [h[d] EXCEPT !.start = e, !.length = EndOf(h[d]) - e])
         IN  g \in Seq(Span) /\ HeapGood(g) /\ Truncated(h, g, d, e)
  <1> DEFINE a == h[d]
             cut == [a EXCEPT !.length = e - a.start]
             tail == [a EXCEPT !.start = e, !.length = EndOf(a) - e]
             k == [h EXCEPT ![d] = cut]
             g == Append(k, tail)
             n == Len(h)
  <1>1. a \in Span /\ a.start \in Int /\ a.length \in Int /\ EndOf(a) \in Int /\ n \in Nat
    <2>1. a \in Span
      OBVIOUS
    <2> QED
      BY <2>1 DEF Span, EndOf
  <1> HIDE DEF a
  <1>2. /\ cut \in Span /\ tail \in Span
        /\ cut.start = a.start /\ cut.kind = a.kind /\ cut.id = a.id /\ EndOf(cut) = e
        /\ tail.start = e /\ tail.kind = a.kind /\ tail.id = a.id /\ EndOf(tail) = EndOf(a)
    <2> DEFINE kept == e - a.start
               rest == EndOf(a) - e
    <2>1. kept \in Int /\ rest \in Int /\ a.start + kept = e /\ e + rest = EndOf(a)
      BY <1>1
    <2> HIDE DEF kept, rest
    <2>2. /\ [a EXCEPT !.length = kept] \in Span
          /\ [a EXCEPT !.start = e, !.length = rest] \in Span
      BY <1>1, <2>1 DEF Span
    <2>3. /\ [a EXCEPT !.length = kept].start = a.start /\ [a EXCEPT !.length = kept].length = kept
          /\ [a EXCEPT !.length = kept].kind = a.kind /\ [a EXCEPT !.length = kept].id = a.id
          /\ [a EXCEPT !.start = e, !.length = rest].start = e
          /\ [a EXCEPT !.start = e, !.length = rest].length = rest
          /\ [a EXCEPT !.start = e, !.length = rest].kind = a.kind
          /\ [a EXCEPT !.start = e, !.length = rest].id = a.id
      BY <1>1 DEF Span
    <2>4. EndOf([a EXCEPT !.length = kept]) = e /\ EndOf([a EXCEPT !.start = e, !.length = rest]) = EndOf(a)
      <3>1. /\ EndOf([a EXCEPT !.length = kept]) = a.start + kept
            /\ EndOf([a EXCEPT !.start = e, !.length = rest]) = e + rest
        BY <2>3 DEF EndOf
      <3> QED
        BY <2>1, <3>1
    <2> QED
      BY <2>2, <2>3, <2>4 DEF kept, rest
  <1> HIDE DEF cut, tail
  <1>3. k \in Seq(Span) /\ Len(k) = n /\ \A p \in 1..n : k[p] = IF p = d THEN cut ELSE h[p]
    BY <1>2, ExceptSeq
  <1> HIDE DEF k
  <1>4. /\ g \in Seq(Span) /\ Len(g) = n + 1 /\ g[n + 1] = tail
        /\ \A p \in 1..n : g[p] = k[p]
    BY <1>1, <1>2, <1>3
  <1> HIDE DEF g
  <1>5. g[d] = cut /\ \A p \in 1..n : p # d => g[p] = h[p]
    BY <1>3, <1>4
  <1>6. /\ \A p \in 1..n : Start(g, p) = Start(h, p) /\ g[p].kind = h[p].kind /\ g[p].id = h[p].id
        /\ \A p \in 1..n : p # d => Till(g, p) = Till(h, p)
        /\ Till(g, d) = e /\ Start(g, n + 1) = e /\ Till(g, n + 1) = Till(h, d)
        /\ g[n + 1].kind = h[d].kind /\ g[n + 1].id = h[d].id
    BY <1>2, <1>4, <1>5 DEF Start, Till, a
  <1>7. Truncated(h, g, d, e)
    BY <1>4, <1>6 DEF Truncated
  <1>8. \A p \in 1..n : Placed(h, p) /\ h[p].kind # "plain"
    BY PlaceNumbers DEF HeapGood
  <1>9. \A p \in 1..n : /\ Start(g, p) <= Till(g, p) /\ g[p].kind # "plain"
                        /\ g[p].kind = "chip" => Till(g, p) = Start(g, p)
    <2>1. h[d].kind # "chip" /\ Start(g, d) <= Till(g, d)
      BY <1>6, <1>8 DEF Placed
    <2> QED
      BY <1>6, <1>8, <2>1 DEF Placed
  <1>10. /\ Start(g, n + 1) <= Till(g, n + 1) /\ g[n + 1].kind # "plain" /\ g[n + 1].kind # "chip"
    BY <1>6, <1>8 DEF Placed
  <1>11. HeapGood(g)
    <2>1. \A p \in 1..(n + 1) : p \in 1..n \/ p = n + 1
      BY <1>1
    <2> QED
      BY <1>4, <1>9, <1>10, <2>1 DEF HeapGood
  <1>12. g = Append([h EXCEPT ![d].length = e - h[d].start],
                    [h[d] EXCEPT !.start = e, !.length = EndOf(h[d]) - e])
    BY DEF g, k, cut, tail, a
  <1> QED
    BY <1>4, <1>7, <1>11, <1>12

(* The next one is within the current one. *)
LEMMA PassMarks ==
  ASSUME IInv, MInv, Good(annotations), Cut,
         EndOf(heap[Top.ids[Top.j]]) <= EndOf(heap[Top.ids[Top.i]])
  PROVE  MInv'
  <1> DEFINE id == Top.ids[Top.j]
             end == EndOf(heap[Top.ids[Top.i]])
             crosses == EndOf(heap[id]) > end
             j == Top.j + 1
             g == [Top EXCEPT !.j = j]
             around == AroundOf(calls, Len(calls))
  <1>1. /\ calls # <<>> /\ Top.splitting /\ Top.i <= Len(Top.ids) /\ Top.j <= Len(Top.ids)
        /\ heap[id].start < end
    BY DEF Cut, Splitting
  <1>2. /\ Top \in Frame(annotations, Len(heap)) /\ heap \in Seq(Span) /\ HeapGood(heap)
        /\ SliceOK(heap, Top) /\ SplitOK(annotations, heap, Top, around)
    BY <1>1, TopMarks
  <1>3. /\ Top.ids \in Seq(1..Len(heap)) /\ Top.i \in 1..Len(Top.ids) /\ Top.j \in 1..Len(Top.ids)
        /\ Top.span.start \in Int /\ Edge(Top) \in Int /\ j \in Nat \ {0}
    <2>1. /\ Top.ids \in Seq(1..Len(heap)) /\ Top.i \in Nat \ {0} /\ Top.j \in Nat \ {0}
          /\ Top.span.start \in Int /\ Edge(Top) \in Int
      BY <1>2, FrameNumbers
    <2>2. Top.i \in 1..Len(Top.ids) /\ Top.j \in 1..Len(Top.ids)
      BY <1>1, <2>1
    <2>3. j \in Nat \ {0}
      BY <2>1
    <2> QED
      BY <2>1, <2>2, <2>3
  <1>4. /\ Splits(heap, Top.ids, Top.tails, Top.i, Top.j, Top.span.start, Edge(Top))
        /\ Top.i < Top.j
    BY <1>2, ToSplits DEF SplitOK
  <1>5. /\ StartAt(heap, Top.ids, Top.j) < TillAt(heap, Top.ids, Top.i)
        /\ TillAt(heap, Top.ids, Top.j) <= TillAt(heap, Top.ids, Top.i)
    BY <1>1 DEF StartAt, TillAt, Start, Till
  <1>6. ~crosses
    <2>1. TillAt(heap, Top.ids, Top.j) \in Int /\ TillAt(heap, Top.ids, Top.i) \in Int
      BY <1>3, <1>4 DEF Splits, Numbered
    <2>2. ~(TillAt(heap, Top.ids, Top.j) > TillAt(heap, Top.ids, Top.i))
      BY <1>5, <2>1
    <2> QED
      BY <2>2 DEF TillAt, Till
  <1>7. Splits(heap, Top.ids, Top.tails, Top.i, j, Top.span.start, Edge(Top))
    BY <1>3, <1>4, <1>5, PassSplits
  <1>8. GoOn(g) /\ UNCHANGED <<annotations, heap, parsed, html>>
    <2>1. /\ heap' = IF crosses THEN Append([heap EXCEPT ![id].length = end - heap[id].start],
                       [heap[id] EXCEPT !.start = end, !.length = EndOf(heap[id]) - end]) ELSE heap
          /\ GoOn([Top EXCEPT !.j = j, !.tails = IF crosses THEN Append(@, Len(heap) + 1) ELSE @])
          /\ UNCHANGED <<annotations, parsed, html>>
      BY DEF Cut
    <2>2. [Top EXCEPT !.j = j, !.tails = IF crosses THEN Append(@, Len(heap) + 1) ELSE @] = g
      <3>1. [Top EXCEPT !.j = j, !.tails = Top.tails] = g
        BY <1>2 DEF Frame
      <3> QED
        BY <1>6, <3>1
    <2> QED
      BY <1>6, <2>1, <2>2
  <1>9. Top.i < j
    BY <1>3, <1>4
  <1> HIDE DEF j, around, id, end
  <1>10. /\ g \in Frame(annotations, Len(heap)) /\ g.span = Top.span /\ g.given = Top.given
         /\ g.out = Top.out /\ g.last = Top.last /\ g.ids = Top.ids /\ g.tails = Top.tails
         /\ g.copied = Top.copied /\ g.splitting = Top.splitting /\ g.i = Top.i /\ g.j = j
    BY <1>2, <1>3 DEF Frame
  <1> HIDE DEF g
  <1>11. Edge(g) = Edge(Top) /\ ToCome(g) = ToCome(Top)
    BY <1>10 DEF Edge, ToCome
  <1>12. SplitOK(annotations, heap, g, around)
    <2>1. /\ g.i < g.j /\ g.last = 0
          /\ Splits(heap, g.ids, g.tails, g.i, g.j, g.span.start, Edge(g))
          /\ \A u \in Int : g.span.start <= u /\ u < Edge(g) =>
               Marked(annotations, heap, ToCome(g), u, around)
      BY <1>2, <1>7, <1>9, <1>10, <1>11 DEF SplitOK
    <2> QED
      BY <2>1, FromSplits
  <1>13. SliceOK(heap, g)
    BY <1>2, <1>10, <1>11 DEF SliceOK
  <1> QED
    BY <1>1, <1>8, <1>10, <1>12, <1>13, GoOnMarks DEF around

(* One place more. *)
LEMMA AppendedPlaces ==
  ASSUME NEW n, NEW s \in Seq(n), NEW d
  PROVE  PlacesIn(Append(s, d)) = PlacesIn(s) \cup {d}
  <1> DEFINE t == Append(s, d)
  <1>1. /\ Len(s) \in Nat /\ Len(t) = Len(s) + 1 /\ t[Len(s) + 1] = d
        /\ \A p \in 1..Len(s) : t[p] = s[p]
    BY AppendProperties
  <1> HIDE DEF t
  <1>2. \A p \in 1..(Len(s) + 1) : p \in 1..Len(s) \/ p = Len(s) + 1
    BY <1>1
  <1>3. \A p \in 1..Len(s) : p \in 1..(Len(s) + 1)
    BY <1>1
  <1>4. Len(s) + 1 \in 1..(Len(s) + 1)
    BY <1>1
  <1>5. PlacesIn(t) = PlacesIn(s) \cup {d}
    BY <1>1, <1>2, <1>3, <1>4 DEF PlacesIn
  <1> QED
    BY <1>5 DEF t

(* The next one crosses the current one. *)
LEMMA CrossMarks ==
  ASSUME IInv, MInv, Good(annotations), Cut,
         EndOf(heap[Top.ids[Top.j]]) > EndOf(heap[Top.ids[Top.i]])
  PROVE  MInv'
  <1> DEFINE n == Len(heap)
             d == Top.ids[Top.j]
             e == EndOf(heap[Top.ids[Top.i]])
             j == Top.j + 1
             tails == Append(Top.tails, n + 1)
             g == [Top EXCEPT !.j = j, !.tails = tails]
             h == heap'
             around == AroundOf(calls, Len(calls))
  <1>1. /\ calls # <<>> /\ Top.splitting /\ Top.i <= Len(Top.ids) /\ Top.j <= Len(Top.ids)
        /\ heap[d].start < e /\ UNCHANGED <<annotations, parsed, html>> /\ GoOn(g)
        /\ h = Append([heap EXCEPT ![d].length = e - heap[d].start],
                      [heap[d] EXCEPT !.start = e, !.length = EndOf(heap[d]) - e])
    BY DEF Cut, Splitting
  <1>2. /\ Top \in Frame(annotations, n) /\ heap \in Seq(Span) /\ HeapGood(heap)
        /\ SliceOK(heap, Top) /\ SplitOK(annotations, heap, Top, around)
        /\ calls \in Seq(Frame(annotations, n)) /\ CallsOK(annotations, heap, calls)
        /\ Top = calls[Len(calls)] /\ Exactly(annotations, Top.out, around)
        /\ Len(calls) \in 1..Len(calls) /\ Len(calls) \in Nat
    BY <1>1, TopMarks
  <1>3. /\ Top.ids \in Seq(1..n) /\ Top.tails \in Seq(1..n)
        /\ Top.i \in 1..Len(Top.ids) /\ Top.j \in 1..Len(Top.ids)
        /\ Top.span.start \in Int /\ Edge(Top) \in Int /\ j \in Nat \ {0}
    <2>1. /\ Top.ids \in Seq(1..n) /\ Top.i \in Nat \ {0} /\ Top.j \in Nat \ {0}
          /\ Top.tails \in Seq(1..n) /\ Top.span.start \in Int /\ Edge(Top) \in Int
      BY <1>2, FrameNumbers
    <2>2. Top.i \in 1..Len(Top.ids) /\ Top.j \in 1..Len(Top.ids)
      BY <1>1, <2>1
    <2>3. j \in Nat \ {0}
      BY <2>1
    <2> QED
      BY <2>1, <2>2, <2>3
  <1>4. /\ Splits(heap, Top.ids, Top.tails, Top.i, Top.j, Top.span.start, Edge(Top))
        /\ Top.i < Top.j
    BY <1>2, ToSplits DEF SplitOK
  <1>5. /\ d = Top.ids[Top.j] /\ d \in 1..n /\ e = TillAt(heap, Top.ids, Top.i) /\ e \in Int
        /\ n \in Nat /\ j = Top.j + 1 /\ tails = Append(Top.tails, n + 1)
    <2>1. d \in 1..n
      BY <1>3, ElementOfSeq
    <2>2. e = TillAt(heap, Top.ids, Top.i)
      BY DEF TillAt, Till
    <2>3. TillAt(heap, Top.ids, Top.i) \in Int
      BY <1>3, <1>4 DEF Splits, Numbered
    <2> QED
      BY <1>2, <2>1, <2>2, <2>3
  <1>6. /\ StartAt(heap, Top.ids, Top.j) < TillAt(heap, Top.ids, Top.i)
        /\ TillAt(heap, Top.ids, Top.i) < TillAt(heap, Top.ids, Top.j)
    <2>1. /\ StartAt(heap, Top.ids, Top.j) < TillAt(heap, Top.ids, Top.i)
          /\ TillAt(heap, Top.ids, Top.j) > TillAt(heap, Top.ids, Top.i)
      BY <1>1 DEF StartAt, TillAt, Start, Till
    <2>2. TillAt(heap, Top.ids, Top.j) \in Int /\ TillAt(heap, Top.ids, Top.i) \in Int
      BY <1>3, <1>4 DEF Splits, Numbered
    <2> QED
      BY <2>1, <2>2
  <1>7. Start(heap, d) < e /\ e < Till(heap, d)
    BY <1>5, <1>6 DEF StartAt, TillAt
  <1> HIDE DEF n, d, e, j, tails, h, around
  <1>8. h \in Seq(Span) /\ HeapGood(h) /\ Truncated(heap, h, d, e)
    <2>1. d \in 1..Len(heap)
      BY <1>5 DEF n
    <2> QED
      BY <1>1, <1>2, <1>5, <1>7, <2>1, CutHeap, ZenonT(30)
  <1>9. Start(heap, d) < Edge(Top)
    <2>1. StartAt(heap, Top.ids, Top.j) < Edge(Top)
      BY <1>3, <1>4, <1>6, CutInside DEF Splits
    <2> QED
      BY <1>5, <2>1 DEF StartAt
  <1>10. Splits(h, Top.ids, tails, Top.i, j, Top.span.start, Edge(Top))
    <2>1. Truncated(heap, h, Top.ids[Top.j], TillAt(heap, Top.ids, Top.i))
      BY <1>5, <1>8
    <2>2. Top.ids \in Seq(1..Len(heap)) /\ Top.tails \in Seq(1..Len(heap))
      BY <1>3 DEF n
    <2>3. Splits(h, Top.ids, Append(Top.tails, Len(heap) + 1), Top.i, Top.j + 1,
                 Top.span.start, Edge(Top))
      BY <1>2, <1>3, <1>4, <1>6, <1>8, <2>1, <2>2, CutSplits
    <2> QED
      BY <1>5, <2>3 DEF n
  <1>11. SliceOK(h, Top)
    BY <1>2, <1>5, <1>8, <1>9, CutSlice DEF n
  <1>12. StackOK(annotations, n + 1, calls) /\ n + 1 \in Nat
    <2>1. StackOK(annotations, n, calls)
      BY DEF IInv, n
    <2> QED
      BY <1>5, <2>1, StackGrows
  <1>13. /\ calls \in Seq(Frame(annotations, n + 1)) /\ Top \in Frame(annotations, n + 1)
    BY <1>2, <1>12, ElementOfSeq DEF StackOK
  <1>14. tails \in Seq(1..(n + 1))
    <2>1. Top.tails \in Seq(1..(n + 1))
      BY <1>13 DEF Frame
    <2>2. n + 1 \in 1..(n + 1)
      BY <1>5
    <2> QED
      BY <1>5, <2>1, <2>2
  <1>15. /\ g \in Frame(annotations, n + 1) /\ g.span = Top.span /\ g.given = Top.given
         /\ g.out = Top.out /\ g.last = Top.last /\ g.ids = Top.ids /\ g.tails = tails
         /\ g.copied = Top.copied /\ g.splitting = Top.splitting /\ g.i = Top.i /\ g.j = j
    BY <1>3, <1>13, <1>14 DEF Frame
  <1> HIDE DEF g
  <1>16. Edge(g) = Edge(Top) /\ ToCome(g) = ToCome(Top) \cup {n + 1}
    <2>1. PlacesIn(tails) = PlacesIn(Top.tails) \cup {n + 1}
      BY <1>3, <1>5, AppendedPlaces
    <2> QED
      BY <1>15, <2>1 DEF Edge, ToCome
  <1>17. SliceOK(h, g)
    BY <1>11, <1>15, <1>16 DEF SliceOK
  <1>18. SplitOK(annotations, h, g, around)
    <2>1. ASSUME NEW u \in Int, g.span.start <= u, u < Edge(g)
          PROVE  Marked(annotations, h, ToCome(g), u, around)
      <3>1. Marked(annotations, heap, ToCome(Top), u, around)
        BY <1>2, <1>15, <1>16, <2>1 DEF SplitOK
      <3>2. ToCome(Top) \in SUBSET (1..Len(heap))
        <4>1. \A p \in 1..Len(Top.ids) : Top.ids[p] \in 1..n
          BY <1>3, ElementOfSeq
        <4>2. \A p \in 1..Len(Top.tails) : Top.tails[p] \in 1..n
          BY <1>3, ElementOfSeq
        <4> QED
          BY <4>1, <4>2 DEF ToCome, PlacesIn, n
      <3>3. Marked(annotations, h, ToCome(Top) \cup {Len(heap) + 1}, u, around)
        BY <1>2, <1>5, <1>8, <3>1, <3>2, CutMarked
      <3> QED
        BY <1>16, <3>3 DEF n
    <2>2. Top.i < j
      BY <1>3, <1>4, <1>5
    <2>3. /\ g.i < g.j /\ g.last = 0
          /\ Splits(h, g.ids, g.tails, g.i, g.j, g.span.start, Edge(g))
      BY <1>2, <1>10, <1>15, <1>16, <2>2 DEF SplitOK
    <2> QED
      BY <2>1, <2>3, FromSplits
  <1>19. \A k \in 1..Len(calls) : k < Len(calls) => CallOK(annotations, h, calls, k)
    <2> SUFFICES ASSUME NEW k \in 1..Len(calls), k < Len(calls)
                 PROVE  CallOK(annotations, h, calls, k)
      OBVIOUS
    <2>1. calls \in Seq(Frame(annotations, Len(heap))) /\ Start(heap, d) < Edge(calls[Len(calls)])
      BY <1>2, <1>9 DEF n
    <2> QED
      BY <1>2, <1>5, <1>8, <2>1, CutLower
  <1>20. CallsOK(annotations, h, [calls EXCEPT ![Len(calls)] = g])
    <2>1. \A k, m \in 1..Len(calls) : k <= m => Edge(calls[m]) <= Edge(calls[k])
      BY <1>2 DEF CallsOK
    <2>2. IF g.splitting THEN SplitOK(annotations, h, g, AroundOf(calls, Len(calls)))
          ELSE WalkOK(annotations, h, g, AroundOf(calls, Len(calls)))
      BY <1>1, <1>15, <1>18 DEF around
    <2>3. g.span = calls[Len(calls)].span /\ g.given = calls[Len(calls)].given
          /\ Exactly(annotations, g.out, AroundOf(calls, Len(calls)))
      BY <1>2, <1>15 DEF around
    <2> QED
      BY <1>1, <1>13, <1>15, <1>17, <1>19, <2>1, <2>2, <2>3, TopReplaced
  <1>21. calls' = [calls EXCEPT ![Len(calls)] = g]
    BY <1>1 DEF GoOn
  <1>22. calls' # <<>>
    <2>1. Len(calls') = Len(calls)
      BY <1>1, <1>15, <1>13, <1>2, <1>21, ExceptSeq
    <2> QED
      BY <1>2, <2>1
  <1> QED
    BY <1>1, <1>8, <1>20, <1>21, <1>22 DEF MInv, h

LEMMA CutMarks == IInv /\ MInv /\ Good(annotations) /\ Cut => MInv'
  <1> SUFFICES ASSUME IInv, MInv, Good(annotations), Cut PROVE MInv'
    OBVIOUS
  <1>1. EndOf(heap[Top.ids[Top.j]]) \in Int /\ EndOf(heap[Top.ids[Top.i]]) \in Int
    <2>1. /\ Top \in Frame(annotations, Len(heap)) /\ heap \in Seq(Span)
          /\ Top.i <= Len(Top.ids) /\ Top.j <= Len(Top.ids)
      BY TopMarks DEF Cut, Splitting
    <2>2. /\ Top.ids \in Seq(1..Len(heap)) /\ Top.i \in 1..Len(Top.ids) /\ Top.j \in 1..Len(Top.ids)
      BY <2>1 DEF Frame
    <2>3. heap[Top.ids[Top.j]] \in Span /\ heap[Top.ids[Top.i]] \in Span
      BY <2>1, <2>2, ElementOfSeq
    <2> QED
      BY <2>3 DEF Span, EndOf
  <1>2. \/ EndOf(heap[Top.ids[Top.j]]) > EndOf(heap[Top.ids[Top.i]])
        \/ EndOf(heap[Top.ids[Top.j]]) <= EndOf(heap[Top.ids[Top.i]])
    BY <1>1
  <1> QED
    BY <1>2, PassMarks, CrossMarks

LEMMA NormalizedMarks == IInv /\ MInv /\ Good(annotations) /\ Normalized => MInv'
  <1> SUFFICES ASSUME IInv, MInv, Good(annotations), Normalized PROVE MInv'
    OBVIOUS
  <1> DEFINE ids == Top.ids \o Top.tails
             copied == Top.copied \/ Top.tails # <<>>
             i == 1
             g == [Top EXCEPT !.ids = ids, !.copied = copied, !.splitting = FALSE, !.i = i]
             around == AroundOf(calls, Len(calls))
             from == Top.span.start
  <1>1. /\ calls # <<>> /\ GoOn(g) /\ UNCHANGED <<annotations, heap, parsed, html>>
        /\ Top.splitting /\ Top.i > Len(Top.ids)
    BY DEF Normalized, Splitting
  <1>2. /\ Top \in Frame(annotations, Len(heap)) /\ heap \in Seq(Span) /\ HeapGood(heap)
        /\ SliceOK(heap, Top) /\ SplitOK(annotations, heap, Top, around)
    BY <1>1, TopMarks
  <1>3. /\ Top.ids \in Seq(1..Len(heap)) /\ Top.tails \in Seq(1..Len(heap))
        /\ Top.i \in Int /\ Top.span.start \in Int /\ Edge(Top) \in Int /\ from + 0 = from
        /\ copied \in BOOLEAN /\ i \in Nat \ {0} /\ ids \in Seq(1..Len(heap))
    <2>1. /\ Top.ids \in Seq(1..Len(heap)) /\ Top.tails \in Seq(1..Len(heap))
          /\ Top.i \in Int /\ Top.span.start \in Int /\ Edge(Top) \in Int /\ from + 0 = from
      BY <1>2, FrameNumbers
    <2>2. ids \in Seq(1..Len(heap))
      BY <2>1
    <2>3. copied \in BOOLEAN /\ i \in Nat \ {0}
      BY <1>2 DEF Frame
    <2> QED
      BY <2>1, <2>2, <2>3
  <1>4. Splits(heap, Top.ids, Top.tails, Top.i, Top.j, from, Edge(Top))
    BY <1>2, ToSplits
  <1>5. /\ Distinct(ids) /\ Within(heap, ids, from, Edge(Top)) /\ OrderOK(heap, ids, 1, from)
        /\ Rest(ids, 1) = PlacesIn(Top.ids) \cup PlacesIn(Top.tails)
        /\ \A p \in Rest(ids, 1) : ~(Start(heap, p) < from)
        /\ Clean(heap, From(heap, Rest(ids, 1), from))
        /\ Top.tails = <<>> => ids = Top.ids
    <2> DEFINE s == Top.ids
               t == Top.tails
               a == Top.i
               b == Top.j
               x == Edge(Top)
    <2>1. /\ s \in Seq(1..Len(heap)) /\ t \in Seq(1..Len(heap)) /\ a \in Int
          /\ from \in Int /\ x \in Int /\ a > Len(s) /\ Splits(heap, s, t, a, b, from, x)
      BY <1>1, <1>3, <1>4
    <2> HIDE DEF s, t, a, b, x, from
    <2>2. /\ Distinct(s \o t) /\ Within(heap, s \o t, from, x) /\ OrderOK(heap, s \o t, 1, from)
          /\ Rest(s \o t, 1) = PlacesIn(s) \cup PlacesIn(t)
          /\ \A p \in Rest(s \o t, 1) : ~(Start(heap, p) < from)
          /\ Clean(heap, From(heap, Rest(s \o t, 1), from))
          /\ t = <<>> => s \o t = s
      BY <1>2, <2>1, NormalizedSlice
    <2> QED
      BY <2>2 DEF s, t, x
  <1> HIDE DEF ids, copied, i, around, from
  <1>6. /\ g \in Frame(annotations, Len(heap)) /\ g.span = Top.span /\ g.given = Top.given
        /\ g.out = Top.out /\ g.last = Top.last /\ g.ids = ids /\ g.copied = copied
        /\ g.splitting = FALSE /\ g.i = 1
    BY <1>2, <1>3 DEF Frame, i
  <1> HIDE DEF g
  <1>7. Edge(g) = Edge(Top) /\ Pos(g) = from /\ from = g.span.start
    BY <1>2, <1>3, <1>6 DEF Edge, Pos, SplitOK, from
  <1>8. SliceOK(heap, g)
    <2>1. ~copied => ids = Top.ids /\ ~Top.copied
      BY <1>5 DEF copied
    <2> QED
      BY <1>2, <1>5, <1>6, <1>7, <2>1 DEF SliceOK
  <1>9. WalkOK(annotations, heap, g, around)
    <2>1. \A u \in Int : from <= u /\ u < Edge(Top) =>
            Marked(annotations, heap, Rest(ids, 1), u, around)
      BY <1>2, <1>5 DEF SplitOK, ToCome, from
    <2> QED
      BY <1>5, <1>6, <1>7, <2>1 DEF WalkOK
  <1> QED
    BY <1>1, <1>6, <1>8, <1>9, GoOnMarks DEF around

(* The innermost call walks over its slice. *)
LEMMA WalkMarks ==
  ASSUME IInv, MInv, Good(annotations), Walking
  PROVE  LET around == AroundOf(calls, Len(calls))
         IN  /\ calls # <<>> /\ heap \in Seq(Span) /\ HeapGood(heap)
             /\ Top \in Frame(annotations, Len(heap)) /\ FrameOK(annotations, Len(heap), Top)
             /\ SliceOK(heap, Top) /\ Exactly(annotations, Top.out, around)
             /\ WalkOK(annotations, heap, Top, around) /\ ~Top.splitting
             /\ Top.ids \in Seq(1..Len(heap)) /\ Top.i \in Nat \ {0}
             /\ Numbered(heap, Top.ids) /\ AllPlaced(heap, Top.ids)
             /\ Top.span.start \in Int /\ Edge(Top) \in Int /\ Pos(Top) \in Int
             /\ ~AtEnd => Top.i \in 1..Len(Top.ids) /\ Current = heap[Top.ids[Top.i]]
                          /\ StartAt(heap, Top.ids, Top.i) < Edge(Top)
  <1>1. calls # <<>> /\ ~Top.splitting
    BY DEF Walking
  <1>2. /\ Top \in Frame(annotations, Len(heap)) /\ heap \in Seq(Span) /\ HeapGood(heap)
        /\ SliceOK(heap, Top) /\ FrameOK(annotations, Len(heap), Top)
        /\ Exactly(annotations, Top.out, AroundOf(calls, Len(calls)))
        /\ WalkOK(annotations, heap, Top, AroundOf(calls, Len(calls)))
    BY <1>1, TopMarks
  <1>3. /\ Top.ids \in Seq(1..Len(heap)) /\ Top.i \in Nat \ {0}
        /\ Top.span.start \in Int /\ Edge(Top) \in Int /\ Pos(Top) \in Int
    BY <1>2, FrameNumbers
  <1>4. Numbered(heap, Top.ids) /\ AllPlaced(heap, Top.ids)
    BY <1>2, <1>3, Numbers
  <1>5. ASSUME ~AtEnd
        PROVE  Top.i \in 1..Len(Top.ids) /\ Current = heap[Top.ids[Top.i]]
               /\ StartAt(heap, Top.ids, Top.i) < Edge(Top)
    <2>1. Top.i <= Len(Top.ids) /\ ~(Current.start >= EndOf(Top.span))
      BY <1>5 DEF AtEnd
    <2>2. Top.i \in 1..Len(Top.ids)
      BY <1>3, <2>1
    <2>3. StartAt(heap, Top.ids, Top.i) = Current.start /\ Edge(Top) = EndOf(Top.span)
      BY DEF StartAt, Start, Current, Edge
    <2>4. StartAt(heap, Top.ids, Top.i) \in Int
      BY <1>4, <2>2 DEF Numbered
    <2>5. StartAt(heap, Top.ids, Top.i) < Edge(Top)
      BY <1>3, <2>1, <2>3, <2>4
    <2> QED
      BY <2>2, <2>5 DEF Current
  <1> QED
    BY <1>1, <1>2, <1>3, <1>4, <1>5

LEMMA SkipMarks == IInv /\ MInv /\ Good(annotations) /\ Skip => MInv'
  <1> SUFFICES ASSUME IInv, MInv, Good(annotations), Skip PROVE MInv'
    OBVIOUS
  <1> DEFINE i == Top.i + 1
             g == [Top EXCEPT !.i = i]
             around == AroundOf(calls, Len(calls))
             pos == Pos(Top)
             R == Rest(Top.ids, Top.i)
             Q == Rest(Top.ids, i)
  <1>1. /\ calls # <<>> /\ GoOn(g) /\ UNCHANGED <<annotations, heap, parsed, html>>
        /\ Walking /\ ~AtEnd /\ (Current.kind = "chip" \/ Behind)
    BY DEF Skip, Walking
  <1>2. /\ heap \in Seq(Span) /\ HeapGood(heap)
        /\ Top \in Frame(annotations, Len(heap)) /\ SliceOK(heap, Top)
        /\ WalkOK(annotations, heap, Top, around) /\ ~Top.splitting
        /\ Top.ids \in Seq(1..Len(heap)) /\ Top.i \in Nat \ {0}
        /\ Numbered(heap, Top.ids) /\ AllPlaced(heap, Top.ids)
        /\ Top.span.start \in Int /\ Edge(Top) \in Int /\ pos \in Int
        /\ Top.i \in 1..Len(Top.ids) /\ Current = heap[Top.ids[Top.i]]
    BY <1>1, WalkMarks
  <1>3. ChipAt(heap, Top.ids, Top.i) \/ StartAt(heap, Top.ids, Top.i) < pos
    <2>1. CASE Current.kind = "chip"
      BY <1>2, <2>1 DEF ChipAt
    <2>2. CASE Behind
      <3>1. /\ StartAt(heap, Top.ids, Top.i) = Current.start
            /\ Current.start - Top.span.start < Top.last /\ pos = Top.span.start + Top.last
        BY <1>2, <2>2 DEF Behind, StartAt, Start, Pos
      <3>2. StartAt(heap, Top.ids, Top.i) \in Int /\ Top.last \in Int
        BY <1>2 DEF Numbered, Frame
      <3> QED
        BY <1>2, <3>1, <3>2, SMTT(30)
    <2> QED
      BY <1>1, <2>1, <2>2
  <1>4. /\ \A p \in R : Start(heap, p) < pos => Till(heap, p) <= pos
        /\ OrderOK(heap, Top.ids, Top.i, pos) /\ Clean(heap, From(heap, R, pos))
        /\ \A u \in Int : pos <= u /\ u < Edge(Top) => Marked(annotations, heap, R, u, around)
    BY <1>2 DEF WalkOK
  <1>5. /\ \A p \in Q : Start(heap, p) < pos => Till(heap, p) <= pos
        /\ OrderOK(heap, Top.ids, i, pos) /\ Clean(heap, From(heap, Q, pos))
        /\ \A u : u \in Int /\ pos <= u /\ Marked(annotations, heap, R, u, around) =>
             Marked(annotations, heap, Q, u, around)
    <2> HIDE DEF pos, around
    <2> QED
      BY <1>2, <1>3, <1>4, SkipWalk
  <1>6. i \in Nat \ {0}
    BY <1>2
  <1> HIDE DEF i, pos, around
  <1>7. /\ g \in Frame(annotations, Len(heap)) /\ g.span = Top.span /\ g.given = Top.given
        /\ g.out = Top.out /\ g.last = Top.last /\ g.ids = Top.ids /\ g.copied = Top.copied
        /\ g.splitting = Top.splitting /\ g.i = i
    BY <1>2, <1>6 DEF Frame
  <1> HIDE DEF g
  <1>8. Edge(g) = Edge(Top) /\ Pos(g) = pos
    BY <1>7 DEF Edge, Pos, pos
  <1>9. WalkOK(annotations, heap, g, around)
    BY <1>4, <1>5, <1>7, <1>8 DEF WalkOK
  <1>10. SliceOK(heap, g)
    BY <1>2, <1>7, <1>8 DEF SliceOK
  <1> QED
    BY <1>1, <1>2, <1>7, <1>9, <1>10, GoOnMarks DEF around

(* No annotation is out of bounds, so that Parse does not give up. *)
LEMMA InBoundsMarks == IInv /\ MInv /\ Good(annotations) => ~OutOfBounds
  <1> SUFFICES ASSUME IInv, MInv, Good(annotations), OutOfBounds PROVE FALSE
    OBVIOUS
  <1>1. Walking /\ ~AtEnd /\ ~WithinSpan
    BY DEF OutOfBounds
  <1>2. /\ heap \in Seq(Span) /\ SliceOK(heap, Top)
        /\ Top \in Frame(annotations, Len(heap)) /\ Top.ids \in Seq(1..Len(heap))
        /\ Numbered(heap, Top.ids) /\ Edge(Top) \in Int /\ Top.i \in 1..Len(Top.ids)
        /\ Current = heap[Top.ids[Top.i]] /\ StartAt(heap, Top.ids, Top.i) < Edge(Top)
    BY <1>1, WalkMarks
  <1>3. /\ Top.span.start <= StartAt(heap, Top.ids, Top.i)
        /\ TillAt(heap, Top.ids, Top.i) <= Edge(Top)
        /\ StartAt(heap, Top.ids, Top.i) <= TillAt(heap, Top.ids, Top.i)
    BY <1>2 DEF SliceOK, Within, Numbered
  <1>4. /\ Current.start = StartAt(heap, Top.ids, Top.i)
        /\ EndOf(Current) = TillAt(heap, Top.ids, Top.i)
        /\ Edge(Top) = Top.span.start + Top.span.length
    BY <1>2 DEF StartAt, TillAt, Start, Till, Edge, EndOf
  <1>5. Current \in Span /\ Top.span \in Span
    BY <1>1, CurrentFacts
  <1>6. Current.start \in Int /\ Current.length \in Int /\ EndOf(Current) = Current.start + Current.length
        /\ Top.span.start \in Int /\ Top.span.length \in Int
    BY <1>5 DEF Span, EndOf
  <1>7. Top.span.start <= Current.start /\ Current.length >= 0
        /\ EndOf(Current) <= Top.span.start + Top.span.length
    BY <1>3, <1>4, <1>6
  <1> QED
    BY <1>1, <1>6, <1>7 DEF WithinSpan, SpanWithinParent

(* The slice for a nested call: what comes after annotation i.             *)
LEMMA TailSlice ==
  ASSUME NEW n, NEW s \in Seq(n), NEW i \in 1..Len(s), Distinct(s)
  PROVE  LET t == SubSeq(s, i + 1, Len(s))
         IN  t \in Seq(n) /\ Distinct(t) /\ PlacesIn(t) = Rest(s, i + 1)
  <1> DEFINE t == SubSeq(s, i + 1, Len(s))
             k == i + 1
  <1>1. /\ Len(s) \in Nat /\ i \in Nat /\ t \in Seq(n) /\ Len(t) = Len(s) - i
        /\ \A b \in 1..(Len(s) - i) : t[b] = s[i + b]
    BY SubSeqProperties
  <1> HIDE DEF t
  <1>2. \A b \in 1..Len(t) : i + b \in 1..Len(s) /\ i + b >= k /\ t[b] = s[i + b]
    BY <1>1
  <1>3. \A q \in 1..Len(s) : q >= k => q - i \in 1..Len(t) /\ t[q - i] = s[q]
    BY <1>1, SMTT(30)
  <1> HIDE DEF k
  <1>4. PlacesIn(t) = Rest(s, k)
    <2>1. \A p \in PlacesIn(t) : p \in Rest(s, k)
      BY <1>2 DEF PlacesIn, Rest
    <2>2. \A p \in Rest(s, k) : p \in PlacesIn(t)
      BY <1>3 DEF PlacesIn, Rest
    <2> QED
      BY <2>1, <2>2
  <1>5. Distinct(t)
    <2> SUFFICES ASSUME NEW a \in 1..Len(t), NEW b \in 1..Len(t), t[a] = t[b] PROVE a = b
      BY DEF Distinct
    <2>1. i + a = i + b
      BY <1>2 DEF Distinct
    <2> QED
      BY <1>1, <2>1
  <1> QED
    BY <1>1, <1>4, <1>5 DEF t, k

LEMMA EnterMarks == IInv /\ MInv /\ Good(annotations) /\ Enter => MInv'
  <1> SUFFICES ASSUME IInv, MInv, Good(annotations), Enter PROVE MInv'
    OBVIOUS
  <1> DEFINE i == Top.i + 1
             ids == SubSeq(Top.ids, Top.i + 1, Len(Top.ids))
             c == Current
             f == Call(c, ids)
             around == AroundOf(calls, Len(calls))
             pos == Pos(Top)
             x == Edge(Top)
             R == Rest(Top.ids, Top.i)
             Q == Rest(Top.ids, i)
  <1>1. /\ calls' = Append(calls, f) /\ UNCHANGED <<annotations, heap, parsed, html>>
        /\ Walking /\ ~AtEnd /\ WithinSpan /\ ~Behind
    BY DEF Enter
  <1>2. /\ calls # <<>> /\ heap \in Seq(Span) /\ HeapGood(heap)
        /\ Top \in Frame(annotations, Len(heap)) /\ SliceOK(heap, Top)
        /\ WalkOK(annotations, heap, Top, around) /\ ~Top.splitting
        /\ Top.ids \in Seq(1..Len(heap)) /\ Top.i \in Nat \ {0}
        /\ Numbered(heap, Top.ids) /\ AllPlaced(heap, Top.ids)
        /\ Top.span.start \in Int /\ x \in Int /\ pos \in Int
        /\ Top.i \in 1..Len(Top.ids) /\ c = heap[Top.ids[Top.i]]
        /\ StartAt(heap, Top.ids, Top.i) < x
    BY <1>1, WalkMarks
  <1>3. /\ c \in Span /\ c.length >= 0 /\ c.start \in Int /\ EndOf(c) \in Int
        /\ c.start + 0 = c.start /\ c.start <= EndOf(c)
        /\ c.start = StartAt(heap, Top.ids, Top.i) /\ EndOf(c) = TillAt(heap, Top.ids, Top.i)
        /\ pos <= c.start /\ c.start < x /\ EndOf(c) <= x
    <2>1. c \in Span /\ Top.span \in Span /\ Top.last \in Nat
      BY <1>1, CurrentFacts
    <2>2. /\ c.start \in Int /\ c.length \in Int /\ EndOf(c) = c.start + c.length
          /\ Top.span.length \in Int /\ x = Top.span.start + Top.span.length
          /\ pos = Top.span.start + Top.last /\ Top.last \in Int
      BY <2>1 DEF Span, EndOf, Edge, Pos
    <2>3. /\ c.length >= 0 /\ EndOf(c) <= Top.span.start + Top.span.length
          /\ ~(c.start - Top.span.start < Top.last)
      BY <1>1 DEF WithinSpan, SpanWithinParent, Behind
    <2>4. c.start = StartAt(heap, Top.ids, Top.i) /\ EndOf(c) = TillAt(heap, Top.ids, Top.i)
      BY <1>2 DEF StartAt, TillAt, Start, Till
    <2>5. Top.span.start \in Int /\ StartAt(heap, Top.ids, Top.i) < x
      BY <1>2
    <2> HIDE DEF c, pos, x
    <2>6. pos <= c.start /\ EndOf(c) <= x
      BY <2>2, <2>3, <2>5
    <2>7. EndOf(c) \in Int /\ c.start + 0 = c.start /\ c.start <= EndOf(c)
      BY <2>2, <2>3
    <2> QED
      BY <2>1, <2>2, <2>3, <2>4, <2>5, <2>6, <2>7
  <1>4. /\ OrderOK(heap, Top.ids, Top.i, pos) /\ Clean(heap, From(heap, R, pos))
        /\ \A u \in Int : pos <= u /\ u < x => Marked(annotations, heap, R, u, around)
    BY <1>2 DEF WalkOK
  <1>5. c.id = heap[Top.ids[Top.i]].id
    BY <1>2
  <1> HIDE DEF c, around, pos, x
  <1>6. /\ \A p \in Q : /\ c.start <= Start(heap, p)
                        /\ Start(heap, p) < EndOf(c) => Till(heap, p) <= EndOf(c)
        /\ Clean(heap, From(heap, Q, EndOf(c)))
        /\ \A u : u \in Int /\ c.start <= u /\ Marked(annotations, heap, R, u, around) =>
             Marked(annotations, heap, Q, u, around \cup {c.id})
        /\ \A u : u \in Int /\ u < c.start /\ Marked(annotations, heap, R, u, around) =>
             Covering(annotations, u, Markup) \subseteq around
        /\ \A u : u \in Int /\ EndOf(c) <= u /\ Marked(annotations, heap, R, u, around) =>
             Marked(annotations, heap, Q, u, around)
    <2>1. pos <= StartAt(heap, Top.ids, Top.i)
      BY <1>3
    <2> DEFINE s == Top.ids
               k == Top.i
    <2>2. /\ Numbered(heap, s) /\ AllPlaced(heap, s) /\ k \in 1..Len(s) /\ pos \in Int
          /\ pos <= StartAt(heap, s, k) /\ OrderOK(heap, s, k, pos)
          /\ Clean(heap, From(heap, Rest(s, k), pos))
      BY <1>2, <1>4, <2>1
    <2> HIDE DEF s, k
    <2>3. /\ \A p \in Rest(s, k + 1) :
               /\ StartAt(heap, s, k) <= Start(heap, p)
               /\ Start(heap, p) < TillAt(heap, s, k) => Till(heap, p) <= TillAt(heap, s, k)
          /\ Clean(heap, From(heap, Rest(s, k + 1), TillAt(heap, s, k)))
          /\ \A u : u \in Int /\ StartAt(heap, s, k) <= u
                      /\ Marked(annotations, heap, Rest(s, k), u, around) =>
               Marked(annotations, heap, Rest(s, k + 1), u, around \cup {heap[s[k]].id})
          /\ \A u : u \in Int /\ u < StartAt(heap, s, k)
                      /\ Marked(annotations, heap, Rest(s, k), u, around) =>
               Covering(annotations, u, Markup) \subseteq around
          /\ \A u : u \in Int /\ TillAt(heap, s, k) <= u
                      /\ Marked(annotations, heap, Rest(s, k), u, around) =>
               Marked(annotations, heap, Rest(s, k + 1), u, around)
      BY <2>2, EnterWalk
    <2>4. c.start = StartAt(heap, s, k) /\ EndOf(c) = TillAt(heap, s, k) /\ c.id = heap[s[k]].id
          /\ R = Rest(s, k) /\ Q = Rest(s, k + 1)
      BY <1>3, <1>5 DEF s, k
    <2> HIDE DEF R, Q
    <2> QED
      BY <2>3, <2>4
  <1>7. ids \in Seq(1..Len(heap)) /\ Distinct(ids) /\ PlacesIn(ids) = Q
    <2>1. Distinct(Top.ids)
      BY <1>2 DEF SliceOK
    <2> QED
      BY <1>2, <2>1, TailSlice
  <1> HIDE DEF ids
  <1>8. /\ f.span = c /\ f.out = <<>> /\ PlacesIn(f.given) = Q /\ SliceOK(heap, f)
        /\ IF f.splitting THEN SplitOK(annotations, heap, f, around \cup {c.id})
           ELSE WalkOK(annotations, heap, f, around \cup {c.id})
    <2>1. Within(heap, ids, c.start, EndOf(c))
      <3>1. \A p \in 1..Len(ids) : ids[p] \in Q
        BY <1>7 DEF PlacesIn
      <3> QED
        BY <1>6, <3>1 DEF Within, StartAt, TillAt
    <2>2. \A u \in Int : c.start <= u /\ u < EndOf(c) =>
            Marked(annotations, heap, PlacesIn(ids), u, around \cup {c.id})
      <3>1. \A u \in Int : c.start <= u /\ u < EndOf(c) => pos <= u /\ u < x
        BY <1>2, <1>3
      <3> QED
        BY <1>4, <1>6, <1>7, <3>1
    <2>3. Clean(heap, From(heap, PlacesIn(ids), EndOf(c)))
      BY <1>6, <1>7
    <2>4. PlacesIn(f.given) = PlacesIn(ids) /\ f.span = c /\ f.out = <<>> /\ SliceOK(heap, f)
          /\ IF f.splitting THEN SplitOK(annotations, heap, f, around \cup {c.id})
             ELSE WalkOK(annotations, heap, f, around \cup {c.id})
      BY <1>2, <1>3, <1>7, <2>1, <2>2, <2>3, FreshCall
    <2> QED
      BY <1>7, <2>4
  <1>9. f \in Frame(annotations, Len(heap))
    BY <1>3, <1>7, NewCall DEF FrameOK
  <1> HIDE DEF f
  <1>10. WaitOK(annotations, heap, Top, c, around)
    <2>1. \A u \in Int : pos <= u /\ u < c.start => Covering(annotations, u, Markup) \subseteq around
      <3>1. \A u \in Int : pos <= u /\ u < c.start => u < x
        BY <1>2, <1>3
      <3> QED
        BY <1>4, <1>6, <3>1
    <2>2. \A u \in Int : EndOf(c) <= u /\ u < x => Marked(annotations, heap, Q, u, around)
      <3>1. \A u \in Int : EndOf(c) <= u /\ u < x => pos <= u
        BY <1>2, <1>3
      <3> QED
        BY <1>4, <1>6, <3>1
    <2>3. Top.i <= Len(Top.ids)
      BY <1>2
    <2> QED
      BY <1>2, <1>3, <1>6, <2>1, <2>2, <2>3 DEF WaitOK, pos, x
  <1>11. CallsOK(annotations, heap, Append(calls, f))
    <2>1. calls \in Seq(Frame(annotations, Len(heap))) /\ Top = calls[Len(calls)]
          /\ CallsOK(annotations, heap, calls)
      BY <1>2, TopMarks
    <2>2. Edge(f) <= Edge(calls[Len(calls)])
      BY <1>3, <1>8, <2>1 DEF Edge, x
    <2>3. /\ WaitOK(annotations, heap, calls[Len(calls)], f.span, AroundOf(calls, Len(calls)))
          /\ PlacesIn(f.given) = Rest(calls[Len(calls)].ids, calls[Len(calls)].i + 1)
          /\ IF f.splitting THEN SplitOK(annotations, heap, f, AroundOf(calls, Len(calls)) \cup {f.span.id})
             ELSE WalkOK(annotations, heap, f, AroundOf(calls, Len(calls)) \cup {f.span.id})
      BY <1>8, <1>10, <2>1 DEF around
    <2> QED
      BY <1>2, <1>8, <1>9, <2>1, <2>2, <2>3, TopPushed
  <1>12. calls' # <<>>
    <2>1. calls \in Seq(Frame(annotations, Len(heap)))
      BY <1>2, TopMarks
    <2> QED
      BY <1>1, <1>9, <2>1, AppendProperties
  <1> QED
    BY <1>1, <1>2, <1>11, <1>12 DEF MInv

(* A call returns, and its caller goes on with what that has sorted.       *)
Returned(h, ids, s, i, e, x, new) ==
  /\ Distinct(new) /\ PlacesIn(new) = PlacesIn(ids) /\ Rest(new, i + 1) = Rest(ids, i + 1)
  /\ OrderOK(h, new, i + 1, e)
  /\ Arrayed(h, ids, x) => Arrayed(h, new, x)

LEMMA ReturnedOrder ==
  ASSUME NEW h \in Seq(Span), HeapGood(h), NEW ids \in Seq(1..Len(h)),
         NEW s \in Seq(1..Len(h)), NEW i \in 1..Len(ids),
         Distinct(ids), Distinct(s), PlacesIn(s) = Rest(ids, i + 1),
         NEW e \in Int, Arrayed(h, s, e), NEW x \in Int, e <= x,
         NEW new, new = SubSeq(ids, 1, i) \o s
  PROVE  Returned(h, ids, s, i, e, x, new)
  <1>1. /\ new \in Seq(1..Len(h)) /\ Distinct(new)
        /\ PlacesIn(new) = PlacesIn(ids) /\ Rest(new, i + 1) = Rest(ids, i + 1)
        /\ \A p \in 1..Len(new) : p > i =>
             \E b \in 1..Len(s) : p = i + b /\ SameAt(h, new, p, s, b)
        /\ \A p \in 1..Len(new) : p <= i => p \in 1..Len(ids) /\ SameAt(h, new, p, ids, p)
        /\ \A p \in 1..Len(new) : p > i =>
             \E q \in 1..Len(ids) : q > i /\ SameAt(h, new, p, ids, q)
    BY ReturnedSlice
  <1>2. Numbered(h, new) /\ Numbered(h, s) /\ Numbered(h, ids)
    BY <1>1, Numbers
  <1>3. i \in Int /\ Len(new) \in Nat /\ Len(s) \in Nat
    BY <1>2 DEF Numbered
  <1>4. ASSUME NEW p \in 1..Len(new), NEW q \in 1..Len(new), i < p, p < q
        PROVE  /\ StartAt(h, new, p) <= StartAt(h, new, q)
               /\ StartAt(h, new, p) >= e => Front(h, new, p, new, q)
    <2>1. q > i /\ p > i
      BY <1>3, <1>4
    <2>2. PICK b \in 1..Len(s) : p = i + b /\ SameAt(h, new, p, s, b)
      BY <1>1, <2>1
    <2>3. PICK c \in 1..Len(s) : q = i + c /\ SameAt(h, new, q, s, c)
      BY <1>1, <2>1
    <2>4. b < c
      BY <1>3, <1>4, <2>2, <2>3
    <2>5. StartAt(h, s, b) <= StartAt(h, s, c) /\ (StartAt(h, s, b) >= e => Front(h, s, b, s, c))
      BY <2>4 DEF Arrayed
    <2> QED
      BY <2>2, <2>3, <2>5 DEF SameAt, Front
  <1>5. OrderOK(h, new, i + 1, e)
    <2>1. \A p \in 1..Len(new) : i + 1 <= p => i < p
      BY <1>3
    <2> QED
      BY <1>4, <2>1 DEF OrderOK
  <1>6. ASSUME Arrayed(h, ids, x), NEW p \in 1..Len(new), NEW q \in 1..Len(new), p < q
        PROVE  /\ StartAt(h, new, p) <= StartAt(h, new, q)
               /\ StartAt(h, new, p) >= x => Front(h, new, p, new, q)
    <2>1. CASE p > i
      <3>1. /\ StartAt(h, new, p) <= StartAt(h, new, q)
            /\ StartAt(h, new, p) >= e => Front(h, new, p, new, q)
        BY <1>3, <1>4, <1>6, <2>1
      <3>2. StartAt(h, new, p) >= x => StartAt(h, new, p) >= e
        BY <1>2 DEF Numbered
      <3> QED
        BY <3>1, <3>2
    <2>2. CASE p <= i
      <3>1. p \in 1..Len(ids) /\ SameAt(h, new, p, ids, p)
        BY <1>1, <2>2
      <3>2. \E m \in 1..Len(ids) : p < m /\ SameAt(h, new, q, ids, m)
        <4>1. CASE q <= i
          BY <1>1, <1>6, <4>1
        <4>2. CASE q > i
          <5>1. PICK m \in 1..Len(ids) : m > i /\ SameAt(h, new, q, ids, m)
            BY <1>1, <4>2
          <5>2. p < m
            BY <1>3, <2>2, <5>1
          <5> QED
            BY <5>1, <5>2
        <4> QED
          BY <1>3, <4>1, <4>2
      <3>3. PICK m \in 1..Len(ids) : p < m /\ SameAt(h, new, q, ids, m)
        BY <3>2
      <3>4. StartAt(h, ids, p) <= StartAt(h, ids, m)
            /\ (StartAt(h, ids, p) >= x => Front(h, ids, p, ids, m))
        BY <1>6, <3>1, <3>3 DEF Arrayed
      <3> QED
        BY <3>1, <3>3, <3>4 DEF SameAt, Front
    <2> QED
      BY <1>3, <2>1, <2>2
  <1>7. Arrayed(h, ids, x) => Arrayed(h, new, x)
    BY <1>6 DEF Arrayed
  <1> QED
    BY <1>1, <1>5, <1>7 DEF Returned

(* What a call and its caller are like when the call returns. *)
LEMMA ReturnFacts ==
  ASSUME IInv, MInv, Good(annotations), Walking, AtEnd, Len(calls) > 1
  PROVE  LET m == Len(calls) - 1
             caller == calls[m]
             around == AroundOf(calls, m)
         IN  /\ m \in 1..Len(calls) /\ m < Len(calls) /\ m \in Nat
             /\ caller \in Frame(annotations, Len(heap)) /\ FrameOK(annotations, Len(heap), caller)
             /\ NestOK(annotations, caller, Top)
             /\ SliceOK(heap, caller) /\ Exactly(annotations, caller.out, around)
             /\ WaitOK(annotations, heap, caller, Top.span, around)
             /\ PlacesIn(Top.given) = Rest(caller.ids, caller.i + 1)
             /\ Exactly(annotations, Rendering(Top), around \cup {Top.span.id})
  <1> DEFINE m == Len(calls) - 1
             caller == calls[m]
             around == AroundOf(calls, m)
             inside == AroundOf(calls, Len(calls))
  <1>1. /\ calls # <<>> /\ heap \in Seq(Span) /\ HeapGood(heap)
        /\ Top \in Frame(annotations, Len(heap)) /\ FrameOK(annotations, Len(heap), Top)
        /\ SliceOK(heap, Top) /\ Exactly(annotations, Top.out, inside)
        /\ WalkOK(annotations, heap, Top, inside)
        /\ Top.ids \in Seq(1..Len(heap)) /\ Top.i \in Nat \ {0}
        /\ Numbered(heap, Top.ids) /\ Edge(Top) \in Int /\ Pos(Top) \in Int
    BY WalkMarks
  <1>2. /\ Len(calls) \in Nat /\ Len(heap) \in Nat /\ StackOK(annotations, Len(heap), calls)
        /\ CallsOK(annotations, heap, calls) /\ Top = calls[Len(calls)]
        /\ Len(calls) \in 1..Len(calls)
    BY <1>1, TopMarks, TopFacts
  <1>3. m \in 1..Len(calls) /\ m < Len(calls) /\ m \in Nat /\ m + 1 = Len(calls)
    BY <1>2
  <1>4. FrameOK(annotations, Len(heap), caller) /\ caller \in Frame(annotations, Len(heap))
        /\ NestOK(annotations, caller, Top)
    BY <1>2, <1>3 DEF StackOK, FrameOK
  <1> HIDE DEF m
  <1>5. CallOK(annotations, heap, calls, m) /\ calls[m + 1] = Top
    BY <1>2, <1>3 DEF CallsOK
  <1>6. inside = around \cup {Top.span.id}
    <2>1. AroundOf(calls, m + 1) = AroundOf(calls, m) \cup {calls[m + 1].span.id}
      BY <1>3, AroundMore
    <2> QED
      BY <1>3, <1>5, <2>1
  <1>7. /\ SliceOK(heap, caller) /\ Exactly(annotations, caller.out, around)
        /\ WaitOK(annotations, heap, caller, Top.span, around)
        /\ PlacesIn(Top.given) = Rest(caller.ids, caller.i + 1)
    BY <1>3, <1>5 DEF CallOK
  <1> HIDE DEF around, inside, caller
  <1>8. Top.i <= Len(Top.ids) => StartAt(heap, Top.ids, Top.i) >= Edge(Top)
    BY DEF AtEnd, Current, StartAt, Start, Edge
  <1>9. \A u \in Int : Pos(Top) <= u /\ u < Edge(Top) =>
          Covering(annotations, u, Markup) \subseteq inside
    <2> SUFFICES ASSUME NEW u \in Int, Pos(Top) <= u, u < Edge(Top)
                 PROVE  Covering(annotations, u, Markup) \subseteq inside
      OBVIOUS
    <2>1. Marked(annotations, heap, Rest(Top.ids, Top.i), u, inside)
          /\ OrderOK(heap, Top.ids, Top.i, Pos(Top))
      BY <1>1 DEF WalkOK
    <2> QED
      BY <1>1, <1>8, <2>1, NothingLeft
  <1>10. Exactly(annotations, Rendering(Top), inside)
    BY <1>1, <1>2, <1>9, ExactlyRendering
  <1> QED
    BY <1>3, <1>4, <1>6, <1>7, <1>10 DEF m, around, caller

LEMMA ReturnMarks == IInv /\ MInv /\ Good(annotations) /\ Return => MInv'
  <1> SUFFICES ASSUME IInv, MInv, Good(annotations), Return PROVE MInv'
    OBVIOUS
  <1> DEFINE A == annotations
             n == Len(heap)
             m == Len(calls) - 1
             caller == calls[m]
             a == Top.span
             e == EndOf(a)
             x == Edge(caller)
             rest == SubSeq(calls, 1, Len(calls) - 1)
             s == IF Top.copied THEN Top.given ELSE Top.ids
             ids == SliceAfter(caller, Top)
             i == caller.i + 1
             before == Units(caller.span.start + caller.last, a.start)
             entity == Entity(a, Rendering(Top))
             out == caller.out \o before \o entity
             last == LastOffset(a, a.start - caller.span.start)
             g == [caller EXCEPT !.ids = ids, !.i = i, !.out = out, !.last = last]
             around == AroundOf(calls, m)
  <1>1. /\ calls # <<>> /\ Len(calls) > 1 /\ calls' = [rest EXCEPT ![m] = g]
        /\ UNCHANGED <<annotations, heap, parsed, html>> /\ Walking /\ AtEnd
    <2>1. caller.out \o before \o Entity(a, Rendering(Top)) = out
      OBVIOUS
    <2> QED
      BY DEF Return, Walking
  <1>2. /\ n \in Nat /\ StackOK(A, n, calls) /\ Len(calls) \in Nat
        /\ FrameOK(A, n, Top) /\ Top \in Frame(A, n)
        /\ heap \in Seq(Span) /\ HeapGood(heap) /\ SliceOK(heap, Top)
        /\ CallsOK(A, heap, calls) /\ Top = calls[Len(calls)]
    BY <1>1, TopFacts, TopMarks
  <1>3. /\ StackOK(A, n, rest) /\ Len(rest) = m /\ rest # <<>> /\ m \in 1..Len(rest)
        /\ rest[m] = caller /\ m + 1 = Len(calls)
        /\ \A k \in 1..m : rest[k] = calls[k]
    <2>1. m \in 1..m /\ m + 1 = Len(calls)
      BY <1>1, <1>2
    <2> QED
      BY <1>1, <1>2, <2>1, CallLeft
  <1>4. /\ m \in 1..Len(calls) /\ m < Len(calls) /\ m \in Nat
        /\ caller \in Frame(A, n) /\ FrameOK(A, n, caller) /\ NestOK(A, caller, Top)
        /\ SliceOK(heap, caller) /\ Exactly(A, caller.out, around)
        /\ WaitOK(A, heap, caller, a, around)
        /\ PlacesIn(Top.given) = Rest(caller.ids, caller.i + 1)
        /\ Exactly(A, Rendering(Top), around \cup {a.id})
    BY <1>1, ReturnFacts
  <1>5. g \in Frame(A, n)
    <2>1. IInv'
      BY <1>1, ReturnStep
    <2>2. calls' \in Seq(Frame(A, n))
      BY <1>1, <2>1 DEF IInv, StackOK
    <2>3. DOMAIN rest = 1..Len(rest)
      BY <1>3 DEF StackOK
    <2> HIDE DEF g, rest, m
    <2>4. m \in DOMAIN calls' /\ calls'[m] = g
      BY <1>1, <1>3, <2>3
    <2> QED
      BY <2>2, <2>4, ElementOfSeq
  <1>6. /\ g.span = caller.span /\ g.given = caller.given /\ g.ids = ids /\ g.i = i
        /\ g.out = out /\ g.last = last /\ g.copied = caller.copied
        /\ g.splitting = caller.splitting
    <2> HIDE DEF ids, i, out, last
    <2> QED
      BY <1>4 DEF Frame
  <1> HIDE DEF g, caller, m, rest
  <1>7. /\ caller.ids \in Seq(1..n) /\ caller.i \in 1..Len(caller.ids)
        /\ Top.ids \in Seq(1..n) /\ Top.given \in Seq(1..n)
        /\ caller.span.start \in Int /\ x \in Int /\ Pos(caller) \in Int /\ caller.last \in Nat
    <2>1. caller.i \in Nat \ {0} /\ caller.i <= Len(caller.ids) /\ caller.ids \in Seq(1..n)
      BY <1>4, FrameNumbers DEF WaitOK
    <2>2. caller.i \in 1..Len(caller.ids)
      BY <2>1
    <2> QED
      BY <1>2, <1>4, <2>1, <2>2, FrameNumbers
  <1>8. /\ PartOf(A, a) /\ a.kind # "chip" /\ a.kind # "plain" /\ a.start \in Int
        /\ a.length \in Int /\ e \in Int /\ e = a.start + a.length
        /\ Pos(caller) <= a.start /\ e <= x
    <2>1. PartOf(A, a) /\ a.kind # "chip" /\ Pos(caller) <= a.start /\ e <= x
      BY <1>4 DEF NestOK, Pos, Edge
    <2>2. a \in Span /\ a.kind = A[a.id].kind /\ a.id \in 1..Len(A)
      BY <2>1 DEF PartOf
    <2>3. a.kind # "plain"
      <3>1. DOMAIN A = 1..Len(A)
        BY DEF IInv, Message
      <3> QED
        BY <2>2, <3>1 DEF Good
    <2>4. a.start \in Int /\ a.length \in Int /\ e = a.start + a.length
      BY <2>2 DEF Span, EndOf
    <2> QED
      BY <2>1, <2>3, <2>4
  <1>9. /\ s \in Seq(1..n) /\ Distinct(s) /\ PlacesIn(s) = Rest(caller.ids, caller.i + 1)
        /\ Arrayed(heap, s, e) /\ ids = SubSeq(caller.ids, 1, caller.i) \o s
    <2>1. /\ Distinct(Top.ids) /\ Distinct(Top.given) /\ Arrayed(heap, Top.given, e)
          /\ ~Top.copied => Arrayed(heap, Top.ids, e) /\ PlacesIn(Top.ids) = PlacesIn(Top.given)
      BY <1>2 DEF SliceOK, Edge
    <2>2. ids = SubSeq(caller.ids, 1, caller.i) \o s
      BY DEF SliceAfter
    <2> QED
      BY <1>4, <1>7, <2>1, <2>2
  <1> HIDE DEF s, ids, e, x, n, a
  <1>10. /\ Distinct(ids) /\ PlacesIn(ids) = PlacesIn(caller.ids)
         /\ Rest(ids, i) = Rest(caller.ids, i) /\ OrderOK(heap, ids, i, e)
         /\ Arrayed(heap, caller.ids, x) => Arrayed(heap, ids, x)
    <2>1. Distinct(caller.ids)
      BY <1>4 DEF SliceOK
    <2> DEFINE t == caller.ids
               k == caller.i
    <2>2. /\ heap \in Seq(Span) /\ HeapGood(heap) /\ t \in Seq(1..Len(heap)) /\ s \in Seq(1..Len(heap))
          /\ k \in 1..Len(t) /\ Distinct(t) /\ Distinct(s) /\ PlacesIn(s) = Rest(t, k + 1)
          /\ e \in Int /\ Arrayed(heap, s, e) /\ x \in Int /\ e <= x
          /\ ids = SubSeq(t, 1, k) \o s
      BY <1>2, <1>7, <1>8, <1>9, <2>1 DEF n
    <2> HIDE DEF t, k
    <2>3. Returned(heap, t, s, k, e, x, ids)
      BY <2>2, ReturnedOrder
    <2> QED
      BY <2>3 DEF Returned, t, k
  <1>11. Edge(g) = x /\ Pos(g) = e
    <2>1. last = a.start - caller.span.start + a.length
      BY <1>8 DEF LastOffset
    <2>2. caller.span.start + last = e
      BY <1>7, <1>8, <2>1
    <2> QED
      BY <1>6, <2>2 DEF Edge, Pos, x
  <1>12. SliceOK(heap, g)
    <2>1. Within(heap, ids, caller.span.start, x)
      <3>1. Within(heap, caller.ids, caller.span.start, x)
        BY <1>4 DEF SliceOK, x
      <3> QED
        BY <1>10, <3>1, WithinPlaces
    <2>2. ~caller.copied => Arrayed(heap, ids, x) /\ PlacesIn(ids) = PlacesIn(caller.given)
      BY <1>4, <1>10 DEF SliceOK, x
    <2>3. Distinct(caller.given) /\ Arrayed(heap, caller.given, x)
      BY <1>4 DEF SliceOK, x
    <2> QED
      BY <1>6, <1>10, <1>11, <2>1, <2>2, <2>3 DEF SliceOK
  <1>13. WalkOK(A, heap, g, around)
    <2>1. /\ \A p \in Rest(ids, i) : Start(heap, p) < e => Till(heap, p) <= e
          /\ Clean(heap, From(heap, Rest(ids, i), e))
          /\ \A u \in Int : e <= u /\ u < x => Marked(A, heap, Rest(ids, i), u, around)
      BY <1>4, <1>10 DEF WaitOK, e, x, a
    <2> QED
      BY <1>6, <1>10, <1>11, <2>1 DEF WalkOK
  <1>14. Exactly(A, out, around)
    <2>1. caller.out \in Seq(Piece(A)) /\ Rendering(Top) \in Seq(Piece(A))
      <3>1. Rendered(A, Rendering(Top), Top.span.start, EndOf(Top.span))
        BY <1>2, PiecesRendered DEF n
      <3> QED
        BY <1>4, <3>1 DEF Rendered, FrameOK
    <2>2. Exactly(A, entity, around)
      BY <1>4, <1>8, <2>1, ExactlyEntity DEF a
    <2>3. before \in Seq(Piece(A)) /\ Exactly(A, before, around)
      <3>1. before = Units(Pos(caller), a.start)
        BY DEF Pos
      <3>2. \A u \in Int : Pos(caller) <= u /\ u < a.start => Covering(A, u, Markup) \subseteq around
        BY <1>4 DEF WaitOK, a
      <3>3. Rendered(A, Units(Pos(caller), a.start), Pos(caller), a.start)
        BY <1>7, <1>8, RenderedUnits
      <3>4. Exactly(A, Units(Pos(caller), a.start), around)
        BY <1>7, <1>8, <3>2, ExactlyUnits
      <3> QED
        BY <3>1, <3>3, <3>4 DEF Rendered
    <2>4. entity \in Seq(Piece(A))
      <3>1. Rendered(A, Rendering(Top), Top.span.start, EndOf(Top.span))
        BY <1>2, PiecesRendered DEF n
      <3>2. a.length >= 0
        <4>1. Top.last \in Nat /\ Top.last <= a.length
          BY <1>2 DEF FrameOK, Frame, a
        <4> QED
          BY <1>8, <4>1
      <3>3. Rendered(A, entity, a.start, Reached(a))
        BY <1>8, <3>1, <3>2, RenderedEntity DEF IInv, a
      <3> QED
        BY <3>3 DEF Rendered
    <2> HIDE DEF before, entity
    <2>5. caller.out \o before \in Seq(Piece(A)) /\ Exactly(A, caller.out \o before, around)
      BY <1>4, <2>1, <2>3, ExactlyConcat
    <2>6. Exactly(A, (caller.out \o before) \o entity, around)
      BY <2>2, <2>4, <2>5, ExactlyConcat
    <2> QED
      BY <2>6
  <1> HIDE DEF out, last, ids, i, around
  <1>15. CallsOK(A, heap, [rest EXCEPT ![m] = g])
    <2>1. rest \in Seq(Frame(A, n)) /\ Len(rest) \in Nat
      BY <1>3 DEF StackOK
    <2>2. \A k \in 1..m : k <= m /\ k \in 1..Len(calls)
      BY <1>4
    <2>3. \A k, l \in 1..Len(rest) : k <= l => Edge(rest[l]) <= Edge(rest[k])
      BY <1>2, <1>3, <2>2 DEF CallsOK
    <2>4. AroundOf(rest, m) = around
      <3>1. \A k \in 1..m : rest[k].span = calls[k].span
        BY <1>3
      <3> QED
        BY <1>4, <3>1, AroundSame DEF around
    <2>5. ASSUME NEW k \in 1..Len(rest), k < Len(rest)
          PROVE  CallOK(A, heap, rest, k)
      <3>1. /\ k \in Nat \ {0} /\ k < Len(calls) /\ k \in 1..Len(calls) /\ k + 1 \in 1..m
            /\ \A l \in 1..k : l \in 1..m
        BY <1>3, <1>4, <2>5
      <3>2. CallOK(A, heap, calls, k)
        BY <1>2, <3>1 DEF CallsOK
      <3>3. \A l \in 1..k : rest[l] = calls[l]
        BY <1>3, <3>1
      <3>4. rest[k + 1] = calls[k + 1]
        BY <1>3, <3>1
      <3> QED
        BY <1>2, <2>1, <2>5, <3>1, <3>2, <3>3, <3>4, CallSame
    <2>6. g.span = rest[m].span /\ g.given = rest[m].given
      BY <1>3, <1>6
    <2>7. ~g.splitting /\ Exactly(A, g.out, around)
      BY <1>4, <1>6, <1>14 DEF WaitOK
    <2>8. IF g.splitting THEN SplitOK(A, heap, g, AroundOf(rest, Len(rest)))
          ELSE WalkOK(A, heap, g, AroundOf(rest, Len(rest)))
      BY <1>3, <1>13, <2>4, <2>7
    <2>9. Exactly(A, g.out, AroundOf(rest, Len(rest)))
      BY <1>3, <2>4, <2>7
    <2> QED
      BY <1>3, <1>5, <1>12, <2>1, <2>3, <2>5, <2>6, <2>8, <2>9, TopReplaced
  <1>16. calls' # <<>>
    <2>1. Len(calls') = Len(rest) /\ Len(rest) # 0
      <3>1. rest \in Seq(Frame(A, n))
        BY <1>3 DEF StackOK
      <3>2. Len([rest EXCEPT ![m] = g]) = Len(rest)
        BY <1>3, <1>5, <3>1, ExceptSeq
      <3> QED
        BY <1>1, <1>3, <3>1, <3>2
    <2> QED
      BY <2>1
  <1> QED
    BY <1>1, <1>2, <1>15, <1>16 DEF MInv

(* No call, nothing to keep. *)
LEMMA NoCalls == \A A, h : CallsOK(A, h, <<>>)
  BY DEF CallsOK

LEMMA FinishMarks == IInv /\ MInv /\ Good(annotations) /\ Finish => MInv'
  <1> SUFFICES ASSUME IInv, MInv, Good(annotations), Finish PROVE MInv'
    OBVIOUS
  <1> DEFINE around == AroundOf(calls, Len(calls))
  <1>1. /\ Walking /\ AtEnd /\ Len(calls) = 1 /\ html' = Rendering(Top)
        /\ parsed' \in {"ok", "empty"} /\ calls' = <<>> /\ UNCHANGED <<annotations, heap>>
    BY DEF Finish
  <1>2. /\ calls # <<>> /\ heap \in Seq(Span) /\ HeapGood(heap)
        /\ FrameOK(annotations, Len(heap), Top)
        /\ Exactly(annotations, Top.out, around) /\ WalkOK(annotations, heap, Top, around)
        /\ Top.ids \in Seq(1..Len(heap)) /\ Top.i \in Nat \ {0}
        /\ Numbered(heap, Top.ids) /\ Edge(Top) \in Int /\ Pos(Top) \in Int
    BY <1>1, WalkMarks
  <1>3. Len(heap) \in Nat /\ StackOK(annotations, Len(heap), calls)
    BY <1>2, TopFacts
  <1>4. around = {0}
    <2>1. calls[1].span = WholeText /\ AroundOf(calls, 1) = {calls[1].span.id}
      <3>1. AroundOf(calls, 1) = {calls[k].span.id : k \in 1..1}
        BY DEF AroundOf
      <3>2. 1..1 = {1}
        OBVIOUS
      <3> QED
        BY <1>2, <1>3, <3>1, <3>2 DEF StackOK
    <2> QED
      BY <1>1, <2>1 DEF WholeText
  <1> HIDE DEF around
  <1>5. Top.i <= Len(Top.ids) => StartAt(heap, Top.ids, Top.i) >= Edge(Top)
    BY <1>1 DEF AtEnd, Current, StartAt, Start, Edge
  <1>6. ASSUME NEW u \in Int, Pos(Top) <= u, u < Edge(Top)
        PROVE  Covering(annotations, u, Markup) \subseteq around
    <2>1. Marked(annotations, heap, Rest(Top.ids, Top.i), u, around)
          /\ OrderOK(heap, Top.ids, Top.i, Pos(Top))
      BY <1>2, <1>6 DEF WalkOK
    <2> QED
      BY <1>2, <1>5, <1>6, <2>1, NothingLeft
  <1>7. Exactly(annotations, Rendering(Top), {0})
    BY <1>2, <1>3, <1>4, <1>6, ExactlyRendering
  <1> QED
    BY <1>1, <1>2, <1>7, NoCalls DEF MInv

(* The whole text and all the clones. *)
LEMMA ParseMarks == IInv /\ MInv /\ Good(annotations) /\ Parse => MInv'
  <1> SUFFICES ASSUME IInv, MInv, Good(annotations), Parse PROVE MInv'
    OBVIOUS
  <1> DEFINE A == annotations
             ids == [i \in DOMAIN annotations |-> i]
             f == Call(WholeText, ids)
             x == EndOf(WholeText)
  <1>1. /\ heap # <<>> /\ calls = <<>> /\ parsed = "no" /\ calls' = <<f>>
        /\ UNCHANGED <<annotations, heap, parsed, html>>
    BY DEF Parse
  <1>2. /\ heap \in Seq(Span) /\ HeapGood(heap) /\ Cloned(A, heap) /\ A \in Seq(Received)
        /\ Len(A) \in Nat /\ DOMAIN A = 1..Len(A) /\ Len(heap) = Len(A)
    BY <1>1 DEF MInv, IInv, HeapOK, Message, Cloned
  <1>3. /\ WholeText.start = 0 /\ x = TextLength /\ WholeText.id = 0 /\ TextLength \in Nat
        /\ WholeText \in Span /\ WholeText.length >= 0
    BY AnnotationsAssumption DEF WholeText, EndOf, Span, EveryKind
  <1>4. /\ ids \in Seq(1..Len(heap)) /\ Len(ids) = Len(A) /\ \A p \in 1..Len(A) : ids[p] = p
    <2>1. ids \in [1..Len(A) -> 1..Len(heap)]
      BY <1>2
    <2> QED
      BY <1>2, <2>1
  <1> HIDE DEF ids, x
  <1>5. Distinct(ids) /\ PlacesIn(ids) = 1..Len(A)
    BY <1>4 DEF Distinct, PlacesIn
  <1>6. \A p \in 1..Len(A) :
          /\ Start(heap, p) = A[p].start /\ Till(heap, p) = EndOf(A[p]) /\ heap[p].id = p
          /\ Start(heap, p) \in Int /\ Till(heap, p) \in Int
          /\ 0 <= Start(heap, p) /\ Till(heap, p) <= x
    <2> TAKE p \in 1..Len(A)
    <2>1. /\ heap[p].id = p /\ heap[p].start = A[p].start /\ heap[p].length = A[p].length
      BY <1>2 DEF Cloned, Start
    <2>2. A[p].start >= 0 /\ EndOf(A[p]) <= 0 + TextLength
      BY <1>2 DEF Good, SpanWithinParent
    <2>3. Start(heap, p) = A[p].start /\ Till(heap, p) = EndOf(A[p])
      BY <2>1 DEF Start, Till, EndOf
    <2>4. A[p] \in Received
      BY <1>2, ElementOfSeq
    <2>5. A[p].start \in Int /\ EndOf(A[p]) \in Int
      BY <2>4 DEF Received, EndOf
    <2> QED
      BY <1>3, <2>1, <2>2, <2>3, <2>5
  <1>7. Within(heap, ids, WholeText.start, EndOf(WholeText))
    <2>1. \A p \in 1..Len(ids) : StartAt(heap, ids, p) = Start(heap, p) /\ TillAt(heap, ids, p) = Till(heap, p)
      BY <1>4 DEF StartAt, TillAt
    <2> QED
      BY <1>3, <1>4, <1>6, <2>1 DEF Within, x
  <1>8. Clean(heap, From(heap, PlacesIn(ids), EndOf(WholeText)))
    <2>1. ASSUME NEW p \in From(heap, PlacesIn(ids), x), NEW q \in From(heap, PlacesIn(ids), x)
          PROVE  ~Cross(heap, p, q)
      <3>1. p \in 1..Len(A) /\ q \in 1..Len(A) /\ Start(heap, q) >= x
        BY <1>5 DEF From
      <3>2. Start(heap, q) \in Int /\ Till(heap, p) \in Int /\ Till(heap, p) <= x /\ x \in Int
        BY <1>3, <1>6, <3>1
      <3>3. ~(Start(heap, q) < Till(heap, p))
        BY <3>1, <3>2
      <3> QED
        BY <3>3 DEF Cross
    <2> QED
      BY <2>1 DEF Clean, x
  <1>9. \A u \in Int : WholeText.start <= u /\ u < EndOf(WholeText) =>
          Marked(A, heap, PlacesIn(ids), u, {0})
    <2>1. \A u \in Int : \A p \in Covering(A, u, Markup) :
            /\ p \in PlacesIn(ids) /\ heap[p].id = p
            /\ Start(heap, p) <= u /\ u < Till(heap, p)
      BY <1>2, <1>5, <1>6 DEF Covering, Covers
    <2> QED
      BY <2>1 DEF Marked
  <1>10. WholeText.start \in Int /\ WholeText.start + 0 = WholeText.start
    BY <1>3
  <1>11. /\ f.span = WholeText /\ f.out = <<>> /\ SliceOK(heap, f)
         /\ IF f.splitting THEN SplitOK(A, heap, f, {0}) ELSE WalkOK(A, heap, f, {0})
    BY <1>2, <1>4, <1>5, <1>7, <1>8, <1>9, <1>10, FreshCall
  <1> HIDE DEF f
  <1>12. CallsOK(A, heap, <<f>>)
    <2> DEFINE cs == <<f>>
    <2>1. Len(cs) = 1 /\ cs[1] = f /\ \A k \in 1..1 : k = 1 /\ ~(k < 1)
      OBVIOUS
    <2> HIDE DEF cs
    <2>2. AroundOf(cs, 1) = {0}
      <3>1. AroundOf(cs, 1) = {cs[k].span.id : k \in 1..1} /\ 1..1 = {1}
        BY DEF AroundOf
      <3> QED
        BY <1>3, <1>11, <2>1, <3>1
    <2>3. Exactly(A, <<>>, {0})
      BY DEF Exactly
    <2>4. CallOK(A, heap, cs, 1)
      <3>1. SliceOK(heap, cs[1]) /\ Exactly(A, cs[1].out, AroundOf(cs, 1)) /\ ~(1 < Len(cs))
        BY <1>11, <2>1, <2>2, <2>3
      <3>2. IF cs[1].splitting THEN SplitOK(A, heap, cs[1], AroundOf(cs, 1))
            ELSE WalkOK(A, heap, cs[1], AroundOf(cs, 1))
        BY <1>11, <2>1, <2>2
      <3> QED
        BY <3>1, <3>2 DEF CallOK
    <2>5. Edge(f) <= Edge(f)
      BY <1>3, <1>11 DEF Edge, x
    <2>6. CallsOK(A, heap, cs)
      BY <2>1, <2>4, <2>5 DEF CallsOK
    <2> QED
      BY <2>6 DEF cs
  <1> QED
    BY <1>1, <1>2, <1>12 DEF MInv

(* The clones are as good as the annotations. *)
LEMMA CloneMarks == IInv /\ MInv /\ Good(annotations) /\ CloneAnnotations => MInv'
  <1> SUFFICES ASSUME IInv, MInv, Good(annotations), CloneAnnotations PROVE MInv'
    OBVIOUS
  <1> DEFINE A == annotations
             h == heap'
  <1>1. /\ A \in Seq(Received) /\ Len(A) \in Nat /\ DOMAIN A = 1..Len(A)
        /\ calls = <<>> /\ parsed = "no" /\ UNCHANGED <<annotations, calls, parsed, html>>
        /\ h = [i \in DOMAIN A |-> [start |-> A[i].start, length |-> A[i].length,
                                    kind |-> A[i].kind, id |-> i]]
    BY DEF IInv, Message, CloneAnnotations
  <1>2. h \in Seq(Span)
    <2>1. IInv'
      BY CloneStep
    <2> QED
      BY <2>1 DEF IInv, HeapOK
  <1>3. Len(h) = Len(A)
    <2>1. DOMAIN h = 1..Len(A) /\ DOMAIN h = 1..Len(h) /\ Len(h) \in Nat
      BY <1>1, <1>2
    <2> QED
      BY <1>1, <2>1
  <1>4. \A n \in 1..Len(A) : /\ h[n].id = n /\ h[n].start = A[n].start
                             /\ h[n].length = A[n].length /\ h[n].kind = A[n].kind
    BY <1>1
  <1> HIDE DEF h
  <1>5. Cloned(A, h)
    BY <1>3, <1>4 DEF Cloned, Start
  <1>6. HeapGood(h)
    <2> SUFFICES ASSUME NEW p \in 1..Len(A)
                 PROVE  /\ Start(h, p) <= Till(h, p) /\ h[p].kind # "plain"
                        /\ h[p].kind = "chip" => Till(h, p) = Start(h, p)
      BY <1>3 DEF HeapGood
    <2>1. /\ A[p].length >= 0 /\ A[p].kind # "plain" /\ (A[p].kind = "chip" => A[p].length = 0)
      BY <1>1 DEF Good, SpanWithinParent
    <2>2. A[p].start \in Int /\ A[p].length \in Int
      <3>1. A[p] \in Received
        BY <1>1, ElementOfSeq
      <3> QED
        BY <3>1 DEF Received
    <2>3. Start(h, p) = A[p].start /\ Till(h, p) = A[p].start + A[p].length
      BY <1>4 DEF Start, Till, EndOf
    <2> QED
      BY <1>4, <2>1, <2>2, <2>3
  <1> QED
    BY <1>1, <1>5, <1>6, NoCalls DEF MInv, h

LEMMA EmptyMarks ==
  heap = <<>> /\ calls = <<>> /\ parsed = "no" => MInv
  BY NoCalls DEF MInv, HeapGood

LEMMA InitMarks == AnnotationsInit => MInv
  BY EmptyMarks DEF AnnotationsInit

LEMMA ArriveMarks ==
  ASSUME IInv, NEW a \in Annotation, Arrive(a)
  PROVE  MInv'
  <1>1. heap' = <<>> /\ calls' = <<>> /\ parsed' = "no"
    BY DEF IInv, Arrive
  <1> QED
    BY <1>1, NoCalls DEF MInv, HeapGood

LEMMA ConvertMarks == IInv /\ MInv /\ Convert => MInv'
  <1> SUFFICES ASSUME IInv, MInv, Convert PROVE MInv'
    OBVIOUS
  <1>1. annotations' = annotations
    BY DEF Convert, CloneAnnotations, Parse, Cut, Insert, Advance, Normalized, Skip,
       OutOfBounds, Enter, Return, Finish
  <1>2. CASE ~Good(annotations)
    BY <1>1, <1>2 DEF MInv
  <1>3. CASE Good(annotations)
    BY <1>3, CloneMarks, ParseMarks, CutMarks, InsertMarks, AdvanceMarks, NormalizedMarks,
       SkipMarks, InBoundsMarks, EnterMarks, ReturnMarks, FinishMarks DEF Convert
  <1> QED
    BY <1>2, <1>3

LEMMA NextMarks == IInv /\ MInv /\ [AnnotationsNext]_annotationVars => MInv'
  <1> SUFFICES ASSUME IInv, MInv, [AnnotationsNext]_annotationVars PROVE MInv'
    OBVIOUS
  <1>1. ASSUME NEW a \in Annotation, Arrive(a)
        PROVE  MInv'
    BY <1>1, ArriveMarks
  <1>2. CASE Convert
    BY <1>2, ConvertMarks
  <1>3. CASE UNCHANGED annotationVars
    BY <1>3 DEF MInv, annotationVars
  <1> QED
    BY <1>1, <1>2, <1>3 DEF AnnotationsNext

(* However annotations that lie within the text overlap: Parse does not    *)
(* fall back to plain text, unless all of the text is hidden; else each    *)
(* unit has exactly the tags of the annotations over it, nothing hidden is *)
(* in it, and every pill is a mention's that is collected to be pinged.    *)
THEOREM MarkupSurvives == AnnotationsSpec => []MarkupKept
  <1>1. IInv /\ MInv => MarkupKept
    <2> SUFFICES ASSUME IInv, MInv, InBounds, ChipsCoverNothing, NonePlain
                 PROVE  /\ parsed # "failed" /\ (parsed = "ok" => Exact)
                        /\ parsed = "empty" => \A u \in 0 .. TextLength - 1 :
                                                  CoveredBy(u, {"hidden"}) # {}
      BY DEF MarkupKept
    <2>1. Good(annotations)
      BY DEF Good, InBounds, ChipsCoverNothing, NonePlain
    <2>2. parsed # "failed"
      BY <2>1 DEF MInv
    <2>3. ASSUME parsed = "ok"
          PROVE  Exact
      <3>1. Rendered(annotations, html, 0, TextLength) /\ Exactly(annotations, html, {0})
        BY <2>1, <2>3 DEF MInv, IInv
      <3>2. \A u, kinds : CoveredBy(u, kinds) = Covering(annotations, u, kinds)
        BY DEF CoveredBy, Covering
      <3>3. \A u, kinds : 0 \notin Covering(annotations, u, kinds)
        <4>1. 0 \notin DOMAIN annotations
          BY DEF IInv, Message
        <4> QED
          BY <4>1 DEF Covering
      <3>4. ASSUME NEW u \in 0..(TextLength - 1), NEW p \in PlacesOf(u)
            PROVE  /\ html[p].around = CoveredBy(u, {"tag"})
                   /\ CoveredBy(u, NotWritten) = {}
        <4>1. p \in DOMAIN html /\ html[p].is = "unit" /\ html[p].at = u
          BY <3>4 DEF PlacesOf
        <4>2. /\ Covering(annotations, u, {"tag"}) \subseteq html[p].around \cup {0}
              /\ Covering(annotations, u, NotWritten) \subseteq {0}
          BY <3>1, <4>1 DEF Exactly
        <4>3. html[p].around \subseteq Covering(annotations, u, {"tag"})
          BY <3>1, <4>1 DEF Rendered, Deserved
        <4>4. /\ Covering(annotations, u, {"tag"}) = html[p].around
              /\ Covering(annotations, u, NotWritten) = {}
          BY <3>3, <4>2, <4>3
        <4> QED
          BY <3>2, <4>4
      <3>5. \A p \in DOMAIN html : html[p].is = "pill" => html[p].at \in CollectMentions
        BY <3>1 DEF Rendered, Deserved, CollectMentions, InBounds
      <3> QED
        BY <3>4, <3>5 DEF Exact
    <2>4. ASSUME parsed = "empty", NEW u \in 0..(TextLength - 1)
          PROVE  CoveredBy(u, {"hidden"}) # {}
      <3>1. Rendered(annotations, <<>>, 0, TextLength)
        BY <2>4 DEF IInv
      <3>2. u \in Int /\ 0 <= u /\ u < TextLength
        BY AnnotationsAssumption
      <3>3. Covering(annotations, u, {"hidden"}) # {}
        BY <3>1, <3>2 DEF Rendered, Visible
      <3> QED
        BY <3>3 DEF CoveredBy, Covering
    <2> QED
      BY <2>2, <2>3, <2>4
  <1>2. IInv /\ MInv /\ [AnnotationsNext]_annotationVars => (IInv /\ MInv)'
    BY NextInv, NextMarks
  <1>3. AnnotationsInit => IInv /\ MInv
    BY InitInv, InitMarks
  <1> QED
    BY <1>1, <1>2, <1>3, PTL DEF AnnotationsSpec
=============================================================================
