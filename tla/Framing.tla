------------------------------ MODULE Framing ------------------------------
(***************************************************************************)
(* ChunkParser of src/pkg/gchatmeow/chunkparser.go, which cuts the body of *)
(* a long poll into payloads: "<length>\n<payload>", where the length is   *)
(* in UTF-16 units and the body arrives in pieces cut anywhere.            *)
(*                                                                         *)
(* A byte is a digit, the newline "lf", another ASCII byte "a", the first  *)
(* byte "E" of a two-byte rune of one unit, the first byte "F" of a three- *)
(* byte rune of two units, or a continuation byte "C".  (UTF-8 takes four  *)
(* bytes for two units; three already give a rune two places to be cut.)   *)
(***************************************************************************)
EXTENDS Naturals, Sequences
LOCAL INSTANCE Functions

CONSTANTS Bytes,    \* the bytes that occur
          MaxFed,   \* bound on the bytes fed
          MaxPiece, \* bound on the bytes of one Feed
          MaxInt    \* what strconv.Atoi accepts

ASSUME FramingAssumption == MaxFed \in Nat /\ MaxPiece \in Nat /\ MaxInt \in Nat

VARIABLES fed,     \* history: the bytes of all Feeds
          buf,     \* ChunkParser.buf
          feeding, \* whether Feed is in its loop
          chunks   \* history: the payloads found

framingVars == <<fed, buf, feeding, chunks>>

(***************************************************************************)
(* Runes.                                                                  *)
(***************************************************************************)

From(s, i) == SubSeq(s, i, Len(s))

SizeOf(b) == CASE b = "E" -> 2 [] b = "F" -> 3 [] OTHER -> 1

(* utf8.DecodeRune finds a whole rune at s[i], or an invalid byte, which    *)
(* counts as one byte and one unit.                                        *)
IsRune(s, i) ==
  /\ i + SizeOf(s[i]) - 1 <= Len(s)
  /\ \A k \in i + 1 .. i + SizeOf(s[i]) - 1 : s[k] = "C"
RuneBytes(s, i) == IF IsRune(s, i) THEN SizeOf(s[i]) ELSE 1
RuneUnits(s, i) == IF IsRune(s, i) /\ s[i] = "F" THEN 2 ELSE 1

(* Not utf8.FullRune: the rune at s[i] is cut off by the end. *)
IsCutOff(s, i) ==
  /\ i + SizeOf(s[i]) - 1 > Len(s)
  /\ \A k \in i + 1 .. Len(s) : s[k] = "C"

(* Mutant: the bytes read so far are taken for whole runes. *)
DecodePrefixNaively(s) == s

(* decodeUTF8Prefix: without the cut-off rune at the end. *)
DecodePrefix(s) ==
  IF \E i \in 1..Len(s) : IsCutOff(s, i)
  THEN SubSeq(s, 1, (CHOOSE i \in 1..Len(s) : IsCutOff(s, i)) - 1)
  ELSE s

(* No rune goes on behind the first k bytes. *)
RuneEnds(s) == {k \in 0..Len(s) : \A i \in 1..k : i + RuneBytes(s, i) - 1 <= k}

(* The units of the first k bytes; a rune's are counted at its first byte. *)
UnitsAt(s, j) == IF \E i \in 1 .. j - 1 : i + RuneBytes(s, i) > j THEN 0 ELSE RuneUnits(s, j)
UnitsIn(s, k) == FoldFunction(+, 0, [j \in 1..k |-> UnitsAt(s, j)])

(***************************************************************************)
(* Feed.                                                                   *)
(***************************************************************************)

DigitOf == [d \in {"0", "1", "2"} |-> CASE d = "0" -> 0 [] d = "1" -> 1 [] d = "2" -> 2]
IsDigit(b) == b \in DOMAIN DigitOf

Atoi(s) == FoldFunction(+, 0, [i \in 1..Len(s) |-> DigitOf[s[i]] * 10^(Len(s) - i)])

(* cutFirstLine: how many digits s begins with, and what comes of it. *)
Digits(s) == CHOOSE n \in 0..Len(s) :
  /\ \A i \in 1..n : IsDigit(s[i])
  /\ n = Len(s) \/ ~IsDigit(s[n + 1])
LineIncomplete(s) == Digits(s) = Len(s)
LinePoisoned(s) == Digits(s) < Len(s) /\ (Digits(s) = 0 \/ s[Digits(s) + 1] # "lf")
Number(s) == Atoi(SubSeq(s, 1, Digits(s)))
Rest(s) == From(s, Digits(s) + 2)

(* takeUTF16Units: it stops at the first end of a rune with enough units. *)
Enough(s, want) == {k \in RuneEnds(s) : UnitsIn(s, k) >= want}
TakeUnits(s, want) == CHOOSE k \in Enough(s, want) : \A l \in Enough(s, want) : k <= l

ChunkComplete(s) ==
  /\ ~LineIncomplete(s) /\ ~LinePoisoned(s)
  /\ Number(s) <= MaxInt
  /\ Enough(Rest(s), Number(s)) # {}

FramingInit == fed = <<>> /\ buf = <<>> /\ feeding = FALSE /\ chunks = <<>>

Feed(data) ==
  /\ ~feeding /\ Len(fed) + Len(data) <= MaxFed
  /\ fed' = fed \o data /\ buf' = buf \o data /\ feeding' = TRUE
  /\ UNCHANGED chunks

(* The loop drops a byte, cuts a chunk, or ends. *)
DropByte ==
  /\ feeding /\ LinePoisoned(DecodePrefix(buf))
  /\ buf' = Tail(buf)
  /\ UNCHANGED <<fed, feeding, chunks>>

CutChunk ==
  LET decoded == DecodePrefix(buf)
      end == TakeUnits(Rest(decoded), Number(decoded))
  IN  /\ feeding /\ ChunkComplete(decoded)
      /\ chunks' = Append(chunks, SubSeq(Rest(decoded), 1, end))
      /\ buf' = From(buf, Digits(decoded) + 2 + end)
      /\ UNCHANGED <<fed, feeding>>

FeedReturns ==
  /\ feeding /\ ~LinePoisoned(DecodePrefix(buf)) /\ ~ChunkComplete(DecodePrefix(buf))
  /\ feeding' = FALSE
  /\ UNCHANGED <<fed, buf, chunks>>

Pieces == UNION {[1..n -> Bytes] : n \in 1..MaxPiece}

FramingNext == (\E data \in Pieces : Feed(data)) \/ DropByte \/ CutChunk \/ FeedReturns

FramingSpec == FramingInit /\ [][FramingNext]_framingVars

(***************************************************************************)
(* The reference: the frames of a whole text.                              *)
(***************************************************************************)

(* A length at place i of the text: n digits and a newline. *)
IsLength(text, i, n) ==
  /\ \A k \in i .. i + n - 1 : IsDigit(text[k])
  /\ text[i + n] = "lf"

(* Behind it, the fewest runes that have the units the digits say. *)
IsPayload(text, i, n, m) ==
  LET number == Atoi(SubSeq(text, i, i + n - 1))
      after == From(text, i + n + 1)
  IN  /\ number <= MaxInt
      /\ m \in RuneEnds(after) /\ UnitsIn(after, m) >= number
      /\ \A k \in RuneEnds(after) : k < m => ~(UnitsIn(after, k) >= number)

(* The frames from place i on, by the frames from the later places.        *)
(* Outside a frame everything is skipped that is not the beginning of a    *)
(* length or could not become one.                                         *)
FramesAt(text, i, frames) ==
  LET lengths == {n \in 1 .. Len(text) - i : IsLength(text, i, n)}
      payloads(n) == {m \in 0 .. Len(text) - i - n : IsPayload(text, i, n, m)}
  IN  IF \A k \in i .. Len(text) : IsDigit(text[k]) THEN <<>>
      ELSE IF lengths = {} THEN frames[i + 1]
      ELSE LET n == CHOOSE n \in lengths : TRUE
               m == CHOOSE m \in payloads(n) : TRUE
           IN  IF payloads(n) = {} THEN <<>>
               ELSE <<SubSeq(text, i + n + 1, i + n + m)>> \o frames[i + n + 1 + m]

FramesFrom(text) ==
  LET frames[i \in 1 .. Len(text) + 1] == FramesAt(text, i, frames) IN frames

(* However the body is cut into reads, within a rune, a length or a frame, *)
(* the payloads are those of the whole body, and none is split or lost:    *)
(* "Keep the buffer as raw bytes: a []byte->string conversion would turn a *)
(* rune split across reads into U+FFFD and desync framing."                *)
FramesOfTheBody == ~feeding => chunks = FramesFrom(DecodePrefix(fed))[1]
=============================================================================
