----------------------------- MODULE BerProofs -----------------------------
(***************************************************************************)
(* Theorems about Ber, for every set of tags and contents, of objects      *)
(* nested to any depth.                                                    *)
(***************************************************************************)
EXTENDS Ber, SequenceTheorems, WellFoundedInduction, TLAPS

-----------------------------------------------------------------------------
(* Natural numbers *)

\* A set of natural numbers that is not empty has a least element.
LEMMA Least ==
  ASSUME NEW T \in SUBSET Nat, T # {}
  PROVE  \E x \in T : \A y \in T : x <= y
  <1> DEFINE R == OpToRel(<, Nat)
  <1>1. \A x, y \in Nat : x < y => <<x, y>> \in R
    BY DEF OpToRel
  <1>2. IsWellFoundedOn(R, Nat)
    BY NatLessThanWellFounded
  <1> HIDE DEF R
  <1>3. PICK x \in T : \A y \in T : <<y, x>> \notin R
    BY <1>2, WFMin
  <1>4. ASSUME NEW y \in T
        PROVE  x <= y
    <2>1. x \in Nat /\ y \in Nat
      OBVIOUS
    <2>2. ~(y < x)
      BY <1>1, <1>3, <2>1
    <2> QED
      BY <2>1, <2>2
  <1> QED
    BY <1>4

\* Induction, over a set of numbers.
LEMMA Induction ==
  ASSUME NEW S, 0 \in S, \A n \in Nat : n \in S => n + 1 \in S
  PROVE  Nat \subseteq S
  <1> SUFFICES ASSUME Nat \ S # {} PROVE FALSE
    OBVIOUS
  <1>1. PICK x \in Nat \ S : \A y \in Nat \ S : x <= y
    BY Least
  <1>2. x # 0
    OBVIOUS
  <1>3. x - 1 \in Nat /\ x - 1 \in S
    BY <1>1, <1>2
  <1> QED
    BY <1>1, <1>3

-----------------------------------------------------------------------------
(* The head of an object *)

Octets == 0 .. 255

LEMMA Octet255 == \A x : x \in Octets <=> x \in Nat /\ x < 256
  BY DEF Octets

\* What tells the outcomes apart.
LEMMA Kinds ==
  /\ Error.kind = "error" /\ Panic.kind = "panic" /\ NotRun.kind = "none"
  /\ \A n, start, indefinite : Length(n, start, indefinite).kind = "length"
  /\ \A der, next : Object(der, next).kind = "object" /\ Content(der, next).kind = "content"
  BY DEF Error, Panic, NotRun, Length, Object, Content

\* A tag is not empty, and its end is looked for after its first octet.
LEMMA TagEndType ==
  ASSUME NEW ber \in Seq(Octets), NEW offset \in Nat, offset < Len(ber)
  PROVE  TagEnd(ber, offset) \in Nat /\ TagEnd(ber, offset) > offset
  <1> DEFINE Last == {j \in offset + 1 .. Len(ber) - 1 : Octet(ber, j) < 128}
             last == CHOOSE j \in Last : \A k \in Last : j <= k
  <1>1. CASE Last = {}
    <2>1. LastOfTag(ber, offset) = Len(ber)
      BY <1>1 DEF LastOfTag
    <2> QED
      BY <2>1 DEF TagEnd
  <1>2. CASE Last # {}
    <2>1. Last \in SUBSET Nat
      OBVIOUS
    <2>2. last \in Last
      BY <1>2, <2>1, Least
    <2>3. LastOfTag(ber, offset) = last
      BY <1>2 DEF LastOfTag
    <2> QED
      BY <2>2, <2>3 DEF TagEnd
  <1> QED
    BY <1>1, <1>2

\* A number of four octets at most.
LEMMA Base256Type ==
  ASSUME NEW octets \in Seq(Octets)
  PROVE  Base256(octets) \in Nat
  <1> DEFINE At(i) == IF i <= Len(octets) THEN octets[Len(octets) + 1 - i] * Weights[i] ELSE 0
  <1>1. ASSUME NEW i \in 1 .. 4
        PROVE  At(i) \in Nat
    <2>1. CASE i <= Len(octets)
      <3>1. octets[Len(octets) + 1 - i] \in Octets
        BY <2>1
      <3>2. octets[Len(octets) + 1 - i] \in Nat
        BY <3>1, Octet255
      <3>3. Weights[i] \in Nat
        BY DEF Weights
      <3> QED
        BY <2>1, <3>2, <3>3
    <2>2. CASE ~(i <= Len(octets))
      BY <2>2
    <2> QED
      BY <2>1, <2>2
  <1>2. Base256(octets) = At(1) + At(2) + At(3) + At(4)
    BY DEF Base256
  <1> HIDE DEF At
  <1>3. At(1) \in Nat /\ At(2) \in Nat /\ At(3) \in Nat /\ At(4) \in Nat
    BY <1>1
  <1> QED
    BY <1>2, <1>3

\* What the first octet of a length says: the length, nothing, or that k others follow.
IsShort(octet) == octet < 128
IsUnknown(octet) == octet = 128
IsLong(octet, k) == k \in Nat /\ k > 0 /\ octet = 128 + k

\* The first octet of a length is one of the three.
LEMMA FirstOctets ==
  ASSUME NEW octet \in Nat
  PROVE  IsShort(octet) \/ IsUnknown(octet) \/ \E k : IsLong(octet, k)
  <1>1. ASSUME octet > 128 PROVE IsLong(octet, octet - 128)
    BY <1>1 DEF IsLong
  <1> QED
    BY <1>1 DEF IsShort, IsUnknown

\* The cases of ReadLength.
LEMMA LengthCases ==
  ASSUME NEW ber, NEW offset, Has(ber, offset), NEW octet, octet = Octet(ber, offset)
  PROVE  /\ IsShort(octet) => ReadLength(ber, offset) = Length(octet, offset + 1, FALSE)
         /\ IsUnknown(octet) => ReadLength(ber, offset) = Length(0, offset + 1, TRUE)
         /\ \A k : IsLong(octet, k) =>
              ReadLength(ber, offset) = ReadLongLength(ber, offset + 1, k)
  <1>1. IsUnknown(octet) => ~(octet < 128) /\ octet = 128
    BY DEF IsUnknown
  <1>2. \A k : IsLong(octet, k) => ~(octet < 128) /\ octet # 128 /\ octet - 128 = k
    BY DEF IsLong
  <1>3. IsShort(octet) => octet < 128
    BY DEF IsShort
  <1> QED
    BY <1>1, <1>2, <1>3, Zenon DEF ReadLength

\* A length is read, or the outcome is one of the two failures.
LEMMA LengthKinds ==
  ASSUME NEW ber, NEW offset
  PROVE  ReadLength(ber, offset).kind \in {"length", "error", "panic"}
  <1>1. ASSUME NEW o, NEW n PROVE ReadLongLength(ber, o, n).kind \in {"length", "error", "panic"}
    BY Kinds, Zenon DEF ReadLongLength
  <1>2. \/ ReadLength(ber, offset) = Panic
        \/ \E n, start, i : ReadLength(ber, offset) = Length(n, start, i)
        \/ \E o, n : ReadLength(ber, offset) = ReadLongLength(ber, o, n)
    BY Zenon DEF ReadLength
  <1> QED
    BY <1>1, <1>2, Kinds, Zenon

\* A length read is a number, and what it is the length of begins after it.
LEMMA LengthType ==
  ASSUME NEW ber \in Seq(Octets), NEW offset \in Nat, NEW length,
         length = ReadLength(ber, offset), length.kind = "length"
  PROVE  /\ length.n \in Nat /\ length.start \in Nat /\ length.start > offset
         /\ length.indefinite \in BOOLEAN
  <1>1. Has(ber, offset)
    BY Kinds, Zenon DEF ReadLength
  <1>2. PICK l \in Nat : l = Octet(ber, offset)
    <2>1. ber[offset + 1] \in Octets
      BY <1>1 DEF Has
    <2> QED
      BY <2>1, Octet255 DEF Octet
  <1>3. CASE IsShort(l)
    <2>1. length = Length(l, offset + 1, FALSE)
      BY <1>1, <1>2, <1>3, LengthCases, Zenon
    <2> QED
      BY <1>2, <2>1 DEF Length
  <1>4. CASE IsUnknown(l)
    <2>1. length = Length(0, offset + 1, TRUE)
      BY <1>1, <1>2, <1>4, LengthCases, Zenon
    <2> QED
      BY <2>1 DEF Length
  <1>5. CASE \E k : IsLong(l, k)
    <2>1. PICK octets \in Nat : IsLong(l, octets)
      BY <1>5 DEF IsLong
    <2>2. length = ReadLongLength(ber, offset + 1, octets)
      BY <1>1, <1>2, <2>1, LengthCases, Zenon
    <2> DEFINE slice == Slice(ber, offset + 1, offset + 1 + octets)
    <2>3. /\ ~(octets > 4) /\ Has(ber, offset + 1 + octets - 1)
          /\ length = Length(Base256(slice), offset + 1 + octets, FALSE)
      BY <2>2, Kinds, Zenon DEF ReadLongLength
    <2>4. slice \in Seq(Octets)
      BY <2>3 DEF Has, Slice
    <2>5. Base256(slice) \in Nat
      BY <2>4, Base256Type
    <2> HIDE DEF slice
    <2> QED
      BY <2>3, <2>5 DEF Length
  <1> QED
    BY <1>2, <1>3, <1>4, <1>5, FirstOctets

\* The same of a head.
LEMMA HeadKinds ==
  ASSUME NEW ber, NEW offset
  PROVE  ReadHead(ber, offset).kind \in {"head", "error", "panic"}
  <1> DEFINE length == ReadLength(ber, TagEnd(ber, offset))
  <1>1. \/ ReadHead(ber, offset) \in {Error, Panic}
        \/ ReadHead(ber, offset) = length /\ length.kind # "length"
        \/ \E t, c, s, e, i :
             ReadHead(ber, offset) = [kind |-> "head", tag |-> t, constructed |-> c,
                                      start |-> s, end |-> e, indefinite |-> i]
    BY Zenon DEF ReadHead, HeadAfter
  <1>2. length.kind \in {"length", "error", "panic"}
    BY LengthKinds
  <1> HIDE DEF length
  <1> QED
    BY <1>1, <1>2, Kinds

\* A head read leaves the content inside the data.
LEMMA HeadType ==
  ASSUME NEW ber \in Seq(Octets), NEW offset \in Nat, NEW head,
         head = ReadHead(ber, offset), head.kind = "head"
  PROVE  /\ offset < Len(ber)
         /\ head.start \in offset + 1 .. Len(ber) /\ head.end \in head.start .. Len(ber)
         /\ head.indefinite \in BOOLEAN /\ head.constructed \in BOOLEAN
         /\ head.indefinite => head.constructed
  <1>1. Has(ber, offset)
    BY Kinds, Zenon DEF ReadHead, HeadAfter
  <1>2. PICK tagEnd \in Nat : tagEnd = TagEnd(ber, offset) /\ tagEnd > offset
    BY <1>1, TagEndType DEF Has
  <1>3. PICK length : length = ReadLength(ber, tagEnd)
    OBVIOUS
  <1>4. PICK constructed \in BOOLEAN : constructed = Constructed(Octet(ber, offset))
    BY DEF Constructed
  <1>5. head = IF length.kind # "length" THEN length
               ELSE IF \/ length.start + length.n > Len(ber)
                       \/ length.indefinite /\ ~constructed
                    THEN Error
               ELSE [kind |-> "head", tag |-> Slice(ber, offset, tagEnd),
                     constructed |-> constructed, start |-> length.start,
                     end |-> length.start + length.n, indefinite |-> length.indefinite]
    BY <1>1, <1>2, <1>3, <1>4, Zenon DEF ReadHead, HeadAfter
  <1>6. /\ length.kind = "length"
        /\ ~(length.start + length.n > Len(ber)) /\ ~(length.indefinite /\ ~constructed)
        /\ head = [kind |-> "head", tag |-> Slice(ber, offset, tagEnd),
                   constructed |-> constructed, start |-> length.start,
                   end |-> length.start + length.n, indefinite |-> length.indefinite]
    <2>1. length.kind # "head"
      BY <1>3, LengthKinds
    <2> QED
      BY <2>1, <1>5, Kinds, Zenon
  <1>7. /\ length.n \in Nat /\ length.start \in Nat /\ length.start > tagEnd
        /\ length.indefinite \in BOOLEAN
    BY <1>2, <1>3, <1>6, LengthType
  <1> QED
    BY <1>1, <1>2, <1>6, <1>7 DEF Has

-----------------------------------------------------------------------------
(* The loop's runs.  Each needs only runs further on, so that there is one *)
(* function that answers all of them.                                      *)

Runs(ber) == (0 .. Len(ber)) \X (0 .. Len(ber)) \X BOOLEAN

\* Where the content read by a run may end.
Fits(ber, run, content) ==
  /\ content.kind # "object"
  /\ content.kind = "content" =>
       /\ content.next \in run[1] .. Len(ber)
       /\ run[3] => content.next + 2 <= Len(ber)

\* Both functions give the same fitting answer to the runs after offset.
Agree(ber, offset, read, other) ==
  \A run \in Runs(ber) :
    run[1] > offset => read[run] = other[run] /\ Fits(ber, run, read[run])

\* The run that an object's content takes is one of them.
LEMMA RunAfterHead ==
  ASSUME NEW ber \in Seq(Octets), NEW offset \in Nat, NEW head,
         head = ReadHead(ber, offset), head.kind = "head"
  PROVE  LET run == <<head.start, head.end, head.indefinite>>
         IN run \in Runs(ber) /\ run[1] > offset /\ run[3] = head.indefinite
  <1>1. /\ offset < Len(ber)
        /\ head.start \in offset + 1 .. Len(ber) /\ head.end \in head.start .. Len(ber)
        /\ head.indefinite \in BOOLEAN
    BY HeadType
  <1> QED
    BY <1>1 DEF Runs

\* Every object ends after its offset and inside the data.
LEMMA ObjectAgrees ==
  ASSUME NEW ber \in Seq(Octets), NEW offset \in Nat, NEW read, NEW other,
         Agree(ber, offset, read, other),
         NEW object, object = ReadObject(ber, offset, read)
  PROVE  /\ object = ReadObject(ber, offset, other)
         /\ object.kind # "content"
         /\ object.kind = "object" => object.next \in offset + 1 .. Len(ber)
  <1>1. PICK head : head = ReadHead(ber, offset)
    OBVIOUS
  <1>2. PICK run : run = <<head.start, head.end, head.indefinite>>
    OBVIOUS
  <1> DEFINE Inner(r) == IF head.constructed THEN r[run]
                         ELSE Content(Slice(ber, head.start, head.end), head.end)
  <1>3. \A r : ReadObject(ber, offset, r) =
                 IF head.kind # "head" THEN head
                 ELSE IF Inner(r).kind # "content" THEN Inner(r)
                 ELSE Object(EncodeTo(head.tag, Inner(r).der),
                             IF head.indefinite THEN Inner(r).next + 2 ELSE head.end)
    BY <1>1, <1>2, Zenon DEF ReadObject
  <1>4. CASE head.kind # "head"
    <2>1. head.kind # "object" /\ head.kind # "content"
      BY <1>1, <1>4, HeadKinds
    <2> QED
      BY <1>3, <1>4, <2>1, Zenon
  <1>5. CASE head.kind = "head"
    <2>1. /\ head.start \in offset + 1 .. Len(ber) /\ head.end \in head.start .. Len(ber)
          /\ head.indefinite \in BOOLEAN /\ head.constructed \in BOOLEAN
          /\ head.indefinite => head.constructed
      BY <1>1, <1>5, HeadType
    <2>2. head.constructed => read[run] = other[run] /\ Fits(ber, run, read[run])
      BY <1>1, <1>2, <1>5, RunAfterHead, Zenon DEF Agree
    <2>3. Inner(read) = Inner(other)
      BY <2>2
    <2>4. PICK inner : inner = Inner(read)
      OBVIOUS
    <2>5. /\ inner.kind # "object"
          /\ inner.kind = "content" =>
               (head.indefinite => inner.next \in head.start .. Len(ber) - 2)
      <3>1. CASE head.constructed
        <4>1. Fits(ber, run, inner) /\ run[1] = head.start /\ run[3] = head.indefinite
          BY <1>2, <2>2, <2>4, <3>1
        <4> QED
          BY <4>1, <2>1 DEF Fits
      <3>2. CASE ~head.constructed
        BY <2>1, <2>4, <3>2, Kinds
      <3> QED
        BY <3>1, <3>2
    <2> HIDE DEF Inner
    <2>6. object = ReadObject(ber, offset, other)
      BY <1>3, <2>3, Zenon
    <2>7. CASE inner.kind # "content"
      BY <1>3, <1>5, <2>4, <2>5, <2>6, <2>7, Zenon
    <2>8. CASE inner.kind = "content"
      <3>1. PICK der, next : /\ object = Object(der, next)
                             /\ next = IF head.indefinite THEN inner.next + 2 ELSE head.end
        BY <1>3, <1>5, <2>4, <2>8, Zenon
      <3>2. /\ object.kind = "object"
            /\ object.next = IF head.indefinite THEN inner.next + 2 ELSE head.end
        BY <3>1 DEF Object
      <3> QED
        BY <2>1, <2>5, <2>6, <2>8, <3>2
    <2> QED
      BY <2>7, <2>8
  <1> QED
    BY <1>4, <1>5

\* A run answers the same, and its answer fits, when the runs it needs do.
LEMMA ContentAgrees ==
  ASSUME NEW ber \in Seq(Octets), NEW offset \in 0 .. Len(ber), NEW end \in 0 .. Len(ber),
         NEW indefinite \in BOOLEAN, NEW read, NEW other, Agree(ber, offset, read, other),
         NEW content, content = ReadContent(ber, offset, end, indefinite, read)
  PROVE  /\ content = ReadContent(ber, offset, end, indefinite, other)
         /\ Fits(ber, <<offset, end, indefinite>>, content)
  <1>1. PICK run : run = <<offset, end, indefinite>>
    OBVIOUS
  <1>2. run \in Runs(ber) /\ run[1] = offset /\ run[3] = indefinite
    BY <1>1 DEF Runs
  <1>3. CASE offset >= end /\ ~indefinite
    <2>1. /\ content = Content(<<>>, offset)
          /\ content = ReadContent(ber, offset, end, indefinite, other)
      BY <1>3, Zenon DEF ReadContent
    <2>2. content.kind = "content" /\ content.next = offset
      BY <2>1 DEF Content
    <2> QED
      BY <1>1, <1>2, <1>3, <2>1, <2>2 DEF Fits
  <1>4. CASE ~(offset >= end /\ ~indefinite)
    <2>1. PICK first : first = ReadObject(ber, offset, read)
      OBVIOUS
    <2>2. /\ first = ReadObject(ber, offset, other) /\ first.kind # "content"
          /\ first.kind = "object" => first.next \in offset + 1 .. Len(ber)
      BY <2>1, ObjectAgrees
    <2>3. CASE first.kind # "object"
      <3>1. content = first /\ content = ReadContent(ber, offset, end, indefinite, other)
        BY <1>4, <2>1, <2>2, <2>3, Zenon DEF ReadContent
      <3> QED
        BY <2>2, <2>3, <3>1 DEF Fits
    <2>4. CASE first.kind = "object"
      <3>1. PICK next \in offset + 1 .. Len(ber) : next = first.next
        BY <2>2, <2>4
      <3>2. PICK after : after = <<next, end, indefinite>>
        OBVIOUS
      <3>3. after \in Runs(ber) /\ after[1] = next /\ after[3] = indefinite
        BY <3>2 DEF Runs
      <3>4. read[after] = other[after] /\ Fits(ber, after, read[after])
        BY <3>3 DEF Agree
      <3>5. PICK rest : rest = ReadRest(ber, next, end, indefinite, read)
        OBVIOUS
      <3>6. rest = ReadRest(ber, next, end, indefinite, other)
        BY <3>2, <3>4, <3>5, Zenon DEF ReadRest
      <3>7. /\ content = Joined(first.der, rest)
            /\ content = ReadContent(ber, offset, end, indefinite, other)
        BY <1>4, <2>1, <2>2, <2>4, <3>1, <3>5, <3>6, Zenon DEF ReadContent
      <3>8. Fits(ber, after, rest)
        <4>1. \/ rest = Error
              \/ indefinite /\ Termination(ber, next) = "yes" /\ rest = Content(<<>>, next)
              \/ rest = read[after]
          BY <3>2, <3>5, Zenon DEF ReadRest
        <4>2. ASSUME Termination(ber, next) = "yes" PROVE next + 2 <= Len(ber)
          BY <4>2 DEF Termination
        <4>3. rest = Content(<<>>, next) => rest.kind = "content" /\ rest.next = next
          BY DEF Content
        <4> QED
          BY <3>3, <3>4, <4>1, <4>2, <4>3, Kinds DEF Fits
      <3>9. /\ content.kind = rest.kind
            /\ rest.kind = "content" => content.next = rest.next
        BY <3>7 DEF Joined, Content
      <3> QED
        BY <1>1, <1>2, <3>3, <3>7, <3>8, <3>9 DEF Fits
    <2> QED
      BY <2>3, <2>4
  <1> QED
    BY <1>3, <1>4

\* The answer to a run.
Answer(ber, run, read) == ReadContent(ber, run[1], run[2], run[3], read)

\* The last runs are answered, and their answers fit.
Answered(ber, n, read) ==
  \A run \in Runs(ber) :
    Len(ber) - run[1] < n => read[run] = Answer(ber, run, read) /\ Fits(ber, run, read[run])

\* One run is answered as soon as those further on are.
LEMMA AnswerAgrees ==
  ASSUME NEW ber \in Seq(Octets), NEW run \in Runs(ber), NEW read, NEW other,
         Agree(ber, run[1], read, other)
  PROVE  /\ Answer(ber, run, read) = Answer(ber, run, other)
         /\ Fits(ber, run, Answer(ber, run, read))
  <1>1. PICK offset \in 0 .. Len(ber), end \in 0 .. Len(ber), indefinite \in BOOLEAN :
          run = <<offset, end, indefinite>>
    BY DEF Runs
  <1>2. offset = run[1] /\ end = run[2] /\ indefinite = run[3]
    BY <1>1
  <1>3. \A r : Answer(ber, run, r) = ReadContent(ber, offset, end, indefinite, r)
    BY <1>2, Zenon DEF Answer
  <1>4. offset \in Nat /\ Agree(ber, offset, read, other)
    BY <1>2
  <1>5. /\ Answer(ber, run, read) = ReadContent(ber, offset, end, indefinite, other)
        /\ Fits(ber, <<offset, end, indefinite>>, Answer(ber, run, read))
    BY <1>3, <1>4, ContentAgrees
  <1> QED
    BY <1>1, <1>3, <1>5, Zenon

\* So all of them can be answered, from the last to the first.
LEMMA OneMoreAnswered ==
  ASSUME NEW ber \in Seq(Octets), NEW n \in Nat, NEW read, Answered(ber, n, read)
  PROVE  \E other : Answered(ber, n + 1, other)
  <1> DEFINE other == [run \in Runs(ber) |-> IF Len(ber) - run[1] < n THEN read[run]
                                             ELSE Answer(ber, run, read)]
  <1>1. ASSUME NEW run \in Runs(ber), Len(ber) - run[1] < n
        PROVE  other[run] = read[run] /\ read[run] = Answer(ber, run, read)
               /\ Fits(ber, run, read[run])
    BY <1>1 DEF Answered
  <1>2. ASSUME NEW run \in Runs(ber), ~(Len(ber) - run[1] < n)
        PROVE  other[run] = Answer(ber, run, read)
    BY <1>2
  <1> HIDE DEF other
  <1>3. ASSUME NEW run \in Runs(ber), Len(ber) - run[1] < n + 1
        PROVE  other[run] = Answer(ber, run, other) /\ Fits(ber, run, other[run])
    <2>1. Agree(ber, run[1], read, other)
      <3>1. ASSUME NEW after \in Runs(ber), after[1] > run[1]
            PROVE  Len(ber) - after[1] < n
        <4>1. after[1] \in Nat /\ run[1] \in Nat
          BY DEF Runs
        <4> QED
          BY <4>1, <1>3, <3>1
      <3> QED
        BY <1>1, <3>1 DEF Agree
    <2>2. /\ Answer(ber, run, read) = Answer(ber, run, other)
          /\ Fits(ber, run, Answer(ber, run, read))
      BY <2>1, AnswerAgrees
    <2>3. other[run] = Answer(ber, run, read)
      BY <1>1, <1>2, Zenon
    <2> QED
      BY <2>2, <2>3
  <1> QED
    BY <1>3 DEF Answered

\* A function that answers every run, by induction over the octets that are left.
LEMMA AllAnswered ==
  ASSUME NEW ber \in Seq(Octets), NEW n \in Nat
  PROVE  \E read : Answered(ber, n, read)
  <1> DEFINE S == {m \in Nat : \E read : Answered(ber, m, read)}
  <1>1. 0 \in S
    <2>1. \A read : Answered(ber, 0, read)
      BY DEF Answered, Runs
    <2> QED
      BY <2>1
  <1>2. ASSUME NEW m \in Nat, m \in S
        PROVE  m + 1 \in S
    BY <1>2, OneMoreAnswered
  <1> HIDE DEF S
  <1>3. Nat \subseteq S
    BY <1>1, <1>2, Induction
  <1> QED
    BY <1>3 DEF S

\* Reading answers every run of the loop as the code does.
LEMMA ReadingAnswers ==
  ASSUME NEW ber \in Seq(Octets)
  PROVE  \A offset, end \in 0 .. Len(ber), indefinite \in BOOLEAN :
           Reading(ber)[<<offset, end, indefinite>>]
             = ReadContent(ber, offset, end, indefinite, Reading(ber))
  <1> DEFINE Read(read) == [run \in Runs(ber) |-> Answer(ber, run, read)]
  <1>1. PICK read : Answered(ber, Len(ber) + 1, read)
    BY AllAnswered
  <1>2. ASSUME NEW run \in Runs(ber)
        PROVE  Read(read)[run] = Answer(ber, run, Read(read))
    <2>1. \A any \in Runs(ber) : read[any] = Answer(ber, any, read) /\ Fits(ber, any, read[any])
      BY <1>1 DEF Answered, Runs
    <2>2. Agree(ber, run[1], read, Read(read))
      BY <2>1 DEF Agree
    <2> QED
      BY <2>2, AnswerAgrees
  <1>3. Read(read) = Read(Read(read))
    BY <1>2
  <1>4. Reading(ber) = CHOOSE r : r = Read(r)
    BY Zenon DEF Reading, Runs, Answer
  <1>5. Reading(ber) = Read(Reading(ber))
    BY <1>3, <1>4, Zenon
  <1> TAKE offset, end \in 0 .. Len(ber), indefinite \in BOOLEAN
  <1>6. PICK run : run = <<offset, end, indefinite>>
    OBVIOUS
  <1>7. run \in Runs(ber) /\ run[1] = offset /\ run[2] = end /\ run[3] = indefinite
    BY <1>6 DEF Runs
  <1>8. Reading(ber)[run] = Answer(ber, run, Reading(ber))
    BY <1>5, <1>7, Zenon
  <1> QED
    BY <1>6, <1>7, <1>8, Zenon DEF Answer

-----------------------------------------------------------------------------
(* What stands in the data                                                 *)

\* The octets s stand in ber at offset.
Stands(ber, offset, s) ==
  offset + Len(s) <= Len(ber) /\ \A i \in 1 .. Len(s) : ber[offset + i] = s[i]

\* The octets s begin in ber at offset, and the data ends within them.
Ends(ber, offset, s) ==
  /\ offset <= Len(ber) /\ Len(ber) < offset + Len(s)
  /\ \A i \in 1 .. Len(ber) - offset : ber[offset + i] = s[i]

\* Two runs of octets stand one behind the other where both together stand.
LEMMA StandsJoined ==
  ASSUME NEW ber \in Seq(Octets), NEW offset \in Nat, NEW s \in Seq(Octets), NEW t \in Seq(Octets)
  PROVE  Stands(ber, offset, s \o t) <=>
           Stands(ber, offset, s) /\ Stands(ber, offset + Len(s), t)
  <1>1. Len(s \o t) = Len(s) + Len(t) /\ Len(s) \in Nat /\ Len(t) \in Nat
    OBVIOUS
  <1>2. \A i \in 1 .. Len(s) : (s \o t)[i] = s[i] /\ i \in 1 .. Len(s \o t)
    BY <1>1
  <1>3. \A i \in 1 .. Len(t) : (s \o t)[Len(s) + i] = t[i] /\ Len(s) + i \in 1 .. Len(s \o t)
    BY <1>1
  <1>4. ASSUME Stands(ber, offset, s \o t)
        PROVE  Stands(ber, offset, s) /\ Stands(ber, offset + Len(s), t)
    <2>1. Stands(ber, offset, s)
      BY <1>1, <1>2, <1>4 DEF Stands
    <2>2. ASSUME NEW i \in 1 .. Len(t)
          PROVE  ber[(offset + Len(s)) + i] = t[i]
      <3>1. ber[offset + (Len(s) + i)] = t[i]
        BY <1>3, <1>4 DEF Stands
      <3> QED
        BY <1>1, <3>1
    <2>3. offset + Len(s) + Len(t) <= Len(ber)
      BY <1>1, <1>4 DEF Stands
    <2> QED
      BY <2>1, <2>2, <2>3 DEF Stands
  <1>5. ASSUME Stands(ber, offset, s), Stands(ber, offset + Len(s), t)
        PROVE  Stands(ber, offset, s \o t)
    <2>1. ASSUME NEW i \in 1 .. Len(s \o t)
          PROVE  ber[offset + i] = (s \o t)[i]
      <3>1. CASE i \in 1 .. Len(s)
        BY <1>2, <1>5, <3>1 DEF Stands
      <3>2. CASE i \notin 1 .. Len(s)
        <4>1. PICK j \in 1 .. Len(t) : i = Len(s) + j
          <5>1. i - Len(s) \in 1 .. Len(t) /\ i = Len(s) + (i - Len(s))
            BY <1>1, <3>2
          <5> QED
            BY <5>1
        <4>2. ber[(offset + Len(s)) + j] = t[j]
          BY <1>5 DEF Stands
        <4>3. (offset + Len(s)) + j = offset + i
          BY <1>1, <4>1
        <4> QED
          BY <1>3, <4>1, <4>2, <4>3
      <3> QED
        BY <3>1, <3>2
    <2>2. offset + Len(s \o t) <= Len(ber)
      BY <1>1, <1>5 DEF Stands
    <2> QED
      BY <2>1, <2>2 DEF Stands
  <1> QED
    BY <1>4, <1>5

\* Data that ends within s \o t ends within s, or s stands and it ends within t.
LEMMA EndsJoined ==
  ASSUME NEW ber \in Seq(Octets), NEW offset \in Nat, NEW s \in Seq(Octets), NEW t \in Seq(Octets),
         Ends(ber, offset, s \o t)
  PROVE  \/ Ends(ber, offset, s)
         \/ Stands(ber, offset, s) /\ Ends(ber, offset + Len(s), t)
  <1>1. Len(s \o t) = Len(s) + Len(t) /\ Len(s) \in Nat /\ Len(t) \in Nat /\ Len(ber) \in Nat
    OBVIOUS
  <1>2. \A i \in 1 .. Len(s) : (s \o t)[i] = s[i]
    BY <1>1
  <1>3. \A i \in 1 .. Len(t) : (s \o t)[Len(s) + i] = t[i]
    BY <1>1
  <1>4. /\ offset <= Len(ber) /\ Len(ber) < offset + Len(s) + Len(t)
        /\ \A i \in 1 .. Len(ber) - offset : ber[offset + i] = (s \o t)[i]
    BY <1>1 DEF Ends
  <1>5. CASE Len(ber) < offset + Len(s)
    <2>1. ASSUME NEW i \in 1 .. Len(ber) - offset
          PROVE  ber[offset + i] = s[i]
      <3>1. i \in 1 .. Len(s)
        BY <1>1, <1>4, <1>5
      <3> QED
        BY <1>2, <1>4, <3>1
    <2> QED
      BY <1>4, <1>5, <2>1 DEF Ends
  <1>6. CASE ~(Len(ber) < offset + Len(s))
    <2>1. ASSUME NEW i \in 1 .. Len(s)
          PROVE  ber[offset + i] = s[i]
      <3>1. i \in 1 .. Len(ber) - offset
        BY <1>1, <1>4, <1>6
      <3> QED
        BY <1>2, <1>4, <3>1
    <2>2. ASSUME NEW i \in 1 .. Len(ber) - (offset + Len(s))
          PROVE  ber[(offset + Len(s)) + i] = t[i]
      <3>1. Len(s) + i \in 1 .. Len(ber) - offset /\ i \in 1 .. Len(t)
        BY <1>1, <1>4, <1>6
      <3>2. ber[offset + (Len(s) + i)] = t[i]
        BY <1>3, <1>4, <3>1
      <3>3. offset + (Len(s) + i) = (offset + Len(s)) + i
        BY <1>1
      <3> QED
        BY <3>2, <3>3
    <2>3. Stands(ber, offset, s)
      BY <1>1, <1>6, <2>1 DEF Stands
    <2>4. Ends(ber, offset + Len(s), t)
      BY <1>1, <1>4, <1>6, <2>2 DEF Ends
    <2> QED
      BY <2>3, <2>4
  <1> QED
    BY <1>5, <1>6

\* The octets that stand somewhere are read there.
LEMMA SliceStands ==
  ASSUME NEW ber \in Seq(Octets), NEW offset \in Nat, NEW s \in Seq(Octets), Stands(ber, offset, s)
  PROVE  Slice(ber, offset, offset + Len(s)) = s
  <1> DEFINE slice == Slice(ber, offset, offset + Len(s))
  <1>1. offset + Len(s) <= Len(ber) /\ Len(s) \in Nat
    BY DEF Stands
  <1>2. slice \in Seq(Octets) /\ Len(slice) = Len(s)
    BY <1>1 DEF Slice
  <1>3. ASSUME NEW i \in 1 .. Len(s)
        PROVE  slice[i] = s[i]
    <2>1. slice[i] = ber[(offset + 1) + i - 1]
      BY <1>1 DEF Slice
    <2>2. (offset + 1) + i - 1 = offset + i
      OBVIOUS
    <2> QED
      BY <2>1, <2>2 DEF Stands
  <1> HIDE DEF slice
  <1>4. slice = s
    BY <1>2, <1>3, SeqEqual
  <1> QED
    BY <1>4 DEF slice

-----------------------------------------------------------------------------
(* A tag is read as it was written                                         *)

\* The octet at offset and those after it, as they are read.
LEMMA OctetStands ==
  ASSUME NEW ber \in Seq(Octets), NEW offset \in Nat, NEW s \in Seq(Octets), s # <<>>,
         Stands(ber, offset, s) \/ (Ends(ber, offset, s) /\ offset < Len(ber))
  PROVE  offset < Len(ber) /\ Octet(ber, offset) = s[1] /\ Octet(ber, offset) \in Octets
  <1>1. Len(s) \in Nat /\ Len(s) > 0 /\ Len(ber) \in Nat
    OBVIOUS
  <1>2. 1 \in 1 .. Len(s) /\ s[1] \in Octets
    BY <1>1
  <1>3. offset < Len(ber)
    BY <1>1 DEF Stands
  <1>4. 1 \in 1 .. Len(ber) - offset
    BY <1>1, <1>3
  <1>5. ber[offset + 1] = s[1]
    BY <1>2, <1>4 DEF Stands, Ends
  <1> QED
    BY <1>2, <1>3, <1>5 DEF Octet

\* A tag that stands in the data ends where it was written to end.
LEMMA TagStands ==
  ASSUME NEW ber \in Seq(Octets), NEW offset \in Nat, NEW tag, IsTag(tag),
         Stands(ber, offset, tag)
  PROVE  TagEnd(ber, offset) = offset + Len(tag)
  <1>1. tag \in Seq(Octets) /\ tag # <<>>
    BY DEF IsTag, Octets
  <1>2. Octet(ber, offset) = tag[1] /\ Len(tag) \in Nat /\ Len(tag) > 0
    BY <1>1, OctetStands
  <1>3. offset + Len(tag) <= Len(ber) /\ Len(ber) \in Nat
    BY DEF Stands
  <1>4. CASE tag[1] % 32 # 31
    BY <1>2, <1>4 DEF TagEnd, IsTag
  <1>5. CASE tag[1] % 32 = 31
    <2> DEFINE Last == {j \in offset + 1 .. Len(ber) - 1 : Octet(ber, j) < 128}
               last == offset + Len(tag) - 1
    <2>1. Len(tag) > 1 /\ tag[Len(tag)] < 128 /\ \A i \in 2 .. Len(tag) - 1 : tag[i] >= 128
      BY <1>5 DEF IsTag
    <2>2. ASSUME NEW j \in offset + 1 .. last
          PROVE  Octet(ber, j) = tag[j + 1 - offset]
      <3>1. j + 1 - offset \in 1 .. Len(tag) /\ offset + (j + 1 - offset) = j + 1
        BY <1>2
      <3> QED
        BY <3>1 DEF Octet, Stands
    <2>3. last \in Last
      <3>1. last \in offset + 1 .. last /\ last + 1 - offset = Len(tag)
        BY <1>2, <2>1
      <3>2. last \in offset + 1 .. Len(ber) - 1
        BY <1>2, <1>3, <2>1
      <3> QED
        BY <2>1, <2>2, <3>1, <3>2
    <2>4. ASSUME NEW j \in Last PROVE last <= j
      <3>1. SUFFICES ASSUME j < last PROVE FALSE
        BY <1>2
      <3>2. j \in offset + 1 .. last /\ j + 1 - offset \in 2 .. Len(tag) - 1
        BY <1>2, <3>1
      <3>3. Octet(ber, j) = tag[j + 1 - offset] /\ tag[j + 1 - offset] >= 128
        BY <2>1, <2>2, <3>2
      <3>4. tag[j + 1 - offset] \in Nat
        BY <1>1, <1>2, <3>2, Octet255
      <3> QED
        BY <3>3, <3>4
    <2>5. LastOfTag(ber, offset) = last
      <3>1. LastOfTag(ber, offset) = IF Last = {} THEN Len(ber)
                                     ELSE CHOOSE j \in Last : \A k \in Last : j <= k
        BY DEF LastOfTag
      <3>2. \A j \in Last : (\A k \in Last : j <= k) => j = last
        <4>1. \A j \in Last : j <= last /\ last <= j => j = last
          BY <1>2
        <4> QED
          BY <2>3, <2>4, <4>1
      <3> HIDE DEF Last, last
      <3> QED
        BY <2>3, <2>4, <3>1, <3>2, Zenon
    <2> QED
      BY <1>2, <1>5, <2>5 DEF TagEnd
  <1> QED
    BY <1>4, <1>5

\* Where the data ends within a tag, no length is read after it.
LEMMA TagEnds ==
  ASSUME NEW ber \in Seq(Octets), NEW offset \in Nat, NEW tag, IsTag(tag),
         Ends(ber, offset, tag)
  PROVE  ReadHead(ber, offset) = Panic
  <1>1. tag \in Seq(Octets) /\ tag # <<>>
    BY DEF IsTag, Octets
  <1>2. offset <= Len(ber) /\ Len(ber) < offset + Len(tag) /\ Len(ber) \in Nat /\ Len(tag) \in Nat
    BY <1>1 DEF Ends
  <1>3. CASE offset = Len(ber)
    <2>1. ~Has(ber, offset)
      BY <1>2, <1>3 DEF Has
    <2> QED
      BY <2>1 DEF ReadHead, HeadAfter
  <1>4. CASE offset # Len(ber)
    <2>1. offset < Len(ber)
      BY <1>2, <1>4
    <2>2. Octet(ber, offset) = tag[1]
      BY <1>1, <2>1, OctetStands
    <2>3. /\ tag[1] % 32 = 31
          /\ \A i \in 2 .. Len(tag) - 1 : tag[i] >= 128
      <3>1. \A n \in Nat : Len(ber) < offset + n => n # 1
        BY <1>2, <2>1
      <3>2. Len(tag) # 1
        BY <1>2, <3>1, Zenon
      <3> QED
        BY <3>2, Zenon DEF IsTag
    <2> DEFINE Last == {j \in offset + 1 .. Len(ber) - 1 : Octet(ber, j) < 128}
    <2>4. ASSUME NEW j \in Last PROVE FALSE
      <3>1. j + 1 - offset \in 1 .. Len(ber) - offset /\ offset + (j + 1 - offset) = j + 1
        OBVIOUS
      <3>2. Octet(ber, j) = tag[j + 1 - offset]
        BY <3>1 DEF Octet, Ends
      <3>3. j + 1 - offset \in 2 .. Len(tag) - 1
        BY <1>2
      <3>4. tag[j + 1 - offset] \in Octets
        BY <1>1, <1>2, <3>3
      <3>5. tag[j + 1 - offset] >= 128 /\ tag[j + 1 - offset] \in Nat
        BY <2>3, <3>3, <3>4, Octet255
      <3> QED
        BY <3>2, <3>5
    <2>5. Last = {}
      BY <2>4
    <2>6. LastOfTag(ber, offset) = Len(ber)
      BY <2>5 DEF LastOfTag
    <2>7. TagEnd(ber, offset) = Len(ber) + 1
      BY <2>2, <2>3, <2>6 DEF TagEnd
    <2>8. ~Has(ber, TagEnd(ber, offset))
      BY <1>2, <2>7 DEF Has
    <2>9. ReadLength(ber, TagEnd(ber, offset)) = Panic
      BY <2>8, Zenon DEF ReadLength
    <2>10. Has(ber, offset)
      BY <2>1 DEF Has
    <2> QED
      BY <2>9, <2>10, Kinds, Zenon DEF ReadHead, HeadAfter
  <1> QED
    BY <1>3, <1>4

-----------------------------------------------------------------------------
(* A length is read as it was written                                      *)

\* A length of that many octets is written without the sign bit.
IsLength(n) == n \in Nat /\ n <= 2147483647

\* A length in the octets that follow a first one, which says how many.
LongLength(l, n) ==
  \E octets \in Seq(Octets) :
    /\ Len(octets) \in 1 .. 4 /\ l = <<128 + Len(octets)>> \o octets
    /\ octets[1] # 0 /\ (Len(octets) = 4 => octets[1] < 128)
    /\ Base256(octets) = n

\* A number of up to four octets, taken apart and put together.
AreDigits(n, a, b, c, d) ==
  /\ d = n % 256 /\ c = (n \div 256) % 256 /\ b = (n \div 65536) % 256
  /\ a = n \div 16777216 /\ a < 128
  /\ a * 16777216 + b * 65536 + c * 256 + d = n
  /\ n < 65536 => c = n \div 256 /\ c * 256 + d = n
  /\ n < 16777216 => b = n \div 65536 /\ b * 65536 + c * 256 + d = n
  /\ n >= 256 /\ n < 65536 => c # 0
  /\ n >= 65536 /\ n < 16777216 => b # 0
  /\ n >= 16777216 => a # 0

\* A length has four digits in base 256, as far as the code reads them.
LEMMA Digits ==
  ASSUME NEW n, IsLength(n)
  PROVE  \E a, b, c, d \in Octets : AreDigits(n, a, b, c, d)
  <1> DEFINE d == n % 256
             c == (n \div 256) % 256
             b == (n \div 65536) % 256
  <1>1. PICK q \in Nat, p \in Nat, a \in Nat :
          q = n \div 256 /\ p = n \div 65536 /\ a = n \div 16777216
    BY DEF IsLength
  <1>2. /\ p = q \div 256 /\ a = p \div 256
    BY <1>1 DEF IsLength
  <1>3. /\ d \in Nat /\ d < 256 /\ d = n - 256 * q
        /\ c \in Nat /\ c < 256 /\ c = q - 256 * p
        /\ b \in Nat /\ b < 256 /\ b = p - 256 * a
    BY <1>1, <1>2 DEF IsLength
  <1>4. a < 128
    BY <1>1 DEF IsLength
  <1> HIDE DEF b, c, d
  <1>5. a * 16777216 + b * 65536 + c * 256 + d = n
    BY <1>3 DEF IsLength
  <1>6. n < 65536 => p = 0
    BY <1>1 DEF IsLength
  <1>7. n < 16777216 => a = 0
    BY <1>1 DEF IsLength
  <1>8. n < 65536 => c = n \div 256 /\ c * 256 + d = n
    BY <1>1, <1>3, <1>6 DEF IsLength
  <1>9. n < 16777216 => b = n \div 65536 /\ b * 65536 + c * 256 + d = n
    BY <1>1, <1>3, <1>7 DEF IsLength
  <1>10. n >= 256 /\ n < 65536 => c # 0
    BY <1>3, <1>8 DEF IsLength
  <1>11. n >= 16777216 => a # 0
    BY <1>3, <1>5 DEF IsLength
  <1>12. n >= 65536 /\ n < 16777216 => b # 0
    BY <1>3, <1>9 DEF IsLength
  <1>13. d = n % 256 /\ c = (n \div 256) % 256 /\ b = (n \div 65536) % 256
    BY DEF b, c, d
  <1>14. AreDigits(n, a, b, c, d)
    BY <1>1, <1>4, <1>5, <1>8, <1>9, <1>10, <1>11, <1>12, <1>13 DEF AreDigits
  <1>15. a \in Octets /\ b \in Octets /\ c \in Octets /\ d \in Octets
    BY <1>3, <1>4, Octet255
  <1> QED
    BY <1>14, <1>15

\* What one to four octets stand for.
LEMMA Base256Of ==
  /\ \A a \in Nat : Base256(<<a>>) = a
  /\ \A a, b \in Nat : Base256(<<a, b>>) = a * 256 + b
  /\ \A a, b, c \in Nat : Base256(<<a, b, c>>) = a * 65536 + b * 256 + c
  /\ \A a, b, c, d \in Nat : Base256(<<a, b, c, d>>) = a * 16777216 + b * 65536 + c * 256 + d
  <1>1. ASSUME NEW a \in Nat PROVE Base256(<<a>>) = a
    BY DEF Base256, Weights
  <1>2. ASSUME NEW a \in Nat, NEW b \in Nat PROVE Base256(<<a, b>>) = a * 256 + b
    BY DEF Base256, Weights
  <1>3. ASSUME NEW a \in Nat, NEW b \in Nat, NEW c \in Nat
        PROVE  Base256(<<a, b, c>>) = a * 65536 + b * 256 + c
    BY DEF Base256, Weights
  <1>4. ASSUME NEW a \in Nat, NEW b \in Nat, NEW c \in Nat, NEW d \in Nat
        PROVE  Base256(<<a, b, c, d>>) = a * 16777216 + b * 65536 + c * 256 + d
    BY DEF Base256, Weights
  <1> QED
    BY <1>1, <1>2, <1>3, <1>4

LEMMA LongLengthOf ==
  ASSUME NEW octets \in Seq(Octets), NEW k \in 1 .. 4, Len(octets) = k,
         octets[1] # 0, k = 4 => octets[1] < 128
  PROVE  LongLength(<<128 + k>> \o octets, Base256(octets))
  BY DEF LongLength

\* One of each size.
LEMMA LongLength1 ==
  ASSUME NEW a \in Octets, a # 0
  PROVE  LongLength(<<129, a>>, Base256(<<a>>))
  <1>1. <<129, a>> = <<128 + 1>> \o <<a>>
    OBVIOUS
  <1> DEFINE octets == <<a>>
  <1>2. octets \in Seq(Octets) /\ Len(octets) = 1 /\ octets[1] = a
    OBVIOUS
  <1> HIDE DEF octets
  <1>3. LongLength(<<128 + 1>> \o octets, Base256(octets))
    BY <1>2, LongLengthOf
  <1> QED
    BY <1>1, <1>3, Zenon DEF octets

LEMMA LongLength2 ==
  ASSUME NEW a \in Octets, NEW b \in Octets, a # 0
  PROVE  LongLength(<<130, a, b>>, Base256(<<a, b>>))
  <1>1. <<130, a, b>> = <<128 + 2>> \o <<a, b>>
    OBVIOUS
  <1> DEFINE octets == <<a, b>>
  <1>2. octets \in Seq(Octets) /\ Len(octets) = 2 /\ octets[1] = a
    OBVIOUS
  <1> HIDE DEF octets
  <1>3. LongLength(<<128 + 2>> \o octets, Base256(octets))
    BY <1>2, LongLengthOf
  <1> QED
    BY <1>1, <1>3, Zenon DEF octets

LEMMA LongLength3 ==
  ASSUME NEW a \in Octets, NEW b \in Octets, NEW c \in Octets, a # 0
  PROVE  LongLength(<<131, a, b, c>>, Base256(<<a, b, c>>))
  <1>1. <<131, a, b, c>> = <<128 + 3>> \o <<a, b, c>>
    OBVIOUS
  <1> DEFINE octets == <<a, b, c>>
  <1>2. octets \in Seq(Octets) /\ Len(octets) = 3 /\ octets[1] = a
    OBVIOUS
  <1> HIDE DEF octets
  <1>3. LongLength(<<128 + 3>> \o octets, Base256(octets))
    BY <1>2, LongLengthOf
  <1> QED
    BY <1>1, <1>3, Zenon DEF octets

LEMMA LongLength4 ==
  ASSUME NEW a \in Octets, NEW b \in Octets, NEW c \in Octets, NEW d \in Octets, a # 0, a < 128
  PROVE  LongLength(<<132, a, b, c, d>>, Base256(<<a, b, c, d>>))
  <1>1. <<132, a, b, c, d>> = <<128 + 4>> \o <<a, b, c, d>>
    OBVIOUS
  <1> DEFINE octets == <<a, b, c, d>>
  <1>2. octets \in Seq(Octets) /\ Len(octets) = 4 /\ octets[1] = a
    OBVIOUS
  <1> HIDE DEF octets
  <1>3. LongLength(<<128 + 4>> \o octets, Base256(octets))
    BY <1>2, LongLengthOf
  <1> QED
    BY <1>1, <1>3, Zenon DEF octets

\* Every length written has one of the two forms.
LEMMA LengthForms ==
  ASSUME NEW n, IsLength(n), NEW l \in UnpaddedLengths(n)
  PROVE  (n < 128 /\ l = <<n>>) \/ LongLength(l, n)
  <1>0. n \in Nat
    BY DEF IsLength
  <1>1. CASE l = <<129, n>> /\ n > 0 /\ n < 256
    <2>1. n \in Octets /\ n # 0
      BY <1>0, <1>1, Octet255
    <2>2. LongLength(<<129, n>>, Base256(<<n>>)) /\ Base256(<<n>>) = n
      BY <1>0, <2>1, LongLength1, Base256Of
    <2> QED
      BY <1>1, <2>2, Zenon
  <1> PICK a, b, c, d \in Octets : AreDigits(n, a, b, c, d)
    BY Digits
  <1> /\ a \in Nat /\ b \in Nat /\ c \in Nat /\ d \in Nat
    BY Octet255
  <1>2. CASE l = DerLength(n) /\ n >= 256 /\ n < 65536
    <2>1. l = <<130, c, d>> /\ c # 0 /\ c * 256 + d = n
      BY <1>0, <1>2 DEF AreDigits, DerLength
    <2>2. Base256(<<c, d>>) = n
      BY <2>1, Base256Of
    <2> QED
      BY <2>1, <2>2, LongLength2
  <1>3. CASE l = DerLength(n) /\ n >= 65536 /\ n < 16777216
    <2>1. l = <<131, b, c, d>> /\ b # 0 /\ b * 65536 + c * 256 + d = n
      BY <1>0, <1>3 DEF AreDigits, DerLength
    <2>2. Base256(<<b, c, d>>) = n
      BY <2>1, Base256Of
    <2> QED
      BY <2>1, <2>2, LongLength3
  <1>4. CASE l = DerLength(n) /\ n >= 16777216
    <2>1. l = <<132, a, b, c, d>> /\ a # 0 /\ a < 128
      BY <1>0, <1>4 DEF AreDigits, DerLength
    <2>2. Base256(<<a, b, c, d>>) = n
      BY Base256Of DEF AreDigits
    <2> QED
      BY <2>1, <2>2, LongLength4
  <1>5. l = DerLength(n) \/ (n \in 1 .. 127 /\ l = <<129, n>>)
    BY DEF UnpaddedLengths
  <1>6. CASE l = DerLength(n)
    <2>1. CASE n < 128
      BY <1>6, <2>1 DEF DerLength
    <2>2. CASE n >= 128 /\ n < 256
      <3>1. l = <<129, n>> /\ n > 0 /\ n < 256
        BY <1>0, <1>6, <2>2 DEF DerLength
      <3> QED
        BY <1>1, <3>1
    <2> QED
      BY <1>0, <1>2, <1>3, <1>4, <1>6, <2>1, <2>2
  <1>7. n \in 1 .. 127 => n > 0 /\ n < 256
    OBVIOUS
  <1> QED
    BY <1>1, <1>5, <1>6, <1>7

\* Sequences of one to four elements, element by element.
LEMMA Tuples ==
  ASSUME NEW S, NEW s \in Seq(S)
  PROVE  /\ Len(s) = 1 => s = <<s[1]>>
         /\ Len(s) = 2 => s = <<s[1], s[2]>>
         /\ Len(s) = 3 => s = <<s[1], s[2], s[3]>>
         /\ Len(s) = 4 => s = <<s[1], s[2], s[3], s[4]>>
  OBVIOUS

\* The octets written are those of X.690.
LEMMA EncodedLength ==
  ASSUME NEW n, IsLength(n)
  PROVE  EncodeLength(n) = DerLength(n)
  <1>0. PICK a, b, c, d \in Octets : AreDigits(n, a, b, c, d)
    BY Digits
  <1>1. n \in Nat /\ a \in Nat
    BY <1>0, Octet255 DEF IsLength
  <1> DEFINE Digit(j) == (n \div Weights[j]) % 256
             Last(k) == [i \in 1 .. k |-> Digit(k + 1 - i)]
  <1>2. Digit(1) = d /\ Digit(2) = c /\ Digit(3) = b /\ Digit(4) = a
    BY <1>0, <1>1 DEF AreDigits, Weights
  <1> HIDE DEF Digit
  <1>3. ASSUME NEW k \in 1 .. 4
        PROVE  /\ Last(k) \in Seq(Octets) /\ Len(Last(k)) = k
               /\ \A i \in 1 .. k : Last(k)[i] = Digit(k + 1 - i)
    <2>1. ASSUME NEW j \in 1 .. 4 PROVE Digit(j) \in Octets
      <3>1. j = 1 \/ j = 2 \/ j = 3 \/ j = 4
        OBVIOUS
      <3> QED
        BY <1>2, <3>1
    <2>2. \A i \in 1 .. k : k + 1 - i \in 1 .. 4
      OBVIOUS
    <2> QED
      BY <2>1, <2>2
  <1> HIDE DEF Last
  <1>4. /\ Last(1) = <<d>> /\ Last(2) = <<c, d>>
        /\ Last(3) = <<b, c, d>> /\ Last(4) = <<a, b, c, d>>
    <2>1. Last(1)[1] = d
      BY <1>2, <1>3
    <2>2. Last(2)[1] = c /\ Last(2)[2] = d
      BY <1>2, <1>3
    <2>3. Last(3)[1] = b /\ Last(3)[2] = c /\ Last(3)[3] = d
      BY <1>2, <1>3
    <2>4. Last(4)[1] = a /\ Last(4)[2] = b /\ Last(4)[3] = c /\ Last(4)[4] = d
      BY <1>2, <1>3
    <2>5. \A k \in 1 .. 4 : Last(k) \in Seq(Octets) /\ Len(Last(k)) = k
      BY <1>3
    <2>6. Last(1) = <<d>>
      BY <2>1, <2>5, Tuples
    <2>7. Last(2) = <<c, d>>
      BY <2>2, <2>5, Tuples
    <2>8. Last(3) = <<b, c, d>>
      BY <2>3, <2>5, Tuples
    <2>9. Last(4) = <<a, b, c, d>>
      BY <2>4, <2>5, Tuples
    <2> QED
      BY <2>6, <2>7, <2>8, <2>9
  <1>5. ASSUME ~(n < 128), NEW k, k = LengthLength(n)
        PROVE  EncodeLength(n) = <<128 + k>> \o Last(k)
    <2>1. Last(k) = [i \in 1 .. k |-> (n \div Weights[k + 1 - i]) % 256]
      BY Zenon DEF Last, Digit
    <2> QED
      BY <1>5, <2>1, Zenon DEF EncodeLength
  <1>6. CASE n < 128
    BY <1>6 DEF EncodeLength, DerLength
  <1>7. CASE n >= 128 /\ n < 256
    <2>1. LengthLength(n) = 1 /\ DerLength(n) = <<129, d>> /\ ~(n < 128)
      BY <1>0, <1>1, <1>7 DEF AreDigits, LengthLength, DerLength
    <2>2. EncodeLength(n) = <<128 + 1>> \o <<d>>
      BY <1>4, <1>5, <2>1
    <2>3. <<129, d>> = <<128 + 1>> \o <<d>>
      OBVIOUS
    <2> QED
      BY <2>1, <2>2, <2>3
  <1>8. CASE n >= 256 /\ n < 65536
    <2>1. LengthLength(n) = 2 /\ DerLength(n) = <<130, c, d>> /\ ~(n < 128)
      BY <1>0, <1>1, <1>8 DEF AreDigits, LengthLength, DerLength
    <2>2. EncodeLength(n) = <<128 + 2>> \o <<c, d>>
      BY <1>4, <1>5, <2>1
    <2>3. <<130, c, d>> = <<128 + 2>> \o <<c, d>>
      OBVIOUS
    <2> QED
      BY <2>1, <2>2, <2>3
  <1>9. CASE n >= 65536 /\ n < 16777216
    <2>1. LengthLength(n) = 3 /\ DerLength(n) = <<131, b, c, d>> /\ ~(n < 128)
      BY <1>0, <1>1, <1>9 DEF AreDigits, LengthLength, DerLength
    <2>2. EncodeLength(n) = <<128 + 3>> \o <<b, c, d>>
      BY <1>4, <1>5, <2>1
    <2>3. <<131, b, c, d>> = <<128 + 3>> \o <<b, c, d>>
      OBVIOUS
    <2> QED
      BY <2>1, <2>2, <2>3
  <1>10. CASE n >= 16777216
    <2>1. LengthLength(n) = 4 /\ DerLength(n) = <<132, a, b, c, d>> /\ ~(n < 128)
      BY <1>0, <1>1, <1>10 DEF AreDigits, LengthLength, DerLength
    <2>2. EncodeLength(n) = <<128 + 4>> \o <<a, b, c, d>>
      BY <1>4, <1>5, <2>1
    <2>3. <<132, a, b, c, d>> = <<128 + 4>> \o <<a, b, c, d>>
      OBVIOUS
    <2> QED
      BY <2>1, <2>2, <2>3
  <1> QED
    BY <1>1, <1>6, <1>7, <1>8, <1>9, <1>10

\* A length that is known.
KnownLength(n, start) == Length(n, start, FALSE)

\* The k octets of a long length.
IsLongLength(octets, k) ==
  /\ k \in 1 .. 4 /\ octets \in Seq(Octets) /\ Len(octets) = k
  /\ octets[1] # 0 /\ (k = 4 => octets[1] < 128)

\* The octets of a long length, where they stand or the data ends within them.
LEMMA LongLengthStands ==
  ASSUME NEW ber \in Seq(Octets), NEW offset \in Nat, NEW octets, NEW k \in 1 .. 4,
         IsLongLength(octets, k), Stands(ber, offset, octets)
  PROVE  ReadLongLength(ber, offset, k) = KnownLength(Base256(octets), offset + k)
  <1>1. /\ octets \in Seq(Octets) /\ k \in 1 .. 4 /\ Len(octets) = k /\ octets[1] # 0
        /\ k = 4 => octets[1] < 128
    BY DEF IsLongLength
  <1>2. ~(k > 4) /\ octets # <<>> /\ octets[1] \in Octets
    BY <1>1
  <1>3. k = 4 => ~(octets[1] > 127)
    BY <1>1, <1>2, Octet255
  <1>4. Has(ber, offset) /\ Octet(ber, offset) = octets[1]
    BY <1>1, <1>2, OctetStands DEF Has
  <1>5. Has(ber, offset + k - 1)
    BY <1>1 DEF Stands, Has
  <1>6. Slice(ber, offset, offset + k) = octets
    BY <1>1, SliceStands
  <1> QED
    BY <1>1, <1>2, <1>3, <1>4, <1>5, <1>6, Zenon DEF ReadLongLength, KnownLength

\* Where the data ends within those octets the code indexes past the end.
LEMMA LongLengthEnds ==
  ASSUME NEW ber \in Seq(Octets), NEW offset \in Nat, NEW octets, NEW k,
         IsLongLength(octets, k), Ends(ber, offset, octets)
  PROVE  ReadLongLength(ber, offset, k) = Panic
  <1>1. /\ octets \in Seq(Octets) /\ k \in 1 .. 4 /\ Len(octets) = k /\ octets[1] # 0
        /\ k = 4 => octets[1] < 128
    BY DEF IsLongLength
  <1>2. ~(k > 4) /\ octets # <<>> /\ octets[1] \in Octets
    BY <1>1
  <1>3. k = 4 => ~(octets[1] > 127)
    BY <1>1, <1>2, Octet255
  <1>4. CASE Has(ber, offset)
    <2>1. Octet(ber, offset) = octets[1]
      BY <1>1, <1>2, <1>4, OctetStands DEF Has
    <2>2. ~Has(ber, offset + k - 1)
      BY <1>1 DEF Ends, Has
    <2> QED
      BY <1>1, <1>2, <1>3, <1>4, <2>1, <2>2, Zenon DEF ReadLongLength
  <1>5. CASE ~Has(ber, offset)
    BY <1>1, <1>2, <1>5, Zenon DEF ReadLongLength
  <1> QED
    BY <1>4, <1>5

\* A length that stands in the data is read, whichever octets say it.
LEMMA LengthStands ==
  ASSUME NEW ber \in Seq(Octets), NEW offset \in Nat, NEW n, IsLength(n),
         NEW l \in UnpaddedLengths(n)
  PROVE  /\ l \in Seq(Octets) /\ l # <<>>
         /\ Stands(ber, offset, l) => ReadLength(ber, offset) = Length(n, offset + Len(l), FALSE)
         /\ Ends(ber, offset, l) => ReadLength(ber, offset) = Panic
  <1>1. ~Has(ber, offset) => ReadLength(ber, offset) = Panic
    BY Zenon DEF ReadLength
  <1>2. CASE n < 128 /\ l = <<n>>
    <2>1. IsShort(n)
      BY <1>2 DEF IsShort
    <2>2. n \in Nat /\ n \in Octets
      BY <1>2, Octet255 DEF IsLength
    <2>3. l \in Seq(Octets) /\ l # <<>> /\ Len(l) = 1 /\ l[1] = n
      BY <1>2, <2>2
    <2>4. ASSUME Stands(ber, offset, l)
          PROVE  ReadLength(ber, offset) = Length(n, offset + Len(l), FALSE)
      <3>1. Has(ber, offset) /\ n = Octet(ber, offset)
        BY <2>3, <2>4, OctetStands DEF Has
      <3> QED
        <4>1. ReadLength(ber, offset) = Length(n, offset + 1, FALSE)
          BY <3>1, <2>1, LengthCases, Zenon
        <4> QED
          BY <2>3, <4>1
    <2>5. Ends(ber, offset, l) => ~Has(ber, offset)
      BY <2>3 DEF Ends, Has
    <2> QED
      BY <1>1, <2>3, <2>4, <2>5
  <1>3. CASE LongLength(l, n)
    <2>1. PICK octets \in Seq(Octets) :
            /\ Len(octets) \in 1 .. 4 /\ l = <<128 + Len(octets)>> \o octets
            /\ octets[1] # 0 /\ (Len(octets) = 4 => octets[1] < 128)
            /\ Base256(octets) = n
      BY <1>3 DEF LongLength
    <2>2. PICK k \in 1 .. 4 : k = Len(octets)
      BY <2>1
    <2>3. Len(octets) = k /\ IsLongLength(octets, k)
      BY <2>1, <2>2 DEF IsLongLength
    <2> DEFINE head == <<128 + k>>
    <2>4. l = head \o octets
      BY <2>1, <2>2
    <2>5. head \in Seq(Octets) /\ Len(head) = 1 /\ head # <<>> /\ head[1] = 128 + k
      <3>1. 128 + k \in Octets
        BY Octet255
      <3> QED
        BY <3>1
    <2> HIDE DEF head
    <2>6. l \in Seq(Octets) /\ l # <<>> /\ Len(l) = 1 + k
      <3>1. head \o octets \in Seq(Octets) /\ Len(head \o octets) = Len(head) + Len(octets)
        BY <2>5, ConcatProperties
      <3>2. l \in Seq(Octets) /\ Len(l) = 1 + k
        BY <2>3, <2>4, <2>5, <3>1
      <3>3. 1 + k # 0
        OBVIOUS
      <3> QED
        BY <3>2, <3>3
    <2>7. IsLong(head[1], k)
      BY <2>5 DEF IsLong
    <2>8. ASSUME Has(ber, offset), IsLong(Octet(ber, offset), k)
          PROVE  ReadLength(ber, offset) = ReadLongLength(ber, offset + 1, k)
      BY <2>8, LengthCases, Zenon
    <2>9. ASSUME Stands(ber, offset, l)
          PROVE  ReadLength(ber, offset) = Length(n, offset + Len(l), FALSE)
      <3>1. Stands(ber, offset, head) /\ Stands(ber, offset + 1, octets)
        <4>1. Stands(ber, offset, head) /\ Stands(ber, offset + Len(head), octets)
          BY <2>4, <2>9, <2>5, StandsJoined
        <4> QED
          BY <2>5, <4>1
      <3>2. Has(ber, offset) /\ IsLong(Octet(ber, offset), k)
        BY <2>5, <2>7, <3>1, OctetStands DEF Has
      <3>3. ReadLongLength(ber, offset + 1, k) = KnownLength(n, offset + 1 + k)
        <4>1. offset + 1 \in Nat /\ Base256(octets) = n
          BY <2>1
        <4>2. PICK at \in Nat : at = offset + 1
          OBVIOUS
        <4>3. Stands(ber, at, octets)
          BY <3>1, <4>2, Zenon
        <4>4. ReadLongLength(ber, at, k) = KnownLength(Base256(octets), at + k)
          BY <2>3, <4>3, LongLengthStands
        <4> QED
          BY <4>1, <4>2, <4>4, Zenon
      <3>4. offset + 1 + k = offset + Len(l)
        BY <2>6
      <3> QED
        BY <2>8, <3>2, <3>3, <3>4 DEF KnownLength
    <2>10. ASSUME Ends(ber, offset, l)
          PROVE  ReadLength(ber, offset) = Panic
      <3>1. Ends(ber, offset, head) \/ (Stands(ber, offset, head) /\ Ends(ber, offset + 1, octets))
        <4>1. \/ Ends(ber, offset, head)
              \/ Stands(ber, offset, head) /\ Ends(ber, offset + Len(head), octets)
          BY <2>4, <2>10, <2>5, EndsJoined
        <4> QED
          BY <2>5, <4>1
      <3>2. CASE Ends(ber, offset, head)
        <4>1. ~Has(ber, offset)
          BY <2>5, <3>2 DEF Ends, Has
        <4> QED
          BY <1>1, <4>1
      <3>3. CASE Stands(ber, offset, head) /\ Ends(ber, offset + 1, octets)
        <4>1. Has(ber, offset) /\ IsLong(Octet(ber, offset), k)
          BY <2>5, <2>7, <3>3, OctetStands DEF Has
        <4>2. ReadLongLength(ber, offset + 1, k) = Panic
          <5>1. PICK at \in Nat : at = offset + 1
            OBVIOUS
          <5>2. Ends(ber, at, octets)
            BY <3>3, <5>1, Zenon
          <5>3. ReadLongLength(ber, at, k) = Panic
            BY <2>3, <5>2, LongLengthEnds, Zenon
          <5> QED
            BY <5>1, <5>3, Zenon
        <4> QED
          BY <2>8, <4>1, <4>2
      <3> QED
        BY <3>1, <3>2, <3>3
    <2> QED
      BY <2>6, <2>9, <2>10
  <1> QED
    BY <1>2, <1>3, LengthForms

-----------------------------------------------------------------------------
(* The head of an object is read as it was written                         *)

HeadOf(tag, start, end, indefinite) ==
  [kind |-> "head", tag |-> tag, constructed |-> Constructed(tag[1]),
   start |-> start, end |-> end, indefinite |-> indefinite]

DefiniteHeadAt(ber, offset, tag, start, end) ==
  ReadHead(ber, offset) = HeadOf(tag, start, end, FALSE)

IndefiniteHeadAt(ber, offset, tag, start) ==
  ReadHead(ber, offset) = HeadOf(tag, start, start, TRUE)

\* Every way to fail.
Failures == {Error, Panic}

LEMMA Joining ==
  ASSUME NEW s \in Seq(Octets), NEW t \in Seq(Octets)
  PROVE  s \o t \in Seq(Octets) /\ Len(s \o t) = Len(s) + Len(t) /\ Len(s) \in Nat /\ Len(t) \in Nat
  OBVIOUS

LEMMA OneOctet ==
  ASSUME NEW a \in Octets
  PROVE  <<a>> \in Seq(Octets) /\ Len(<<a>>) = 1 /\ <<a>> # <<>> /\ <<a>>[1] = a
  OBVIOUS

\* After its tag, a head is what its length makes it.
LEMMA HeadAfterTag ==
  ASSUME NEW ber \in Seq(Octets), NEW offset \in Nat, NEW tag, IsTag(tag),
         Stands(ber, offset, tag), NEW length, length = ReadLength(ber, offset + Len(tag))
  PROVE  ReadHead(ber, offset) =
           IF length.kind # "length" THEN length
           ELSE IF \/ length.start + length.n > Len(ber)
                   \/ length.indefinite /\ ~Constructed(tag[1])
                THEN Error
           ELSE HeadOf(tag, length.start, length.start + length.n, length.indefinite)
  <1>1. tag \in Seq(Octets) /\ tag # <<>>
    BY DEF IsTag, Octets
  <1>2. Has(ber, offset) /\ Octet(ber, offset) = tag[1]
    BY <1>1, OctetStands DEF Has
  <1>3. PICK end : end = offset + Len(tag)
    OBVIOUS
  <1>4. TagEnd(ber, offset) = end /\ Slice(ber, offset, end) = tag
    BY <1>1, <1>3, TagStands, SliceStands
  <1> QED
    BY <1>2, <1>3, <1>4, Zenon DEF ReadHead, HeadAfter, HeadOf

\* No length, no head.
LEMMA HeadFails ==
  ASSUME NEW ber \in Seq(Octets), NEW offset \in Nat, NEW tag, IsTag(tag),
         Stands(ber, offset, tag), ReadLength(ber, offset + Len(tag)) \in Failures
  PROVE  ReadHead(ber, offset) \in Failures
  BY HeadAfterTag, Kinds, Zenon DEF Failures

\* A head of known length, if the content fits.
LEMMA HeadReads ==
  ASSUME NEW ber \in Seq(Octets), NEW offset \in Nat, NEW tag, IsTag(tag),
         Stands(ber, offset, tag), NEW n \in Nat, NEW start \in Nat,
         ReadLength(ber, offset + Len(tag)) = Length(n, start, FALSE)
  PROVE  /\ start + n <= Len(ber) => ReadHead(ber, offset) = HeadOf(tag, start, start + n, FALSE)
         /\ start + n > Len(ber) => ReadHead(ber, offset) \in Failures
  <1>1. PICK length : length = ReadLength(ber, offset + Len(tag))
    OBVIOUS
  <1>2. /\ length.kind = "length" /\ length.n = n /\ length.start = start
        /\ length.indefinite = FALSE
    BY <1>1 DEF Length
  <1>3. ReadHead(ber, offset) =
          IF length.kind # "length" THEN length
          ELSE IF \/ length.start + length.n > Len(ber)
                  \/ length.indefinite /\ ~Constructed(tag[1])
               THEN Error
          ELSE HeadOf(tag, length.start, length.start + length.n, length.indefinite)
    BY <1>1, HeadAfterTag
  <1>4. start + n > Len(ber) => ReadHead(ber, offset) = Error
    BY <1>2, <1>3
  <1>5. start + n <= Len(ber) => ReadHead(ber, offset) = HeadOf(tag, start, start + n, FALSE)
    <2>1. HeadOf(tag, length.start, length.start + length.n, length.indefinite)
            = HeadOf(tag, start, start + n, FALSE)
      BY <1>2, Zenon
    <2>2. ~length.indefinite /\ (start + n <= Len(ber) => ~(length.start + length.n > Len(ber)))
      BY <1>2
    <2> QED
      BY <1>2, <1>3, <2>1, <2>2, Zenon
  <1> QED
    BY <1>4, <1>5 DEF Failures

\* A head of unknown length, if the object holds others.
LEMMA HeadReadsIndefinite ==
  ASSUME NEW ber \in Seq(Octets), NEW offset \in Nat, NEW tag, IsTag(tag),
         Stands(ber, offset, tag), Constructed(tag[1]), NEW start \in Nat, start <= Len(ber),
         ReadLength(ber, offset + Len(tag)) = Length(0, start, TRUE)
  PROVE  ReadHead(ber, offset) = HeadOf(tag, start, start, TRUE)
  <1>1. PICK length : length = ReadLength(ber, offset + Len(tag))
    OBVIOUS
  <1>2. /\ length.kind = "length" /\ length.n = 0 /\ length.start = start
        /\ length.indefinite = TRUE
    BY <1>1 DEF Length
  <1>3. ReadHead(ber, offset) =
          IF length.kind # "length" THEN length
          ELSE IF \/ length.start + length.n > Len(ber)
                  \/ length.indefinite /\ ~Constructed(tag[1])
               THEN Error
          ELSE HeadOf(tag, length.start, length.start + length.n, length.indefinite)
    BY <1>1, HeadAfterTag
  <1>4. length.start + length.n = start
    BY <1>2
  <1>5. HeadOf(tag, length.start, length.start + length.n, length.indefinite)
          = HeadOf(tag, start, start, TRUE)
    BY <1>2, <1>4, Zenon
  <1>6. ~(length.start + length.n > Len(ber))
    BY <1>4
  <1> QED
    BY <1>2, <1>3, <1>5, <1>6, Zenon

\* The head of the definite form, where it stands or the data ends within it.
LEMMA DefiniteHead ==
  ASSUME NEW ber \in Seq(Octets), NEW offset \in Nat, NEW tag, IsTag(tag),
         NEW n, IsLength(n), NEW l \in UnpaddedLengths(n),
         NEW start, start = offset + Len(tag \o l)
  PROVE  /\ tag \o l \in Seq(Octets)
         /\ Stands(ber, offset, tag \o l) =>
              /\ start + n <= Len(ber) =>
                   DefiniteHeadAt(ber, offset, tag, start, start + n)
              /\ start + n > Len(ber) => ReadHead(ber, offset) \in Failures
         /\ Ends(ber, offset, tag \o l) => ReadHead(ber, offset) \in Failures
  <1>1. tag \in Seq(Octets) /\ tag # <<>> /\ Len(tag) \in Nat /\ n \in Nat
    BY DEF IsTag, Octets, IsLength
  <1>2. PICK end \in Nat : end = offset + Len(tag)
    BY <1>1
  <1>3. /\ l \in Seq(Octets)
        /\ Stands(ber, end, l) => ReadLength(ber, end) = Length(n, end + Len(l), FALSE)
        /\ Ends(ber, end, l) => ReadLength(ber, end) = Panic
    <2>1. PICK at \in Nat : at = end
      BY <1>2
    <2>2. /\ l \in Seq(Octets) /\ l # <<>>
          /\ Stands(ber, at, l) => ReadLength(ber, at) = Length(n, at + Len(l), FALSE)
          /\ Ends(ber, at, l) => ReadLength(ber, at) = Panic
      BY LengthStands, Zenon
    <2> QED
      BY <2>1, <2>2, Zenon
  <1>4. tag \o l \in Seq(Octets) /\ start \in Nat /\ start = end + Len(l)
    <2>1. tag \o l \in Seq(Octets) /\ Len(tag \o l) = Len(tag) + Len(l) /\ Len(l) \in Nat
      BY <1>1, <1>3, Joining, Zenon
    <2> QED
      BY <1>1, <1>2, <2>1
  <1>5. ASSUME Stands(ber, offset, tag \o l)
        PROVE  /\ start + n <= Len(ber) =>
                    DefiniteHeadAt(ber, offset, tag, start, start + n)
               /\ start + n > Len(ber) => ReadHead(ber, offset) \in Failures
    <2>1. Stands(ber, offset, tag) /\ Stands(ber, end, l)
      BY <1>1, <1>2, <1>3, <1>5, StandsJoined
    <2>2. ReadLength(ber, offset + Len(tag)) = Length(n, start, FALSE)
      BY <1>2, <1>3, <1>4, <2>1
    <2> QED
      BY <1>1, <1>4, <2>1, <2>2, HeadReads DEF DefiniteHeadAt
  <1>6. ASSUME Ends(ber, offset, tag \o l)
        PROVE  ReadHead(ber, offset) \in Failures
    <2>1. Ends(ber, offset, tag) \/ (Stands(ber, offset, tag) /\ Ends(ber, end, l))
      BY <1>1, <1>2, <1>3, <1>6, EndsJoined
    <2>2. CASE Ends(ber, offset, tag)
      BY <2>2, TagEnds DEF Failures
    <2>3. CASE Stands(ber, offset, tag) /\ Ends(ber, end, l)
      <3>1. ReadLength(ber, offset + Len(tag)) \in Failures
        BY <1>2, <1>3, <2>3 DEF Failures
      <3> QED
        BY <2>3, <3>1, HeadFails
    <2> QED
      BY <2>1, <2>2, <2>3
  <1> QED
    BY <1>4, <1>5, <1>6

\* The length octet of the indefinite form.
IsUnknownLength(l) == l \in Seq(Octets) /\ l # <<>> /\ Len(l) = 1 /\ l[1] = 128

LEMMA UnknownLength == IsUnknownLength(<<128>>)
  <1>1. 128 \in Octets
    BY Octet255
  <1> QED
    BY <1>1, OneOctet DEF IsUnknownLength

\* The octet of an unknown length, where it stands or the data ends before it.
LEMMA UnknownLengthStands ==
  ASSUME NEW ber \in Seq(Octets), NEW offset \in Nat, NEW l, IsUnknownLength(l)
  PROVE  /\ Stands(ber, offset, l) =>
              /\ offset + 1 <= Len(ber)
              /\ ReadLength(ber, offset) = Length(0, offset + 1, TRUE)
         /\ Ends(ber, offset, l) => ReadLength(ber, offset) = Panic
  <1>1. l \in Seq(Octets) /\ l # <<>> /\ Len(l) = 1 /\ l[1] = 128
    BY DEF IsUnknownLength
  <1>2. ASSUME Stands(ber, offset, l)
        PROVE  /\ offset + 1 <= Len(ber)
               /\ ReadLength(ber, offset) = Length(0, offset + 1, TRUE)
    <2>1. IsUnknown(Octet(ber, offset))
      BY <1>1, <1>2, OctetStands DEF IsUnknown
    <2>2. Has(ber, offset)
      BY <1>1, <1>2, OctetStands DEF Has
    <2>3. ReadLength(ber, offset) = Length(0, offset + 1, TRUE)
      BY <2>1, <2>2, LengthCases, Zenon
    <2> QED
      BY <2>2, <2>3 DEF Has
  <1>3. ASSUME Ends(ber, offset, l)
        PROVE  ReadLength(ber, offset) = Panic
    <2>1. ~Has(ber, offset)
      BY <1>1, <1>3 DEF Ends, Has
    <2> QED
      BY <2>1, Zenon DEF ReadLength
  <1> QED
    BY <1>2, <1>3

\* The head of the indefinite form, where it stands or the data ends within it.
LEMMA IndefiniteHead ==
  ASSUME NEW ber \in Seq(Octets), NEW offset \in Nat, NEW tag, IsTag(tag),
         Constructed(tag[1]), NEW l, IsUnknownLength(l), NEW start, start = offset + Len(tag \o l)
  PROVE  /\ tag \o l \in Seq(Octets)
         /\ Stands(ber, offset, tag \o l) =>
              IndefiniteHeadAt(ber, offset, tag, start)
         /\ Ends(ber, offset, tag \o l) => ReadHead(ber, offset) \in Failures
  <1>1. tag \in Seq(Octets) /\ Len(tag) \in Nat /\ l \in Seq(Octets)
    BY DEF IsTag, Octets, IsUnknownLength
  <1>2. PICK end \in Nat : end = offset + Len(tag)
    BY <1>1
  <1>3. tag \o l \in Seq(Octets) /\ Len(tag \o l) = Len(tag) + Len(l)
    BY <1>1, Joining
  <1>4. start = end + 1 /\ start \in Nat
    BY <1>1, <1>2, <1>3 DEF IsUnknownLength
  <1>5. ASSUME Stands(ber, offset, tag \o l)
        PROVE  IndefiniteHeadAt(ber, offset, tag, start)
    <2>1. Stands(ber, offset, tag) /\ Stands(ber, end, l)
      BY <1>1, <1>2, <1>5, StandsJoined
    <2>2. ReadLength(ber, offset + Len(tag)) = Length(0, start, TRUE) /\ start <= Len(ber)
      BY <1>2, <1>4, <2>1, UnknownLengthStands
    <2> QED
      BY <1>4, <2>1, <2>2, HeadReadsIndefinite DEF IndefiniteHeadAt
  <1>6. ASSUME Ends(ber, offset, tag \o l)
        PROVE  ReadHead(ber, offset) \in Failures
    <2>1. Ends(ber, offset, tag) \/ (Stands(ber, offset, tag) /\ Ends(ber, end, l))
      BY <1>1, <1>2, <1>6, EndsJoined
    <2>2. CASE Ends(ber, offset, tag)
      BY <2>2, TagEnds DEF Failures
    <2>3. CASE Stands(ber, offset, tag) /\ Ends(ber, end, l)
      <3>1. ReadLength(ber, offset + Len(tag)) \in Failures
        BY <1>2, <2>3, UnknownLengthStands DEF Failures
      <3> QED
        BY <2>3, <3>1, HeadFails
    <2> QED
      BY <2>1, <2>2, <2>3
  <1> QED
    BY <1>3, <1>5, <1>6

-----------------------------------------------------------------------------
(* The loop over objects that are read as they were written                *)

Forms == {"definite", "indefinite"}

ObjectAt(ber, offset) == ReadObject(ber, offset, Reading(ber))

\* The run that begins at offset, in content of that form.
RunAt(ber, offset, end, form) == Reading(ber)[<<offset, end, form = "indefinite">>]

\* What follows an object in it.
RestAt(ber, next, end, form) ==
  IF form = "indefinite" /\ Termination(ber, next) = "error" THEN Error
  ELSE IF form = "indefinite" /\ Termination(ber, next) = "yes" THEN Content(<<>>, next)
  ELSE RunAt(ber, next, end, form)

\* The cases of ReadContent.
LEMMA RunCases ==
  ASSUME NEW ber \in Seq(Octets), NEW offset \in Nat, offset <= Len(ber),
         NEW end \in 0 .. Len(ber), NEW form \in Forms
  PROVE  RunAt(ber, offset, end, form) =
           IF offset >= end /\ form = "definite" THEN Content(<<>>, offset)
           ELSE IF ObjectAt(ber, offset).kind # "object" THEN ObjectAt(ber, offset)
           ELSE Joined(ObjectAt(ber, offset).der,
                       RestAt(ber, ObjectAt(ber, offset).next, end, form))
  <1>1. PICK flag \in BOOLEAN : flag <=> form = "indefinite"
    OBVIOUS
  <1>2. ~flag <=> form = "definite"
    BY <1>1 DEF Forms
  <1>3. offset \in 0 .. Len(ber)
    OBVIOUS
  <1>4. PICK read : read = Reading(ber)
    OBVIOUS
  <1>5. read[<<offset, end, flag>>] = ReadContent(ber, offset, end, flag, read)
    BY <1>3, <1>4, ReadingAnswers
  <1>6. \A next : RunAt(ber, next, end, form) = read[<<next, end, flag>>]
    BY <1>1, <1>4 DEF RunAt
  <1>7. PICK object : object = ReadObject(ber, offset, read)
    OBVIOUS
  <1>8. object = ObjectAt(ber, offset)
    BY <1>4, <1>7 DEF ObjectAt
  <1>9. ReadRest(ber, object.next, end, flag, read) = RestAt(ber, object.next, end, form)
    BY <1>1, <1>6, Zenon DEF ReadRest, RestAt
  <1>10. ReadContent(ber, offset, end, flag, read) =
           IF offset >= end /\ form = "definite" THEN Content(<<>>, offset)
           ELSE IF object.kind # "object" THEN object
           ELSE Joined(object.der, RestAt(ber, object.next, end, form))
    BY <1>2, <1>7, <1>9, Zenon DEF ReadContent
  <1> QED
    BY <1>5, <1>6, <1>8, <1>10, Zenon

\* An object that is read as it was written, wherever it stands, and is missed where
\* the data ends within it.  It does not look like a terminator.
Reads(x) ==
  /\ x.ber \in Seq(Octets) /\ x.der \in Seq(Octets) /\ Len(x.ber) >= 2 /\ x.ber[1] # 0
  /\ \A ber \in Seq(Octets), offset \in Nat :
       /\ Stands(ber, offset, x.ber) => ObjectAt(ber, offset) = Object(x.der, offset + Len(x.ber))
       /\ Ends(ber, offset, x.ber) => ObjectAt(ber, offset) \in Failures

\* Whatever comes of what is at next, the run from offset puts der before it.
GoesOn(ber, offset, next, end, form, der) ==
  /\ \A rest \in Seq(Octets) : \A last :
       RestAt(ber, next, end, form) = Content(rest, last) =>
         RunAt(ber, offset, end, form) = Content(der \o rest, last)
  /\ RestAt(ber, next, end, form) \in Failures => RunAt(ber, offset, end, form) \in Failures

\* Content that the loop reads as it was written, and goes on.
ReadsOn(content) ==
  /\ content.ber \in Seq(Octets) /\ content.der \in Seq(Octets)
  /\ \A ber \in Seq(Octets), offset \in Nat, form \in Forms : \A end \in 0 .. Len(ber) :
       /\ Stands(ber, offset, content.ber)
       /\ form = "definite" => offset + Len(content.ber) <= end
       => GoesOn(ber, offset, offset + Len(content.ber), end, form, content.der)
  /\ \A ber \in Seq(Octets), offset \in Nat : \A end \in 0 .. Len(ber) :
       Ends(ber, offset, content.ber) => RunAt(ber, offset, end, "indefinite") \in Failures

\* No terminator is seen where an object begins.
LEMMA NoTermination ==
  ASSUME NEW x, Reads(x), NEW ber \in Seq(Octets), NEW offset \in Nat
  PROVE  /\ Stands(ber, offset, x.ber) => Termination(ber, offset) = "no"
         /\ Ends(ber, offset, x.ber) => Termination(ber, offset) \in {"no", "error"}
  <1>1. PICK s \in Seq(Octets) : s = x.ber /\ Len(s) >= 2 /\ s[1] # 0
    BY DEF Reads
  <1>2. ASSUME Stands(ber, offset, s) \/ Ends(ber, offset, s), ~(Len(ber) - offset < 2)
        PROVE  Slice(ber, offset, offset + 2) # <<0, 0>>
    <2>1. s # <<>> /\ offset < Len(ber) /\ offset + 2 <= Len(ber)
      BY <1>1, <1>2
    <2>2. ber[offset + 1] = s[1]
      BY <1>1, <1>2, <2>1, OctetStands DEF Octet
    <2>3. Slice(ber, offset, offset + 2)[1] = ber[offset + 1]
      BY <2>1 DEF Slice
    <2>4. <<0, 0>>[1] = 0
      OBVIOUS
    <2> QED
      BY <1>1, <2>2, <2>3, <2>4
  <1>3. Stands(ber, offset, s) => ~(Len(ber) - offset < 2)
    BY <1>1 DEF Stands
  <1> QED
    BY <1>1, <1>2, <1>3, Zenon DEF Termination

\* A run that begins at an object reads it and goes on after it.
LEMMA RunReads ==
  ASSUME NEW x, Reads(x), NEW ber \in Seq(Octets), NEW offset \in Nat, NEW form \in Forms,
         NEW end \in 0 .. Len(ber), Stands(ber, offset, x.ber),
         NEW next, next = offset + Len(x.ber), form = "definite" => next <= end
  PROVE  RunAt(ber, offset, end, form) = Joined(x.der, RestAt(ber, next, end, form))
  <1>1. PICK s \in Seq(Octets) : s = x.ber /\ Len(s) >= 2
    BY DEF Reads
  <1>2. offset < next /\ next <= Len(ber) /\ Len(ber) \in Nat
    BY <1>1 DEF Stands
  <1>3. offset <= Len(ber)
    BY <1>1, <1>2
  <1>4. ~(offset >= end /\ form = "definite")
    BY <1>1, <1>2
  <1>5. PICK object : object = ObjectAt(ber, offset)
    OBVIOUS
  <1>6. object = Object(x.der, next)
    BY <1>5 DEF Reads
  <1>7. object.kind = "object" /\ object.der = x.der /\ object.next = next
    BY <1>6 DEF Object
  <1>8. RunAt(ber, offset, end, form) =
          IF offset >= end /\ form = "definite" THEN Content(<<>>, offset)
          ELSE IF object.kind # "object" THEN object
          ELSE Joined(object.der, RestAt(ber, object.next, end, form))
    BY <1>3, <1>5, RunCases
  <1> QED
    BY <1>4, <1>7, <1>8, Zenon

\* A run that meets the end of the data within an object fails.
LEMMA RunEnds ==
  ASSUME NEW x, Reads(x), NEW ber \in Seq(Octets), NEW offset \in Nat,
         NEW end \in 0 .. Len(ber), Ends(ber, offset, x.ber)
  PROVE  RunAt(ber, offset, end, "indefinite") \in Failures
  <1>1. PICK form \in Forms : form = "indefinite" /\ form # "definite"
    BY DEF Forms
  <1>2. ObjectAt(ber, offset) \in Failures
    BY DEF Reads
  <1>3. ObjectAt(ber, offset).kind # "object"
    BY <1>2, Kinds DEF Failures
  <1>4. offset <= Len(ber)
    BY DEF Ends
  <1>5. RunAt(ber, offset, end, form) = ObjectAt(ber, offset)
    BY <1>1, <1>3, <1>4, RunCases, Zenon
  <1> QED
    BY <1>1, <1>2, <1>5

\* After an object, the loop goes on with the object that stands there.
LEMMA RestReads ==
  ASSUME NEW x, Reads(x), NEW ber \in Seq(Octets), NEW offset \in Nat, NEW end, NEW form
  PROVE  /\ Stands(ber, offset, x.ber) =>
              RestAt(ber, offset, end, form) = RunAt(ber, offset, end, form)
         /\ Ends(ber, offset, x.ber) /\ RunAt(ber, offset, end, form) \in Failures =>
              RestAt(ber, offset, end, form) \in Failures
  <1>1. Termination(ber, offset) = "no" =>
          RestAt(ber, offset, end, form) = RunAt(ber, offset, end, form)
    BY DEF RestAt
  <1>2. Termination(ber, offset) = "error" =>
          RestAt(ber, offset, end, form) \in {Error, RunAt(ber, offset, end, form)}
    BY DEF RestAt
  <1>3. Error \in Failures
    BY DEF Failures
  <1>4. Stands(ber, offset, x.ber) => Termination(ber, offset) = "no"
    BY NoTermination
  <1>5. Ends(ber, offset, x.ber) => Termination(ber, offset) = "no" \/ Termination(ber, offset) = "error"
    BY NoTermination
  <1> QED
    BY <1>1, <1>2, <1>3, <1>4, <1>5, Zenon

LEMMA JoinedCases ==
  ASSUME NEW der, NEW rest
  PROVE  /\ \A d, next : rest = Content(d, next) => Joined(der, rest) = Content(der \o d, next)
         /\ rest \in Failures => Joined(der, rest) = rest
  <1>1. \A d, next : rest = Content(d, next) => rest.kind = "content" /\ rest.der = d /\ rest.next = next
    BY DEF Content
  <1>2. rest \in Failures => rest.kind # "content"
    BY Kinds DEF Failures
  <1> QED
    BY <1>1, <1>2, Zenon DEF Joined

\* An object, and whatever comes of what follows it.
LEMMA JoinedGoesOn ==
  ASSUME NEW ber, NEW offset, NEW next, NEW end, NEW form, NEW der,
         RunAt(ber, offset, end, form) = Joined(der, RestAt(ber, next, end, form))
  PROVE  GoesOn(ber, offset, next, end, form, der)
  <1>1. PICK run, rest : run = RunAt(ber, offset, end, form) /\ rest = RestAt(ber, next, end, form)
    OBVIOUS
  <1>2. run = Joined(der, rest)
    BY <1>1
  <1>3. ASSUME NEW d, NEW last, rest = Content(d, last)
        PROVE  run = Content(der \o d, last)
    BY <1>2, <1>3, JoinedCases
  <1>4. rest \in Failures => run \in Failures
    BY <1>2, JoinedCases
  <1> QED
    BY <1>1, <1>3, <1>4, Zenon DEF GoesOn

\* One object alone is content that is read on.
LEMMA ReadsOnce ==
  ASSUME NEW x, Reads(x), NEW content, content.ber = x.ber, content.der = x.der
  PROVE  ReadsOn(content)
  <1>1. content.ber \in Seq(Octets) /\ content.der \in Seq(Octets)
    BY DEF Reads
  <1>2. ASSUME NEW ber \in Seq(Octets), NEW offset \in Nat, NEW form \in Forms,
               NEW end \in 0 .. Len(ber), Stands(ber, offset, content.ber),
               form = "definite" => offset + Len(content.ber) <= end
        PROVE  GoesOn(ber, offset, offset + Len(content.ber), end, form, content.der)
    <2>1. PICK next : next = offset + Len(x.ber)
      OBVIOUS
    <2>2. RunAt(ber, offset, end, form) = Joined(x.der, RestAt(ber, next, end, form))
      BY <1>2, <2>1, RunReads
    <2>3. GoesOn(ber, offset, next, end, form, x.der)
      BY <2>2, JoinedGoesOn
    <2> QED
      BY <2>1, <2>3
  <1>3. ASSUME NEW ber \in Seq(Octets), NEW offset \in Nat, NEW end \in 0 .. Len(ber),
               Ends(ber, offset, content.ber)
        PROVE  RunAt(ber, offset, end, "indefinite") \in Failures
    BY <1>3, RunEnds
  <1> QED
    BY <1>1, <1>2, <1>3, Zenon DEF ReadsOn

LEMMA Associative ==
  ASSUME NEW r \in Seq(Octets), NEW s \in Seq(Octets), NEW t \in Seq(Octets)
  PROVE  (r \o s) \o t = r \o (s \o t)
  OBVIOUS

\* Two runs of objects, one after the other.
LEMMA GoesOnTwice ==
  ASSUME NEW ber, NEW offset, NEW middle, NEW next, NEW end, NEW form,
         NEW d \in Seq(Octets), NEW e \in Seq(Octets),
         GoesOn(ber, offset, middle, end, form, d), GoesOn(ber, middle, next, end, form, e),
         RestAt(ber, middle, end, form) = RunAt(ber, middle, end, form)
  PROVE  GoesOn(ber, offset, next, end, form, d \o e)
  <1>1. ASSUME NEW rest \in Seq(Octets), NEW last, RestAt(ber, next, end, form) = Content(rest, last)
        PROVE  RunAt(ber, offset, end, form) = Content((d \o e) \o rest, last)
    <2>1. RestAt(ber, middle, end, form) = Content(e \o rest, last)
      BY <1>1, Zenon DEF GoesOn
    <2>2. e \o rest \in Seq(Octets) /\ (d \o e) \o rest = d \o (e \o rest)
      BY Associative
    <2>3. RunAt(ber, offset, end, form) = Content(d \o (e \o rest), last)
      BY <2>1, <2>2, Zenon DEF GoesOn
    <2> QED
      BY <2>2, <2>3, Zenon
  <1>2. RestAt(ber, next, end, form) \in Failures => RunAt(ber, offset, end, form) \in Failures
    BY Zenon DEF GoesOn
  <1> QED
    BY <1>1, <1>2, Zenon DEF GoesOn

\* Content read on, and then an object.
LEMMA ReadsOnThen ==
  ASSUME NEW content, ReadsOn(content), NEW x, Reads(x)
  PROVE  ReadsOn(Then(content, x))
  <1>1. PICK s, t, d, e \in Seq(Octets) :
          s = content.ber /\ t = x.ber /\ d = content.der /\ e = x.der
    BY DEF ReadsOn, Reads
  <1>2. PICK both : both = Then(content, x)
    OBVIOUS
  <1>3. both.ber = s \o t /\ both.der = d \o e
    BY <1>1, <1>2 DEF Then
  <1>4. both.ber \in Seq(Octets) /\ both.der \in Seq(Octets)
    BY <1>3
  <1>5. ASSUME NEW ber \in Seq(Octets), NEW offset \in Nat, NEW form \in Forms,
               NEW end \in 0 .. Len(ber), Stands(ber, offset, both.ber),
               form = "definite" => offset + Len(both.ber) <= end
        PROVE  GoesOn(ber, offset, offset + Len(both.ber), end, form, both.der)
    <2>1. PICK middle \in Nat, next \in Nat : middle = offset + Len(s) /\ next = middle + Len(t)
      <3>1. Len(s) \in Nat /\ Len(t) \in Nat
        BY <1>1, Joining
      <3> QED
        BY <3>1
    <2>2. next = offset + Len(both.ber) /\ middle <= next
      <3>1. Len(both.ber) = Len(s) + Len(t) /\ Len(s) \in Nat /\ Len(t) \in Nat
        BY <1>3, Joining
      <3> QED
        BY <2>1, <3>1
    <2>3. Stands(ber, offset, s) /\ Stands(ber, middle, t)
      BY <1>3, <1>5, <2>1, StandsJoined
    <2>4. form = "definite" => next <= end /\ middle <= end
      BY <1>5, <2>2
    <2>5. RestAt(ber, middle, end, form) = RunAt(ber, middle, end, form)
      BY <1>1, <2>3, RestReads
    <2>6. GoesOn(ber, middle, next, end, form, e)
      <3>1. \A o \in Nat, f \in Forms, g \in 0 .. Len(ber) :
              Stands(ber, o, t) /\ (f = "definite" => o + Len(t) <= g) =>
                GoesOn(ber, o, o + Len(t), g, f, e)
        <4>1. ReadsOn(x)
          BY ReadsOnce
        <4> QED
          BY <1>1, <4>1, Zenon DEF ReadsOn
      <3> QED
        BY <2>1, <2>3, <2>4, <3>1
    <2>7. GoesOn(ber, offset, middle, end, form, d)
      <3>1. \A o \in Nat, f \in Forms, g \in 0 .. Len(ber) :
              Stands(ber, o, s) /\ (f = "definite" => o + Len(s) <= g) =>
                GoesOn(ber, o, o + Len(s), g, f, d)
        BY <1>1, Zenon DEF ReadsOn
      <3> QED
        BY <2>1, <2>3, <2>4, <3>1
    <2>8. GoesOn(ber, offset, next, end, form, d \o e)
      BY <2>5, <2>6, <2>7, GoesOnTwice
    <2> QED
      BY <1>3, <2>2, <2>8
  <1>6. ASSUME NEW ber \in Seq(Octets), NEW offset \in Nat, NEW end \in 0 .. Len(ber),
               Ends(ber, offset, both.ber)
        PROVE  RunAt(ber, offset, end, "indefinite") \in Failures
    <2>1. PICK middle \in Nat : middle = offset + Len(s)
      OBVIOUS
    <2>2. Ends(ber, offset, s) \/ (Stands(ber, offset, s) /\ Ends(ber, middle, t))
      BY <1>3, <1>6, <2>1, EndsJoined
    <2>3. CASE Ends(ber, offset, s)
      BY <1>1, <2>3, Zenon DEF ReadsOn
    <2>4. CASE Stands(ber, offset, s) /\ Ends(ber, middle, t)
      <3>1. PICK form \in Forms : form = "indefinite" /\ form # "definite"
        BY DEF Forms
      <3>2. RunAt(ber, middle, end, form) \in Failures
        BY <1>1, <2>4, <3>1, RunEnds
      <3>3. RestAt(ber, middle, end, form) \in Failures
        BY <1>1, <2>4, <3>2, RestReads
      <3>4. GoesOn(ber, offset, offset + Len(s), end, form, d)
        BY <1>1, <2>4, <3>1, Zenon DEF ReadsOn
      <3>5. RunAt(ber, offset, end, form) \in Failures
        BY <2>1, <3>3, <3>4, Zenon DEF GoesOn
      <3> QED
        BY <3>1, <3>5
    <2> QED
      BY <2>2, <2>3, <2>4
  <1>7. ReadsOn(both)
    BY <1>4, <1>5, <1>6, Zenon DEF ReadsOn
  <1> QED
    BY <1>2, <1>7

-----------------------------------------------------------------------------
(* An object around its content is read as it was written                  *)

\* No head, no object.
LEMMA ObjectFails ==
  ASSUME NEW ber, NEW offset, ReadHead(ber, offset) \in Failures
  PROVE  ObjectAt(ber, offset) \in Failures
  <1>1. ReadHead(ber, offset).kind # "head"
    BY Kinds DEF Failures
  <1> QED
    BY <1>1, Zenon DEF ObjectAt, ReadObject

\* An object of known length, from its head and its content.
LEMMA ObjectDefinite ==
  ASSUME NEW ber, NEW offset, NEW tag, NEW start, NEW end, NEW der,
         DefiniteHeadAt(ber, offset, tag, start, end),
         Constructed(tag[1]) => RunAt(ber, start, end, "definite") = Content(der, end),
         ~Constructed(tag[1]) => Slice(ber, start, end) = der
  PROVE  ObjectAt(ber, offset) = Object(EncodeTo(tag, der), end)
  <1>1. PICK head : head = ReadHead(ber, offset)
    OBVIOUS
  <1>2. /\ head.kind = "head" /\ head.tag = tag /\ (head.constructed <=> Constructed(tag[1]))
        /\ head.start = start /\ head.end = end /\ head.indefinite = FALSE
    BY <1>1 DEF DefiniteHeadAt, HeadOf
  <1>3. PICK read : read = Reading(ber)
    OBVIOUS
  <1>4. RunAt(ber, start, end, "definite") = read[<<start, end, FALSE>>]
    BY <1>3 DEF RunAt
  <1>5. PICK inner :
          inner = IF head.constructed THEN read[<<head.start, head.end, head.indefinite>>]
                  ELSE Content(Slice(ber, head.start, head.end), head.end)
    OBVIOUS
  <1>6. inner = Content(der, end)
    BY <1>2, <1>4, <1>5
  <1>7. inner.kind = "content" /\ inner.der = der
    BY <1>6 DEF Content
  <1> QED
    BY <1>1, <1>2, <1>3, <1>5, <1>7, Zenon DEF ObjectAt, ReadObject

\* An object of unknown length, from its head and its content.
LEMMA ObjectIndefinite ==
  ASSUME NEW ber, NEW offset, NEW tag, NEW start, Constructed(tag[1]),
         IndefiniteHeadAt(ber, offset, tag, start)
  PROVE  /\ \A der, last :
              RunAt(ber, start, start, "indefinite") = Content(der, last) =>
                ObjectAt(ber, offset) = Object(EncodeTo(tag, der), last + 2)
         /\ RunAt(ber, start, start, "indefinite") \in Failures =>
              ObjectAt(ber, offset) \in Failures
  <1>1. PICK head : head = ReadHead(ber, offset)
    OBVIOUS
  <1>2. /\ head.kind = "head" /\ head.tag = tag /\ head.constructed
        /\ head.start = start /\ head.end = start /\ head.indefinite = TRUE
    BY <1>1 DEF IndefiniteHeadAt, HeadOf
  <1>3. PICK read : read = Reading(ber)
    OBVIOUS
  <1>4. RunAt(ber, start, start, "indefinite") = read[<<start, start, TRUE>>]
    BY <1>3 DEF RunAt
  <1>5. PICK inner : inner = read[<<head.start, head.end, head.indefinite>>]
    OBVIOUS
  <1>6. inner = RunAt(ber, start, start, "indefinite")
    BY <1>2, <1>4, <1>5
  <1>7. ObjectAt(ber, offset) = IF inner.kind # "content" THEN inner
                                ELSE Object(EncodeTo(tag, inner.der), inner.next + 2)
    BY <1>1, <1>2, <1>3, <1>5, Zenon DEF ObjectAt, ReadObject
  <1>8. ASSUME NEW der, NEW last, inner = Content(der, last)
        PROVE  ObjectAt(ber, offset) = Object(EncodeTo(tag, der), last + 2)
    <2>1. inner.kind = "content" /\ inner.der = der /\ inner.next = last
      BY <1>8 DEF Content
    <2> QED
      BY <1>7, <2>1, Zenon
  <1>9. ASSUME inner \in Failures
        PROVE  ObjectAt(ber, offset) \in Failures
    <2>1. inner.kind # "content"
      BY <1>9, Kinds DEF Failures
    <2> QED
      BY <1>7, <1>9, <2>1, Zenon
  <1> QED
    BY <1>6, <1>8, <1>9, Zenon

LEMMA LengthOctets ==
  ASSUME NEW n, IsLength(n), NEW l \in UnpaddedLengths(n)
  PROVE  l \in Seq(Octets) /\ l # <<>>
  <1>1. <<>> \in Seq(Octets) /\ 0 \in Nat
    OBVIOUS
  <1> QED
    BY <1>1, LengthStands, Zenon

\* Whatever begins with a tag and a length begins like an object.
LEMMA Begins ==
  ASSUME NEW tag, IsTag(tag), NEW l \in Seq(Octets), l # <<>>, NEW body \in Seq(Octets),
         NEW whole1, whole1 = tag \o l \o body
  PROVE  /\ tag \o l \in Seq(Octets) /\ whole1 \in Seq(Octets)
         /\ Len(whole1) = Len(tag \o l) + Len(body)
         /\ Len(whole1) >= 2 /\ whole1[1] # 0
  <1>1. tag \in Seq(Octets) /\ tag # <<>> /\ tag[1] # 0
    BY DEF IsTag, Octets
  <1>2. Len(tag) >= 1 /\ Len(l) >= 1 /\ Len(tag) \in Nat /\ Len(l) \in Nat /\ Len(body) \in Nat
    BY <1>1
  <1>3. PICK head : head = tag \o l
    OBVIOUS
  <1>4. /\ head \in Seq(Octets) /\ Len(head) = Len(tag) + Len(l)
        /\ head[1] = tag[1]
    BY <1>1, <1>2, <1>3
  <1>5. whole1 \in Seq(Octets) /\ Len(whole1) = Len(head) + Len(body)
    BY <1>3, <1>4, Joining
  <1>6. whole1[1] = head[1]
    BY <1>2, <1>3, <1>4
  <1> QED
    BY <1>1, <1>2, <1>3, <1>4, <1>5, <1>6

\* Content that an object may hold: none, or some that is read on.
Held(content) == content = Empty \/ ReadsOn(content)

LEMMA HeldOctets ==
  ASSUME NEW content, Held(content)
  PROVE  content.ber \in Seq(Octets) /\ content.der \in Seq(Octets)
  <1>1. CASE content = Empty
    BY <1>1 DEF Empty
  <1>2. CASE ReadsOn(content)
    BY <1>2 DEF ReadsOn
  <1> QED
    BY <1>1, <1>2 DEF Held

\* The loop reads the content up to its end.
LEMMA HeldToEnd ==
  ASSUME NEW content, Held(content), NEW ber \in Seq(Octets), NEW start \in Nat,
         Stands(ber, start, content.ber), NEW end, end = start + Len(content.ber)
  PROVE  RunAt(ber, start, end, "definite") = Content(content.der, end)
  <1>1. PICK s, d \in Seq(Octets) : s = content.ber /\ d = content.der
    BY HeldOctets
  <1>2. end = start + Len(s) /\ end \in 0 .. Len(ber) /\ start <= Len(ber) /\ end \in Nat
    BY <1>1 DEF Stands
  <1>3. PICK form \in Forms : form = "definite"
    BY DEF Forms
  <1>4. RunAt(ber, end, end, form) = Content(<<>>, end)
    <2>1. end <= Len(ber) /\ end >= end
      BY <1>2
    <2> QED
      BY <1>2, <1>3, <2>1, RunCases, Zenon
  <1>5. CASE content = Empty
    <2>1. s = <<>> /\ d = <<>>
      BY <1>1, <1>5 DEF Empty
    <2>2. end = start
      BY <1>2, <2>1
    <2> QED
      BY <1>1, <1>3, <1>4, <2>1, <2>2
  <1>6. CASE ReadsOn(content)
    <2>1. \A o \in Nat, f \in Forms, g \in 0 .. Len(ber) :
            Stands(ber, o, s) /\ (f = "definite" => o + Len(s) <= g) =>
              GoesOn(ber, o, o + Len(s), g, f, d)
      BY <1>1, <1>6, Zenon DEF ReadsOn
    <2>2. GoesOn(ber, start, end, end, form, d)
      BY <1>1, <1>2, <2>1
    <2>3. RestAt(ber, end, end, form) = RunAt(ber, end, end, form)
      BY <1>3 DEF RestAt
    <2>4. <<>> \in Seq(Octets) /\ d \o <<>> = d
      OBVIOUS
    <2>5. RunAt(ber, start, end, form) = Content(d \o <<>>, end)
      BY <1>4, <2>2, <2>3, <2>4, Zenon DEF GoesOn
    <2> QED
      BY <1>1, <1>3, <2>4, <2>5
  <1> QED
    BY <1>5, <1>6 DEF Held

\* Octets that are read as d in an object of that tag.
ReadIn(tag, s, d) ==
  \A ber \in Seq(Octets), start \in Nat, end \in Nat :
    Stands(ber, start, s) /\ end = start + Len(s) =>
      /\ Constructed(tag[1]) => RunAt(ber, start, end, "definite") = Content(d, end)
      /\ ~Constructed(tag[1]) => Slice(ber, start, end) = d

\* The octets of a primitive are its content.
LEMMA PrimitiveIn ==
  ASSUME NEW tag, ~Constructed(tag[1]), NEW s \in Seq(Octets)
  PROVE  ReadIn(tag, s, s)
  BY SliceStands, Zenon DEF ReadIn

\* What holds others is what its loop reads.
LEMMA HeldIn ==
  ASSUME NEW tag, Constructed(tag[1]), NEW content, Held(content)
  PROVE  ReadIn(tag, content.ber, content.der)
  BY HeldToEnd, Zenon DEF ReadIn

\* An object's octets, its tag and length in head.
InDefiniteForm(tag, head, s, d) ==
  /\ IsTag(tag) /\ s \in Seq(Octets) /\ head \in Seq(Octets) /\ ReadIn(tag, s, d)
  /\ IsLength(Len(s)) /\ \E l \in UnpaddedLengths(Len(s)) : head = tag \o l

\* An object in the definite form, where it stands
LEMMA DefiniteStands ==
  ASSUME NEW tag, NEW head, NEW s, NEW d, InDefiniteForm(tag, head, s, d),
         NEW ber \in Seq(Octets), NEW offset \in Nat, Stands(ber, offset, head \o s)
  PROVE  ObjectAt(ber, offset) = Object(EncodeTo(tag, d), offset + Len(head \o s))
  <1>1. s \in Seq(Octets) /\ head \in Seq(Octets)
    BY DEF InDefiniteForm
  <1>2. PICK start \in Nat, end \in Nat : start = offset + Len(head) /\ end = start + Len(s)
    BY <1>1
  <1>3. Stands(ber, offset, head) /\ Stands(ber, start, s)
    BY <1>1, <1>2, StandsJoined
  <1>4. end <= Len(ber)
    BY <1>2, <1>3 DEF Stands
  <1>5. end = offset + Len(head \o s)
    BY <1>1, <1>2, Joining
  <1>6. DefiniteHeadAt(ber, offset, tag, start, end)
    <2>1. PICK n, l : n = Len(s) /\ IsLength(n) /\ l \in UnpaddedLengths(n) /\ head = tag \o l
      BY DEF InDefiniteForm
    <2>2. IsTag(tag) /\ start + n <= Len(ber)
      BY <1>2, <1>4, <2>1 DEF InDefiniteForm
    <2>3. DefiniteHeadAt(ber, offset, tag, start, start + n)
      BY <1>2, <1>3, <2>1, <2>2, DefiniteHead
    <2> QED
      BY <1>2, <2>1, <2>3
  <1>7. /\ Constructed(tag[1]) => RunAt(ber, start, end, "definite") = Content(d, end)
        /\ ~Constructed(tag[1]) => Slice(ber, start, end) = d
    BY <1>2, <1>3, Zenon DEF InDefiniteForm, ReadIn
  <1>8. ObjectAt(ber, offset) = Object(EncodeTo(tag, d), end)
    BY <1>6, <1>7, ObjectDefinite
  <1> QED
    BY <1>5, <1>8, Zenon

\* or the data ends within it.
LEMMA DefiniteEnds ==
  ASSUME NEW tag, NEW head, NEW s, NEW d, InDefiniteForm(tag, head, s, d),
         NEW ber \in Seq(Octets), NEW offset \in Nat, Ends(ber, offset, head \o s)
  PROVE  ObjectAt(ber, offset) \in Failures
  <1>1. IsTag(tag) /\ s \in Seq(Octets) /\ head \in Seq(Octets)
    BY DEF InDefiniteForm
  <1>2. PICK start \in Nat : start = offset + Len(head)
    BY <1>1
  <1>3. PICK n, l : n = Len(s) /\ IsLength(n) /\ l \in UnpaddedLengths(n) /\ head = tag \o l
    BY DEF InDefiniteForm
  <1>4. Ends(ber, offset, head) \/ (Stands(ber, offset, head) /\ Ends(ber, start, s))
    BY <1>1, <1>2, EndsJoined
  <1>5. Ends(ber, start, s) => start + n > Len(ber)
    BY <1>3 DEF Ends
  <1>6. ReadHead(ber, offset) \in Failures
    BY <1>1, <1>2, <1>3, <1>4, <1>5, DefiniteHead
  <1> QED
    BY <1>6, ObjectFails

\* The DER of an object.
LEMMA DerOctets ==
  ASSUME NEW tag, IsTag(tag), NEW d \in Seq(Octets), IsLength(Len(d))
  PROVE  /\ tag \o DerLength(Len(d)) \o d \in Seq(Octets)
         /\ EncodeTo(tag, d) = tag \o DerLength(Len(d)) \o d
  <1>1. PICK k : k = DerLength(Len(d))
    OBVIOUS
  <1>2. k \in Seq(Octets) /\ k # <<>>
    <2>1. k \in UnpaddedLengths(Len(d))
      BY <1>1 DEF UnpaddedLengths
    <2> QED
      BY <2>1, LengthOctets, Zenon
  <1>3. PICK der : der = tag \o k \o d
    OBVIOUS
  <1>4. der \in Seq(Octets)
    BY <1>2, <1>3, Begins, Zenon
  <1>5. EncodeLength(Len(d)) = k
    BY <1>1, EncodedLength, Zenon
  <1> QED
    BY <1>1, <1>3, <1>4, <1>5, Zenon DEF EncodeTo

\* An object in the definite form.
LEMMA DefiniteReads ==
  ASSUME NEW tag, IsTag(tag), NEW s \in Seq(Octets), NEW d \in Seq(Octets), ReadIn(tag, s, d),
         IsLength(Len(s)), IsLength(Len(d)), NEW l \in UnpaddedLengths(Len(s)),
         NEW x, x.ber = tag \o l \o s, x.der = tag \o DerLength(Len(d)) \o d
  PROVE  Reads(x)
  <1>2. l \in Seq(Octets) /\ l # <<>>
    BY LengthOctets, Zenon
  <1>4. PICK head : head = tag \o l
    OBVIOUS
  <1>5. head \in Seq(Octets) /\ x.ber \in Seq(Octets) /\ Len(x.ber) >= 2 /\ x.ber[1] # 0
    BY <1>2, <1>4, Begins, Zenon
  <1>6. x.ber = head \o s
    BY <1>4, Zenon
  <1>8. x.der \in Seq(Octets) /\ EncodeTo(tag, d) = x.der
    BY DerOctets, Zenon
  <1>11. InDefiniteForm(tag, head, s, d)
    BY <1>4, <1>5, Zenon DEF InDefiniteForm
  <1>9. ASSUME NEW ber \in Seq(Octets), NEW offset \in Nat, Stands(ber, offset, x.ber)
        PROVE  ObjectAt(ber, offset) = Object(x.der, offset + Len(x.ber))
    <2>1. Stands(ber, offset, head \o s)
      BY <1>6, <1>9, Zenon
    <2>2. ObjectAt(ber, offset) = Object(EncodeTo(tag, d), offset + Len(head \o s))
      BY <1>11, <2>1, DefiniteStands
    <2> QED
      BY <1>6, <1>8, <2>2, Zenon
  <1>10. ASSUME NEW ber \in Seq(Octets), NEW offset \in Nat, Ends(ber, offset, x.ber)
         PROVE  ObjectAt(ber, offset) \in Failures
    BY <1>6, <1>10, <1>11, DefiniteEnds, Zenon
  <1> QED
    BY <1>5, <1>8, <1>9, <1>10, Zenon DEF Reads

\* The octets that end the indefinite form.
IsTerminator(z) == z \in Seq(Octets) /\ Len(z) = 2 /\ z = <<0, 0>>

LEMMA Terminator == IsTerminator(<<0, 0>>)
  <1>1. 0 \in Octets
    BY Octet255
  <1> QED
    BY <1>1 DEF IsTerminator

\* A terminator, where it stands or the data ends within it.
LEMMA TerminatorStands ==
  ASSUME NEW ber \in Seq(Octets), NEW offset \in Nat, NEW z, IsTerminator(z)
  PROVE  /\ Stands(ber, offset, z) => Termination(ber, offset) = "yes"
         /\ Ends(ber, offset, z) => Termination(ber, offset) = "error"
  <1>1. z \in Seq(Octets) /\ Len(z) = 2
    BY DEF IsTerminator
  <1>2. ASSUME Stands(ber, offset, z)
        PROVE  Termination(ber, offset) = "yes"
    <2>1. ~(Len(ber) - offset < 2)
      BY <1>1, <1>2 DEF Stands
    <2>2. Slice(ber, offset, offset + 2) = z
      BY <1>1, <1>2, SliceStands
    <2>3. Slice(ber, offset, offset + 2) = <<0, 0>>
      BY <2>2, Zenon DEF IsTerminator
    <2> QED
      BY <2>1, <2>3, Zenon DEF Termination
  <1>3. ASSUME Ends(ber, offset, z)
        PROVE  Termination(ber, offset) = "error"
    <2>1. Len(ber) - offset < 2
      BY <1>1, <1>3 DEF Ends
    <2> QED
      BY <2>1, Zenon DEF Termination
  <1> QED
    BY <1>2, <1>3

\* The loop reads the content up to its terminator, and fails without it.
LEMMA ReadsToTerminator ==
  ASSUME NEW content, ReadsOn(content), NEW s, s = content.ber, NEW d, d = content.der,
         NEW z, IsTerminator(z), NEW ber \in Seq(Octets), NEW start \in Nat
  PROVE  /\ Stands(ber, start, s \o z) =>
              RunAt(ber, start, start, "indefinite") = Content(d, start + Len(s))
         /\ Ends(ber, start, s \o z) => RunAt(ber, start, start, "indefinite") \in Failures
  <1>1. s \in Seq(Octets) /\ d \in Seq(Octets) /\ z \in Seq(Octets)
    BY DEF ReadsOn, IsTerminator
  <1>2. PICK middle \in Nat : middle = start + Len(s)
    BY <1>1
  <1>3. PICK form \in Forms : form = "indefinite" /\ form # "definite"
    BY DEF Forms
  <1>4. ASSUME Stands(ber, start, s), start <= Len(ber)
        PROVE  GoesOn(ber, start, middle, start, form, d)
    <2>1. \A o \in Nat, f \in Forms, g \in 0 .. Len(ber) :
            Stands(ber, o, s) /\ (f = "definite" => o + Len(s) <= g) =>
              GoesOn(ber, o, o + Len(s), g, f, d)
      BY Zenon DEF ReadsOn
    <2>2. start \in 0 .. Len(ber)
      BY <1>4
    <2> QED
      BY <1>2, <1>3, <1>4, <2>1, <2>2
  <1>5. ASSUME Stands(ber, start, s \o z)
        PROVE  RunAt(ber, start, start, form) = Content(d, middle)
    <2>1. Stands(ber, start, s) /\ Stands(ber, middle, z)
      BY <1>1, <1>2, <1>5, StandsJoined
    <2>2. start <= Len(ber)
      BY <1>1, <2>1 DEF Stands
    <2>3. Termination(ber, middle) = "yes"
      BY <2>1, TerminatorStands
    <2>4. RestAt(ber, middle, start, form) = Content(<<>>, middle)
      BY <1>3, <2>3 DEF RestAt
    <2>5. <<>> \in Seq(Octets) /\ d \o <<>> = d
      BY <1>1
    <2>6. RunAt(ber, start, start, form) = Content(d \o <<>>, middle)
      BY <1>4, <2>1, <2>2, <2>4, <2>5, Zenon DEF GoesOn
    <2> QED
      BY <2>5, <2>6
  <1>6. ASSUME Ends(ber, start, s \o z)
        PROVE  RunAt(ber, start, start, form) \in Failures
    <2>1. Ends(ber, start, s) \/ (Stands(ber, start, s) /\ Ends(ber, middle, z))
      BY <1>1, <1>2, <1>6, EndsJoined
    <2>2. start <= Len(ber) /\ start \in 0 .. Len(ber)
      BY <1>6 DEF Ends
    <2>3. CASE Ends(ber, start, s)
      BY <1>3, <2>2, <2>3, Zenon DEF ReadsOn
    <2>4. CASE Stands(ber, start, s) /\ Ends(ber, middle, z)
      <3>1. Termination(ber, middle) = "error"
        BY <2>4, TerminatorStands
      <3>2. RestAt(ber, middle, start, form) \in Failures
        BY <1>3, <3>1 DEF RestAt, Failures
      <3> QED
        BY <1>4, <2>2, <2>4, <3>2, Zenon DEF GoesOn
    <2> QED
      BY <2>1, <2>3, <2>4
  <1> QED
    BY <1>2, <1>3, <1>5, <1>6

\* An object's octets, its tag and length in head, its content and terminator in body.
InIndefiniteForm(tag, head, s, body) ==
  /\ IsTag(tag) /\ Constructed(tag[1])
  /\ \E l : IsUnknownLength(l) /\ head = tag \o l
  /\ \E z : IsTerminator(z) /\ body = s \o z

LEMMA IndefiniteOctets ==
  ASSUME NEW tag, NEW head, NEW s \in Seq(Octets), NEW body, InIndefiniteForm(tag, head, s, body)
  PROVE  /\ head \in Seq(Octets) /\ body \in Seq(Octets) /\ Len(body) = Len(s) + 2
         /\ head \o body \in Seq(Octets) /\ Len(head \o body) = Len(head) + Len(s) + 2
         /\ Len(head \o body) >= 2 /\ (head \o body)[1] # 0
  <1>1. PICK l, z : /\ IsUnknownLength(l) /\ head = tag \o l
                    /\ IsTerminator(z) /\ body = s \o z
    BY Zenon DEF InIndefiniteForm
  <1>2. l \in Seq(Octets) /\ l # <<>> /\ z \in Seq(Octets) /\ Len(z) = 2
    BY <1>1, Zenon DEF IsUnknownLength, IsTerminator
  <1>3. body \in Seq(Octets) /\ Len(body) = Len(s) + 2
    BY <1>1, <1>2, Joining
  <1>4. PICK both : both = head \o body
    OBVIOUS
  <1>5. /\ head \in Seq(Octets) /\ both \in Seq(Octets) /\ Len(both) = Len(head) + Len(body)
        /\ Len(both) >= 2 /\ both[1] # 0
    <2>1. both = tag \o l \o body /\ IsTag(tag)
      BY <1>1, <1>4, Zenon DEF InIndefiniteForm
    <2>2. l \in Seq(Octets) /\ l # <<>> /\ body \in Seq(Octets) /\ head = tag \o l
      BY <1>1, <1>2, <1>3
    <2>3. head \in Seq(Octets) /\ both \in Seq(Octets) /\ Len(both) >= 2 /\ both[1] # 0
      BY <2>1, <2>2, Begins, Zenon
    <2>4. Len(both) = Len(head) + Len(body)
      BY <1>4, <2>2, <2>3, Joining
    <2> QED
      BY <2>3, <2>4
  <1>6. Len(both) = Len(head) + Len(s) + 2
    BY <1>3, <1>5
  <1> QED
    BY <1>3, <1>4, <1>5, <1>6, Zenon

\* An object in the indefinite form, where it stands or the data ends within it.
LEMMA IndefiniteStands ==
  ASSUME NEW content, ReadsOn(content), NEW tag, NEW head, NEW body,
         InIndefiniteForm(tag, head, content.ber, body),
         NEW ber \in Seq(Octets), NEW offset \in Nat
  PROVE  /\ Stands(ber, offset, head \o body) =>
              ObjectAt(ber, offset) = Object(EncodeTo(tag, content.der), offset + Len(head \o body))
         /\ Ends(ber, offset, head \o body) => ObjectAt(ber, offset) \in Failures
  <1>1. PICK s, d : s = content.ber /\ d = content.der
    OBVIOUS
  <1>2. s \in Seq(Octets)
    BY <1>1 DEF ReadsOn
  <1>3. /\ head \in Seq(Octets) /\ body \in Seq(Octets)
        /\ Len(head \o body) = Len(head) + Len(s) + 2
    <2>1. InIndefiniteForm(tag, head, s, body)
      BY <1>1
    <2> QED
      BY <1>2, <2>1, IndefiniteOctets
  <1>4. PICK start \in Nat : start = offset + Len(head)
    BY <1>3
  <1>5. start + Len(s) + 2 = offset + Len(head \o body)
    BY <1>2, <1>3, <1>4
  <1>6. /\ Stands(ber, offset, head) => IndefiniteHeadAt(ber, offset, tag, start)
        /\ Ends(ber, offset, head) => ReadHead(ber, offset) \in Failures
    <2>1. PICK l : IsUnknownLength(l) /\ head = tag \o l
      BY Zenon DEF InIndefiniteForm
    <2>2. IsTag(tag) /\ Constructed(tag[1])
      BY Zenon DEF InIndefiniteForm
    <2> QED
      BY <1>4, <2>1, <2>2, IndefiniteHead
  <1>7. /\ Stands(ber, start, body) =>
             RunAt(ber, start, start, "indefinite") = Content(d, start + Len(s))
        /\ Ends(ber, start, body) => RunAt(ber, start, start, "indefinite") \in Failures
    <2>1. PICK z : IsTerminator(z) /\ body = s \o z
      BY <1>1, Zenon DEF InIndefiniteForm
    <2> QED
      BY <1>1, <2>1, ReadsToTerminator
  <1>8. Constructed(tag[1])
    BY Zenon DEF InIndefiniteForm
  <1>9. ASSUME Stands(ber, offset, head \o body)
        PROVE  ObjectAt(ber, offset) = Object(EncodeTo(tag, d), offset + Len(head \o body))
    <2>1. Stands(ber, offset, head) /\ Stands(ber, start, body)
      BY <1>3, <1>4, <1>9, StandsJoined
    <2>2. ObjectAt(ber, offset) = Object(EncodeTo(tag, d), start + Len(s) + 2)
      BY <1>6, <1>7, <1>8, <2>1, ObjectIndefinite
    <2> QED
      BY <1>5, <2>2, Zenon
  <1>10. ASSUME Ends(ber, offset, head \o body)
         PROVE  ObjectAt(ber, offset) \in Failures
    <2>1. Ends(ber, offset, head) \/ (Stands(ber, offset, head) /\ Ends(ber, start, body))
      BY <1>3, <1>4, <1>10, EndsJoined
    <2>2. CASE Ends(ber, offset, head)
      BY <1>6, <2>2, ObjectFails
    <2>3. CASE Stands(ber, offset, head) /\ Ends(ber, start, body)
      BY <1>6, <1>7, <1>8, <2>3, ObjectIndefinite
    <2> QED
      BY <2>1, <2>2, <2>3
  <1> QED
    BY <1>1, <1>9, <1>10, Zenon

\* An object in the indefinite form, which is not empty.
LEMMA IndefiniteReads ==
  ASSUME NEW content, ReadsOn(content), IsLength(Len(content.der)),
         NEW tag, NEW head, NEW body, InIndefiniteForm(tag, head, content.ber, body),
         NEW x, x.ber = head \o body,
         x.der = tag \o DerLength(Len(content.der)) \o content.der
  PROVE  Reads(x)
  <1>1. content.ber \in Seq(Octets) /\ content.der \in Seq(Octets)
    BY DEF ReadsOn
  <1>2. x.ber \in Seq(Octets) /\ Len(x.ber) >= 2 /\ x.ber[1] # 0
    <2>1. /\ head \o body \in Seq(Octets) /\ Len(head \o body) >= 2
          /\ (head \o body)[1] # 0
      BY <1>1, IndefiniteOctets
    <2> QED
      BY <2>1
  <1>3. IsTag(tag)
    BY Zenon DEF InIndefiniteForm
  <1>4. x.der \in Seq(Octets) /\ x.der = EncodeTo(tag, content.der)
    BY <1>1, <1>3, DerOctets, Zenon
  <1>5. ASSUME NEW ber \in Seq(Octets), NEW offset \in Nat
        PROVE  /\ Stands(ber, offset, x.ber) =>
                    ObjectAt(ber, offset) = Object(x.der, offset + Len(x.ber))
               /\ Ends(ber, offset, x.ber) => ObjectAt(ber, offset) \in Failures
    <2>1. /\ Stands(ber, offset, head \o body) =>
               ObjectAt(ber, offset)
                 = Object(EncodeTo(tag, content.der), offset + Len(head \o body))
          /\ Ends(ber, offset, head \o body) => ObjectAt(ber, offset) \in Failures
      BY IndefiniteStands
    <2> QED
      BY <1>4, <2>1
  <1> QED
    BY <1>2, <1>4, <1>5, Zenon DEF Reads

-----------------------------------------------------------------------------
(* Every object that the writer places is read as it was written           *)

\* The octets of a length, of whatever size.
LEMMA LengthNumbers ==
  ASSUME NEW n \in Nat, NEW l \in UnpaddedLengths(n)
  PROVE  l \in Seq(Nat)
  <1>1. DerLength(n) \in Seq(Nat)
    <2>1. PICK a, b, c, d, e, f :
            /\ a = n \div 256 /\ b = n \div 65536 /\ c = n \div 16777216
            /\ d = n % 256 /\ e = (n \div 256) % 256 /\ f = (n \div 65536) % 256
      OBVIOUS
    <2>2. a \in Nat /\ b \in Nat /\ c \in Nat /\ d \in Nat /\ e \in Nat /\ f \in Nat
      BY <2>1
    <2>3. CASE n < 128
      <3>1. DerLength(n) = <<n>>
        BY <2>3 DEF DerLength
      <3> QED
        BY <3>1
    <2>4. CASE ~(n < 128) /\ n < 256
      <3>1. DerLength(n) = <<129, n>>
        BY <2>4 DEF DerLength
      <3> QED
        BY <3>1
    <2>5. CASE ~(n < 128) /\ ~(n < 256) /\ n < 65536
      <3>1. DerLength(n) = <<130, a, d>>
        BY <2>1, <2>5 DEF DerLength
      <3> QED
        BY <2>2, <3>1
    <2>6. CASE ~(n < 128) /\ ~(n < 256) /\ ~(n < 65536) /\ n < 16777216
      <3>1. DerLength(n) = <<131, b, e, d>>
        BY <2>1, <2>6 DEF DerLength
      <3> QED
        BY <2>2, <3>1
    <2>7. CASE ~(n < 128) /\ ~(n < 256) /\ ~(n < 65536) /\ ~(n < 16777216)
      <3>1. DerLength(n) = <<132, c, f, e, d>>
        BY <2>1, <2>7 DEF DerLength
      <3> QED
        BY <2>2, <3>1
    <2> QED
      BY <2>3, <2>4, <2>5, <2>6, <2>7
  <1>2. <<129, n>> \in Seq(Nat)
    OBVIOUS
  <1> QED
    BY <1>1, <1>2 DEF UnpaddedLengths

LEMMA Longer ==
  ASSUME NEW s \in Seq(Nat), NEW t \in Seq(Nat), NEW u \in Seq(Nat)
  PROVE  Len(s \o t \o u) >= Len(u) /\ Len(u) \in Nat
  <1>1. Len(s \o t) = Len(s) + Len(t) /\ s \o t \in Seq(Nat)
    OBVIOUS
  <1>2. Len((s \o t) \o u) = Len(s \o t) + Len(u)
    BY <1>1
  <1> QED
    BY <1>1, <1>2

LEMMA OctetsNumbers == \A s \in Seq(Octets) : s \in Seq(Nat)
  BY Octet255

\* What an object of MaxOctets octets holds is no longer than a length can say.
LEMMA Short ==
  ASSUME NEW tag, IsTag(tag), NEW s \in Seq(Octets), NEW l \in UnpaddedLengths(Len(s)),
         Len(tag \o l \o s) <= MaxOctets
  PROVE  IsLength(Len(s))
  <1>1. tag \in Seq(Nat) /\ s \in Seq(Nat) /\ Len(s) \in Nat
    BY OctetsNumbers DEF IsTag, Octets
  <1>2. l \in Seq(Nat)
    BY <1>1, LengthNumbers
  <1>3. Len(tag \o l \o s) >= Len(s)
    BY <1>1, <1>2, Longer
  <1>4. Len(tag \o l \o s) \in Nat
    BY <1>1, <1>2
  <1>5. MaxOctets \in Nat /\ MaxOctets <= 2147483647
    BY BerAssumption
  <1> QED
    BY <1>1, <1>3, <1>4, <1>5 DEF IsLength

\* What an object of that tag may hold.
IsContent(tag, content) ==
  /\ IsTag(tag)
  /\ content.ber \in Seq(Octets) /\ content.der \in Seq(Octets)
  /\ Constructed(tag[1]) => Held(content)
  /\ ~Constructed(tag[1]) => content.der = content.ber

\* An object of content that is read as it was written is read as it was written.
LEMMA ObjectsRead ==
  ASSUME ~RefusedForms, NEW tag, NEW content, IsContent(tag, content),
         NEW object \in Objects(tag, content),
         Len(object.ber) <= MaxOctets, Len(object.der) <= MaxOctets
  PROVE  Reads(object)
  <1>1. PICK s, d \in Seq(Octets) : s = content.ber /\ d = content.der
    BY DEF IsContent
  <1>2. IsTag(tag)
    BY DEF IsContent
  <1>11. \A n : BerLengths(n) = UnpaddedLengths(n)
    BY DEF BerLengths
  <1>8. \/ \E l \in UnpaddedLengths(Len(content.ber)) : object = Definite(tag, l, content)
        \/ Constructed(tag[1]) /\ content # Empty /\ object = Indefinite(tag, content)
    BY <1>11, Zenon DEF Objects
  <1>9. ASSUME NEW l, object = Definite(tag, l, content)
        PROVE  object.ber = tag \o l \o s /\ object.der = tag \o DerLength(Len(d)) \o d
    BY <1>1, <1>9 DEF Definite
  <1>10. ASSUME object = Indefinite(tag, content)
         PROVE  /\ object.ber = tag \o <<128>> \o s \o <<0, 0>>
                /\ object.der = tag \o DerLength(Len(d)) \o d
    BY <1>1, <1>10 DEF Indefinite
  <1>3. object.der = tag \o DerLength(Len(d)) \o d
    BY <1>8, <1>9, <1>10, Zenon
  <1>4. IsLength(Len(d))
    <2>1. DerLength(Len(d)) \in UnpaddedLengths(Len(d))
      BY DEF UnpaddedLengths
    <2>2. Len(tag \o DerLength(Len(d)) \o d) <= MaxOctets
      BY <1>3
    <2> QED
      BY <1>2, <2>1, <2>2, Short
  <1>5. \/ \E l \in UnpaddedLengths(Len(s)) : object.ber = tag \o l \o s
        \/ /\ Constructed(tag[1]) /\ content # Empty
           /\ object.ber = tag \o <<128>> \o s \o <<0, 0>>
    BY <1>1, <1>8, <1>9, <1>10
  <1>6. ASSUME NEW l \in UnpaddedLengths(Len(s)), object.ber = tag \o l \o s
        PROVE  Reads(object)
    <2>1. Len(tag \o l \o s) <= MaxOctets
      BY <1>6
    <2>2. IsLength(Len(s))
      BY <1>2, <2>1, Short
    <2>3. ReadIn(tag, s, d)
      <3>1. CASE Constructed(tag[1])
        <4>1. Held(content)
          BY <3>1 DEF IsContent
        <4> QED
          BY <1>1, <3>1, <4>1, HeldIn
      <3>2. CASE ~Constructed(tag[1])
        <4>1. s = d
          BY <1>1, <3>2 DEF IsContent
        <4> QED
          BY <3>2, <4>1, PrimitiveIn
      <3> QED
        BY <3>1, <3>2
    <2> QED
      BY <1>2, <1>3, <1>4, <1>6, <2>2, <2>3, DefiniteReads, Zenon
  <1>7. CASE /\ Constructed(tag[1]) /\ content # Empty
             /\ object.ber = tag \o <<128>> \o s \o <<0, 0>>
    <2>1. ReadsOn(content)
      BY <1>7 DEF IsContent, Held
    <2>2. PICK l, z : l = <<128>> /\ z = <<0, 0>>
      OBVIOUS
    <2>3. IsUnknownLength(l) /\ IsTerminator(z)
      BY <2>2, UnknownLength, Terminator, Zenon
    <2>4. PICK head, body : head = tag \o l /\ body = s \o z
      OBVIOUS
    <2>5. InIndefiniteForm(tag, head, s, body)
      BY <1>2, <1>7, <2>3, <2>4, Zenon DEF InIndefiniteForm
    <2>6. object.ber = head \o body
      <3>1. object.ber = (tag \o l) \o s \o z
        BY <1>7, <2>2, Zenon
      <3>2. z \in Seq(Octets)
        BY <2>3, Zenon DEF IsTerminator
      <3>3. head \in Seq(Octets)
        BY <1>1, <2>5, IndefiniteOctets
      <3>4. (head \o s) \o z = head \o (s \o z)
        BY <3>2, <3>3, Associative
      <3> QED
        BY <2>4, <3>1, <3>4, Zenon
    <2> QED
      BY <1>1, <1>3, <1>4, <2>1, <2>5, <2>6, IndefiniteReads
  <1> QED
    BY <1>5, <1>6, <1>7

\* So is the content that an object is added to.
LEMMA HeldThen ==
  ASSUME NEW content, Held(content), NEW object, Reads(object)
  PROVE  /\ Held(Then(content, object))
         /\ Then(content, object) \in [ber : Seq(Octets), der : Seq(Octets)]
  <1>1. Held(Then(content, object))
    <2>1. CASE content = Empty
      <3>1. object.ber \in Seq(Octets) /\ object.der \in Seq(Octets)
        BY DEF Reads
      <3>2. /\ Then(content, object).ber = object.ber
            /\ Then(content, object).der = object.der
        BY <2>1, <3>1 DEF Then, Empty
      <3>3. ReadsOn(Then(content, object))
        BY <3>2, ReadsOnce
      <3> QED
        BY <3>3 DEF Held
    <2>2. CASE ReadsOn(content)
      BY <2>2, ReadsOnThen DEF Held
    <2> QED
      BY <2>1, <2>2 DEF Held
  <1>2. /\ Then(content, object).ber \in Seq(Octets)
        /\ Then(content, object).der \in Seq(Octets)
    BY <1>1, HeldOctets
  <1> QED
    BY <1>1, <1>2 DEF Then

-----------------------------------------------------------------------------
(* The writer's invariant *)

\* The encodings of content, and an object whose content is being written.
Encodings == [ber : Seq(Octets), der : Seq(Octets)]
Begun == [tag : Tags, content : Encodings]

\* What is around the object being written holds objects that are read as written.
OpenInv(around) ==
  /\ around \in Seq(Begun)
  /\ \A i \in 1 .. Len(around) :
       Constructed(around[i].tag[1]) /\ Held(around[i].content)

WholeInv == whole # Empty => Reads(whole)

\* What arrives is the encoding and what follows it, or is cut from the encoding.
InputInv ==
  /\ whole = Empty => input = <<>> /\ ~cut /\ out = NotRun
  /\ ~cut /\ input # <<>> => \E z \in Seq(Octets) : input = whole.ber \o z
  /\ cut => \E n \in 0 .. Len(whole.ber) - 1 : input = SubSeq(whole.ber, 1, n)

OutInv == out # NotRun => out = BER2DER(input) /\ (cut \/ input # <<>>)

\* Whatever has been written, and whatever encloses it, is read as it was written:
\* an invariant of the writer, while the properties say what the reader returns.
ReadInv == OpenInv(open) /\ WholeInv /\ InputInv /\ OutInv

LEMMA EmptyHeld == Held(Empty) /\ Empty \in Encodings
  BY DEF Held, Empty, Encodings

\* The object goes into the innermost object around it.
LEMMA OpenThen ==
  ASSUME NEW around, OpenInv(around), around # <<>>, NEW object, Reads(object)
  PROVE  OpenInv([around EXCEPT ![Len(around)].content = Then(@, object)])
  <1>1. PICK n : n = Len(around)
    OBVIOUS
  <1>2. n \in 1 .. Len(around) /\ n \in Nat
    BY <1>1 DEF OpenInv
  <1>3. PICK content : content = Then(around[n].content, object)
    OBVIOUS
  <1>4. Held(content) /\ content \in Encodings
    BY <1>2, <1>3, HeldThen DEF OpenInv, Encodings
  <1>5. PICK inner : inner = [around[n] EXCEPT !.content = content]
    OBVIOUS
  <1>6. inner \in Begun /\ inner.tag = around[n].tag /\ inner.content = content
    <2>1. around[n] \in Begun
      BY <1>2 DEF OpenInv
    <2> QED
      BY <1>4, <1>5, <2>1 DEF Begun
  <1>7. [around EXCEPT ![Len(around)].content = Then(@, object)] = [around EXCEPT ![n] = inner]
    BY <1>1, <1>3, <1>5
  <1>8. PICK after : after = [around EXCEPT ![n] = inner]
    OBVIOUS
  <1>9. /\ after \in Seq(Begun) /\ Len(after) = Len(around)
        /\ \A i \in 1 .. Len(around) : after[i] = IF i = n THEN inner ELSE around[i]
    BY <1>2, <1>6, <1>8 DEF OpenInv
  <1>10. \A i \in 1 .. Len(after) : Constructed(after[i].tag[1]) /\ Held(after[i].content)
    BY <1>2, <1>4, <1>6, <1>9 DEF OpenInv
  <1> QED
    BY <1>7, <1>8, <1>9, <1>10 DEF OpenInv

\* An object that is read as it was written is placed.
LEMMA PlaceInv ==
  ASSUME ReadInv, whole = Empty, NEW around, OpenInv(around),
         NEW object, Reads(object), Place(object, around)
  PROVE  ReadInv'
  <1>1. input = <<>> /\ ~cut /\ out = NotRun
    BY DEF ReadInv, InputInv
  <1>2. input' = <<>> /\ ~cut' /\ out' = NotRun
    BY <1>1, Zenon DEF Place
  <1>3. InputInv' /\ OutInv'
    BY <1>2 DEF InputInv, OutInv
  <1>4. CASE around = <<>>
    <2>1. open' = around /\ whole' = object
      BY <1>4, Zenon DEF Place
    <2> QED
      BY <1>3, <2>1 DEF ReadInv, WholeInv
  <1>5. CASE around # <<>>
    <2>1. /\ open' = [around EXCEPT ![Len(around)].content = Then(@, object)]
          /\ whole' = whole
      BY <1>5, Zenon DEF Place
    <2>2. OpenInv(open)'
      BY <1>5, <2>1, OpenThen
    <2> QED
      BY <1>3, <2>1, <2>2 DEF ReadInv, WholeInv
  <1> QED
    BY <1>4, <1>5

LEMMA WritePrimitiveInv == ~RefusedForms /\ ReadInv /\ WritePrimitive => ReadInv'
  <1> SUFFICES ASSUME ~RefusedForms, ReadInv, WritePrimitive PROVE ReadInv'
    OBVIOUS
  <1>1. PICK tag \in Tags, octets \in Contents : 
          /\ ~Constructed(tag[1])
          /\ \E object \in Objects(tag, [ber |-> octets, der |-> octets]) : Place(object, open)
    BY Zenon DEF WritePrimitive
  <1>2. PICK content : content = [ber |-> octets, der |-> octets]
    OBVIOUS
  <1>3. PICK object : object \in Objects(tag, content) /\ Place(object, open)
    BY <1>1, <1>2
  <1>4. IsContent(tag, content)
    <2>1. octets \in Seq(Octets)
      BY BerAssumption DEF Octets
    <2> QED
      BY <1>1, <1>2, <2>1, BerAssumption DEF IsContent
  <1>5. Len(object.ber) <= MaxOctets /\ Len(object.der) <= MaxOctets
    BY <1>3, Zenon DEF Place
  <1>6. Reads(object)
    BY <1>3, <1>4, <1>5, ObjectsRead, Zenon
  <1>7. whole = Empty /\ OpenInv(open)
    BY Zenon DEF WritePrimitive, Writing, ReadInv
  <1> QED
    BY <1>3, <1>6, <1>7, PlaceInv

LEMMA BeginConstructedInv == ReadInv /\ BeginConstructed => ReadInv'
  <1> SUFFICES ASSUME ReadInv, BeginConstructed PROVE ReadInv'
    OBVIOUS
  <1>1. PICK tag \in Tags :
          Constructed(tag[1]) /\ open' = Append(open, [tag |-> tag, content |-> Empty])
    BY Zenon DEF BeginConstructed
  <1>2. UNCHANGED <<whole, input, cut, out>>
    BY Zenon DEF BeginConstructed
  <1>3. PICK inner : inner = [tag |-> tag, content |-> Empty]
    OBVIOUS
  <1>4. inner \in Begun /\ Constructed(inner.tag[1]) /\ Held(inner.content)
    BY <1>1, <1>3, EmptyHeld DEF Begun
  <1>5. OpenInv(open)'
    <2>1. open' = Append(open, inner)
      BY <1>1, <1>3
    <2>2. OpenInv(open)
      BY DEF ReadInv
    <2> QED
      BY <1>4, <2>1, <2>2 DEF OpenInv
  <1> QED
    BY <1>2, <1>5 DEF ReadInv, WholeInv, InputInv, OutInv

LEMMA EndConstructedInv == ~RefusedForms /\ ReadInv /\ EndConstructed => ReadInv'
  <1> SUFFICES ASSUME ~RefusedForms, ReadInv, EndConstructed PROVE ReadInv'
    OBVIOUS
  <1>1. PICK n, last : n = Len(open) /\ last = open[n]
    OBVIOUS
  <1>2. PICK around : around = SubSeq(open, 1, n - 1)
    OBVIOUS
  <1>3. PICK object : object \in Objects(last.tag, last.content) /\ Place(object, around)
    BY <1>1, <1>2, Zenon DEF EndConstructed
  <1>4. whole = Empty /\ open # <<>> /\ OpenInv(open)
    BY Zenon DEF EndConstructed, ReadInv
  <1>5. n \in 1 .. Len(open) /\ open \in Seq(Begun)
    BY <1>1, <1>4 DEF OpenInv
  <1>6. IsContent(last.tag, last.content)
    <2>1. last \in Begun /\ Constructed(last.tag[1]) /\ Held(last.content)
      BY <1>1, <1>4, <1>5 DEF OpenInv
    <2>2. IsTag(last.tag)
      BY <2>1, BerAssumption DEF Begun
    <2>3. last.content.ber \in Seq(Octets) /\ last.content.der \in Seq(Octets)
      BY <2>1, HeldOctets
    <2> QED
      BY <2>1, <2>2, <2>3 DEF IsContent
  <1>7. Len(object.ber) <= MaxOctets /\ Len(object.der) <= MaxOctets
    BY <1>3, Zenon DEF Place
  <1>8. Reads(object)
    BY <1>3, <1>6, <1>7, ObjectsRead, Zenon
  <1>9. OpenInv(around)
    <2>1. PICK m \in Nat : m = n - 1 /\ m <= Len(open)
      BY <1>5
    <2>2. around = SubSeq(open, 1, m)
      BY <1>2, <2>1
    <2>3. /\ around \in Seq(Begun) /\ Len(around) = m
          /\ \A i \in 1 .. m : around[i] = open[i] /\ i \in 1 .. Len(open)
      BY <1>5, <2>1, <2>2
    <2> QED
      BY <1>4, <2>3 DEF OpenInv
  <1> QED
    BY <1>3, <1>4, <1>8, <1>9, PlaceInv

LEMMA ArriveInv == ReadInv /\ Arrive => ReadInv'
  <1> SUFFICES ASSUME ReadInv, Arrive PROVE ReadInv'
    OBVIOUS
  <1>1. PICK trailing \in Trailing : input' = whole.ber \o trailing
    BY Zenon DEF Arrive
  <1>2. trailing \in Seq(Octets)
    BY <1>1, BerAssumption DEF Octets
  <1>3. \E z \in Seq(Octets) : input' = whole.ber \o z
    BY <1>1, <1>2, Zenon
  <1>4. whole # Empty /\ ~cut /\ out = NotRun /\ UNCHANGED <<open, whole, cut, out>>
    BY Zenon DEF Arrive
  <1>5. InputInv' /\ OutInv'
    BY <1>3, <1>4 DEF InputInv, OutInv
  <1> QED
    BY <1>4, <1>5 DEF ReadInv, WholeInv

LEMMA ArriveCutInv == ReadInv /\ ArriveCut => ReadInv'
  <1> SUFFICES ASSUME ReadInv, ArriveCut PROVE ReadInv'
    OBVIOUS
  <1>1. \E n \in 0 .. Len(whole.ber) - 1 : input' = SubSeq(whole.ber, 1, n)
    BY Zenon DEF ArriveCut
  <1>2. whole # Empty /\ cut' /\ out = NotRun /\ UNCHANGED <<open, whole, out>>
    BY DEF ArriveCut
  <1>3. InputInv' /\ OutInv'
    BY <1>1, <1>2 DEF InputInv, OutInv
  <1> QED
    BY <1>2, <1>3 DEF ReadInv, WholeInv

LEMMA ConvertInv == ReadInv /\ Convert => ReadInv'
  <1> SUFFICES ASSUME ReadInv, Convert PROVE ReadInv'
    OBVIOUS
  <1>1. /\ out' = BER2DER(input) /\ (cut \/ input # <<>>)
        /\ UNCHANGED <<open, whole, input, cut>>
    BY Zenon DEF Convert
  <1>2. OutInv'
    BY <1>1 DEF OutInv
  <1>3. InputInv'
    BY <1>1 DEF ReadInv, InputInv
  <1> QED
    BY <1>1, <1>2, <1>3 DEF ReadInv, WholeInv

\* A decided outcome is the outcome of the object at 0.
LEMMA OutcomeOf ==
  ASSUME NEW ber, ber # <<>>
  PROVE  /\ \A der, next : ObjectAt(ber, 0) = Object(der, next) =>
              BER2DER(ber) = [kind |-> "der", der |-> der]
         /\ ObjectAt(ber, 0) \in Failures => BER2DER(ber).kind # "der"
  <1>1. PICK object : object = ObjectAt(ber, 0)
    OBVIOUS
  <1>2. BER2DER(ber) =
          IF object.kind = "object" THEN [kind |-> "der", der |-> object.der] ELSE object
    BY <1>1, Zenon DEF BER2DER, ObjectAt
  <1>3. ASSUME NEW der, NEW next, object = Object(der, next)
        PROVE  BER2DER(ber) = [kind |-> "der", der |-> der]
    BY <1>2, <1>3 DEF Object
  <1>4. ASSUME object \in Failures PROVE BER2DER(ber).kind # "der"
    <2>1. object.kind # "object" /\ object.kind # "der"
      BY <1>4 DEF Failures, Error, Panic
    <2> QED
      BY <1>2, <2>1
  <1> QED
    BY <1>1, <1>3, <1>4

\* At the offset 0 of an input that the encoding begins.
LEMMA ReadInvConverts == ReadInv => ConvertedToDer
  <1> SUFFICES ASSUME ReadInv, out # NotRun, ~cut
               PROVE  out = [kind |-> "der", der |-> whole.der]
    BY DEF ConvertedToDer
  <1>1. out = BER2DER(input) /\ input # <<>> /\ whole # Empty
    BY DEF ReadInv, OutInv, InputInv
  <1>2. PICK z \in Seq(Octets) : input = whole.ber \o z
    BY <1>1 DEF ReadInv, InputInv
  <1>3. Reads(whole)
    BY <1>1 DEF ReadInv, WholeInv
  <1>4. whole.ber \in Seq(Octets)
    BY <1>3 DEF Reads
  <1>5. input \in Seq(Octets) /\ Stands(input, 0, whole.ber)
    BY <1>2, <1>4 DEF Stands
  <1>6. ObjectAt(input, 0) = Object(whole.der, 0 + Len(whole.ber))
    BY <1>3, <1>5 DEF Reads
  <1> QED
    BY <1>1, <1>6, OutcomeOf

\* At the offset 0 of an input that ends within the encoding.
LEMMA ReadInvRefuses == ReadInv => CutIsRefused
  <1> SUFFICES ASSUME ReadInv, cut, out # NotRun
               PROVE  out.kind # "der"
    BY DEF CutIsRefused
  <1>1. out = BER2DER(input) /\ whole # Empty
    BY DEF ReadInv, OutInv, InputInv
  <1>2. PICK n \in 0 .. Len(whole.ber) - 1 : input = SubSeq(whole.ber, 1, n)
    BY DEF ReadInv, InputInv
  <1>3. Reads(whole)
    BY <1>1 DEF ReadInv, WholeInv
  <1>4. whole.ber \in Seq(Octets)
    BY <1>3 DEF Reads
  <1>5. /\ input \in Seq(Octets) /\ Len(input) < Len(whole.ber)
        /\ \A i \in 1 .. Len(input) : input[i] = whole.ber[i]
    BY <1>2, <1>4
  <1>6. CASE input = <<>>
    BY <1>1, <1>6 DEF BER2DER, Error
  <1>7. CASE input # <<>>
    <2>1. Ends(input, 0, whole.ber)
      BY <1>4, <1>5 DEF Ends
    <2>2. ObjectAt(input, 0) \in Failures
      BY <1>3, <1>5, <2>1 DEF Reads
    <2> QED
      BY <1>1, <1>7, <2>2, OutcomeOf
  <1> QED
    BY <1>6, <1>7

\* Whatever the writer writes, in the forms that readObject accepts (no empty object in
\* the indefinite form, no length with a leading zero), is read as it was written, and so
\* is what encloses it.
THEOREM ReadAsWritten ==
  ASSUME ~RefusedForms
  PROVE  Spec => []ReadInv
  <1>1. Init => ReadInv
    BY DEF Init, ReadInv, OpenInv, WholeInv, InputInv, OutInv
  <1>2. ReadInv /\ [Next]_vars => ReadInv'
    <2> SUFFICES ASSUME ReadInv, [Next]_vars PROVE ReadInv'
      OBVIOUS
    <2>1. CASE WritePrimitive
      BY <2>1, WritePrimitiveInv
    <2>2. CASE BeginConstructed
      BY <2>2, BeginConstructedInv
    <2>3. CASE EndConstructed
      BY <2>3, EndConstructedInv
    <2>4. CASE Arrive
      BY <2>4, ArriveInv
    <2>5. CASE ArriveCut
      BY <2>5, ArriveCutInv
    <2>6. CASE Convert
      BY <2>6, ConvertInv
    <2>7. CASE UNCHANGED vars
      BY <2>7 DEF vars, ReadInv, OpenInv, WholeInv, InputInv, OutInv
    <2> QED
      BY <2>1, <2>2, <2>3, <2>4, <2>5, <2>6, <2>7 DEF Next
  <1> QED
    BY <1>1, <1>2, PTL DEF Spec

\* BER2DER (ber.go:56-75) converts every such encoding, whatever octets follow it, to the
\* same objects in the definite form with the shortest lengths.  Tags and the contents of
\* primitive objects stay: a string in pieces is not joined.
THEOREM Converted ==
  ASSUME ~RefusedForms
  PROVE  Spec => []ConvertedToDer
  BY ReadAsWritten, ReadInvConverts, PTL

\* BER2DER takes no proper prefix of one for a shorter value.
THEOREM Refused ==
  ASSUME ~RefusedForms
  PROVE  Spec => []CutIsRefused
  BY ReadAsWritten, ReadInvRefuses, PTL
=============================================================================
