-------------------------------- MODULE Ber --------------------------------
(***************************************************************************)
(* BER2DER (ietf-cms/protocol/ber.go), through which every signature and   *)
(* every timestamp token is read.  Offsets begin at 0 as in the code.  The *)
(* outcome is the DER of what was read, "error" for an ASN1Error, "panic"  *)
(* where the code indexes past the end of its slice.  What is converted is *)
(* written by another program, an object at a time.                        *)
(***************************************************************************)
EXTENDS Integers, Sequences

CONSTANTS Tags,         \* the tags written
          Contents,     \* the contents of primitive objects
          MaxOctets,    \* bound: octets of an encoding
          MaxObjects,   \* bound: objects written
          Trailing,     \* what may follow an encoding
          RefusedForms  \* whether the forms of X.690 that are not read are written too

VARIABLES open,    \* the objects being written, the outermost first
          whole,   \* the encoding, when its outermost object has been written
          written, \* the number of objects begun
          input,   \* the octets given to BER2DER
          cut,     \* the input is a proper prefix of the encoding
          out      \* BER2DER's outcome

vars == <<open, whole, written, input, cut, out>>

Error == [kind |-> "error"]
Panic == [kind |-> "panic"]
NotRun == [kind |-> "none"]

Has(ber, offset) == offset < Len(ber)
Octet(ber, offset) == ber[offset + 1]
Slice(ber, start, end) == SubSeq(ber, start + 1, end)

-----------------------------------------------------------------------------
(* Lengths, tags and DER *)

\* What the octets of a number weigh, the lowest first.
Weights == <<1, 256, 65536, 16777216>>

\* The loop over the octets of a length, of which there are no more than four.
Base256(octets) ==
  LET At(i) == IF i <= Len(octets) THEN octets[Len(octets) + 1 - i] * Weights[i] ELSE 0
  IN At(1) + At(2) + At(3) + At(4)

\* Mutant of LengthLength: while what is left is above 256.
LengthLengthLate(n) ==
  IF n < 257 THEN 1 ELSE IF n < 65792 THEN 2 ELSE IF n < 16842752 THEN 3 ELSE 4

\* The octets that a length takes; four are enough for any that is written.
LengthLength(n) ==
  IF n < 256 THEN 1 ELSE IF n < 65536 THEN 2 ELSE IF n < 16777216 THEN 3 ELSE 4

EncodeLength(n) ==
  IF n < 128 THEN <<n>>
  ELSE <<128 + LengthLength(n)>>
         \o [i \in 1 .. LengthLength(n) |-> (n \div Weights[LengthLength(n) + 1 - i]) % 256]

\* encodeTo: a tag and what follows it, already encoded.
EncodeTo(tag, inner) == tag \o EncodeLength(Len(inner)) \o inner

\* The last octet of the long tag at offset; past the end if it never ends, and the
\* length is read there next.
LastOfTag(ber, offset) ==
  LET last == {j \in offset + 1 .. Len(ber) - 1 : Octet(ber, j) < 128}
  IN IF last = {} THEN Len(ber) ELSE CHOOSE j \in last : \A k \in last : j <= k

\* The offset after the tag.
TagEnd(ber, offset) ==
  IF Octet(ber, offset) % 32 # 31 THEN offset + 1 ELSE LastOfTag(ber, offset) + 1

Constructed(octet) == (octet \div 32) % 2 = 1

-----------------------------------------------------------------------------
(* Reading *)

Length(n, start, indefinite) ==
  [kind |-> "length", n |-> n, start |-> start, indefinite |-> indefinite]

\* A length of that many octets: no more than four, without a leading zero or
\* the sign bit.
ReadLongLength(ber, offset, octets) ==
  LET first == Octet(ber, offset)
  IN IF octets > 4 THEN Error
     ELSE IF ~Has(ber, offset) THEN Panic
     ELSE IF first = 0 \/ (octets = 4 /\ first > 127) THEN Error
     ELSE IF ~Has(ber, offset + octets - 1) THEN Panic
     ELSE Length(Base256(Slice(ber, offset, offset + octets)), offset + octets, FALSE)

\* The length octets that begin at offset.
ReadLength(ber, offset) ==
  LET l == Octet(ber, offset)
  IN IF ~Has(ber, offset) THEN Panic
     ELSE IF l < 128 THEN Length(l, offset + 1, FALSE)
     ELSE IF l = 128 THEN Length(0, offset + 1, TRUE)
     ELSE ReadLongLength(ber, offset + 1, l - 128)

\* The tag at offset and, after its length, where the content is.
HeadAfter(ber, offset, length) ==
  IF length.kind # "length" THEN length
  ELSE IF \/ length.start + length.n > Len(ber)
          \/ length.indefinite /\ ~Constructed(Octet(ber, offset))
       THEN Error
  ELSE [kind |-> "head", tag |-> Slice(ber, offset, TagEnd(ber, offset)),
        constructed |-> Constructed(Octet(ber, offset)), start |-> length.start,
        end |-> length.start + length.n, indefinite |-> length.indefinite]

\* readObject before its loop.
ReadHead(ber, offset) ==
  IF ~Has(ber, offset) THEN Panic
  ELSE HeadAfter(ber, offset, ReadLength(ber, TagEnd(ber, offset)))

Object(der, next) == [kind |-> "object", der |-> der, next |-> next]
Content(der, next) == [kind |-> "content", der |-> der, next |-> next]

\* readObject: the DER of the object at offset, and the offset after it.  Its loop
\* is read[<<where it begins, where the content ends, whether that is unknown>>].
ReadObject(ber, offset, read) ==
  LET head == ReadHead(ber, offset)
      inner == IF head.constructed THEN read[<<head.start, head.end, head.indefinite>>]
               ELSE Content(Slice(ber, head.start, head.end), head.end)
  IN IF head.kind # "head" THEN head
     ELSE IF inner.kind # "content" THEN inner
     ELSE Object(EncodeTo(head.tag, inner.der),
                 IF head.indefinite THEN inner.next + 2 ELSE head.end)

\* Mutant of Termination: the end of the data ends the content.
TerminationOrEnd(ber, offset) ==
  IF Len(ber) - offset < 2 \/ Slice(ber, offset, offset + 2) = <<0, 0>> THEN "yes" ELSE "no"

\* isIndefiniteTermination: is there a terminator at offset?
Termination(ber, offset) ==
  IF Len(ber) - offset < 2 THEN "error"
  ELSE IF Slice(ber, offset, offset + 2) = <<0, 0>> THEN "yes" ELSE "no"

\* The loop after an object: the terminator is looked for here only.
ReadRest(ber, next, end, indefinite, read) ==
  IF indefinite /\ Termination(ber, next) = "error" THEN Error
  ELSE IF indefinite /\ Termination(ber, next) = "yes" THEN Content(<<>>, next)
  ELSE read[<<next, end, indefinite>>]

\* An object's DER before that of the objects after it.
Joined(der, rest) ==
  IF rest.kind = "content" THEN Content(der \o rest.der, rest.next) ELSE rest

\* The loop.
ReadContent(ber, offset, end, indefinite, read) ==
  LET first == ReadObject(ber, offset, read)
  IN IF offset >= end /\ ~indefinite THEN Content(<<>>, offset)
     ELSE IF first.kind # "object" THEN first
     ELSE Joined(first.der, ReadRest(ber, first.next, end, indefinite, read))

\* Every run of the loop over ber.
Reading(ber) ==
  LET Offsets == 0 .. Len(ber)
      read[run \in Offsets \X Offsets \X BOOLEAN] ==
        ReadContent(ber, run[1], run[2], run[3], read)
  IN read

\* Data after the object is not looked at.
BER2DER(ber) ==
  IF ber = <<>> THEN Error
  ELSE LET object == ReadObject(ber, 0, Reading(ber))
       IN IF object.kind = "object" THEN [kind |-> "der", der |-> object.der] ELSE object

-----------------------------------------------------------------------------
(* What X.690 says of lengths: an object in one of its BER encodings (ber) *)
(* beside the one in which each length is as DER has it (der).  BER2DER is *)
(* about lengths only, and so is der: tags and the contents of primitive   *)
(* objects are the same in both, and so are the order of a SET and the     *)
(* pieces of a string.                                                     *)

DerLength(n) ==
  IF n < 128 THEN <<n>>
  ELSE IF n < 256 THEN <<129, n>>
  ELSE IF n < 65536 THEN <<130, n \div 256, n % 256>>
  ELSE IF n < 16777216 THEN <<131, n \div 65536, (n \div 256) % 256, n % 256>>
  ELSE <<132, n \div 16777216, (n \div 65536) % 256, (n \div 256) % 256, n % 256>>

\* The definite forms of a length without a leading zero.
UnpaddedLengths(n) == {DerLength(n)} \cup (IF n \in 1 .. 127 THEN {<<129, n>>} ELSE {})

\* And one with a leading zero, which BER allows and readObject refuses.
BerLengths(n) ==
  UnpaddedLengths(n) \cup (IF RefusedForms /\ n < 256 THEN {<<130, 0, n>>} ELSE {})

Empty == [ber |-> <<>>, der |-> <<>>]

Then(content, object) ==
  [ber |-> content.ber \o object.ber, der |-> content.der \o object.der]

Definite(tag, length, content) ==
  [ber |-> tag \o length \o content.ber,
   der |-> tag \o DerLength(Len(content.der)) \o content.der]

Indefinite(tag, content) ==
  [ber |-> tag \o <<128>> \o content.ber \o <<0, 0>>,
   der |-> tag \o DerLength(Len(content.der)) \o content.der]

\* The encodings of an object.  Only one that holds others has the indefinite form.
Objects(tag, content) ==
  {Definite(tag, length, content) : length \in BerLengths(Len(content.ber))}
  \cup IF Constructed(tag[1]) /\ (content # Empty \/ RefusedForms)
       THEN {Indefinite(tag, content)} ELSE {}

\* One octet, or a first one that says that others follow, the last below 128.  The
\* tag 0 is the terminator's.
IsTag(tag) ==
  /\ tag \in Seq(0 .. 255) /\ tag # <<>> /\ tag[1] # 0
  /\ IF tag[1] % 32 = 31
     THEN /\ Len(tag) > 1 /\ tag[Len(tag)] < 128
          /\ \A i \in 2 .. Len(tag) - 1 : tag[i] >= 128
     ELSE Len(tag) = 1

ASSUME BerAssumption ==
  /\ \A tag \in Tags : IsTag(tag)
  /\ \A content \in Contents : content \in Seq(0 .. 255)
  /\ MaxOctets \in Nat /\ MaxOctets <= 2147483647
  /\ \A trailing \in Trailing : trailing \in Seq(0 .. 255)
  /\ MaxObjects \in Nat
  /\ RefusedForms \in BOOLEAN

-----------------------------------------------------------------------------

Init ==
  /\ open = <<>> /\ whole = Empty /\ written = 0
  /\ input = <<>> /\ cut = FALSE /\ out = NotRun

\* The object is written where the innermost of the objects around it goes on.
Place(object, around) ==
  /\ Len(object.ber) <= MaxOctets /\ Len(object.der) <= MaxOctets
  /\ IF around = <<>>
     THEN open' = <<>> /\ whole' = object
     ELSE /\ open' = [around EXCEPT ![Len(around)].content = Then(@, object)]
          /\ whole' = whole
  /\ UNCHANGED <<input, cut, out>>

Writing == whole = Empty /\ written < MaxObjects

WritePrimitive ==
  /\ Writing
  /\ \E tag \in Tags, octets \in Contents :
       /\ ~Constructed(tag[1])
       /\ \E object \in Objects(tag, [ber |-> octets, der |-> octets]) : Place(object, open)
  /\ written' = written + 1

BeginConstructed ==
  /\ Writing
  /\ \E tag \in Tags :
       /\ Constructed(tag[1])
       /\ open' = Append(open, [tag |-> tag, content |-> Empty])
  /\ written' = written + 1
  /\ UNCHANGED <<whole, input, cut, out>>

EndConstructed ==
  /\ whole = Empty /\ open # <<>>
  /\ LET last == open[Len(open)]
     IN \E object \in Objects(last.tag, last.content) :
          Place(object, SubSeq(open, 1, Len(open) - 1))
  /\ UNCHANGED written

\* The encoding arrives, whatever follows it,
Arrive ==
  /\ whole # Empty /\ input = <<>> /\ ~cut /\ out = NotRun
  /\ \E trailing \in Trailing : input' = whole.ber \o trailing
  /\ UNCHANGED <<open, whole, written, cut, out>>

\* or it is cut short, at most where it ends.
ArriveCut ==
  /\ whole # Empty /\ input = <<>> /\ ~cut /\ out = NotRun
  /\ \E n \in 0 .. Len(whole.ber) - 1 : input' = SubSeq(whole.ber, 1, n)
  /\ cut' = TRUE
  /\ UNCHANGED <<open, whole, written, out>>

Convert ==
  /\ (input # <<>> \/ cut) /\ out = NotRun
  /\ out' = BER2DER(input)
  /\ UNCHANGED <<open, whole, written, input, cut>>

Next ==
  \/ WritePrimitive \/ BeginConstructed \/ EndConstructed
  \/ Arrive \/ ArriveCut \/ Convert

Spec == Init /\ [][Next]_vars

-----------------------------------------------------------------------------
(* Properties *)

\* Every object in a BER encoding that mixes definite lengths of any size, without
\* leading zeros, and indefinite ones, but for empty objects, is converted to the same
\* objects with lengths as DER has them, whatever follows it: the terminators of nested
\* indefinite forms are told from content that looks like them.
ConvertedToDer ==
  out # NotRun /\ ~cut => out = [kind |-> "der", der |-> whole.der]

\* An encoding cut short anywhere is never taken for a shorter value.
CutIsRefused == cut /\ out # NotRun => out.kind # "der"

\* "length is more than available data" (ber_test.go:50): an error, not a panic.
\* It does not hold of the code: see "Divergences" in the README.
CutIsAnError == cut /\ out # NotRun => out.kind = "error"

\* "BER2DER attempts to convert BER encoded data to DER encoding" (ber.go:56): lengths
\* with a leading zero and an empty SEQUENCE in the indefinite form included.
\* It does not hold of the code: see "Divergences" in the README.
EveryFormConverted == out # NotRun /\ ~cut => out.kind = "der"

\* The same comment: in DER, strings are primitive (X.690, 10.2).
\* It does not hold of the code: see "Divergences" in the README.
StringsPrimitive ==
  out # NotRun /\ out.kind = "der" =>
    out.der[1] - 32 \notin {3, 4, 12} \cup 18 .. 22 \cup 25 .. 30
=============================================================================
