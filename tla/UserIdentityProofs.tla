-------------------------- MODULE UserIdentityProofs --------------------------
(***************************************************************************)
(* Theorems about UserIdentity, for user-ids of any length over any        *)
(* characters, and stores of any number of identities.                     *)
(***************************************************************************)
EXTENDS UserIdentity, SequenceTheorems, WellFoundedInduction, TLAPS

-----------------------------------------------------------------------------
(* Trim *)

\* Numbers have a least one, and bounded ones a greatest.
LEMMA Least ==
  ASSUME NEW T \in SUBSET Nat, T # {}
  PROVE  \E x \in T : \A y \in T : x <= y
  <1> DEFINE R == OpToRel(<, Nat)
  <1>1. \A x, y \in Nat : x < y => <<x, y>> \in R
    BY DEF OpToRel
  <1>2. IsWellFoundedOn(R, Nat)
    BY NatLessThanWellFounded
  <1> HIDE DEF R
  <1>3. PICK x \in T : \A y \in T : <<y, x>> \notin R
    BY <1>2, WFMin
  <1>4. ASSUME NEW y \in T
        PROVE  x <= y
    <2>1. x \in Nat /\ y \in Nat
      OBVIOUS
    <2>2. ~(y < x)
      BY <1>1, <1>3, <2>1
    <2> QED
      BY <2>1, <2>2
  <1> QED
    BY <1>4

LEMMA Greatest ==
  ASSUME NEW bound \in Nat, NEW T \in SUBSET (1 .. bound), T # {}
  PROVE  \E x \in T : \A y \in T : x >= y
  <1> DEFINE U == {bound - t : t \in T}
  <1>1. U \in SUBSET Nat /\ U # {}
    <2>1. \A t \in T : bound - t \in Nat
      OBVIOUS
    <2> QED
      BY <2>1
  <1>2. PICK u \in U : \A v \in U : u <= v
    BY <1>1, Least
  <1>3. PICK x \in T : u = bound - x
    OBVIOUS
  <1>4. ASSUME NEW y \in T
        PROVE  x >= y
    <2>1. bound - x <= bound - y
      BY <1>2, <1>3
    <2> QED
      BY <2>1
  <1> QED
    BY <1>4

\* What lies between the least and the greatest of some places.
LEMMA Ends ==
  ASSUME NEW m \in Nat, NEW S \in SUBSET (1 .. m), S # {}
  PROVE  LET first == CHOOSE i \in S : \A j \in S : i <= j
             last == CHOOSE i \in S : \A j \in S : i >= j
         IN /\ first \in 1 .. m /\ last \in 1 .. m
            /\ \A k \in S : k \in first .. last
  <1> DEFINE first == CHOOSE i \in S : \A j \in S : i <= j
             last == CHOOSE i \in S : \A j \in S : i >= j
  <1>1. \E i \in S : \A j \in S : i <= j
    <2>1. S \in SUBSET Nat
      OBVIOUS
    <2> QED
      BY <2>1, Least
  <1>2. \E i \in S : \A j \in S : i >= j
    BY Greatest
  <1>3. first \in S /\ \A j \in S : first <= j
    BY <1>1
  <1>4. last \in S /\ \A j \in S : last >= j
    BY <1>2
  <1> HIDE DEF first, last
  <1>5. \A k \in S : k \in first .. last
    BY <1>3, <1>4
  <1>6. first \in 1 .. m /\ last \in 1 .. m
    BY <1>3, <1>4
  <1> QED
    BY <1>5, <1>6 DEF first, last

\* A slice holds what stands between its ends.
LEMMA SliceHolds ==
  ASSUME NEW s \in Seq(STRING), NEW p \in 1 .. Len(s), NEW q \in 1 .. Len(s),
         NEW k \in p .. q
  PROVE  Contains(SubSeq(s, p, q), s[k]) /\ SubSeq(s, p, q) # <<>>
  <1> DEFINE t == SubSeq(s, p, q)
  <1>1. \A i \in p .. q : s[i] \in STRING
    BY LenProperties, ElementOfSeq
  <1>2. /\ t \in Seq(STRING) /\ Len(t) = IF p <= q THEN q - p + 1 ELSE 0
        /\ \A i \in 1 .. q - p + 1 : t[i] = s[p + i - 1]
    BY <1>1, SubSeqProperties
  <1>3. k - p + 1 \in 1 .. Len(t) /\ t[k - p + 1] = s[k]
    <2>1. k - p + 1 \in 1 .. q - p + 1 /\ p + (k - p + 1) - 1 = k /\ p <= q
      OBVIOUS
    <2> QED
      BY <1>2, <2>1
  <1> HIDE DEF t
  <1>4. DOMAIN t = 1 .. Len(t)
    BY <1>2, LenProperties
  <1>5. t # <<>>
    BY <1>3, EmptySeq
  <1> QED
    BY <1>3, <1>4, <1>5 DEF Contains, t

\* What is left of a string without the spaces at its ends keeps its characters.
LEMMA TrimKeeps ==
  ASSUME NEW s \in Seq(STRING), NEW char, char # " ", Contains(s, char)
  PROVE  Contains(Trim(s), char) /\ Trim(s) # <<>>
  <1> DEFINE solid == {i \in DOMAIN s : s[i] # " "}
             first == CHOOSE i \in solid : \A j \in solid : i <= j
             last == CHOOSE i \in solid : \A j \in solid : i >= j
  <1>1. Len(s) \in Nat /\ DOMAIN s = 1 .. Len(s)
    BY LenProperties
  <1>2. PICK k \in solid : s[k] = char
    BY DEF Contains
  <1>3. solid \in SUBSET (1 .. Len(s)) /\ solid # {} /\ k \in 1 .. Len(s)
    BY <1>1, <1>2
  <1>4. first \in 1 .. Len(s) /\ last \in 1 .. Len(s) /\ k \in first .. last
    <2> HIDE DEF solid
    <2> QED
      BY <1>1, <1>2, <1>3, Ends
  <1>5. Trim(s) = SubSeq(s, first, last)
    BY <1>2 DEF Trim
  <1> HIDE DEF first, last, solid
  <1>6. Contains(SubSeq(s, first, last), s[k]) /\ SubSeq(s, first, last) # <<>>
    BY <1>4, SliceHolds
  <1> QED
    BY <1>2, <1>5, <1>6

\* Nothing trimmed is nothing.
LEMMA TrimEmpty == Trim(<<>>) = <<>>
  BY DEF Trim

-----------------------------------------------------------------------------
(* The spans *)

Span == [start : Nat, end : Nat]

Past == {"normalize", "search", "done"}

\* While a span is open its end is still 0; its start is then behind the scanner.
SpanInv ==
  /\ id \in Seq(STRING) /\ Len(id) \in Nat
  /\ pc \in {"begin", "parse"} \cup Past /\ state \in 0 .. 7 /\ offset \in Nat
  /\ n \in Span /\ c \in Span /\ e \in Span
  /\ pc = "begin" => offset = 0 /\ state = 0
  /\ pc \in {"begin", "parse"} =>
       /\ offset <= Len(id)
       /\ n.start = 0 /\ n.end <= Len(id) /\ (state = 0 => offset = 0)
       /\ c.end <= Len(id) /\ c.start <= offset /\ (state # 3 => c.start <= c.end)
       /\ e.end <= Len(id) /\ e.start <= offset /\ (state # 6 => e.start <= e.end)
  /\ pc \in Past =>
       \A span \in {n, c, e} : span.start <= span.end /\ span.end <= Len(id)

\* Every span is empty at first.
LEMMA SpanInit == Init => SpanInv
  <1> SUFFICES ASSUME Init PROVE SpanInv
    OBVIOUS
  <1>1. id \in Seq(STRING) /\ Len(id) \in Nat
    BY UserIdentityAssumption, LenProperties DEF Init
  <1>2. [start |-> 0, end |-> 0] \in Span
    BY DEF Span
  <1> QED
    BY <1>1, <1>2 DEF Init, SpanInv, Span, Past

\* One rune of any of the parts.
LEMMA SpanParse ==
  ASSUME SpanInv, ParseRune
  PROVE  SpanInv'
  <1>1. /\ pc = "parse" /\ pc' = "parse" /\ id' = id /\ offset < Len(id) /\ offset' = offset + 1
        /\ offset \in Nat /\ Len(id) \in Nat /\ offset' \in Nat /\ offset' <= Len(id)
    BY DEF ParseRune, SpanInv
  <1>2. CASE InName
    <2> DEFINE start == IF state = 0 THEN offset ELSE n.start
               end == IF Rune \in {"(", "<"} THEN offset ELSE n.end
    <2>1. n' = [start |-> start, end |-> end] /\ c' = c /\ e' = e /\ state' \in {1, 2, 5}
          /\ state \in {0, 1}
      BY <1>2 DEF InName
    <2>2. start = 0 /\ end \in Nat /\ end <= Len(id)
      BY <1>1 DEF SpanInv, Span
    <2> HIDE DEF start, end
    <2>3. n' \in Span /\ n'.start = 0 /\ n'.end <= Len(id)
      BY <2>1, <2>2 DEF Span
    <2> QED
      BY <1>1, <2>1, <2>3 DEF SpanInv, Past, Span
  <1>3. CASE InComment
    <2> DEFINE start == IF state = 2 THEN offset ELSE c.start
               end == IF Rune = ")" THEN offset ELSE c.end
    <2>1. c' = [start |-> start, end |-> end] /\ n' = n /\ e' = e /\ state \in {2, 3}
          /\ state' = IF Rune = ")" THEN 4 ELSE 3
      BY <1>3 DEF InComment
    <2>2. start \in Nat /\ start <= offset /\ end \in Nat /\ end <= Len(id)
          /\ (Rune = ")" => start <= end)
      BY <1>1, <2>1 DEF SpanInv, Span
    <2> HIDE DEF start, end
    <2>3. c' \in Span /\ c'.start <= offset' /\ c'.end <= Len(id) /\ (state' # 3 => c'.start <= c'.end)
      BY <1>1, <2>1, <2>2 DEF Span
    <2> QED
      BY <1>1, <2>1, <2>3 DEF SpanInv, Past, Span
  <1>4. CASE Between \/ AfterEmail
    <2>1. UNCHANGED spans /\ state' \in {4, 5, 7} /\ state \in {4, 7}
      BY <1>4 DEF Between, AfterEmail
    <2> QED
      BY <1>1, <2>1 DEF SpanInv, Past, spans, Span
  <1>5. CASE InEmail
    <2> DEFINE start == IF state = 5 THEN offset ELSE e.start
               end == IF Rune = ">" THEN offset ELSE e.end
    <2>1. e' = [start |-> start, end |-> end] /\ n' = n /\ c' = c /\ state \in {5, 6}
          /\ state' = IF Rune = ">" THEN 7 ELSE 6
      BY <1>5 DEF InEmail
    <2>2. start \in Nat /\ start <= offset /\ end \in Nat /\ end <= Len(id)
          /\ (Rune = ">" => start <= end)
      BY <1>1, <2>1 DEF SpanInv, Span
    <2> HIDE DEF start, end
    <2>3. e' \in Span /\ e'.start <= offset' /\ e'.end <= Len(id) /\ (state' # 6 => e'.start <= e'.end)
      BY <1>1, <2>1, <2>2 DEF Span
    <2> QED
      BY <1>1, <2>1, <2>3 DEF SpanInv, Past, Span
  <1> QED
    BY <1>2, <1>3, <1>4, <1>5 DEF ParseRune

\* The end of the parse closes the spans that are open.
LEMMA SpanEnd ==
  ASSUME SpanInv, EndParse
  PROVE  SpanInv'
  <1>1. /\ pc = "parse" /\ pc' = "normalize" /\ id' = id /\ offset = Len(id) /\ offset' = offset
        /\ state' = state /\ Len(id) \in Nat
    BY DEF EndParse, SpanInv
  <1>2. n' \in Span /\ n'.start <= n'.end /\ n'.end <= Len(id)
    BY <1>1 DEF EndParse, SpanInv, Span
  <1>3. c' \in Span /\ c'.start <= c'.end /\ c'.end <= Len(id)
    BY <1>1 DEF EndParse, SpanInv, Span
  <1>4. e' \in Span /\ e'.start <= e'.end /\ e'.end <= Len(id)
    BY <1>1 DEF EndParse, SpanInv, Span
  <1> QED
    BY <1>1, <1>2, <1>3, <1>4 DEF SpanInv, Past

\* Every step keeps the spans within the user-id.
LEMMA SpanNext ==
  ASSUME SpanInv, [Next]_vars
  PROVE  SpanInv'
  <1>1. CASE UNCHANGED vars
    BY <1>1 DEF vars, spans, SpanInv, Span, Past
  <1>2. CASE BeginEmail
    BY <1>2 DEF BeginEmail, spans, SpanInv, Span, Past
  <1>3. CASE BeginFingerprint \/ Normalize \/ Try \/ NotFound
    <2>1. id' = id /\ UNCHANGED spans /\ state' = state /\ pc' \in {"search", "done"}
          /\ offset' \in Nat
      <3>1. CASE BeginFingerprint
        BY <3>1 DEF BeginFingerprint, BadFormat, BeginSearch, SpanInv
      <3>2. CASE Normalize
        BY <3>2 DEF Normalize, BadFormat, BeginSearch, SpanInv
      <3>3. CASE Try
        BY <3>3 DEF Try, SpanInv
      <3>4. CASE NotFound
        BY <3>4 DEF NotFound, SpanInv
      <3> QED
        BY <1>3, <3>1, <3>2, <3>3, <3>4
    <2>2. \A span \in {n, c, e} : span.start <= span.end /\ span.end <= Len(id)
      <3>1. CASE pc = "begin"
        BY <3>1 DEF SpanInv, Span
      <3>2. CASE pc # "begin"
        BY <1>3, <3>2 DEF BeginFingerprint, Normalize, Try, NotFound, SpanInv, Past
      <3> QED
        BY <3>1, <3>2
    <2> QED
      BY <2>1, <2>2 DEF SpanInv, Past, spans
  <1> QED
    BY <1>1, <1>2, <1>3, SpanParse, SpanEnd DEF Next

LEMMA SpanInductive == Spec => []SpanInv
  BY SpanInit, SpanNext, PTL DEF Spec

\* Of a user-id of any length and form, the three slices taken are slices of it.
THEOREM Typing == Spec => []TypeOK
  <1>1. SpanInv => TypeOK
    BY DEF SpanInv, TypeOK, Past, Span
  <1> QED
    BY <1>1, SpanInductive, PTL

-----------------------------------------------------------------------------
(* The search *)

Hit(i) == idents[i].readable /\ (HasEmail(idents[i]) \/ HasFingerprint(idents[i]))

StoreInv ==
  /\ DOMAIN idents = 1 .. Len(idents) /\ Len(idents) \in Nat
  /\ \A i \in DOMAIN idents : IsIdent(idents[i])

\* What is looked for, from the user-id.
WantedInv ==
  /\ error \in BOOLEAN /\ fpr \in Seq(Seq(STRING))
  /\ pc \in {"begin", "parse", "normalize"} => email = <<>> /\ fpr = <<>> /\ error = FALSE
  /\ pc \in {"parse", "normalize"} => Contains(id, "@")
  /\ pc \in {"search", "done"} =>
       /\ error <=> email = <<>> /\ fpr = <<>>
       /\ IF Contains(id, "@") THEN email = NormalEmail /\ fpr = <<>> ELSE email = <<>>

\* What has been looked at: the identities before offset do not match.
FoundInv ==
  /\ pc \in {"begin", "parse", "normalize", "search", "done"}
  /\ pc # "done" => found = 0
  /\ pc = "search" => /\ offset \in Nat \ {0} /\ ~error
                      /\ \A i \in DOMAIN idents : i < offset => ~Hit(i)
  /\ pc = "done" =>
       IF found = 0 THEN error \/ \A i \in DOMAIN idents : ~Hit(i)
       ELSE /\ ~error /\ found \in DOMAIN idents /\ Hit(found)
            /\ \A i \in DOMAIN idents : i < found => ~Hit(i)

SearchInv == StoreInv /\ WantedInv /\ FoundInv

\* A fingerprint searched for is a list of octets, each of two characters.
LEMMA FingerprintType ==
  ASSUME id \in Seq(STRING)
  PROVE  NormalFingerprint(id) \in Seq(Seq(STRING))
  <1> DEFINE hex == WithoutPrefix(id)
             m == Len(hex) \div 2
             bytes == [i \in 1 .. m |-> <<hex[2 * i - 1], hex[2 * i]>>]
  <1>1. hex \in Seq(STRING)
    <2>1. CASE Len(id) >= 2
      <3>1. \A i \in 3 .. Len(id) : id[i] \in STRING
        BY LenProperties, ElementOfSeq
      <3>2. SubSeq(id, 3, Len(id)) \in Seq(STRING)
        BY <3>1, LenProperties, SubSeqProperties
      <3> QED
        BY <3>2 DEF WithoutPrefix
    <2>2. CASE ~(Len(id) >= 2)
      BY <2>2 DEF WithoutPrefix
    <2> QED
      BY <2>1, <2>2
  <1> HIDE DEF hex
  <1>2. CASE Len(hex) % 2 = 0
    <2>1. Len(hex) \in Nat /\ m \in Nat /\ 2 * m = Len(hex)
      BY <1>1, <1>2, LenProperties
    <2> HIDE DEF m
    <2>2. ASSUME NEW i \in 1 .. m
          PROVE  <<hex[2 * i - 1], hex[2 * i]>> \in Seq(STRING)
      <3>1. 2 * i - 1 \in 1 .. Len(hex) /\ 2 * i \in 1 .. Len(hex)
        BY <2>1
      <3>2. hex[2 * i - 1] \in STRING /\ hex[2 * i] \in STRING
        BY <1>1, <3>1, ElementOfSeq
      <3> QED
        BY <3>2
    <2>3. bytes \in [1 .. m -> Seq(STRING)]
      BY <2>2
    <2> HIDE DEF bytes
    <2>4. bytes \in Seq(Seq(STRING))
      BY <2>1, <2>3, SeqDef
    <2>5. <<>> \in Seq(Seq(STRING))
      BY EmptySeq
    <2> QED
      BY <2>4, <2>5 DEF NormalFingerprint, bytes, m, hex
  <1>3. CASE Len(hex) % 2 # 0
    <2>1. NormalFingerprint(id) = <<>>
      BY <1>3 DEF NormalFingerprint, hex
    <2> QED
      BY <2>1, EmptySeq
  <1> QED
    BY <1>2, <1>3

\* hasSuffix, of a suffix that is not empty.
LEMMA SuffixIs ==
  ASSUME NEW S, NEW s \in Seq(S), NEW suffix \in Seq(S), suffix # <<>>
  PROVE  HasSuffix(s, suffix) <=> \E k \in DOMAIN s : SubSeq(s, k, Len(s)) = suffix
  <1>1. /\ Len(s) \in Nat /\ DOMAIN s = 1 .. Len(s)
        /\ Len(suffix) \in Nat \ {0}
        /\ \A i \in 1 .. Len(s) : s[i] \in S
    BY LenProperties, EmptySeq, ElementOfSeq
  <1>2. ASSUME HasSuffix(s, suffix)
        PROVE  \E k \in DOMAIN s : SubSeq(s, k, Len(s)) = suffix
    <2>1. Len(s) - Len(suffix) + 1 \in DOMAIN s
      BY <1>1, <1>2 DEF HasSuffix
    <2> QED
      BY <1>2, <2>1 DEF HasSuffix
  <1>3. ASSUME NEW k \in DOMAIN s, SubSeq(s, k, Len(s)) = suffix
        PROVE  HasSuffix(s, suffix)
    <2>1. k \in 1 .. Len(s)
      BY <1>1
    <2>2. Len(SubSeq(s, k, Len(s))) = Len(s) - k + 1
      BY <1>1, <2>1, SubSeqProperties
    <2>3. Len(suffix) <= Len(s) /\ k = Len(s) - Len(suffix) + 1
      BY <1>1, <1>3, <2>1, <2>2
    <2> QED
      BY <1>3, <2>3 DEF HasSuffix
  <1> QED
    BY <1>2, <1>3

\* What the loops of the search find is what the user-id names.
LEMMA HitIsMatch ==
  ASSUME StoreInv, fpr \in Seq(Seq(STRING)), NEW i \in DOMAIN idents
  PROVE  Hit(i) <=> i \in Matching
  <1> DEFINE cert == idents[i]
  <1>1. IsIdent(cert)
    BY DEF StoreInv
  <1>2. CASE cert = NoCert
    BY <1>2 DEF NoCert, Hit, Matching
  <1>3. CASE cert.readable = TRUE /\ <<>> \notin cert.emails /\ cert.fpr \in Seq(Seq(STRING))
    <2>1. HasEmail(cert) <=> email # <<>> /\ email \in cert.emails
      BY <1>3 DEF HasEmail
    <2>2. HasFingerprint(cert)
            <=> fpr # <<>> /\ \E k \in DOMAIN cert.fpr : SubSeq(cert.fpr, k, Len(cert.fpr)) = fpr
      <3> DEFINE whole == cert.fpr
      <3>1. whole \in Seq(Seq(STRING))
        BY <1>3
      <3>2. fpr # <<>> =>
              (HasSuffix(whole, fpr) <=> \E k \in DOMAIN whole : SubSeq(whole, k, Len(whole)) = fpr)
        <4> HIDE DEF whole
        <4> QED
          BY <3>1, SuffixIs
      <3> QED
        BY <3>2 DEF HasFingerprint
    <2> QED
      BY <1>3, <2>1, <2>2 DEF Hit, Matching
  <1> QED
    BY <1>1, <1>2, <1>3 DEF IsIdent

\* Nothing is looked at yet.
LEMMA SearchInit == Init => SearchInv
  <1> SUFFICES ASSUME Init PROVE SearchInv
    OBVIOUS
  <1>1. StoreInv
    BY UserIdentityAssumption DEF Init, StoreInv
  <1>2. <<>> \in Seq(Seq(STRING))
    BY EmptySeq
  <1> QED
    BY <1>1, <1>2 DEF Init, SearchInv, WantedInv, FoundInv

\* Who hits depends on what is looked for and on the store alone.
LEMMA SameHits ==
  ASSUME UNCHANGED <<idents, email, fpr>>
  PROVE  \A i : Hit(i)' = Hit(i)
  BY DEF Hit, HasEmail, HasFingerprint

\* What is looked for is known once the user-id is normalised.
LEMMA SearchBegins ==
  ASSUME SpanInv, SearchInv, BeginEmail \/ BeginFingerprint \/ Normalize
  PROVE  SearchInv'
  <1>1. idents' = idents /\ id' = id /\ found' = found /\ found = 0 /\ UNCHANGED spans
    BY DEF BeginEmail, BeginFingerprint, Normalize, SearchInv, FoundInv
  <1>2. StoreInv'
    BY <1>1 DEF SearchInv, StoreInv
  <1>3. email = <<>> /\ fpr = <<>> /\ error = FALSE
    BY DEF BeginEmail, BeginFingerprint, Normalize, SearchInv, WantedInv
  <1>4. CASE BeginEmail
    BY <1>1, <1>2, <1>3, <1>4 DEF BeginEmail, SearchInv, WantedInv, FoundInv
  <1>5. CASE BeginFingerprint
    <2>1. /\ fpr' = NormalFingerprint(id) /\ email' = <<>> /\ ~Contains(id, "@")
          /\ \/ fpr' = <<>> /\ error' = TRUE /\ pc' = "done"
             \/ fpr' # <<>> /\ error' = FALSE /\ pc' = "search" /\ offset' = 1
      BY <1>3, <1>5 DEF BeginFingerprint, BadFormat, BeginSearch
    <2>2. fpr' \in Seq(Seq(STRING))
      BY <2>1, FingerprintType DEF SpanInv
    <2>3. WantedInv'
      BY <1>1, <2>1, <2>2 DEF WantedInv
    <2>4. FoundInv'
      <3>1. \A i \in DOMAIN idents : ~(i < 1)
        BY DEF SearchInv, StoreInv
      <3> QED
        BY <1>1, <2>1, <3>1 DEF FoundInv
    <2> QED
      BY <1>2, <2>3, <2>4 DEF SearchInv
  <1>6. CASE Normalize
    <2>1. /\ email' = NormalEmail /\ fpr' = <<>> /\ Contains(id, "@")
          /\ \/ email' = <<>> /\ error' = TRUE /\ pc' = "done"
             \/ email' # <<>> /\ error' = FALSE /\ pc' = "search" /\ offset' = 1
      BY <1>3, <1>6 DEF Normalize, BadFormat, BeginSearch, SearchInv, WantedInv
    <2>2. <<>> \in Seq(Seq(STRING))
      BY EmptySeq
    <2>3. NormalEmail' = NormalEmail
      BY <1>1 DEF NormalEmail, Email, Name, spans
    <2>4. WantedInv'
      BY <1>1, <2>1, <2>2, <2>3 DEF WantedInv
    <2>5. FoundInv'
      <3>1. \A i \in DOMAIN idents : ~(i < 1)
        BY DEF SearchInv, StoreInv
      <3> QED
        BY <1>1, <2>1, <3>1 DEF FoundInv
    <2> QED
      BY <1>2, <2>4, <2>5 DEF SearchInv
  <1> QED
    BY <1>4, <1>5, <1>6

\* Parsing changes nothing of the store.
LEMMA SearchParses ==
  ASSUME SearchInv, ParseRune \/ EndParse
  PROVE  SearchInv'
  <1>1. UNCHANGED <<id, idents, email, fpr, found, error>>
        /\ pc = "parse" /\ pc' \in {"parse", "normalize"}
    BY DEF ParseRune, EndParse
  <1> QED
    BY <1>1 DEF SearchInv, StoreInv, WantedInv, FoundInv

\* One more identity looked at.
LEMMA SearchLooks ==
  ASSUME SearchInv, Try \/ NotFound
  PROVE  SearchInv'
  <1>1. UNCHANGED <<id, idents, spans, email, fpr, error>> /\ pc = "search"
        /\ pc' \in {"search", "done"}
    BY DEF Try, NotFound
  <1>2. StoreInv'
    BY <1>1 DEF SearchInv, StoreInv
  <1>3. WantedInv'
    <2>1. NormalEmail' = NormalEmail
      BY <1>1 DEF NormalEmail, Email, Name, spans
    <2> QED
      BY <1>1, <2>1 DEF SearchInv, WantedInv
  <1>4. /\ offset \in Nat \ {0} /\ ~error /\ found = 0 /\ DOMAIN idents = 1 .. Len(idents)
        /\ Len(idents) \in Nat /\ \A i \in DOMAIN idents : i < offset => ~Hit(i)
    BY <1>1 DEF SearchInv, StoreInv, FoundInv
  <1>5. \A i : Hit(i)' = Hit(i)
    BY <1>1, SameHits
  <1>6. CASE NotFound
    <2>1. pc' = "done" /\ found' = 0 /\ offset > Len(idents)
      BY <1>4, <1>6 DEF NotFound
    <2>2. \A i \in DOMAIN idents' : ~Hit(i)'
      BY <1>1, <1>4, <1>5, <2>1
    <2> QED
      BY <1>2, <1>3, <2>1, <2>2 DEF SearchInv, FoundInv
  <1>7. CASE Try
    <2>1. offset \in DOMAIN idents
      BY <1>4, <1>7 DEF Try
    <2>2. CASE Hit(offset)
      <3>1. found' = offset /\ pc' = "done"
        BY <1>7, <2>2 DEF Try, Hit
      <3>2. FoundInv'
        BY <1>1, <1>4, <1>5, <2>1, <2>2, <3>1 DEF FoundInv
      <3> QED
        BY <1>2, <1>3, <3>2 DEF SearchInv
    <2>3. CASE ~Hit(offset)
      <3>1. found' = 0 /\ pc' = "search" /\ offset' = offset + 1
        BY <1>1, <1>4, <1>7, <2>3 DEF Try, Hit
      <3>2. \A i \in DOMAIN idents : i < offset + 1 => ~Hit(i)
        BY <1>4, <2>3
      <3>3. FoundInv'
        BY <1>1, <1>4, <1>5, <3>1, <3>2 DEF FoundInv
      <3> QED
        BY <1>2, <1>3, <3>3 DEF SearchInv
    <2> QED
      BY <2>2, <2>3
  <1> QED
    BY <1>6, <1>7

\* Every step of the search.
LEMMA SearchNext ==
  ASSUME SpanInv, SearchInv, [Next]_vars
  PROVE  SearchInv'
  <1>1. CASE UNCHANGED vars
    <2>1. NormalEmail' = NormalEmail
      BY <1>1 DEF NormalEmail, Email, Name, vars, spans
    <2>2. \A i : Hit(i)' = Hit(i)
      BY <1>1, SameHits DEF vars
    <2>3. UNCHANGED <<id, idents, pc, offset, email, fpr, found, error>>
      BY <1>1 DEF vars
    <2>4. StoreInv' /\ WantedInv'
      BY <2>1, <2>3 DEF SearchInv, StoreInv, WantedInv
    <2>5. FoundInv'
      BY <2>2, <2>3 DEF SearchInv, FoundInv
    <2> QED
      BY <2>4, <2>5 DEF SearchInv
  <1> QED
    BY <1>1, SearchBegins, SearchParses, SearchLooks DEF Next

LEMMA SearchInductive == Spec => []SearchInv
  BY SearchInit, SearchNext, SpanInductive, PTL DEF Spec

\* In a store of any number of identities, with unreadable ones anywhere, the one
\* returned is the first that the user-id names, and none when it names nothing.
THEOREM FirstOfAll == Spec => []FirstMatchFound
  <1>1. SearchInv => FirstMatchFound
    <2> SUFFICES ASSUME SearchInv, pc = "done"
                 PROVE  /\ error <=> email = <<>> /\ fpr = <<>>
                        /\ IF error \/ Matching = {} THEN found = 0
                           ELSE found \in Matching /\ \A i \in Matching : found <= i
      BY DEF FirstMatchFound
    <2>1. error <=> email = <<>> /\ fpr = <<>>
      BY DEF SearchInv, WantedInv
    <2>2. \A i \in DOMAIN idents : Hit(i) <=> i \in Matching
      BY HitIsMatch DEF SearchInv, WantedInv
    <2>3. Matching \subseteq DOMAIN idents /\ DOMAIN idents = 1 .. Len(idents)
      BY DEF Matching, SearchInv, StoreInv
    <2>4. CASE found = 0
      <3>1. error \/ Matching = {}
        BY <2>2, <2>3, <2>4 DEF SearchInv, FoundInv
      <3> QED
        BY <2>1, <2>4, <3>1
    <2>5. CASE found # 0
      <3>1. ~error /\ found \in Matching
        BY <2>2, <2>5 DEF SearchInv, FoundInv
      <3>2. \A i \in Matching : ~(i < found)
        BY <2>2, <2>3, <2>5 DEF SearchInv, FoundInv
      <3>3. \A i \in Matching : i \in Int /\ found \in Int
        BY <2>3, <3>1
      <3>4. \A i \in Matching : found <= i
        BY <3>2, <3>3
      <3> QED
        BY <2>1, <3>1, <3>4
    <2> QED
      BY <2>4, <2>5
  <1> QED
    BY <1>1, SearchInductive, PTL

-----------------------------------------------------------------------------
(* The scanner *)

Zero == [start |-> 0, end |-> 0]

PlainFrom(p, q) == \A k \in p .. q : id[k] \notin Special

\* An id in the form "name (comment) <email>", its brackets after a, b and d characters
\* and at its end.
Form(a, b, d) ==
  /\ a < b /\ b < d /\ d < Len(id)
  /\ id[a + 1] = "(" /\ id[b + 1] = ")" /\ id[d + 1] = "<" /\ id[Len(id)] = ">"
  /\ PlainFrom(1, a) /\ PlainFrom(a + 2, b) /\ PlainFrom(b + 2, d)
  /\ PlainFrom(d + 2, Len(id) - 1)

\* The state the scanner is in tells the part of such an id it is in.
Scanning(a, b, d) ==
  /\ offset <= a => state \in {0, 1}
  /\ a < offset /\ offset <= b => state \in {2, 3}
  /\ b < offset /\ offset <= d => state = 4
  /\ offset = d + 1 => state = 5
  /\ d + 1 < offset /\ offset < Len(id) => state = 6 /\ e.start = d + 1
  /\ offset = Len(id) => state = 7 /\ e = [start |-> d + 1, end |-> Len(id) - 1]

FormInv ==
  \A a, b, d \in 0 .. Len(id) :
    Form(a, b, d) =>
      /\ pc \in {"begin", "parse"} => Scanning(a, b, d)
      /\ pc \in Past /\ Contains(id, "@") => e = [start |-> d + 1, end |-> Len(id) - 1]

\* An id without brackets is all name.
PlainInv ==
  PlainFrom(1, Len(id)) =>
    /\ pc \in {"begin", "parse"} => e = Zero /\ state = IF offset = 0 THEN 0 ELSE 1
    /\ pc \in Past /\ Contains(id, "@") => e = Zero /\ n = [start |-> 0, end |-> Len(id)]

ScanInv == FormInv /\ PlainInv

\* The scanner stands before the user-id.
LEMMA ScanInit == Init => ScanInv
  <1> SUFFICES ASSUME Init PROVE ScanInv
    OBVIOUS
  <1>1. Len(id) \in Nat /\ pc = "begin" /\ offset = 0 /\ state = 0 /\ e = Zero
    BY SpanInit DEF Init, Zero, SpanInv
  <1>2. ASSUME NEW a \in 0 .. Len(id), NEW b \in 0 .. Len(id), NEW d \in 0 .. Len(id),
               Form(a, b, d)
        PROVE  Scanning(a, b, d)
    BY <1>1, <1>2 DEF Form, Scanning
  <1> QED
    BY <1>1, <1>2 DEF ScanInv, FormInv, PlainInv, Past

\* A rune of a user-id in the form of an address.
LEMMA FormParse ==
  ASSUME SpanInv, FormInv, ParseRune
  PROVE  FormInv'
  <1>1. /\ pc = "parse" /\ pc' = "parse" /\ id' = id /\ offset < Len(id) /\ offset' = offset + 1
        /\ offset \in Nat /\ Len(id) \in Nat /\ e \in Span /\ state \in 0 .. 7
    BY DEF ParseRune, SpanInv
  <1> SUFFICES ASSUME NEW a \in 0 .. Len(id), NEW b \in 0 .. Len(id), NEW d \in 0 .. Len(id),
                      Form(a, b, d)
               PROVE  Scanning(a, b, d)'
    <2>1. \A a, b, d \in 0 .. Len(id) : Form(a, b, d)' <=> Form(a, b, d)
      BY <1>1 DEF Form, PlainFrom
    <2> QED
      BY <1>1, <2>1 DEF FormInv, Past
  <1>2. /\ a < b /\ b < d /\ d < Len(id)
        /\ id[a + 1] = "(" /\ id[b + 1] = ")" /\ id[d + 1] = "<" /\ id[Len(id)] = ">"
        /\ PlainFrom(1, a) /\ PlainFrom(a + 2, b) /\ PlainFrom(b + 2, d)
        /\ PlainFrom(d + 2, Len(id) - 1) /\ Scanning(a, b, d)
    BY <1>1 DEF Form, FormInv
  <1>3. a \in Nat /\ b \in Nat /\ d \in Nat
    OBVIOUS
  <1>4. CASE offset < a
    <2>1. state \in {0, 1} /\ Rune \notin Special
      BY <1>1, <1>2, <1>3, <1>4 DEF Scanning, PlainFrom, Rune
    <2>2. state' = 1
      BY <2>1 DEF ParseRune, InName, InComment, Between, InEmail, AfterEmail, Special
    <2> QED
      BY <1>1, <1>2, <1>3, <1>4, <2>2 DEF Scanning
  <1>5. CASE offset = a
    <2>1. state \in {0, 1} /\ Rune = "("
      BY <1>1, <1>2, <1>3, <1>5 DEF Scanning, Rune
    <2>2. state' = 2
      BY <2>1 DEF ParseRune, InName, InComment, Between, InEmail, AfterEmail
    <2> QED
      BY <1>1, <1>2, <1>3, <1>5, <2>2 DEF Scanning
  <1>6. CASE a < offset /\ offset < b
    <2>1. state \in {2, 3} /\ Rune \notin Special
      BY <1>1, <1>2, <1>3, <1>6 DEF Scanning, PlainFrom, Rune
    <2>2. state' = 3
      BY <2>1 DEF ParseRune, InName, InComment, Between, InEmail, AfterEmail, Special
    <2> QED
      BY <1>1, <1>2, <1>3, <1>6, <2>2 DEF Scanning
  <1>7. CASE offset = b
    <2>1. state \in {2, 3} /\ Rune = ")"
      BY <1>1, <1>2, <1>3, <1>7 DEF Scanning, Rune
    <2>2. state' = 4
      BY <2>1 DEF ParseRune, InName, InComment, Between, InEmail, AfterEmail
    <2> QED
      BY <1>1, <1>2, <1>3, <1>7, <2>2 DEF Scanning
  <1>8. CASE b < offset /\ offset < d
    <2>1. state = 4 /\ Rune \notin Special
      BY <1>1, <1>2, <1>3, <1>8 DEF Scanning, PlainFrom, Rune
    <2>2. state' = 4
      BY <2>1 DEF ParseRune, InName, InComment, Between, InEmail, AfterEmail, Special
    <2> QED
      BY <1>1, <1>2, <1>3, <1>8, <2>2 DEF Scanning
  <1>9. CASE offset = d
    <2>1. state = 4 /\ Rune = "<"
      BY <1>1, <1>2, <1>3, <1>9 DEF Scanning, Rune
    <2>2. state' = 5
      BY <2>1 DEF ParseRune, InName, InComment, Between, InEmail, AfterEmail
    <2>3. d + 1 # Len(id)
      BY <1>2
    <2> QED
      BY <1>1, <1>2, <1>3, <1>9, <2>2, <2>3 DEF Scanning
  <1>10. CASE d < offset
    <2>1. state \in {5, 6} /\ (IF state = 5 THEN offset ELSE e.start) = d + 1
      <3>1. CASE offset = d + 1
        BY <1>2, <3>1 DEF Scanning
      <3>2. CASE offset # d + 1
        BY <1>1, <1>2, <1>3, <1>10, <3>2 DEF Scanning
      <3> QED
        BY <3>1, <3>2
    <2>2. InEmail
      BY <2>1 DEF ParseRune, InName, InComment, Between, InEmail, AfterEmail
    <2>3. CASE offset + 1 < Len(id)
      <3>1. Rune \notin Special
        BY <1>1, <1>2, <1>3, <1>10, <2>3 DEF PlainFrom, Rune
      <3>2. state' = 6 /\ e'.start = d + 1
        BY <2>1, <2>2, <3>1 DEF InEmail, Special
      <3> QED
        BY <1>1, <1>2, <1>3, <1>10, <2>3, <3>2 DEF Scanning
    <2>4. CASE offset + 1 = Len(id)
      <3>1. Rune = ">"
        BY <1>2, <2>4 DEF Rune
      <3>2. state' = 7 /\ e' = [start |-> d + 1, end |-> offset]
        BY <2>1, <2>2, <3>1 DEF InEmail
      <3>3. offset = Len(id) - 1
        BY <1>1, <2>4
      <3> QED
        BY <1>1, <1>2, <1>3, <1>10, <2>4, <3>2, <3>3 DEF Scanning
    <2> QED
      BY <1>1, <2>3, <2>4
  <1> QED
    BY <1>1, <1>3, <1>4, <1>5, <1>6, <1>7, <1>8, <1>9, <1>10

\* A rune of one without brackets.
LEMMA PlainParse ==
  ASSUME SpanInv, PlainInv, ParseRune
  PROVE  PlainInv'
  <1>1. /\ pc = "parse" /\ pc' = "parse" /\ id' = id /\ offset < Len(id) /\ offset' = offset + 1
        /\ offset \in Nat /\ Len(id) \in Nat
    BY DEF ParseRune, SpanInv
  <1>2. CASE PlainFrom(1, Len(id))
    <2>1. e = Zero /\ state \in {0, 1}
      BY <1>1, <1>2 DEF PlainInv
    <2>2. offset + 1 \in 1 .. Len(id)
      BY <1>1
    <2>3. Rune \notin Special
      BY <1>2, <2>2 DEF PlainFrom, Rune
    <2>4. state' = 1 /\ e' = e
      BY <2>1, <2>3 DEF ParseRune, InName, InComment, Between, InEmail, AfterEmail, Special
    <2> QED
      BY <1>1, <2>1, <2>4 DEF PlainInv, Past
  <1>3. CASE ~PlainFrom(1, Len(id))
    BY <1>1, <1>3 DEF PlainInv, PlainFrom
  <1> QED
    BY <1>2, <1>3

\* The end of either.
LEMMA ScanEnds ==
  ASSUME SpanInv, SearchInv, ScanInv, EndParse
  PROVE  ScanInv'
  <1>1. /\ pc = "parse" /\ pc' = "normalize" /\ id' = id /\ offset = Len(id) /\ offset' = offset
        /\ state' = state /\ Len(id) \in Nat /\ id \in Seq(STRING)
    BY DEF EndParse, SpanInv
  <1>2. FormInv'
    <2>1. ASSUME NEW a \in 0 .. Len(id), NEW b \in 0 .. Len(id), NEW d \in 0 .. Len(id),
                 Form(a, b, d)
          PROVE  e' = [start |-> d + 1, end |-> Len(id) - 1]
      <3>1. state = 7 /\ e = [start |-> d + 1, end |-> Len(id) - 1]
        BY <1>1, <2>1 DEF ScanInv, FormInv, Scanning
      <3> QED
        BY <3>1 DEF EndParse
    <2> QED
      BY <1>1, <2>1 DEF FormInv, Form, PlainFrom, Past
  <1>3. PlainInv'
    <2>1. ASSUME PlainFrom(1, Len(id))
          PROVE  e' = Zero /\ n' = [start |-> 0, end |-> Len(id)]
      <3>1. Contains(id, "@")
        BY <1>1 DEF SearchInv, WantedInv
      <3>2. Len(id) # 0
        BY <1>1, <3>1, LenProperties DEF Contains
      <3>3. state = 1 /\ e = Zero /\ n \in Span /\ n.start = 0
        BY <1>1, <2>1, <3>2 DEF ScanInv, PlainInv, SpanInv
      <3>4. n' = [n EXCEPT !.end = Len(id)] /\ e' = e
        BY <3>3 DEF EndParse
      <3> QED
        BY <3>3, <3>4 DEF Span
    <2> QED
      BY <1>1, <2>1 DEF PlainInv, PlainFrom, Past
  <1> QED
    BY <1>2, <1>3 DEF ScanInv

\* Every step of the scan.
LEMMA ScanNext ==
  ASSUME SpanInv, SearchInv, ScanInv, [Next]_vars
  PROVE  ScanInv'
  <1>1. CASE UNCHANGED vars
    BY <1>1 DEF vars, spans, ScanInv, FormInv, PlainInv, Form, PlainFrom, Scanning
  <1>2. CASE ParseRune
    BY <1>2, FormParse, PlainParse DEF ScanInv
  <1>3. CASE EndParse
    BY <1>3, ScanEnds
  <1>4. CASE BeginEmail
    BY <1>4 DEF BeginEmail, spans, ScanInv, FormInv, PlainInv, Form, PlainFrom, Scanning, Past
  <1>5. CASE BeginFingerprint
    <2>1. ~Contains(id, "@") /\ id' = id /\ pc' \in {"search", "done"}
      BY <1>5 DEF BeginFingerprint, BadFormat, BeginSearch
    <2> QED
      BY <2>1 DEF ScanInv, FormInv, PlainInv, Contains, Past
  <1>6. CASE Normalize \/ Try \/ NotFound
    <2>1. id' = id /\ UNCHANGED spans /\ pc \in Past /\ pc' \in {"search", "done"}
      BY <1>6 DEF Normalize, Try, NotFound, BadFormat, BeginSearch, Past
    <2>2. Contains(id, "@")' = Contains(id, "@") /\ n' = n /\ e' = e
      BY <2>1 DEF Contains, spans
    <2>3. pc' \in Past /\ pc' \notin {"begin", "parse"}
      BY <2>1 DEF Past
    <2>4. FormInv'
      <3> SUFFICES ASSUME NEW a \in 0 .. Len(id), NEW b \in 0 .. Len(id), NEW d \in 0 .. Len(id),
                          Form(a, b, d)', Contains(id, "@")'
                   PROVE  e' = [start |-> d + 1, end |-> Len(id) - 1]
        BY <2>1, <2>3 DEF FormInv
      <3>1. Form(a, b, d)
        BY <2>1 DEF Form, PlainFrom
      <3> QED
        BY <2>1, <2>2, <3>1 DEF ScanInv, FormInv
    <2>5. PlainInv'
      BY <2>1, <2>2, <2>3 DEF ScanInv, PlainInv, PlainFrom
    <2> QED
      BY <2>4, <2>5 DEF ScanInv
  <1> QED
    BY <1>1, <1>2, <1>3, <1>4, <1>5, <1>6 DEF Next

LEMMA ScanInductive == Spec => []ScanInv
  BY ScanInit, ScanNext, SpanInductive, SearchInductive, PTL DEF Spec

\* A user-id without brackets is its own name, trimmed.
LEMMA PlainSlice ==
  ASSUME SpanInv, NEW p \in Nat \ {0}, NEW q \in 0 .. Len(id), Plain(SubSeq(id, p, q))
  PROVE  PlainFrom(p, q)
  <1> DEFINE t == SubSeq(id, p, q)
  <1>1. id \in Seq(STRING) /\ Len(id) \in Nat
    BY DEF SpanInv
  <1>2. \A i \in p .. q : id[i] \in STRING
    <2>1. \A i \in p .. q : i \in 1 .. Len(id)
      BY <1>1
    <2> QED
      BY <1>1, <2>1, ElementOfSeq
  <1>3. /\ t \in Seq(STRING) /\ Len(t) = IF p <= q THEN q - p + 1 ELSE 0
        /\ \A i \in 1 .. q - p + 1 : t[i] = id[p + i - 1]
    BY <1>1, <1>2, SubSeqProperties
  <1>4. DOMAIN t = 1 .. Len(t)
    BY <1>3, LenProperties
  <1>5. Plain(t)
    OBVIOUS
  <1> HIDE DEF t
  <1>6. ASSUME NEW k \in p .. q
        PROVE  id[k] \notin Special
    <2>1. k - p + 1 \in 1 .. q - p + 1 /\ p + (k - p + 1) - 1 = k /\ p <= q
      BY <1>1
    <2>2. k - p + 1 \in DOMAIN t /\ t[k - p + 1] = id[k]
      BY <1>3, <1>4, <2>1
    <2> QED
      BY <1>5, <2>2 DEF Plain
  <1> QED
    BY <1>6 DEF PlainFrom

\* Of a user-id of any length: in the form of an address, the address that is looked
\* for is the one between the brackets, and without brackets it is the whole id.
THEOREM AddressFound == Spec => []FormattedIdParsed
  <1>1. SpanInv /\ SearchInv /\ ScanInv => FormattedIdParsed
    <2> SUFFICES ASSUME SpanInv, SearchInv, ScanInv, pc \in {"search", "done"}
                 PROVE  /\ Contains(id, "@") /\ Plain(id) => email = Trim(id)
                        /\ ~error /\ fpr = <<>> =>
                             \A a, b, d \in 0 .. Len(id) :
                               /\ a < b /\ b < d /\ d < Len(id)
                               /\ id[a + 1] = "(" /\ id[b + 1] = ")" /\ id[d + 1] = "<"
                               /\ id[Len(id)] = ">"
                               /\ Plain(SubSeq(id, 1, a)) /\ Plain(SubSeq(id, a + 2, b))
                               /\ Plain(SubSeq(id, b + 2, d))
                               /\ Plain(SubSeq(id, d + 2, Len(id) - 1))
                               /\ Trim(SubSeq(id, d + 2, Len(id) - 1)) # <<>>
                               => email = Trim(SubSeq(id, d + 2, Len(id) - 1))
      BY DEF FormattedIdParsed
    <2>1. id \in Seq(STRING) /\ Len(id) \in Nat /\ DOMAIN id = 1 .. Len(id) /\ pc \in Past
      BY LenProperties DEF SpanInv, Past
    <2>2. ASSUME Contains(id, "@"), Plain(id)
          PROVE  email = Trim(id)
      <3>1. PlainFrom(1, Len(id))
        BY <2>1, <2>2 DEF Plain, PlainFrom
      <3>2. e = Zero /\ n = [start |-> 0, end |-> Len(id)] /\ email = NormalEmail
        BY <2>1, <2>2, <3>1 DEF ScanInv, PlainInv, SearchInv, WantedInv
      <3>3. Slice(id, e) = <<>>
        BY <2>1, <3>2, SubSeqEmpty DEF Slice, Zero
      <3>4. Slice(id, n) = id
        <4>1. \A i \in 1 .. Len(id) : id[i] \in STRING
          BY <2>1, ElementOfSeq
        <4>2. /\ SubSeq(id, 1, Len(id)) \in Seq(STRING) /\ Len(SubSeq(id, 1, Len(id))) = Len(id)
              /\ \A i \in 1 .. Len(id) : SubSeq(id, 1, Len(id))[i] = id[i]
          BY <2>1, <4>1, SubSeqProperties
        <4>3. SubSeq(id, 1, Len(id)) = id
          BY <2>1, <4>2, SeqEqual
        <4> QED
          BY <3>2, <4>3 DEF Slice
      <3>5. Email = <<>> /\ Name = Trim(id)
        BY <3>3, <3>4, TrimEmpty DEF Email, Name
      <3>6. Contains(Trim(id), "@")
        BY <2>1, <2>2, TrimKeeps
      <3> QED
        BY <3>2, <3>5, <3>6 DEF NormalEmail
    <2>3. ASSUME ~error, fpr = <<>>,
                 NEW a \in 0 .. Len(id), NEW b \in 0 .. Len(id), NEW d \in 0 .. Len(id),
                 a < b, b < d, d < Len(id),
                 id[a + 1] = "(", id[b + 1] = ")", id[d + 1] = "<", id[Len(id)] = ">",
                 Plain(SubSeq(id, 1, a)), Plain(SubSeq(id, a + 2, b)),
                 Plain(SubSeq(id, b + 2, d)), Plain(SubSeq(id, d + 2, Len(id) - 1)),
                 Trim(SubSeq(id, d + 2, Len(id) - 1)) # <<>>
          PROVE  email = Trim(SubSeq(id, d + 2, Len(id) - 1))
      <3>1. PlainFrom(1, a) /\ PlainFrom(a + 2, b) /\ PlainFrom(b + 2, d)
        BY <2>3, PlainSlice
      <3>2. PlainFrom(d + 2, Len(id) - 1)
        <4>1. Len(id) - 1 \in 0 .. Len(id) /\ d + 2 \in Nat \ {0}
          BY <2>1, <2>3
        <4> QED
          BY <2>3, <4>1, PlainSlice
      <3>3. Form(a, b, d)
        BY <2>3, <3>1, <3>2 DEF Form
      <3>4. Contains(id, "@") /\ email = NormalEmail
        BY <2>3 DEF SearchInv, WantedInv
      <3>5. e = [start |-> d + 1, end |-> Len(id) - 1]
        BY <2>1, <3>3, <3>4 DEF ScanInv, FormInv
      <3>6. Email = Trim(SubSeq(id, d + 2, Len(id) - 1))
        <4>1. (d + 1) + 1 = d + 2
          OBVIOUS
        <4> QED
          BY <3>5, <4>1 DEF Email, Slice
      <3> QED
        BY <2>3, <3>4, <3>6 DEF NormalEmail
    <2> QED
      BY <2>2, <2>3
  <1> QED
    BY <1>1, SpanInductive, SearchInductive, ScanInductive, PTL
=============================================================================
