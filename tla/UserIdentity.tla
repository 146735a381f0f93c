---------------------------- MODULE UserIdentity ----------------------------
(***************************************************************************)
(* From --local-user to an identity: findUserIdentity (command_sign.go)    *)
(* with the state machine of parseUserID (parse_user_id.go), taken one     *)
(* rune at a time, and the normalisations of utils.go.  Which certificate  *)
(* signs hangs on where its slices begin and end, so user-ids are          *)
(* sequences of characters here.                                           *)
(***************************************************************************)
EXTENDS Integers, Sequences

CONSTANT Searches   \* records [id, idents]: a user-id, as a sequence of characters, and
                    \* the store's identities, as one of certificates and NoCert

NoCert == [readable |-> FALSE]       \* Certificate() returns an error
\* A readable one is [readable, emails, fpr]: certEmails, and the SHA-1
\* fingerprint as a sequence of bytes, each two digits.

\* No certificate has an empty address, which every fingerprint would match.
IsIdent(cert) ==
  \/ cert = NoCert
  \/ cert.readable = TRUE /\ <<>> \notin cert.emails /\ cert.fpr \in Seq(Seq(STRING))

ASSUME UserIdentityAssumption ==
  \A s \in Searches : /\ s.id \in Seq(STRING)
                       /\ DOMAIN s.idents = 1 .. Len(s.idents) /\ Len(s.idents) \in Nat
                       /\ \A i \in DOMAIN s.idents : IsIdent(s.idents[i])

Digits == {"0", "a"}                 \* the characters of a user-id that are hex

VARIABLES id,       \* *localUserOpt
          idents,   \* the store's identities
          pc,       \* "begin", "parse", "search", "done"
          offset,   \* index of the next rune, then of the next identity
          state,    \* of parseUserID
          n, c, e,  \* the spans of name, comment and email: [start, end)
          email,    \* the email looked for, <<>> for none
          fpr,      \* the fingerprint looked for, <<>> for none
          found,    \* the index of the identity returned, 0 for nil
          error     \* bad user-id format

spans == <<n, c, e>>
vars == <<id, idents, pc, offset, state, n, c, e, email, fpr, found, error>>

Contains(s, char) == \E i \in DOMAIN s : s[i] = char

\* Go's s[start:end]; strings.TrimSpace
Slice(s, span) == SubSeq(s, span.start + 1, span.end)

Trim(s) ==
  LET solid == {i \in DOMAIN s : s[i] # " "}
  IN IF solid = {} THEN <<>>
     ELSE SubSeq(s, CHOOSE i \in solid : \A j \in solid : i <= j,
                    CHOOSE i \in solid : \A j \in solid : i >= j)

Name == Trim(Slice(id, n))
Email == Trim(Slice(id, e))

\* Mutant of NormalEmail: the name's '@' wins.
NameFirst == IF Contains(Name, "@") THEN Name ELSE Email

\* normalizeEmail, once parseUserID is done
NormalEmail == IF Email # <<>> THEN Email
               ELSE IF Contains(Name, "@") THEN Name ELSE <<>>

\* normalizeFingerprint: hex digits, an even number of them, after one "0x".
WithoutPrefix(s) ==
  IF Len(s) >= 2 /\ s[1] = "0" /\ s[2] = "x" THEN SubSeq(s, 3, Len(s)) ELSE s

NormalFingerprint(s) ==
  LET hex == WithoutPrefix(s)
  IN IF Len(hex) % 2 = 0 /\ \A i \in DOMAIN hex : hex[i] \in Digits
     THEN [i \in 1 .. Len(hex) \div 2 |-> <<hex[2 * i - 1], hex[2 * i]>>]
     ELSE <<>>

HasSuffix(s, suffix) ==
  /\ Len(suffix) <= Len(s)
  /\ SubSeq(s, Len(s) - Len(suffix) + 1, Len(s)) = suffix

HasEmail(cert) == email \in cert.emails

HasFingerprint(cert) == fpr # <<>> /\ HasSuffix(cert.fpr, fpr)

Init ==
  /\ \E s \in Searches : id = s.id /\ idents = s.idents
  /\ pc = "begin" /\ offset = 0 /\ state = 0
  /\ n = [start |-> 0, end |-> 0] /\ c = n /\ e = n
  /\ email = <<>> /\ fpr = <<>> /\ found = 0 /\ error = FALSE

\* An '@' anywhere makes it an email.
BeginEmail ==
  /\ pc = "begin" /\ Contains(id, "@")
  /\ pc' = "parse"
  /\ UNCHANGED <<id, idents, offset, state, spans, email, fpr, found, error>>

BeginSearch == offset' = 1 /\ pc' = "search" /\ UNCHANGED error
BadFormat == error' = TRUE /\ pc' = "done" /\ UNCHANGED offset

BeginFingerprint ==
  /\ pc = "begin" /\ ~Contains(id, "@")
  /\ fpr' = NormalFingerprint(id)
  /\ IF fpr' = <<>> THEN BadFormat ELSE BeginSearch
  /\ UNCHANGED <<id, idents, state, spans, email, found>>

Rune == id[offset + 1]

\* One iteration of parseUserID.  States 0, 2 and 5 enter a part and fall
\* through to the next state with the rune that entered it.
InName ==
  /\ state \in {0, 1}
  /\ n' = [start |-> IF state = 0 THEN offset ELSE n.start,
           end   |-> IF Rune \in {"(", "<"} THEN offset ELSE n.end]
  /\ state' = CASE Rune = "(" -> 2 [] Rune = "<" -> 5 [] OTHER -> 1
  /\ UNCHANGED <<c, e>>

InComment ==
  /\ state \in {2, 3}
  /\ c' = [start |-> IF state = 2 THEN offset ELSE c.start,
           end   |-> IF Rune = ")" THEN offset ELSE c.end]
  /\ state' = IF Rune = ")" THEN 4 ELSE 3
  /\ UNCHANGED <<n, e>>

Between ==
  /\ state = 4
  /\ state' = IF Rune = "<" THEN 5 ELSE 4
  /\ UNCHANGED spans

InEmail ==
  /\ state \in {5, 6}
  /\ e' = [start |-> IF state = 5 THEN offset ELSE e.start,
           end   |-> IF Rune = ">" THEN offset ELSE e.end]
  /\ state' = IF Rune = ">" THEN 7 ELSE 6
  /\ UNCHANGED <<n, c>>

AfterEmail == state = 7 /\ UNCHANGED <<state, spans>>

ParseRune ==
  /\ pc = "parse" /\ offset < Len(id)
  /\ InName \/ InComment \/ Between \/ InEmail \/ AfterEmail
  /\ offset' = offset + 1
  /\ UNCHANGED <<id, idents, pc, email, fpr, found, error>>

\* Mutant: an unclosed comment or email is left open.
EndName ==
  /\ pc = "parse" /\ offset = Len(id)
  /\ n' = IF state = 1 THEN [n EXCEPT !.end = Len(id)] ELSE n
  /\ pc' = "normalize"
  /\ UNCHANGED <<id, idents, offset, state, c, e, email, fpr, found, error>>

\* The part the id ended in ends there.
EndParse ==
  /\ pc = "parse" /\ offset = Len(id)
  /\ n' = IF state = 1 THEN [n EXCEPT !.end = Len(id)] ELSE n
  /\ c' = IF state = 3 THEN [c EXCEPT !.end = Len(id)] ELSE c
  /\ e' = IF state = 6 THEN [e EXCEPT !.end = Len(id)] ELSE e
  /\ pc' = "normalize"
  /\ UNCHANGED <<id, idents, offset, state, email, fpr, found, error>>

Normalize ==
  /\ pc = "normalize"
  /\ email' = NormalEmail
  /\ IF email' = <<>> THEN BadFormat ELSE BeginSearch
  /\ UNCHANGED <<id, idents, state, spans, fpr, found>>

\* Mutant: an unreadable certificate ends the search.
TryReadable ==
  /\ pc = "search" /\ offset <= Len(idents)
  /\ LET cert == idents[offset]
     IN CASE ~cert.readable -> pc' = "done" /\ UNCHANGED <<offset, found>>
          [] cert.readable /\ (HasEmail(cert) \/ HasFingerprint(cert)) ->
               found' = offset /\ pc' = "done" /\ UNCHANGED offset
          [] OTHER -> offset' = offset + 1 /\ UNCHANGED <<found, pc>>
  /\ UNCHANGED <<id, idents, state, spans, email, fpr, error>>

\* One identity: the first that has the email or the fingerprint is returned.
Try ==
  /\ pc = "search" /\ offset <= Len(idents)
  /\ LET cert == idents[offset]
     IN IF cert.readable /\ (HasEmail(cert) \/ HasFingerprint(cert))
        THEN found' = offset /\ pc' = "done" /\ UNCHANGED offset
        ELSE offset' = offset + 1 /\ UNCHANGED <<found, pc>>
  /\ UNCHANGED <<id, idents, state, spans, email, fpr, error>>

NotFound ==
  /\ pc = "search" /\ offset > Len(idents)
  /\ pc' = "done"
  /\ UNCHANGED <<id, idents, offset, state, spans, email, fpr, found, error>>

Next == \/ BeginEmail \/ BeginFingerprint \/ ParseRune \/ EndParse
        \/ Normalize \/ Try \/ NotFound

Spec == Init /\ [][Next]_vars

-----------------------------------------------------------------------------
(* Properties *)

\* The types; once the id is parsed, every span lies within it and begins before
\* it ends, so that none of the three slices panics.
TypeOK ==
  /\ pc \in {"begin", "parse", "normalize", "search", "done"}
  /\ state \in 0 .. 7
  /\ offset \in Nat
  /\ pc \notin {"begin", "parse"} =>
       \A span \in {n, c, e} :
         0 <= span.start /\ span.start <= span.end /\ span.end <= Len(id)

Special == {"(", ")", "<", ">"}
Plain(s) == \A i \in DOMAIN s : s[i] \notin Special

\* "formatted as "Full Name (Comment) <email@example.com>"" (parseUserID): of an
\* id in that form, the email between the brackets is looked for, whatever the
\* name and the comment hold, an '@' included.  An id without brackets that has an
\* '@' is the email itself.
FormattedIdParsed ==
  /\ pc \in {"search", "done"} /\ Contains(id, "@") /\ Plain(id) => email = Trim(id)
  /\ pc \in {"search", "done"} /\ ~error /\ fpr = <<>> =>
    \A a, b, d \in 0 .. Len(id) :
      /\ a < b /\ b < d /\ d < Len(id)
      /\ id[a + 1] = "(" /\ id[b + 1] = ")" /\ id[d + 1] = "<" /\ id[Len(id)] = ">"
      /\ Plain(SubSeq(id, 1, a)) /\ Plain(SubSeq(id, a + 2, b))
      /\ Plain(SubSeq(id, b + 2, d)) /\ Plain(SubSeq(id, d + 2, Len(id) - 1))
      /\ Trim(SubSeq(id, d + 2, Len(id) - 1)) # <<>>
      => email = Trim(SubSeq(id, d + 2, Len(id) - 1))

\* By email, or by what the fingerprint ends in.
Matching ==
  {i \in DOMAIN idents :
     /\ idents[i].readable
     /\ \/ email # <<>> /\ email \in idents[i].emails
        \/ fpr # <<>> /\ \E k \in DOMAIN idents[i].fpr :
                           SubSeq(idents[i].fpr, k, Len(idents[i].fpr)) = fpr}

\* The identity found is the first of those that match, one whose certificate
\* cannot be read hides none of the others, and a user-id that names nothing,
\* an empty one included, is an error rather than a match of everything.
FirstMatchFound ==
  pc = "done" =>
    /\ error <=> email = <<>> /\ fpr = <<>>
    /\ IF error \/ Matching = {} THEN found = 0
       ELSE found \in Matching /\ \A i \in Matching : found <= i
=============================================================================
