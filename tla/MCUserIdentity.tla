--------------------------- MODULE MCUserIdentity ---------------------------
(* User-ids of up to six characters, and stores of up to three identities.  *)
EXTENDS UserIdentity

Alphabet == {"(", ")", "<", ">", "@", "a", " "}
FingerprintAlphabet == {"0", "x", "a", "@"}

Cert(emails, bytes) == [readable |-> TRUE, emails |-> emails, fpr |-> bytes]

EmailStores ==
  { << NoCert, Cert({<<"@">>}, <<<<"a", "a">>>>),
       Cert({<<"@">>, <<"a", "@">>}, <<<<"a", "a">>>>) >> }

Stores ==
  { <<>>,
    << Cert({<<"@">>}, <<<<"0", "0">>, <<"a", "a">>>>), NoCert,
       Cert({<<"@">>, <<"a", "@">>}, <<<<"a", "a">>, <<"0", "a">>>>) >>,
    << NoCert, Cert({}, <<<<"0", "0">>, <<"0", "a">>>>), Cert({<<"a", "@">>}, <<<<"0", "a">>>>) >> }

UserIds(alphabet, length) == UNION {[1 .. k -> alphabet] : k \in 0 .. length}

\* Emails of any form in one store; fingerprints, with and without the prefix, in
\* stores where none, one or several match.
MCSearches == [id : UserIds(Alphabet, 6), idents : EmailStores]
                \cup [id : UserIds(FingerprintAlphabet, 5), idents : Stores]
=============================================================================
