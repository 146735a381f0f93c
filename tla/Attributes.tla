----------------------------- MODULE Attributes -----------------------------
(***************************************************************************)
(* The signed attributes of a SignerInfo (protocol.go), each a SET of one  *)
(* value (any_set.go).  They are signed and verified in the order of their *)
(* encodings, so an attribute is what decides that order: the octets that  *)
(* come before its content.  Every length fits in one octet.               *)
(***************************************************************************)
EXTENDS Integers, Sequences, Functions

\* A value as asn1.Marshal encodes it; content is what it says.
Value(tag, len, content) == [tag |-> tag, len |-> len, content |-> content]

\* The three types are 1.2.840.113549.1.9.n, of nine octets that differ in the last.
NewAttribute(n, value) == [type |-> n, set |-> <<value>>]

\* AnySet.Encode, of one element: the SET's header, then the element's.
AnySetOctets(set) == <<49, 2 + set[1].len, set[1].tag, set[1].len>>

AttributeOctets(attr) == <<48, 11 + 4 + attr.set[1].len, 6, 9, attr.type>> \o AnySetOctets(attr.set)

\* bytes.Compare(a, b) < 0, of octets of one length.
Less(a, b) == \E k \in DOMAIN a : a[k] < b[k] /\ \A j \in 1 .. k - 1 : a[j] = b[j]

\* Mutant of SortAttributes: the order of the call is kept.
SortAttributesNot(attrs) == attrs

\* The same attributes in any order.
Orders(attrs) ==
  {[k \in DOMAIN attrs |-> attrs[p[k]]] : p \in Bijection(DOMAIN attrs, DOMAIN attrs)}

\* sortAttributes compares the values, and not the attributes.
SortAttributes(attrs) ==
  CHOOSE order \in Orders(attrs) : \A j, k \in DOMAIN attrs :
    j < k => ~Less(AnySetOctets(order[k].set), AnySetOctets(order[j].set))

\* As a SET OF, which asn1.Marshal sorts by the encodings of the elements; and in the
\* order of the message.
MarshaledForSigning(attrs) ==
  CHOOSE order \in Orders(attrs) : \A j, k \in DOMAIN attrs :
    j < k => ~Less(AttributeOctets(order[k]), AttributeOctets(order[j]))
MarshaledForVerification(attrs) == attrs

\* GetOnlyAttributeValueBytes of attr's type finds attr's value.
IsOnlyAttribute(attrs, attr) ==
  \E k \in DOMAIN attrs :
    attrs[k] = attr /\ \A j \in DOMAIN attrs : attrs[j].type = attr.type => j = k
=============================================================================
