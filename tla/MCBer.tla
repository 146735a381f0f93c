------------------------------- MODULE MCBer -------------------------------
(* Objects nested up to four deep, with tags of one and of three octets;     *)
(* contents that look like a terminator, and one that makes the length of an *)
(* object around it 128, and of two of them 256; after it nothing, what      *)
(* looks like a terminator, or the beginning of another object.              *)
EXTENDS Ber

Zeros(n) == [i \in 1 .. n |-> 0]

MCTags == {<<4>>, <<48>>, <<191, 129, 5>>}
MCContents == {Zeros(n) : n \in {0, 2, 126}}
MCTrailing == {<<>>, Zeros(2), <<48, 128>>}
=============================================================================
