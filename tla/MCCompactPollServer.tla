------------------------ MODULE MCCompactPollServer -------------------------
(***************************************************************************)
(* Small instances of CompactPollServer for TLC.                           *)
(***************************************************************************)
EXTENDS CompactPollServer

CONSTANTS c1, c2, c3

ThreeClients == {c1, c2, c3}

\* MaxBytes: one client writes streams longer than a read, one a byte, and one
\* only comes and goes
Unequal == [c \in Clients |-> CASE c = c1 -> 3 [] c = c2 -> 1 [] OTHER -> 0]

\* with two descriptors: an array that is full before they are used up, and one
\* that is not
BothSizes ==
  {[name |-> "Makanin", max |-> m] : m \in {2, 3}}
    \cup {[name |-> "Bedareva", max |-> m] : m \in {1, 2}}

TwoBytes == {<<97>>, <<98, 99>>}
=============================================================================
