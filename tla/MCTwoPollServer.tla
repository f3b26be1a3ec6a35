-------------------------- MODULE MCTwoPollServer ---------------------------
(***************************************************************************)
(* Small instances of TwoPollServer for TLC.                               *)
(***************************************************************************)
EXTENDS TwoPollServer

CONSTANTS c1, c2, c3

ThreeClients == {c1, c2, c3}

\* MaxBytes: one client writes a stream longer than a read, the others short ones
OneLong == [c \in Clients |-> IF c = c1 THEN 4 ELSE 2]

ShortAndLong == {<<97>>, <<98, 99>>}
=============================================================================
