-------------------------- MODULE MCSlotPollServer --------------------------
(***************************************************************************)
(* Small instances of SlotPollServer for TLC.                              *)
(***************************************************************************)
EXTENDS SlotPollServer

CONSTANTS c1, c2, c3

ThreeClients == {c1, c2, c3}

\* MaxBytes: one client writes a stream longer than a read, the others short ones
OneLong == [c \in Clients |-> IF c = c1 THEN 3 ELSE 1]

\* with two descriptors: a table that is full before they are used up, and one
\* that is not
TwoSizes == {1, 2}

\* 'a', and a C string that ends before the write does
WithNul == {<<97>>, <<98, 0>>}
=============================================================================
