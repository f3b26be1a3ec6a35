--------------------------- MODULE MCThreadServer ---------------------------
(***************************************************************************)
(* Small instances of ThreadServer for TLC.                                *)
(***************************************************************************)
EXTENDS ThreadServer

CONSTANTS c1, c2, c3, t1, t2

ThreeClients == {c1, c2, c3}
TwoThreads == {t1, t2}

\* MaxBytes: one client writes a stream longer than a read, the others short ones
OneLong == [c \in Clients |-> IF c = c1 THEN 3 ELSE 1]

TextWithNul == {<<97>>, <<98, 0, 99>>}
=============================================================================
