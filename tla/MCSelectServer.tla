--------------------------- MODULE MCSelectServer ---------------------------
(***************************************************************************)
(* Small instances of SelectServer for TLC.                                *)
(***************************************************************************)
EXTENDS SelectServer

CONSTANTS c1, c2, c3

ThreeClients == {c1, c2, c3}

\* MaxBytes: one client writes a stream longer than a read, the others short ones
OneLong == [c \in Clients |-> IF c = c1 THEN 5 ELSE 1]

\* one program per kind of loop: fatal and tolerated accept failures. Daniil's
\* differs from the three others of its kind by its name and by more framings
BothLoops == {Trushkin, Daniil}

\* one line of one letter: two of them, ended by '\0' or '\n', are longer than
\* the short read, which joins the first with a part of the second
OneText == {<<97>>}
=============================================================================
