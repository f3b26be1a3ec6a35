------------------------- MODULE MCBroadcastServer --------------------------
(***************************************************************************)
(* Small instances of BroadcastServer for TLC.                             *)
(***************************************************************************)
EXTENDS BroadcastServer

CONSTANTS c1, c2, c3

TwoClients == {c1, c2}
ThreeClients == {c1, c2, c3}

\* MaxBytes: everybody sends one line of one letter
OneLine == [c \in Clients |-> 2]

\* MaxBytes: one client sends two lines and the others one, which fill the socket
\* buffers between them
TwoTalk == [c \in Clients |-> IF c = c1 THEN 4 ELSE 2]

TwoLetters == {<<97>>, <<98>>}
ThreeLetters == {<<97>>, <<98>>, <<99>>}

\* everybody types a letter of its own, so that it can be told who is heard when
Letter(c) == CASE c = c1 -> 97 [] c = c2 -> 98 [] OTHER -> 99
OwnNext == RelayNext /\ \A c \in Clients : typed'[c] # <<>> => Head(typed'[c]) = Letter(c)
OwnSpec == /\ RelayInit /\ [][OwnNext]_relayVars
           /\ WF_relayVars(RelayServer)
           /\ \A c \in Clients : WF_relayVars(SendTyped(c)) /\ WF_relayVars(Receive(c))
=============================================================================
