-------------------------- MODULE BroadcastService --------------------------
(***************************************************************************)
(* What a relaying server promises: whenever it consumes a piece of one    *)
(* client's stream, all the other members get the text of that piece at    *)
(* once, so that everybody hears everybody else in one and the same order  *)
(* and nobody hears itself.                                                *)
(***************************************************************************)
EXTENDS Integers, Sequences

CONSTANTS
  Clients,
  Text(_)      \* what the others hear of the bytes of one read

VARIABLES members, sent, rd, heard

vars == <<members, sent, rd, heard>>

Init ==
  /\ members = {}
  /\ sent = [c \in Clients |-> <<>>]
  /\ rd = [c \in Clients |-> 0]
  /\ heard = [c \in Clients |-> <<>>]

Join(c) ==
  /\ members' = members \cup {c}
  /\ UNCHANGED <<sent, rd, heard>>

\* a member leaves when all of its text has been relayed
Leave(c) ==
  /\ rd[c] = Len(sent[c])
  /\ members' = members \ {c}
  /\ UNCHANGED <<sent, rd, heard>>

Send(c) ==
  /\ Len(sent'[c]) > Len(sent[c])
  /\ SubSeq(sent'[c], 1, Len(sent[c])) = sent[c]
  /\ sent' = [sent EXCEPT ![c] = sent'[c]]
  /\ UNCHANGED <<members, rd, heard>>

\* the stream of client c is consumed up to byte n
Relay(c, n) ==
  /\ c \in members
  /\ rd' = [rd EXCEPT ![c] = n]
  /\ heard' = [d \in Clients |->
       IF d \in members \ {c}
         THEN heard[d] \o Text(SubSeq(sent[c], rd[c] + 1, n))
         ELSE heard[d]]
  /\ UNCHANGED <<members, sent>>

Next ==
  \E c \in Clients :
    \/ Join(c) \/ Leave(c) \/ Send(c)
    \/ \E n \in rd[c] + 1 .. Len(sent[c]) : Relay(c, n)

Spec == Init /\ [][Next]_vars

=============================================================================
