---------------------------- MODULE UpperService ----------------------------
(***************************************************************************)
(* What a server of laboratory 31 promises, whatever loop it is built on:  *)
(* each client's bytes are consumed in the order they were written, none   *)
(* twice and none out of another client's stream, and what is consumed is  *)
(* shown in upper case at that moment. How the stream is cut into reads is *)
(* not promised, and a read is shown as a C string: up to its first '\0'.  *)
(***************************************************************************)
EXTENDS Integers, Sequences

CONSTANTS
  Clients,
  Printed(_)   \* what the terminal shows for the bytes of one read

VARIABLES sent, rd, shown

Init ==
  /\ sent = [c \in Clients |-> <<>>]
  /\ rd = [c \in Clients |-> 0]
  /\ shown = [c \in Clients |-> <<>>]

\* client c writes some bytes after those it wrote before
Send(c) ==
  /\ Len(sent'[c]) > Len(sent[c])
  /\ SubSeq(sent'[c], 1, Len(sent[c])) = sent[c]
  /\ sent' = [sent EXCEPT ![c] = sent'[c]]
  /\ UNCHANGED <<rd, shown>>

\* the server consumes the stream of client c up to byte n and shows it
Show(c, n) ==
  /\ rd' = [rd EXCEPT ![c] = n]
  /\ shown' = [shown EXCEPT ![c] =
                 @ \o Printed(SubSeq(sent[c], rd[c] + 1, n))]
  /\ UNCHANGED sent

Next ==
  \E c \in Clients :
    \/ Send(c)
    \/ \E n \in rd[c] + 1 .. Len(sent[c]) : Show(c, n)

Spec == Init /\ [][Next]_<<sent, rd, shown>>

=============================================================================
