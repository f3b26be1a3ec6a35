----------------------------- MODULE UnixSocket -----------------------------
(*****************************************************************************)
(* The part of the operating system, and of the client programs, that every  *)
(* server of laboratories 30, 31 and 32 is written against: one listening    *)
(* AF_UNIX stream socket with its accept queue, the server's descriptor      *)
(* table, and one connection per client.                                     *)
(*                                                                           *)
(* A byte is its ASCII code. A connection is kept as an immutable history    *)
(* (`sent', all the bytes the client ever wrote) and a read index (`rd', how *)
(* many of them the server has consumed), so that what was delivered can be  *)
(* compared with what was written long after it left the socket buffer.      *)
(*****************************************************************************)
EXTENDS CText

CONSTANTS
  Clients,    \* the client processes; each connects at most once
  NoClient,   \* the content of a free descriptor
  ServerFd,   \* the listening descriptor: 3, after stdin, stdout and stderr
  FdLimit,    \* RLIMIT_NOFILE: descriptors are 0 .. FdLimit - 1
  Backlog,    \* the second argument of listen()
  Inbox,      \* capacity of a socket buffer, in bytes: a write blocks beyond it
  MaxBytes    \* bound: how much each client writes in one behaviour

ASSUME SocketAssumption ==
  /\ NoClient \notin Clients
  /\ ServerFd \in Nat /\ FdLimit \in Nat /\ ServerFd < FdLimit
  /\ Backlog \in Nat /\ Inbox \in Nat /\ MaxBytes \in [Clients -> Nat]

VARIABLES
  phase,      \* what each client did to its own socket
  backlog,    \* connections made and not yet accepted, oldest first
  conn,       \* the client behind each descriptor of the server
  sent,       \* all the bytes each client has written
  rd,         \* how many of them the server has read
  shown       \* what the server has put on its terminal for each client

socketVars == <<phase, backlog, conn, sent, rd, shown>>

Fds == ServerFd + 1 .. FdLimit - 1

(*****************************************************************************)
(* The state of connections and descriptors.                                 *)
(*****************************************************************************)
SocketType ==
  /\ phase \in [Clients -> {"new", "open", "closed"}]
  /\ backlog \in Seq(Clients)
  /\ conn \in [Fds -> Clients \cup {NoClient}]
  /\ sent \in [Clients -> Seq(Byte)]
  /\ rd \in [Clients -> Nat]
  /\ shown \in [Clients -> Seq(Byte)]

SocketInit ==
  /\ phase = [c \in Clients |-> "new"]
  /\ backlog = <<>>
  /\ conn = [f \in Fds |-> NoClient]
  /\ sent = [c \in Clients |-> <<>>]
  /\ rd = [c \in Clients |-> 0]
  /\ shown = [c \in Clients |-> <<>>]

OpenFds == {f \in Fds : conn[f] # NoClient}
Unread(c) == Len(sent[c]) - rd[c]
Accepted(c) == \E f \in Fds : conn[f] = c

\* read() returns at once: there are bytes, or there is an end of file
Readable(c) == Unread(c) > 0 \/ phase[c] = "closed"

\* the bytes a read() of at most limit bytes returns
Chunk(c, limit) ==
  SubSeq(sent[c], rd[c] + 1,
         IF Unread(c) <= limit THEN Len(sent[c]) ELSE rd[c] + limit)

\* accept() and open() hand out the lowest descriptor that is free
LowestFree(f) == f \in Fds \ OpenFds /\ \A g \in Fds \ OpenFds : f <= g
DescriptorsFull == OpenFds = Fds

\* the connections that wait to be accepted
Waiting == {backlog[k] : k \in 1 .. Len(backlog)}

(*****************************************************************************)
(* What the socket layer guarantees whatever the server does: a client has   *)
(* at most one connection, which is either waiting or behind one descriptor, *)
(* and the server never reads past what was written.                         *)
(*****************************************************************************)
SocketInv ==
  /\ SocketType
  /\ \A c \in Clients : rd[c] <= Len(sent[c])
  /\ \A f, g \in OpenFds : conn[f] = conn[g] => f = g
  /\ \A j, k \in 1 .. Len(backlog) : backlog[j] = backlog[k] => j = k
  /\ \A f \in OpenFds : conn[f] \notin Waiting
  /\ \A c \in Clients : phase[c] = "new" => c \notin Waiting /\ ~Accepted(c)

(*****************************************************************************)
(* What a client process does: connect, write, close. Ending the process,    *)
(* however it ends, closes its socket.                                       *)
(*****************************************************************************)
Connect(c) ==
  /\ phase[c] = "new"
  /\ Len(backlog) <= Backlog         \* otherwise connect() blocks
  /\ phase' = [phase EXCEPT ![c] = "open"]
  /\ backlog' = Append(backlog, c)
  /\ UNCHANGED <<conn, sent, rd, shown>>

Write(c, bytes) ==
  /\ phase[c] = "open"
  /\ c \in Waiting \/ Accepted(c)               \* otherwise SIGPIPE
  /\ bytes # <<>>
  /\ Unread(c) + Len(bytes) <= Inbox          \* otherwise write() blocks
  /\ Len(sent[c]) + Len(bytes) <= MaxBytes[c]    \* bound
  /\ sent' = [sent EXCEPT ![c] = @ \o bytes]
  /\ UNCHANGED <<phase, backlog, conn, rd, shown>>

Hangup(c) ==
  /\ phase[c] = "open"
  /\ phase' = [phase EXCEPT ![c] = "closed"]
  /\ UNCHANGED <<backlog, conn, sent, rd, shown>>

(*****************************************************************************)
(* The system calls of the server, as building blocks of its handlers.       *)
(*****************************************************************************)
\* a successful accept() that returns descriptor f
AcceptInto(f) ==
  /\ backlog # <<>>
  /\ LowestFree(f)
  /\ conn' = [conn EXCEPT ![f] = Head(backlog)]
  /\ backlog' = Tail(backlog)
  /\ UNCHANGED <<phase, sent, rd, shown>>

\* a read() of n bytes from client c whose text is then printed
Consume(c, n, text) ==
  /\ rd' = [rd EXCEPT ![c] = @ + n]
  /\ shown' = [shown EXCEPT ![c] = @ \o text]
  /\ UNCHANGED <<phase, backlog, conn, sent>>

CloseFd(f) ==
  /\ conn' = [conn EXCEPT ![f] = NoClient]
  /\ UNCHANGED <<phase, backlog, sent, rd, shown>>

-----------------------------------------------------------------------------
(*****************************************************************************)
(* What every server of this kind is asked for.                              *)
(*****************************************************************************)
\* A client that sends no '\0' loses nothing: what is shown for it is, byte
\* for byte, the upper case of what the server has read from it.
NothingDropped ==
  \A c \in Clients :
    (\A k \in 1 .. Len(sent[c]) : sent[c][k] # Nul)
      => shown[c] = UpperText(SubSeq(sent[c], 1, rd[c]))

\* A read is shown in upper case, and as a C string: up to the first '\0' of each read
PrintedText(bytes) == UpperText(CString(bytes))
Service == INSTANCE UpperService WITH Printed <- PrintedText

=============================================================================
