--------------------------- MODULE SlotPollServer ---------------------------
(*****************************************************************************)
(* Y. Komarevtsev's server of laboratory 31: one poll() over a fixed table   *)
(* of slots, slot 0 for the listening socket, then a walk over the slots in  *)
(* increasing order. A connection that finds no slot is closed at once. The  *)
(* walk looks at POLLERR, POLLHUP and POLLNVAL before it looks at POLLIN.    *)
(*                                                                           *)
(* poll() reports POLLIN when bytes wait and POLLIN with POLLHUP once the    *)
(* peer has closed, whether or not bytes are left. poll() clears the revents *)
(* of an unused slot, so a slot filled during the walk is not read in it.    *)
(*****************************************************************************)
EXTENDS UnixSocket

CONSTANTS
  Sizes,     \* numbers of slots for clients: POLL_LENGTH - 1 = 5
  BufSize,   \* BUFFER_SIZE = 100: the read size
  Lines      \* what a client may write at once

ASSUME SlotAssumption ==
  /\ Sizes \subseteq Nat \ {0} /\ BufSize \in Nat \ {0}
  /\ Lines \subseteq Seq(Byte)

VARIABLES
  slot,      \* poll_fds[i].fd
  revents,   \* poll_fds[i].revents as the last poll() filled them
  pending    \* slots with revents that the walk has not reached

serverVars == <<slot, revents, pending>>
vars == <<socketVars, serverVars>>

Unused == -1
\* slot 0 is the listening socket's; the table never changes its length
Index == DOMAIN slot
Event == {"in", "hup"}

TypeOK ==
  /\ SocketType
  /\ \E n \in Sizes : slot \in [0 .. n -> Fds \cup {ServerFd, Unused}]
  /\ revents \in [Index -> SUBSET Event]
  /\ pending \subseteq Index

Init ==
  /\ SocketInit
  /\ \E n \in Sizes : slot = [k \in 0 .. n |-> IF k = 0 THEN ServerFd ELSE Unused]
  /\ revents = [k \in Index |-> {}]
  /\ pending = {}

(*****************************************************************************)
(* The server.                                                               *)
(*****************************************************************************)
\* what poll() fills in for a descriptor
Events(f) ==
  CASE f = Unused -> {}
    [] f = ServerFd -> {e \in {"in"} : backlog # <<>>}
    [] f \in Fds -> {e \in Event : \/ e = "in" /\ Readable(conn[f])
                                   \/ e = "hup" /\ phase[conn[f]] = "closed"}

\* poll(poll_fds, POLL_LENGTH, -1)
Poll ==
  /\ pending = {}
  /\ revents' = [k \in Index |-> Events(slot[k])]
  /\ pending' = {k \in Index : revents'[k] # {}}
  /\ pending' # {}
  /\ UNCHANGED <<socketVars, slot>>

\* the walk reaches slot k
At(k) ==
  /\ k \in pending /\ \A j \in pending : k <= j
  /\ pending' = pending \ {k}
  /\ UNCHANGED revents

\* POLLERR, POLLHUP or POLLNVAL: close, whatever else poll() reported
CloseOnError(k) ==
  /\ At(k) /\ "hup" \in revents[k]
  /\ CloseFd(slot[k])
  /\ slot' = [slot EXCEPT ![k] = Unused]

\* faulty: the search for an unused slot stops at the first slot
FirstUnusedOverwriting(k) == k = 1

\* add_connection() finds a slot: the first unused one
FirstUnused(k) ==
  k \in Index \ {0} /\ slot[k] = Unused /\ \A j \in 1 .. k - 1 : slot[j] # Unused

TableFull == \A k \in Index \ {0} : slot[k] # Unused

Accept ==
  /\ At(0) /\ "in" \in revents[0]
  /\ \E f \in Fds, k \in Index :
       /\ FirstUnused(k)
       /\ AcceptInto(f)
       /\ slot' = [slot EXCEPT ![k] = f]

\* add_connection() fails: the accepted connection is closed
Refuse ==
  /\ At(0) /\ "in" \in revents[0]
  /\ TableFull /\ ~DescriptorsFull
  /\ backlog' = Tail(backlog)
  /\ UNCHANGED <<phase, conn, sent, rd, shown, slot>>

\* faulty: a failed accept() gives up the listening slot
AcceptFailsGivingUp ==
  /\ At(0) /\ "in" \in revents[0]
  /\ DescriptorsFull
  /\ slot' = [slot EXCEPT ![0] = Unused]
  /\ UNCHANGED socketVars

\* accept() fails with EMFILE
AcceptFails ==
  /\ At(0) /\ "in" \in revents[0]
  /\ DescriptorsFull
  /\ UNCHANGED <<socketVars, slot>>

\* POLLIN alone: the bytes are printed one by one in upper case. The branches
\* for rc == 0 and rc < 0 are not reached: an end of file comes with POLLHUP.
Read(k) ==
  /\ At(k) /\ k # 0 /\ revents[k] = {"in"}
  /\ LET c == conn[slot[k]]
         bytes == Chunk(c, BufSize)
     IN  Consume(c, Len(bytes), UpperText(bytes))
  /\ UNCHANGED slot

Server ==
  \/ Poll \/ Accept \/ Refuse \/ AcceptFails
  \/ \E k \in Index : CloseOnError(k) \/ Read(k)

(*****************************************************************************)
(* The clients.                                                              *)
(*****************************************************************************)
Client(c) ==
  /\ Connect(c) \/ Hangup(c) \/ \E line \in Lines : Write(c, line)
  /\ UNCHANGED serverVars

Next == Server \/ \E c \in Clients : Client(c)

\* the server process keeps running; nothing is assumed of the clients
Spec == Init /\ [][Next]_vars /\ WF_vars(Server)

-----------------------------------------------------------------------------
(*****************************************************************************)
(* Properties.                                                               *)
(*****************************************************************************)
\* The table and the descriptors of the process agree: no connection without
\* a slot (a leak), no slot for a closed one, no descriptor in two slots.
SlotTable ==
  /\ TypeOK
  /\ slot[0] = ServerFd
  /\ \A j, k \in Index : slot[j] = slot[k] /\ slot[j] # Unused => j = k
  /\ {slot[k] : k \in Index} \ {Unused, ServerFd} = OpenFds

\* However the walk fills and empties slots, what poll() reported of a slot
\* still holds when the walk reaches it, so neither accept() nor read() blocks;
\* revents may only be out of date in that the client has done more since.
FreshEvents ==
  /\ SlotTable
  /\ \A k \in pending : revents[k] # {} /\ revents[k] \subseteq Events(slot[k])

\* Whatever is read, '\0' included, is shown in upper case, in order: the server
\* implements the contract, with a read printed byte by byte.
Bytewise == INSTANCE UpperService WITH Printed <- UpperText
BytewiseContract == Bytewise!Spec

\* A waiting connection is taken or refused in the end, unless the process
\* is out of descriptors from some moment on.
EventuallyAnswered ==
  \A c \in Clients : c \in Waiting ~> c \notin Waiting \/ []DescriptorsFull

=============================================================================
