-------------------------- MODULE BroadcastServer ---------------------------
(****************************************************************************)
(* S. ZaVialoV's programs of laboratory 31: a select() server that writes   *)
(* what it reads from one client, in upper case, to all the other ones, and *)
(* a client that select()s on its keyboard and its socket.                  *)
(*                                                                          *)
(* Both directions have a finite buffer and both sides write() blockingly   *)
(* from their only thread. Neither program handles SIGPIPE, so a write() to *)
(* a socket whose other end is closed ends the server.                      *)
(****************************************************************************)
EXTENDS UnixSocket

CONSTANTS
  BufSize,   \* 1023: the read size of both programs
  Lines      \* the lines typed at a client

ASSUME BroadcastAssumption ==
  /\ BufSize \in Nat \ {0}
  /\ Lines \subseteq Seq(Byte)

VARIABLES
  master,    \* master_fds
  max_fd,
  ready,     \* read_fds that the walk has not reached
  pc,        \* "killed" after SIGPIPE
  buffer,    \* the text that is being relayed
  todo,      \* descriptors the relaying loop has not reached
  typed,     \* the line each client is about to write, <<>> when it select()s
  heard,     \* history: all the bytes the server wrote to each client
  taken      \* how many of them the client has read

relayServerVars == <<master, max_fd, ready, pc, buffer, todo>>
listenVars == <<typed, taken>>
relayVars == <<socketVars, relayServerVars, listenVars, heard>>

RelayType ==
  /\ SocketType
  /\ master \subseteq Fds \cup {ServerFd}
  /\ max_fd \in Fds \cup {ServerFd}
  /\ ready \subseteq master
  /\ pc \in {"select", "walk", "relay", "killed"}
  /\ buffer \in Seq(Byte)
  /\ todo \subseteq master
  /\ typed \in [Clients -> Seq(Byte)]
  /\ heard \in [Clients -> Seq(Byte)]
  /\ taken \in [Clients -> Nat] /\ \A c \in Clients : taken[c] <= Len(heard[c])

RelayInit ==
  /\ SocketInit
  /\ master = {ServerFd}
  /\ max_fd = ServerFd
  /\ ready = {}
  /\ pc = "select"
  /\ buffer = <<>>
  /\ todo = {}
  /\ typed = [c \in Clients |-> <<>>]
  /\ heard = [c \in Clients |-> <<>>]
  /\ taken = [c \in Clients |-> 0]

(****************************************************************************)
(* The server.                                                              *)
(****************************************************************************)
RelayReady(f) == IF f = ServerFd THEN backlog # <<>> ELSE Readable(conn[f])

\* select(max_fd + 1, &read_fds, NULL, NULL, NULL)
RelaySelect ==
  /\ pc = "select"
  /\ ready' = {f \in master : f <= max_fd /\ RelayReady(f)}
  /\ ready' # {}
  /\ pc' = "walk"
  /\ UNCHANGED <<socketVars, listenVars, heard, master, max_fd, buffer, todo>>

\* the walk reaches descriptor f
WalkAt(f) == pc = "walk" /\ f \in ready /\ \A g \in ready : f <= g

\* where the loops go when there is nothing left to walk over
After(rest) == IF rest = {} THEN "select" ELSE "walk"

\* faulty: max_fd is left alone
RelayAcceptKeepingMax ==
  /\ WalkAt(ServerFd)
  /\ \E f \in Fds : AcceptInto(f) /\ master' = master \cup {f}
  /\ ready' = ready \ {ServerFd}
  /\ pc' = After(ready')
  /\ UNCHANGED <<listenVars, heard, max_fd, buffer, todo>>

RelayAccept ==
  /\ WalkAt(ServerFd)
  /\ \E f \in Fds :
       /\ AcceptInto(f)
       /\ master' = master \cup {f}
       /\ max_fd' = IF f > max_fd THEN f ELSE max_fd
  /\ ready' = ready \ {ServerFd}
  /\ pc' = After(ready')
  /\ UNCHANGED <<listenVars, heard, buffer, todo>>

\* accept() fails with EMFILE: the loop goes on
RelayAcceptFails ==
  /\ WalkAt(ServerFd)
  /\ DescriptorsFull
  /\ ready' = ready \ {ServerFd}
  /\ pc' = After(ready')
  /\ UNCHANGED <<socketVars, listenVars, heard, master, max_fd, buffer, todo>>

\* read() returns 0, or fails because the client left text unread
RelayReadEof(f) ==
  /\ WalkAt(f) /\ f # ServerFd
  /\ Unread(conn[f]) = 0 /\ phase[conn[f]] = "closed"
  /\ CloseFd(f)
  /\ master' = master \ {f}
  /\ ready' = ready \ {f}
  /\ pc' = After(ready')
  /\ UNCHANGED <<listenVars, heard, max_fd, buffer, todo>>

\* faulty: the sender is not left out
RelayReadDataToAll(f) ==
  /\ WalkAt(f) /\ f # ServerFd
  /\ LET c == conn[f]
         bytes == Chunk(c, BufSize)
     IN  /\ Unread(c) > 0
         /\ Consume(c, Len(bytes), <<>>)
         /\ buffer' = PrintedText(bytes)
  /\ todo' = {g \in master \ {ServerFd} : g <= max_fd}
  /\ ready' = ready \ {f}
  /\ pc' = "relay"
  /\ UNCHANGED <<listenVars, heard, master, max_fd>>

\* read() returns bytes, made upper case up to the first '\0'; the relaying
\* loop starts
RelayReadData(f) ==
  /\ WalkAt(f) /\ f # ServerFd
  /\ LET c == conn[f]
         bytes == Chunk(c, BufSize)
     IN  /\ Unread(c) > 0
         /\ Consume(c, Len(bytes), <<>>)
         /\ buffer' = PrintedText(bytes)
  /\ todo' = {g \in master \ {ServerFd, f} : g <= max_fd}
  /\ ready' = ready \ {f}
  /\ pc' = IF todo' = {} THEN After(ready') ELSE "relay"
  /\ UNCHANGED <<listenVars, heard, master, max_fd>>

\* the relaying loop reaches descriptor f
RelayAt(f) == pc = "relay" /\ f \in todo /\ \A g \in todo : f <= g

\* write(k, buffer, strlen(buffer)); it blocks while the client's buffer is full
HasRoom(c) == Len(heard[c]) - taken[c] + Len(buffer) <= Inbox

Relay(f) ==
  /\ RelayAt(f)
  /\ phase[conn[f]] = "open" /\ HasRoom(conn[f])
  /\ heard' = [heard EXCEPT ![conn[f]] = @ \o buffer]
  /\ todo' = todo \ {f}
  /\ pc' = IF todo' = {} THEN After(ready) ELSE pc
  /\ UNCHANGED <<socketVars, listenVars, master, max_fd, ready, buffer>>

\* write() to a client that has closed its end: SIGPIPE. The branch that
\* reports -1 is not reached.
Killed(f) ==
  /\ RelayAt(f)
  /\ phase[conn[f]] = "closed"
  /\ pc' = "killed"
  /\ UNCHANGED <<socketVars, listenVars, heard, master, max_fd, ready, buffer, todo>>

RelayServer ==
  \/ RelaySelect \/ RelayAccept \/ RelayAcceptFails
  \/ \E f \in Fds : RelayReadEof(f) \/ RelayReadData(f) \/ Relay(f) \/ Killed(f)

(****************************************************************************)
(* The clients, while the server lives. A client that is blocked in write() *)
(* does not read.                                                           *)
(****************************************************************************)
\* fgets() from the keyboard
Type(c) ==
  /\ pc # "killed"
  /\ phase[c] = "open" /\ typed[c] = <<>>
  /\ \E text \in Lines :
       /\ Len(sent[c]) + Len(text) + 1 <= MaxBytes[c]    \* bound
       /\ typed' = [typed EXCEPT ![c] = NewlineFramed(text)]
  /\ UNCHANGED <<socketVars, relayServerVars, heard, taken>>

\* write(client_fd, buffer, strlen(buffer))
SendTyped(c) ==
  /\ pc # "killed"
  /\ Write(c, typed[c])
  /\ typed' = [typed EXCEPT ![c] = <<>>]
  /\ UNCHANGED <<relayServerVars, heard, taken>>

\* read(client_fd, ...) and printf()
Receive(c) ==
  /\ pc # "killed"
  /\ phase[c] = "open" /\ typed[c] = <<>>
  /\ taken[c] < Len(heard[c])
  /\ taken' = [taken EXCEPT ![c] =
       IF Len(heard[c]) - @ <= BufSize THEN Len(heard[c]) ELSE @ + BufSize]
  /\ UNCHANGED <<socketVars, relayServerVars, heard, typed>>

\* connect(), or the end of the process: by end of file, or by a signal at
\* any moment
RelayClient(c) ==
  /\ pc # "killed"
  /\ Connect(c) \/ Hangup(c)
  /\ UNCHANGED <<relayServerVars, heard, listenVars>>

RelayNext ==
  \/ RelayServer
  \/ \E c \in Clients : RelayClient(c) \/ Type(c) \/ SendTyped(c) \/ Receive(c)

\* all the processes keep running, and a client's select() loop finishes the
\* write() it has begun and reads what has arrived; nobody has to type, to
\* connect or to leave
RelaySpec ==
  /\ RelayInit /\ [][RelayNext]_relayVars
  /\ WF_relayVars(RelayServer)
  /\ \A c \in Clients : WF_relayVars(SendTyped(c)) /\ WF_relayVars(Receive(c))

-----------------------------------------------------------------------------
(****************************************************************************)
(* Properties.                                                              *)
(****************************************************************************)
\* The relaying loop, one blocking write() after the other, looks to the
\* clients like one atomic broadcast: who is still in todo will hear buffer.
Audience == {conn[f] : f \in OpenFds}
Owed == {conn[f] : f \in todo}
WillHear == [c \in Clients |-> IF c \in Owed THEN heard[c] \o buffer ELSE heard[c]]

Broadcast == INSTANCE BroadcastService
  WITH members <- Audience, heard <- WillHear, Text <- PrintedText
AtomicBroadcast == Broadcast!Spec

\* "Writing to client error" (31_server.c:120): a write() that fails is
\* reported and the server goes on.
SurvivesWriteErrors == pc # "killed"

\* The server is blocked in a write() to a client that is itself blocked in a
\* write() to the server: neither will read.
MutualBlock ==
  \E f \in Fds :
    /\ RelayAt(f) /\ phase[conn[f]] = "open"
    /\ ~HasRoom(conn[f])
    /\ typed[conn[f]] # <<>> /\ Unread(conn[f]) + Len(typed[conn[f]]) > Inbox

Stuck == pc = "killed" \/ []MutualBlock

\* What a client wrote is relayed to the end, unless the server is killed or
\* is blocked for good by a client that it blocks itself: there is no other
\* way for the programs to wait for each other.
EventuallyRelayed ==
  \A c \in Clients :
    Accepted(c) /\ Unread(c) > 0 ~> (Unread(c) = 0 /\ pc # "relay") \/ Stuck

=============================================================================
