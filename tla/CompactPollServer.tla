------------------------- MODULE CompactPollServer --------------------------
(******************************************************************************)
(* The poll() servers of laboratory 31 that keep their clients in a dense     *)
(* array: entry 0 is the listening socket, entries 1 .. n are clients, and a  *)
(* client that leaves is replaced by the last one. Two programs do it:        *)
(*                                                                            *)
(*   Makanin   serves the clients and then accepts; entry 0 asks for no       *)
(*             events while the array is full; a failed accept() is fatal     *)
(*   Bedareva  accepts and then serves the clients, the new one included,     *)
(*             whose revents poll() has not filled in; there is no limit on   *)
(*             the number of clients                                          *)
(*                                                                            *)
(* Moving the last entry into slot i and going on with i + 1 leaves the moved *)
(* client out of the rest of this walk.                                       *)
(******************************************************************************)
EXTENDS UnixSocket

CONSTANTS
  Programs,   \* the programs checked; max stands for MAX_CLIENTS, 3 and 10
  BufSize,    \* BUFSIZ and BUFFER_SIZE - 1: the read size
  Lines       \* what a client may write at once

ASSUME CompactAssumption ==
  /\ Programs \subseteq [name : {"Makanin", "Bedareva"}, max : Nat \ {0}]
  /\ BufSize \in Nat \ {0}
  /\ Lines \subseteq Seq(Byte)

VARIABLES
  prog,       \* the program that runs
  table,      \* the client entries: descriptor, and POLLIN in revents
  n,          \* clientCnt, num_clients
  listen,     \* entry 0: whether it asks for POLLIN, and has it in revents
  pc,         \* where the loop is; "overrun" once it wrote past the array
  i,          \* loop variable of the walk
  newest      \* history: the descriptor accepted since the last poll()

serverVars == <<prog, table, n, listen, pc, i, newest>>
vars == <<socketVars, serverVars>>

\* the client entries that are in the array
Index == 1 .. prog.max
NoFd == -1
Entry == [fd : Fds \cup {NoFd}, in : BOOLEAN]

TypeOK ==
  /\ SocketType
  /\ prog \in Programs
  /\ table \in [Index -> Entry]
  /\ n \in 0 .. prog.max
  /\ listen \in [on : BOOLEAN, in : BOOLEAN]
  /\ pc \in {"poll", "accept", "walk", "overrun", "exit"}
  /\ i \in 1 .. prog.max + 1
  /\ newest \in Fds \cup {NoFd}

\* Bedareva's array is an uninitialised local variable
Init ==
  /\ SocketInit
  /\ prog \in Programs
  /\ table \in [Index -> {e \in Entry : e.fd = NoFd /\ (prog.name = "Makanin" => ~e.in)}]
  /\ n = 0
  /\ listen = [on |-> TRUE, in |-> FALSE]
  /\ pc = "poll"
  /\ i = 1
  /\ newest = NoFd

(******************************************************************************)
(* The server.                                                                *)
(******************************************************************************)
\* poll() fills in the revents of the entries it is given, and of no other
Poll ==
  /\ pc = "poll"
  /\ table' = [k \in Index |-> IF k <= n
                 THEN [table[k] EXCEPT !.in = Readable(conn[table[k].fd])]
                 ELSE table[k]]
  /\ listen' = [listen EXCEPT !.in = listen.on /\ backlog # <<>>]
  /\ listen'.in \/ \E k \in 1 .. n : table'[k].in
  /\ pc' = IF prog.name = "Makanin" THEN "walk" ELSE "accept"
  /\ i' = 1
  /\ newest' = NoFd
  /\ UNCHANGED <<socketVars, prog, n>>

\* after the accept() part of the loop
AfterAccept == IF prog.name = "Makanin" THEN "poll" ELSE "walk"

NothingToAccept ==
  /\ pc = "accept" /\ ~listen.in
  /\ pc' = AfterAccept
  /\ UNCHANGED <<socketVars, prog, table, n, listen, i, newest>>

\* accept() and a new last entry, whose revents are what they were; Makanin's
\* program stops listening when the array is full
Accept ==
  /\ pc = "accept" /\ listen.in
  /\ n < prog.max
  /\ \E f \in Fds :
       /\ AcceptInto(f)
       /\ table' = [table EXCEPT ![n + 1].fd = f]
       /\ newest' = f
  /\ n' = n + 1
  /\ listen' = [listen EXCEPT !.on = prog.name = "Makanin" => n + 1 < prog.max]
  /\ pc' = AfterAccept
  /\ UNCHANGED <<prog, i>>

\* one client too many: fds[MAX_CLIENTS + 1] is not in the array, and what
\* the program does from here on is undefined
AcceptPastEnd ==
  /\ pc = "accept" /\ listen.in
  /\ n = prog.max
  /\ \E f \in Fds : AcceptInto(f) /\ newest' = f
  /\ pc' = "overrun"
  /\ UNCHANGED <<prog, table, n, listen, i>>

\* accept() fails with EMFILE
AcceptFails ==
  /\ pc = "accept" /\ listen.in
  /\ DescriptorsFull
  /\ pc' = IF prog.name = "Makanin" THEN "exit" ELSE "walk"
  /\ UNCHANGED <<socketVars, prog, table, n, listen, i, newest>>

\* the entry under the loop variable has POLLIN
AtReported == pc = "walk" /\ i <= n /\ table[i].in

\* an entry without POLLIN is passed
Skip ==
  /\ pc = "walk" /\ i <= n /\ ~table[i].in
  /\ i' = i + 1
  /\ UNCHANGED <<socketVars, prog, table, n, listen, pc, newest>>

\* faulty: the entry is read again until it is empty
ReadDataLooping ==
  /\ AtReported
  /\ LET c == conn[table[i].fd]
         bytes == Chunk(c, BufSize)
     IN  /\ Unread(c) > 0
         /\ Consume(c, Len(bytes), UpperText(bytes))
  /\ UNCHANGED <<prog, table, n, listen, pc, i, newest>>

\* read() returns bytes, which are shown in upper case: by putc() one by one,
\* or by printf() as a C string
ReadData ==
  /\ AtReported
  /\ LET c == conn[table[i].fd]
         bytes == Chunk(c, BufSize)
     IN  /\ Unread(c) > 0
         /\ Consume(c, Len(bytes),
                    UpperText(IF prog.name = "Makanin" THEN bytes ELSE CString(bytes)))
  /\ i' = i + 1
  /\ UNCHANGED <<prog, table, n, listen, pc, newest>>

\* faulty: the listening socket is not watched again
ReadEofNotListening ==
  /\ AtReported
  /\ LET c == conn[table[i].fd]
     IN  Unread(c) = 0 /\ phase[c] = "closed"
  /\ CloseFd(table[i].fd)
  /\ table' = [table EXCEPT ![i] = table[n]]
  /\ n' = n - 1
  /\ i' = i + 1
  /\ UNCHANGED <<prog, listen, pc, newest>>

\* read() returns 0: close, move the last entry here, and go on with the next.
\* Makanin's program clears the entry that became free and listens again.
ReadEof ==
  /\ AtReported
  /\ LET c == conn[table[i].fd]
     IN  Unread(c) = 0 /\ phase[c] = "closed"
  /\ CloseFd(table[i].fd)
  /\ table' = [[table EXCEPT ![i] = table[n]]
                 EXCEPT ![n].fd = IF prog.name = "Makanin" THEN NoFd ELSE @]
  /\ n' = n - 1
  /\ listen' = [listen EXCEPT !.on = TRUE]
  /\ i' = i + 1
  /\ UNCHANGED <<prog, pc, newest>>

WalkEnds ==
  /\ pc = "walk" /\ i > n
  /\ pc' = IF prog.name = "Makanin" THEN "accept" ELSE "poll"
  /\ UNCHANGED <<socketVars, prog, table, n, listen, i, newest>>

Server ==
  \/ Poll \/ NothingToAccept \/ Accept \/ AcceptPastEnd \/ AcceptFails
  \/ Skip \/ ReadData \/ ReadEof \/ WalkEnds

(******************************************************************************)
(* The clients.                                                               *)
(******************************************************************************)
Client(c) ==
  /\ Connect(c) \/ Hangup(c) \/ \E line \in Lines : Write(c, line)
  /\ UNCHANGED serverVars

Next == Server \/ \E c \in Clients : Client(c)

\* the server process keeps running; nothing is assumed of the clients
Spec == Init /\ [][Next]_vars /\ WF_vars(Server)

-----------------------------------------------------------------------------
(******************************************************************************)
(* Properties.                                                                *)
(******************************************************************************)
\* Compaction loses and doubles nobody: entries 1 .. n are the open
\* connections, each exactly once.
DenseTable ==
  /\ TypeOK
  /\ pc # "overrun" =>
       /\ {table[k].fd : k \in 1 .. n} = OpenFds
       /\ \A j, k \in 1 .. n : table[j].fd = table[k].fd => j = k

\* The server reads a connection that has nothing to say only in the program
\* that walks over the entry it has just added, and only there; in the other
\* program it never blocks.
BlindOnlyOnNewest ==
  /\ DenseTable
  /\ \A k \in 1 .. n :
       pc = "walk" /\ k >= i /\ table[k].in /\ ~Readable(conn[table[k].fd])
         => prog.name = "Bedareva" /\ table[k].fd = newest

\* The array overflows only in the program without a limit; the other one
\* stops listening in time, and listens again when there is room.
LimitIsKept ==
  prog.name = "Makanin" => pc # "overrun" /\ (listen.on <=> n < prog.max)

=============================================================================
