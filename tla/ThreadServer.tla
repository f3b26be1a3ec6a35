---------------------------- MODULE ThreadServer ----------------------------
(***************************************************************************)
(* The threaded servers of laboratory 32 (I.Trushkin, S.ZaVialoV and       *)
(* Y.komarevtsev): main() accepts, puts the descriptor into an int of its  *)
(* own on the heap, and starts a detached thread with it, which reads,     *)
(* prints, and at the end of file closes the descriptor and frees the int. *)
(*                                                                         *)
(* Every thread has a buffer of its own; what is shared is the descriptor  *)
(* table, where a number comes back as soon as it is closed, and the       *)
(* terminal, which printf() locks. The steps of main() and of the threads  *)
(* interleave between any two calls.                                       *)
(***************************************************************************)
EXTENDS UnixSocket

CONSTANTS
  Threads,   \* the threads the process may have besides main()
  BufSize,   \* sizeof(buffer) - 1: 255 or 1023
  Lines      \* what a client may write at once

ASSUME ThreadAssumption ==
  /\ BufSize \in Nat \ {0}
  /\ Lines \subseteq Seq(Byte)

VARIABLES
  main,       \* where main() is
  client_fd,  \* main()'s variable
  at,         \* where each thread is
  cell,       \* the int on the heap each thread was started with
  fd,         \* handle_client()'s client_fd in each thread
  buffer      \* what its last read() returned and it has not printed

serverVars == <<main, client_fd, at, cell, fd, buffer>>
vars == <<socketVars, serverVars>>

NoFd == -1

TypeOK ==
  /\ SocketType
  /\ main \in {"accept", "create"}
  /\ client_fd \in Fds \cup {NoFd} /\ (main = "create" => client_fd \in Fds)
  /\ at \in [Threads -> {"none", "start", "read", "print", "close", "free"}]
  /\ cell \in [Threads -> Fds \cup {NoFd}]
  /\ fd \in [Threads -> Fds \cup {NoFd}]
  /\ buffer \in [Threads -> Seq(Byte)]

Init ==
  /\ SocketInit
  /\ main = "accept" /\ client_fd = NoFd
  /\ at = [t \in Threads |-> "none"]
  /\ cell = [t \in Threads |-> NoFd]
  /\ fd = [t \in Threads |-> NoFd]
  /\ buffer = [t \in Threads |-> <<>>]

(***************************************************************************)
(* main().                                                                 *)
(***************************************************************************)
Accept ==
  /\ main = "accept"
  /\ \E f \in Fds : AcceptInto(f) /\ client_fd' = f
  /\ main' = "create"
  /\ UNCHANGED <<at, cell, fd, buffer>>

\* accept() fails with EMFILE: the loop goes on
AcceptFails ==
  /\ main = "accept" /\ backlog # <<>>
  /\ DescriptorsFull
  /\ client_fd' = NoFd
  /\ UNCHANGED <<socketVars, main, at, cell, fd, buffer>>

\* malloc() and pthread_create(); pthread_detach() changes nothing here
Create(t) ==
  /\ main = "create"
  /\ at[t] = "none"
  /\ cell' = [cell EXCEPT ![t] = client_fd]
  /\ at' = [at EXCEPT ![t] = "start"]
  /\ main' = "accept"
  /\ UNCHANGED <<socketVars, client_fd, fd, buffer>>

\* faulty: the descriptor nobody serves is not closed
CreateFailsLeaking ==
  /\ main = "create"
  /\ \A t \in Threads : at[t] # "none"
  /\ main' = "accept"
  /\ UNCHANGED <<socketVars, client_fd, at, cell, fd, buffer>>

\* pthread_create() fails: the descriptor is closed, the int freed
CreateFails ==
  /\ main = "create"
  /\ \A t \in Threads : at[t] # "none"
  /\ CloseFd(client_fd)
  /\ main' = "accept"
  /\ UNCHANGED <<client_fd, at, cell, fd, buffer>>

Main == Accept \/ AcceptFails \/ CreateFails \/ \E t \in Threads : Create(t)

(***************************************************************************)
(* handle_client() in thread t.                                            *)
(***************************************************************************)
Goto(t, from, to) == at[t] = from /\ at' = [at EXCEPT ![t] = to]

\* faulty: the thread is started with the address of main()'s variable
StartShared(t) ==
  /\ Goto(t, "start", "read")
  /\ client_fd # NoFd
  /\ fd' = [fd EXCEPT ![t] = client_fd]
  /\ UNCHANGED <<socketVars, main, client_fd, cell, buffer>>

\* int client_fd = *(int *)arg
Start(t) ==
  /\ Goto(t, "start", "read")
  /\ fd' = [fd EXCEPT ![t] = cell[t]]
  /\ UNCHANGED <<socketVars, main, client_fd, cell, buffer>>

\* faulty: the buffer is static, one for all the threads
ReadDataShared(t) ==
  /\ Goto(t, "read", "print")
  /\ Unread(conn[fd[t]]) > 0
  /\ buffer' = [u \in Threads |-> Chunk(conn[fd[t]], BufSize)]
  /\ Consume(conn[fd[t]], Len(buffer'[t]), <<>>)
  /\ UNCHANGED <<main, client_fd, cell, fd>>

\* read() blocks until there is something, or the end of file. The bytes leave
\* the socket here, and reach the terminal in Printf.
ReadData(t) ==
  /\ Goto(t, "read", "print")
  /\ Unread(conn[fd[t]]) > 0
  /\ buffer' = [buffer EXCEPT ![t] = Chunk(conn[fd[t]], BufSize)]
  /\ Consume(conn[fd[t]], Len(buffer'[t]), <<>>)
  /\ UNCHANGED <<main, client_fd, cell, fd>>

\* toupper() up to the first '\0', and printf()
Printf(t) ==
  /\ Goto(t, "print", "read")
  /\ Consume(conn[fd[t]], 0, PrintedText(buffer[t]))
  /\ buffer' = [buffer EXCEPT ![t] = <<>>]
  /\ UNCHANGED <<main, client_fd, cell, fd>>

ReadEof(t) ==
  /\ Goto(t, "read", "close")
  /\ Unread(conn[fd[t]]) = 0 /\ phase[conn[fd[t]]] = "closed"
  /\ UNCHANGED <<socketVars, main, client_fd, cell, fd, buffer>>

Close(t) ==
  /\ Goto(t, "close", "free")
  /\ CloseFd(fd[t])
  /\ UNCHANGED <<main, client_fd, cell, fd, buffer>>

\* free(arg), and the end of the thread
Free(t) ==
  /\ Goto(t, "free", "none")
  /\ cell' = [cell EXCEPT ![t] = NoFd]
  /\ fd' = [fd EXCEPT ![t] = NoFd]
  /\ UNCHANGED <<socketVars, main, client_fd, buffer>>

Thread(t) ==
  Start(t) \/ ReadData(t) \/ Printf(t) \/ ReadEof(t) \/ Close(t) \/ Free(t)

(***************************************************************************)
(* The clients.                                                            *)
(***************************************************************************)
Client(c) ==
  /\ Connect(c) \/ Hangup(c) \/ \E line \in Lines : Write(c, line)
  /\ UNCHANGED serverVars

Next ==
  \/ Main
  \/ \E t \in Threads : Thread(t)
  \/ \E c \in Clients : Client(c)

\* the scheduler runs main() and every thread; nothing is assumed of clients
Spec ==
  /\ Init /\ [][Next]_vars
  /\ WF_vars(Main)
  /\ \A t \in Threads : WF_vars(Thread(t))

-----------------------------------------------------------------------------
(***************************************************************************)
(* Properties.                                                             *)
(***************************************************************************)
\* the threads that answer for descriptor f: started with it and not past close()
Servants(f) ==
  {t \in Threads : \/ at[t] = "start" /\ cell[t] = f
                   \/ at[t] \in {"read", "print", "close"} /\ fd[t] = f}

\* Each open connection is in the hands of exactly one thread, or still of
\* main(); nobody answers for a closed number, although numbers come back.
OneServant ==
  /\ TypeOK
  /\ \A f \in Fds :
       LET mine == main = "create" /\ client_fd = f
       IN  /\ f \in OpenFds => Cardinality(Servants(f)) + (IF mine THEN 1 ELSE 0) = 1
           /\ f \notin OpenFds => Servants(f) = {} /\ ~mine

\* The threads together implement the contract: a read takes effect when it is
\* printed. Until then its bytes are in one thread's buffer.
Held(c) ==
  LET holders == {t \in Threads : at[t] = "print" /\ conn[fd[t]] = c}
  IN  IF holders = {} THEN 0 ELSE Len(buffer[CHOOSE t \in holders : TRUE])
PrintedUpTo == [c \in Clients |-> rd[c] - Held(c)]

Threaded == INSTANCE UpperService WITH rd <- PrintedUpTo, Printed <- PrintedText
ThreadedContract == Threaded!Spec

\* A client that has closed its socket gets its descriptor given back.
EventuallyClosed ==
  \A c \in Clients : Accepted(c) /\ phase[c] = "closed" ~> ~Accepted(c)

=============================================================================
