---------------------------- MODULE SelectServer ----------------------------
(*****************************************************************************)
(* The select() servers of laboratory 31. Five programs share one loop:      *)
(* copy the watched set, select() on the copy, then walk the descriptors in  *)
(* increasing order and accept or read once for each one found ready. They   *)
(* differ in the size of a read, in what a failed accept() does and in how   *)
(* their clients frame a line; `prog', chosen once, says which one runs.     *)
(*                                                                           *)
(* Clients act between any two steps of the walk. The walk skips descriptors *)
(* that select() did not report, so `pending' holds the reported ones that   *)
(* the loop variable has not passed yet.                                     *)
(*****************************************************************************)
EXTENDS UnixSocket

CONSTANTS
  Programs,   \* the programs checked
  Texts,      \* what a user may type on a line
  ShortRead,  \* 39 bytes: the read size of I.Trushkin's server
  LongRead    \* 1023 bytes: the read size of the others

VARIABLES
  prog,       \* the program that runs
  active,     \* active_fds: the descriptors watched
  maxFd,      \* max_fd: the highest descriptor ever watched
  pending,    \* bits of read_fds that the walk has not reached
  up          \* the server process exists

serverVars == <<prog, active, maxFd, pending, up>>
vars == <<socketVars, serverVars>>

(*****************************************************************************)
(* The programs.                                                             *)
(*****************************************************************************)
Frames == {"nul", "newline", "bare"}
Program == [name : {"Trushkin", "Shestakov", "Karakulin", "Daniil", "Zelenkov"},
            read : {ShortRead, LongRead}, acceptFatal : BOOLEAN, frames : SUBSET Frames]

Trushkin == [name |-> "Trushkin", read |-> ShortRead, acceptFatal |-> TRUE,
             frames |-> {"nul"}]
Shestakov == [name |-> "Shestakov", read |-> LongRead, acceptFatal |-> FALSE,
              frames |-> {"bare"}]
Karakulin == [name |-> "Karakulin", read |-> LongRead, acceptFatal |-> FALSE,
              frames |-> {"newline"}]

\* D. and Z. come without a client program: any framing may reach them
Daniil == [name |-> "Daniil", read |-> LongRead, acceptFatal |-> FALSE,
           frames |-> Frames]
Zelenkov == [Daniil EXCEPT !.name = "Zelenkov"]

ASSUME SelectAssumption ==
  /\ ShortRead \in Nat \ {0} /\ LongRead \in Nat \ {0}
  /\ Programs \subseteq Program
  /\ Texts \subseteq Seq(1 .. 255)

Framed(frame, text) ==
  CASE frame = "nul" -> NulFramed(text)
    [] frame = "newline" -> NewlineFramed(text)
    [] frame = "bare" -> Unframed(text)

TypeOK ==
  /\ SocketType
  /\ prog \in Programs
  /\ active \subseteq {ServerFd} \cup Fds
  /\ maxFd \in {ServerFd} \cup Fds
  /\ pending \subseteq {ServerFd} \cup Fds
  /\ up \in BOOLEAN

Init ==
  /\ SocketInit
  /\ prog \in Programs
  /\ active = {ServerFd}
  /\ maxFd = ServerFd
  /\ pending = {}
  /\ up = TRUE

(*****************************************************************************)
(* The server.                                                               *)
(*****************************************************************************)
\* what select() reports for a descriptor
Ready(f) == IF f = ServerFd THEN backlog # <<>>
            ELSE f \in OpenFds /\ Readable(conn[f])

Watched == {f \in active : f <= maxFd}

\* faulty: the walk tests active_fds instead of the copy select() filled
SelectUnfiltered ==
  /\ up /\ pending = {}
  /\ \E f \in Watched : Ready(f)
  /\ pending' = Watched
  /\ UNCHANGED <<socketVars, prog, active, maxFd, up>>

\* read_fds = active_fds; select(max_fd + 1, &read_fds, ...): it blocks until a
\* descriptor is ready, and fails with EBADF, which ends the process, when one
\* of the watched descriptors is not open
Select ==
  /\ up /\ pending = {}
  /\ up' = (Watched \ {ServerFd} \subseteq OpenFds)
  /\ pending' = {f \in Watched : Ready(f)}
  /\ up' => pending' # {}
  /\ UNCHANGED <<socketVars, prog, active, maxFd>>

\* the walk reaches descriptor f
At(f) == up /\ f \in pending /\ \A g \in pending : f <= g

Accept ==
  /\ At(ServerFd)
  /\ \E f \in Fds :
       /\ AcceptInto(f)
       /\ active' = active \cup {f}
       /\ maxFd' = IF f > maxFd THEN f ELSE maxFd
  /\ pending' = pending \ {ServerFd}
  /\ UNCHANGED <<prog, up>>

\* faulty: a failed accept() stops the server listening
AcceptGivingUp ==
  /\ At(ServerFd) /\ DescriptorsFull
  /\ active' = active \ {ServerFd}
  /\ pending' = pending \ {ServerFd}
  /\ UNCHANGED <<socketVars, prog, maxFd, up>>

\* accept() fails with EMFILE; the connection stays in the queue
AcceptFails ==
  /\ At(ServerFd)
  /\ DescriptorsFull
  /\ up' = ~prog.acceptFatal
  /\ pending' = pending \ {ServerFd}
  /\ UNCHANGED <<socketVars, prog, active, maxFd>>

\* faulty: a buffer filled to its end loses its last byte to the '\0'
ReadCutShort(f) ==
  /\ At(f) /\ f # ServerFd
  /\ Unread(conn[f]) > 0
  /\ LET bytes == Chunk(conn[f], prog.read)
         room == IF Len(bytes) = prog.read THEN prog.read - 1 ELSE Len(bytes)
     IN  Consume(conn[f], Len(bytes), UpperText(CString(SubSeq(bytes, 1, room))))
  /\ pending' = pending \ {f}
  /\ UNCHANGED <<prog, active, maxFd, up>>

\* read() returns bytes: they are turned to upper case and printed
ReadData(f) ==
  /\ At(f) /\ f # ServerFd
  /\ Unread(conn[f]) > 0
  /\ LET bytes == Chunk(conn[f], prog.read)
     IN  Consume(conn[f], Len(bytes), UpperText(CString(bytes)))
  /\ pending' = pending \ {f}
  /\ UNCHANGED <<prog, active, maxFd, up>>

\* faulty: FD_CLR is forgotten
ReadEofStillWatched(f) ==
  /\ At(f) /\ f # ServerFd
  /\ Unread(conn[f]) = 0 /\ phase[conn[f]] = "closed"
  /\ CloseFd(f)
  /\ pending' = pending \ {f}
  /\ UNCHANGED <<prog, active, maxFd, up>>

\* read() returns 0: close(i); FD_CLR(i, &active_fds)
ReadEof(f) ==
  /\ At(f) /\ f # ServerFd
  /\ Unread(conn[f]) = 0 /\ phase[conn[f]] = "closed"
  /\ CloseFd(f)
  /\ active' = active \ {f}
  /\ pending' = pending \ {f}
  /\ UNCHANGED <<prog, maxFd, up>>

Server ==
  \/ Select
  \/ Accept \/ AcceptFails
  \/ \E f \in Fds : ReadData(f) \/ ReadEof(f)

(*****************************************************************************)
(* The clients.                                                              *)
(*****************************************************************************)
SendLine(c) ==
  \E frame \in prog.frames, text \in Texts : Write(c, Framed(frame, text))

Client(c) ==
  /\ \/ up /\ Connect(c)
     \/ up /\ SendLine(c)
     \/ Hangup(c)
  /\ UNCHANGED serverVars

Next == Server \/ \E c \in Clients : Client(c)

\* the server process keeps running; nothing is assumed of the clients
Spec == Init /\ [][Next]_vars /\ WF_vars(Server)

-----------------------------------------------------------------------------
(*****************************************************************************)
(* Properties.                                                               *)
(*****************************************************************************)
\* What select() reported is still true when the walk gets there, although
\* descriptors were accepted, closed and reused in between: accept() and
\* read() never block the only thread, and never touch another connection.
FreshReadiness ==
  \A f \in pending : Ready(f)

\* The watched set is the listening socket and the open connections, all
\* within max_fd: nobody is forgotten and select() never meets EBADF.
WatchedAreOpen ==
  /\ active = {ServerFd} \cup OpenFds
  /\ \A f \in active : f <= maxFd

\* Of what the server has read from a client, over all its reads and however
\* they cut the stream or joined lines, each byte is shown once, in order and in
\* upper case, and nobody else's between them. Bytes are lost only behind a '\0'
\* that the same read() took: I.Trushkin's clients end every line with one, so
\* of several of their lines in one read only the first is shown; D.'s and Z.'s
\* servers do the same to such a client.
ReadIsShown ==
  \A c \in Clients : ShownOnce(shown[c], SubSeq(sent[c], 1, rd[c]), prog.read)

\* The process ends only in the program that exits on a failed accept(), and
\* only while every descriptor is in use.
StopsOnlyWhenFull ==
  [][up /\ ~up' => prog.acceptFatal /\ DescriptorsFull]_vars

\* A waiting connection is taken in the end, unless the server stops or its
\* descriptor table is full from some moment on.
EventuallyAccepted ==
  \A c \in Clients :
    (\E k \in 1 .. Len(backlog) : backlog[k] = c)
      ~> Accepted(c) \/ ~up \/ []DescriptorsFull

=============================================================================
