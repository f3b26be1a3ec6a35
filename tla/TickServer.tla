----------------------------- MODULE TickServer ------------------------------
(****************************************************************************)
(* K. Makanin's server of laboratory 32: level-triggered epoll that returns *)
(* after a millisecond at the latest, and a letter written to every client  *)
(* of an array when a millisecond has passed.                               *)
(*                                                                          *)
(* The server does not handle SIGPIPE: a client that leaves between the     *)
(* round of events that would have told of it and the letters ends the      *)
(* server. One that leaves with letters unread resets its connection, and   *)
(* the -1 of read() is no error for a size_t: the loop that prints runs out *)
(* of the buffer.                                                           *)
(****************************************************************************)
EXTENDS UnixSocket

CONSTANTS
  TickClients,   \* MAX_CLIENTS = 10
  TickSize,      \* BUFSIZ: the read size
  TickRoom,      \* letters a client's socket buffer holds
  TickLines      \* what a client may write at once

ASSUME TickAssumption ==
  /\ TickClients \in Nat \ {0} /\ TickSize \in Nat \ {0} /\ TickRoom \in Nat \ {0}
  /\ TickLines \subseteq Seq(Byte)

VARIABLES
  ticker,      \* where the loop is; how it ended
  reported,    \* events the walk has not reached
  clientFds,   \* the array, as long as clientCount
  ticked,      \* the loop variable of the loop that writes letters
  letters      \* how many of them each client has not read

tickServerVars == <<ticker, reported, clientFds, ticked>>
tickVars == <<socketVars, tickServerVars, letters>>

TickType ==
  /\ SocketType
  /\ ticker \in {"wait", "walk", "tick", "stopped"}
  /\ reported \subseteq Fds \cup {ServerFd}
  /\ clientFds \in Seq(Fds) /\ Len(clientFds) <= TickClients
  /\ ticked \in 0 .. TickClients
  /\ letters \in [Clients -> 0 .. TickRoom]

TickInit ==
  /\ SocketInit
  /\ ticker = "wait" /\ reported = {}
  /\ clientFds = <<>> /\ ticked = 0
  /\ letters = [c \in Clients |-> 0]

(****************************************************************************)
(* One round of events. There is room for as many as can be reported.       *)
(****************************************************************************)
TickWait ==
  /\ ticker = "wait"
  /\ reported' = {f \in OpenFds : Readable(conn[f])} \cup {f \in {ServerFd} : backlog # <<>>}
  /\ ticker' = "walk"
  /\ UNCHANGED <<socketVars, clientFds, ticked, letters>>

TickAccept ==
  /\ ticker = "walk" /\ ServerFd \in reported
  /\ Len(clientFds) < TickClients
  /\ \E f \in Fds : AcceptInto(f) /\ clientFds' = Append(clientFds, f)
  /\ reported' = reported \ {ServerFd}
  /\ UNCHANGED <<ticker, ticked, letters>>

\* the eleventh client is written past the end of the array
TickAcceptPastEnd ==
  /\ ticker = "walk" /\ ServerFd \in reported
  /\ Len(clientFds) = TickClients
  /\ \E f \in Fds : AcceptInto(f)
  /\ ticker' = "stopped"
  /\ UNCHANGED <<reported, clientFds, ticked, letters>>

\* EMFILE: the path is removed and the server ends
TickAcceptFails ==
  /\ ticker = "walk" /\ ServerFd \in reported
  /\ DescriptorsFull
  /\ ticker' = "stopped"
  /\ UNCHANGED <<socketVars, reported, clientFds, ticked, letters>>

TickReadData(f) ==
  /\ ticker = "walk" /\ f \in reported \ {ServerFd}
  /\ LET bytes == Chunk(conn[f], TickSize)
     IN  bytes # <<>> /\ Consume(conn[f], Len(bytes), UpperText(bytes))
  /\ reported' = reported \ {f}
  /\ UNCHANGED <<ticker, clientFds, ticked, letters>>

\* faulty: the last entry is dropped, whoever left
WithoutLast(fds, f) == SubSeq(fds, 1, Len(fds) - 1)

\* clientFds[j] = clientFds[--clientCount]
WithoutFd(fds, f) ==
  LET n == Len(fds)
  IN  [j \in 1 .. n - 1 |-> IF fds[j] = f THEN fds[n] ELSE fds[j]]

TickReadEof(f) ==
  /\ ticker = "walk" /\ f \in reported \ {ServerFd}
  /\ Unread(conn[f]) = 0 /\ phase[conn[f]] = "closed" /\ letters[conn[f]] = 0
  /\ CloseFd(f)
  /\ clientFds' = WithoutFd(clientFds, f)
  /\ reported' = reported \ {f}
  /\ UNCHANGED <<ticker, ticked, letters>>

\* read() returns -1 with ECONNRESET, as a size_t
TickReadReset(f) ==
  /\ ticker = "walk" /\ f \in reported \ {ServerFd}
  /\ Unread(conn[f]) = 0 /\ phase[conn[f]] = "closed" /\ letters[conn[f]] > 0
  /\ ticker' = "stopped"
  /\ UNCHANGED <<socketVars, reported, clientFds, ticked, letters>>

\* the round is over; a millisecond has passed, or not
TickWalkEnds ==
  /\ ticker = "walk" /\ reported = {}
  /\ ticker' \in {"wait", "tick"}
  /\ ticked' = 0
  /\ UNCHANGED <<socketVars, reported, clientFds, letters>>

(****************************************************************************)
(* The letters.                                                             *)
(****************************************************************************)
Addressee == conn[clientFds[ticked + 1]]

\* write(clientFds[i], "a", 1), which blocks when the client's buffer is full
Tick ==
  /\ ticker = "tick" /\ ticked < Len(clientFds)
  /\ phase[Addressee] = "open" /\ letters[Addressee] < TickRoom
  /\ letters' = [letters EXCEPT ![Addressee] = @ + 1]
  /\ ticked' = ticked + 1
  /\ UNCHANGED <<socketVars, ticker, reported, clientFds>>

\* SIGPIPE
TickKilled ==
  /\ ticker = "tick" /\ ticked < Len(clientFds)
  /\ phase[Addressee] = "closed"
  /\ ticker' = "stopped"
  /\ UNCHANGED <<socketVars, reported, clientFds, ticked, letters>>

TicksDone ==
  /\ ticker = "tick" /\ ticked = Len(clientFds)
  /\ ticker' = "wait"
  /\ UNCHANGED <<socketVars, reported, clientFds, ticked, letters>>

TickServerStep ==
  \/ TickWait \/ TickAccept \/ TickAcceptPastEnd \/ TickAcceptFails
  \/ \E f \in Fds : TickReadData(f) \/ TickReadEof(f) \/ TickReadReset(f)
  \/ TickWalkEnds \/ Tick \/ TickKilled \/ TicksDone

\* the client's loop writes what is typed and reads what has arrived; it ends
\* only when it is killed
TickClient(c) ==
  \/ /\ Connect(c) \/ Hangup(c) \/ \E line \in TickLines : Write(c, line)
     /\ UNCHANGED <<tickServerVars, letters>>
  \/ /\ phase[c] = "open" /\ letters[c] > 0
     /\ letters' = [letters EXCEPT ![c] = 0]
     /\ UNCHANGED <<socketVars, tickServerVars>>

TickNext ==
  /\ ticker # "stopped"
  /\ TickServerStep \/ \E c \in Clients : TickClient(c)

-----------------------------------------------------------------------------
(****************************************************************************)
(* Properties.                                                              *)
(****************************************************************************)
\* However connections come and go during a round, the array is the open
\* connections, each once, so that nobody hears two letters a millisecond and
\* no letter goes to a number that was closed or given to another client; and
\* what was reported still holds when the walk reaches it, so that no read()
\* and no accept() stops the loop.
ArrayIsOpen ==
  /\ TickType
  /\ ticker # "stopped" =>
       /\ {clientFds[j] : j \in 1 .. Len(clientFds)} = OpenFds
       /\ Len(clientFds) = Cardinality(OpenFds)
       /\ \A f \in reported : IF f = ServerFd THEN backlog # <<>>
                              ELSE f \in OpenFds /\ Readable(conn[f])

=============================================================================
