---------------------------- MODULE SigioServer -----------------------------
(*****************************************************************************)
(* The signal-driven server of laboratory 32 that Daniil and n.zelenkov both *)
(* keep: main() accepts without blocking, for ever, and puts each client     *)
(* into a table; SIGIO interrupts it between any two steps, and the handler  *)
(* reads once from every client in the table.                                *)
(*                                                                           *)
(* SIGIO is blocked while its handler runs, and any number of signals that   *)
(* are raised meanwhile is delivered as one. A client's socket raises it     *)
(* only after set_socket_async() has set O_ASYNC and the owner; text that    *)
(* was there before raises nothing.                                          *)
(*****************************************************************************)
EXTENDS UnixSocket

CONSTANTS
  Slots,     \* MAX_CLIENTS = 10
  BufSize,   \* BUFFER_SIZE - 1 = 1023: the read size
  Lines      \* what a client may write at once

ASSUME SigioAssumption ==
  /\ Slots \in Nat \ {0} /\ BufSize \in Nat \ {0}
  /\ Lines \subseteq Seq(Byte)

VARIABLES
  client_sockets, \* the table, 0 in a free slot
  mode,           \* each descriptor: "plain", "flags" set, or "owned" as well
  main,           \* where main() is
  client_fd,      \* its variable
  k,              \* its loop variable
  sigio,          \* SIGIO is pending
  i,              \* the handler's loop variable, 0 when it does not run
  late,           \* history: descriptors that had text before they had an owner
  full            \* history: descriptors whose last read() filled the buffer

mainVars == <<main, client_fd, k>>
historyVars == <<late, full>>
serverVars == <<client_sockets, mode, mainVars, sigio, i, historyVars>>
vars == <<socketVars, serverVars>>

Index == 1 .. Slots

TypeOK ==
  /\ SocketType
  /\ client_sockets \in [Index -> Fds \cup {0}]
  /\ mode \in [Fds -> {"plain", "flags", "owned"}]
  /\ main \in {"accept", "search", "setfl", "setown"}
  /\ client_fd \in Fds \cup {0}
  /\ k \in Index
  /\ sigio \in BOOLEAN
  /\ i \in 0 .. Slots
  /\ late \subseteq Fds /\ full \subseteq Fds

Init ==
  /\ SocketInit
  /\ client_sockets = [s \in Index |-> 0]
  /\ mode = [f \in Fds |-> "plain"]
  /\ main = "accept" /\ client_fd = 0 /\ k = 1
  /\ sigio = FALSE /\ i = 0
  /\ late = {} /\ full = {}

(*****************************************************************************)
(* main(), which only runs while the handler does not.                       *)
(*****************************************************************************)
MainAt(step) == i = 0 /\ main = step

\* accept() succeeds; when it fails, with EAGAIN or EMFILE, main() tries again
Accept ==
  /\ MainAt("accept")
  /\ \E f \in Fds :
       /\ AcceptInto(f)
       /\ client_fd' = f
       /\ mode' = [mode EXCEPT ![f] = "plain"]
       /\ late' = late \ {f} /\ full' = full \ {f}
  /\ main' = "search" /\ k' = 1
  /\ UNCHANGED <<client_sockets, sigio, i>>

\* slot k is taken: try the next one; after the last one the client is
\* forgotten, but not closed
SearchOn ==
  /\ MainAt("search")
  /\ client_sockets[k] # 0
  /\ IF k < Slots THEN k' = k + 1 /\ UNCHANGED main
                  ELSE main' = "accept" /\ UNCHANGED k
  /\ UNCHANGED <<socketVars, client_sockets, mode, client_fd, sigio, i, historyVars>>

\* faulty: the client is left in blocking mode
PublishOnly ==
  /\ MainAt("search")
  /\ client_sockets[k] = 0
  /\ client_sockets' = [client_sockets EXCEPT ![k] = client_fd]
  /\ main' = "accept"
  /\ UNCHANGED <<socketVars, mode, client_fd, k, sigio, i, historyVars>>

\* slot k is free: from here on the handler reads the client
Publish ==
  /\ MainAt("search")
  /\ client_sockets[k] = 0
  /\ client_sockets' = [client_sockets EXCEPT ![k] = client_fd]
  /\ main' = "setfl"
  /\ UNCHANGED <<socketVars, mode, client_fd, k, sigio, i, historyVars>>

\* fcntl(fd, F_SETFL, flags | O_NONBLOCK | O_ASYNC); fails if the handler has
\* closed the descriptor meanwhile
SetFlags ==
  /\ MainAt("setfl")
  /\ mode' = [mode EXCEPT ![client_fd] = "flags"]
  /\ main' = "setown"
  /\ UNCHANGED <<socketVars, client_sockets, client_fd, k, sigio, i, historyVars>>

\* fcntl(fd, F_SETOWN, getpid())
SetOwner ==
  /\ MainAt("setown")
  /\ mode' = [mode EXCEPT ![client_fd] = "owned"]
  /\ late' = late \cup {f \in {client_fd} \cap OpenFds : Readable(conn[f])}
  /\ main' = "accept"
  /\ UNCHANGED <<socketVars, client_sockets, client_fd, k, sigio, i, full>>

Main == Accept \/ SearchOn \/ Publish \/ SetFlags \/ SetOwner

(*****************************************************************************)
(* handle_sigio(), one step per slot.                                        *)
(*****************************************************************************)
Deliver ==
  /\ sigio /\ i = 0
  /\ sigio' = FALSE
  /\ i' = 1
  /\ UNCHANGED <<socketVars, client_sockets, mode, mainVars, historyVars>>

\* the handler goes on with the next slot, or returns
NextSlot == i' = IF i < Slots THEN i + 1 ELSE 0

AtClient == i # 0 /\ client_sockets[i] # 0

SkipFree ==
  /\ i # 0 /\ client_sockets[i] = 0
  /\ NextSlot
  /\ UNCHANGED <<socketVars, client_sockets, mode, mainVars, sigio, historyVars>>

\* read() returns -1 with EAGAIN
WouldBlock ==
  /\ AtClient
  /\ ~Readable(conn[client_sockets[i]])
  /\ mode[client_sockets[i]] # "plain"
  /\ NextSlot
  /\ UNCHANGED <<socketVars, client_sockets, mode, mainVars, sigio, historyVars>>

\* faulty: the handler returns after the first text
ReadDataBreaking ==
  /\ AtClient
  /\ LET f == client_sockets[i]
         bytes == Chunk(conn[f], BufSize)
     IN  /\ Unread(conn[f]) > 0
         /\ Consume(conn[f], Len(bytes), PrintedText(bytes))
         /\ late' = late \ {f}
         /\ full' = IF Len(bytes) = BufSize THEN full \cup {f} ELSE full \ {f}
  /\ i' = 0
  /\ UNCHANGED <<client_sockets, mode, mainVars, sigio>>

ReadData ==
  /\ AtClient
  /\ LET f == client_sockets[i]
         bytes == Chunk(conn[f], BufSize)
     IN  /\ Unread(conn[f]) > 0
         /\ Consume(conn[f], Len(bytes), PrintedText(bytes))
         /\ late' = late \ {f}
         /\ full' = IF Len(bytes) = BufSize THEN full \cup {f} ELSE full \ {f}
  /\ NextSlot
  /\ UNCHANGED <<client_sockets, mode, mainVars, sigio>>

ReadEof ==
  /\ AtClient
  /\ LET f == client_sockets[i]
     IN  /\ Unread(conn[f]) = 0 /\ phase[conn[f]] = "closed"
         /\ CloseFd(f)
  /\ client_sockets' = [client_sockets EXCEPT ![i] = 0]
  /\ NextSlot
  /\ UNCHANGED <<mode, mainVars, sigio, historyVars>>

Handler == Deliver \/ SkipFree \/ WouldBlock \/ ReadData \/ ReadEof

(*****************************************************************************)
(* The clients. Connecting signals through the listening socket, which was   *)
(* made asynchronous before the loop; writing and closing through the        *)
(* client's own socket.                                                      *)
(*****************************************************************************)
Client(c) ==
  /\ \/ Connect(c) /\ sigio' = TRUE
     \/ /\ Hangup(c) \/ \E line \in Lines : Write(c, line)
        /\ sigio' = (sigio \/ \E f \in OpenFds : conn[f] = c /\ mode[f] = "owned")
  /\ UNCHANGED <<client_sockets, mode, mainVars, i, historyVars>>

Next == Main \/ Handler \/ \E c \in Clients : Client(c)

\* the process keeps running, and a pending signal is delivered
Spec == Init /\ [][Next]_vars /\ WF_vars(Main) /\ WF_vars(Handler)

-----------------------------------------------------------------------------
(*****************************************************************************)
(* Properties.                                                               *)
(*****************************************************************************)
Slotted == {client_sockets[s] : s \in Index} \ {0}

\* Whatever main() and the handler interrupt of each other, a descriptor is in
\* one slot at most, and only while it is open.
SlotsAreOpen ==
  /\ TypeOK
  /\ Slotted \subseteq OpenFds
  /\ \A s, t \in Index : client_sockets[s] = client_sockets[t] /\ client_sockets[s] # 0 => s = t

\* The handler, and with it the whole server, sits in a read() that has
\* nothing to return.
Blocked ==
  /\ AtClient
  /\ mode[client_sockets[i]] = "plain" /\ ~Readable(conn[client_sockets[i]])

\* It can do so only on the client main() has just published and not yet made
\* non-blocking.
BlocksOnlyOnPublished ==
  /\ SlotsAreOpen
  /\ Blocked => main = "setfl" /\ client_sockets[i] = client_fd

\* A client in the table has something to read that no signal will tell of,
\* in three cases only: it came before the owner was set, the last read()
\* filled the buffer, or it is the end of file behind a text.
ForgottenOnly ==
  \A s \in Index :
    LET f == client_sockets[s]
    IN  f # 0 /\ Readable(conn[f]) /\ ~sigio /\ ~(i \in 1 .. s) =>
          \/ mode[f] # "owned"
          \/ f \in late \cup full
          \/ Unread(conn[f]) = 0 /\ phase[conn[f]] = "closed" /\ rd[conn[f]] > 0

=============================================================================
