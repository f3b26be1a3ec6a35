-------------------------- MODULE EpollEdgeServer ---------------------------
(*****************************************************************************)
(* i.karakulin's server of laboratory 32: epoll, level-triggered on the      *)
(* listening socket and edge-triggered on the clients. An edge is raised     *)
(* when a client is registered with something to read, when it writes and    *)
(* when it closes; epoll_wait() reports an edge once. The server answers it  *)
(* with a single read() of at most EdgeSize bytes.                           *)
(*                                                                           *)
(* The descriptors are non-blocking, so nothing here can block but           *)
(* epoll_wait(). close() removes a descriptor from the epoll set; the        *)
(* EPOLL_CTL_DEL after it fails and is not looked at.                        *)
(*****************************************************************************)
EXTENDS UnixSocket

CONSTANTS
  MaxEvents,   \* MAX_EVENTS = 20
  EdgeSize,    \* BUFFER_SIZE - 1 = 255: the read size
  EdgeLines    \* what a client may write at once

ASSUME EpollAssumption ==
  /\ MaxEvents \in Nat \ {0} /\ EdgeSize \in Nat \ {0}
  /\ EdgeLines \subseteq Seq(Byte)

VARIABLES
  edge,      \* client descriptors with an edge not yet reported
  events,    \* reported descriptors the loop has not reached
  filled     \* history: descriptors whose last read() filled the buffer

edgeServerVars == <<edge, events, filled>>
edgeVars == <<socketVars, edgeServerVars>>

EdgeType ==
  /\ SocketType
  /\ edge \subseteq Fds
  /\ events \subseteq Fds \cup {ServerFd}
  /\ filled \subseteq Fds

EdgeInit ==
  /\ SocketInit
  /\ edge = {}
  /\ events = {}
  /\ filled = {}

(*****************************************************************************)
(* The server.                                                               *)
(*****************************************************************************)
Reportable ==
  {f \in edge : Readable(conn[f])} \cup {f \in {ServerFd} : backlog # <<>>}

\* epoll_wait(epoll_fd, events, MAX_EVENTS, -1): an edge is gone once reported
EpollWait ==
  /\ events = {}
  /\ events' \in SUBSET Reportable
  /\ events' # {}
  /\ events' = Reportable \/ Cardinality(events') = MaxEvents
  /\ Cardinality(events') <= MaxEvents
  /\ edge' = edge \ events'
  /\ UNCHANGED <<socketVars, filled>>

\* faulty: the loop over the events is left after an accept()
EdgeAcceptBreaking ==
  /\ ServerFd \in events
  /\ \E f \in Fds :
       /\ AcceptInto(f)
       /\ edge' = edge \cup {g \in {f} : Readable(Head(backlog))}
       /\ filled' = filled \ {f}
  /\ events' = {}

\* accept(), O_NONBLOCK and EPOLL_CTL_ADD with EPOLLET
EdgeAccept ==
  /\ ServerFd \in events
  /\ \E f \in Fds :
       /\ AcceptInto(f)
       /\ edge' = edge \cup {g \in {f} : Readable(Head(backlog))}
       /\ filled' = filled \ {f}
  /\ events' = events \ {ServerFd}

\* faulty: the loop over the events is left after a failed accept()
EdgeAcceptFailsBreaking ==
  /\ ServerFd \in events
  /\ DescriptorsFull
  /\ events' = {}
  /\ UNCHANGED <<socketVars, edge, filled>>

\* accept() fails with EMFILE: the loop goes on
EdgeAcceptFails ==
  /\ ServerFd \in events
  /\ DescriptorsFull
  /\ events' = events \ {ServerFd}
  /\ UNCHANGED <<socketVars, edge, filled>>

\* one read() and no second one
EdgeReadData(f) ==
  /\ f \in events \ {ServerFd}
  /\ LET c == conn[f]
         bytes == Chunk(c, EdgeSize)
     IN  /\ Unread(c) > 0
         /\ Consume(c, Len(bytes), PrintedText(bytes))
         /\ filled' = IF Len(bytes) = EdgeSize THEN filled \cup {f} ELSE filled \ {f}
  /\ events' = events \ {f}
  /\ UNCHANGED edge

EdgeReadEof(f) ==
  /\ f \in events \ {ServerFd}
  /\ Unread(conn[f]) = 0 /\ phase[conn[f]] = "closed"
  /\ CloseFd(f)
  /\ events' = events \ {f}
  /\ edge' = edge \ {f}
  /\ UNCHANGED filled

EdgeServer ==
  \/ EpollWait \/ EdgeAccept \/ EdgeAcceptFails
  \/ \E f \in Fds : EdgeReadData(f) \/ EdgeReadEof(f)

(*****************************************************************************)
(* The clients. What one does to its socket raises an edge, if the other end *)
(* is registered.                                                            *)
(*****************************************************************************)
Registered(c) == {f \in Fds : conn[f] = c}

EdgeClient(c) ==
  /\ \/ Connect(c) /\ UNCHANGED edge
     \/ /\ Hangup(c) \/ \E line \in EdgeLines : Write(c, line)
        /\ edge' = edge \cup Registered(c)
  /\ UNCHANGED <<events, filled>>

EdgeNext == EdgeServer \/ \E c \in Clients : EdgeClient(c)

\* the server process keeps running; nothing is assumed of the clients
EdgeSpec == EdgeInit /\ [][EdgeNext]_edgeVars /\ WF_edgeVars(EdgeServer)

-----------------------------------------------------------------------------
(*****************************************************************************)
(* Properties.                                                               *)
(*****************************************************************************)
\* What epoll_wait() reported is still there when the loop reaches it: the
\* branch "read error" is for no client of this model.
FreshEvents ==
  /\ EdgeType
  /\ \A f \in events : IF f = ServerFd THEN backlog # <<>>
                       ELSE f \in OpenFds /\ Readable(conn[f])

\* A connection with something to read is forgotten (nothing will report it
\* until its client does something more) in two cases only: its last read()
\* filled the buffer, or all that is left is the end of file behind a text.
ForgottenEdges ==
  /\ FreshEvents
  /\ \A f \in OpenFds :
       Readable(conn[f]) /\ f \notin edge \cup events =>
         \/ f \in filled
         \/ Unread(conn[f]) = 0 /\ phase[conn[f]] = "closed" /\ rd[conn[f]] > 0

\* Text shorter than the buffer is read in the end.
EventuallyReadShort ==
  \A c \in Clients : \A f \in Fds :
    conn[f] = c /\ Unread(c) > 0 /\ f \notin filled ~> Unread(c) = 0 \/ f \in filled

=============================================================================
