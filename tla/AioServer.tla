------------------------------ MODULE AioServer ------------------------------
(*****************************************************************************)
(* The asynchronous servers of laboratory 32 by M. Chelbaev and M. Tsyrenov. *)
(* main() accepts and starts an aio_read() per client; a helper thread       *)
(* carries it out and raises SIGIO, whose siginfo names the request; the     *)
(* handler prints what was read and starts the next aio_read().              *)
(*                                                                           *)
(* SIGIO is not a real-time signal: only one can be pending, with the        *)
(* siginfo of the first. A completion that finds one pending is never        *)
(* fetched, and the client it belongs to never read again.                   *)
(*                                                                           *)
(* Tsyrenov's server has a timer as well, which answers each client ever     *)
(* accepted through an array of five control blocks. An AF_UNIX socket that  *)
(* is closed with answers unread resets the connection: the server's read    *)
(* ends with ECONNRESET, which the handler takes for nothing at all.         *)
(*****************************************************************************)
EXTENDS UnixSocket

CONSTANTS
  AioSize,       \* aio_nbytes = 100
  AioLines,      \* what a client may write at once
  AioClients,    \* the length of clients[]: 5
  AioPrograms    \* the programs a run chooses from

Chelbaev32 == [answers |-> FALSE]
Tsyrenov32 == [answers |-> TRUE]

ASSUME AioAssumption ==
  /\ AioSize \in Nat \ {0} /\ AioClients \in Nat
  /\ AioLines \subseteq Seq(Byte)
  /\ AioPrograms \subseteq {Chelbaev32, Tsyrenov32}

VARIABLES
  aio,        \* the program that runs
  acceptor,   \* where main() is; "stopped" once what it does is undefined
  joined,     \* main()'s variable cl
  request,    \* the request of each descriptor
  held,       \* what its buffer holds between completion and fetching
  carried,    \* the descriptor whose request the pending SIGIO names
  clients,    \* clients[0 .. count - 1]: descriptors the timer answers
  unheard,    \* clients with answers they have not read
  dropped     \* history: descriptors whose completion found a SIGIO pending

aioServerVars == <<acceptor, joined, request, held, carried, clients, unheard, dropped>>
aioVars == <<socketVars, aio, aioServerVars>>

NoRequest == -1

AioType ==
  /\ SocketType
  /\ acceptor \in {"accept", "create", "stopped"}
  /\ joined \in Fds \cup {NoRequest} /\ carried \in Fds \cup {NoRequest}
  /\ request \in [Fds -> {"none", "reading", "done", "failed"}]
  /\ held \in [Fds -> Seq(Byte)]
  /\ clients \in Seq(Fds) /\ Len(clients) <= AioClients
  /\ unheard \subseteq Clients /\ dropped \subseteq Fds

AioInit ==
  /\ SocketInit
  /\ aio \in AioPrograms
  /\ acceptor = "accept" /\ joined = NoRequest /\ carried = NoRequest
  /\ request = [f \in Fds |-> "none"] /\ held = [f \in Fds |-> <<>>]
  /\ clients = <<>> /\ unheard = {} /\ dropped = {}

(*****************************************************************************)
(* main(). A failed accept() is tried again.                                 *)
(*****************************************************************************)
AioAccept ==
  /\ acceptor = "accept"
  /\ \E f \in Fds : AcceptInto(f) /\ joined' = f
  /\ acceptor' = "create"
  /\ UNCHANGED <<request, held, carried, clients, unheard, dropped>>

\* create_request(), the entry for the timer, and the first aio_read()
Arm ==
  /\ acceptor = "create"
  /\ aio.answers => Len(clients) < AioClients
  /\ request' = [request EXCEPT ![joined] = "reading"]
  /\ clients' = IF aio.answers THEN Append(clients, joined) ELSE clients
  /\ acceptor' = "accept"
  /\ UNCHANGED <<socketVars, joined, held, carried, unheard, dropped>>

\* the sixth client is written past the end of clients[]
ArmPastEnd ==
  /\ acceptor = "create"
  /\ aio.answers /\ Len(clients) = AioClients
  /\ acceptor' = "stopped"
  /\ UNCHANGED <<socketVars, joined, request, held, carried, clients, unheard, dropped>>

AioMain == AioAccept \/ Arm \/ ArmPastEnd

(*****************************************************************************)
(* The helper threads of aio_read() and aio_write().                         *)
(*****************************************************************************)
\* faulty: sigev_notify is left at SIGEV_NONE
RaiseNot(f) == UNCHANGED <<carried, dropped>>

\* SIGIO with the request of f, unless one is pending
Raise(f) ==
  /\ carried' = IF carried = NoRequest THEN f ELSE carried
  /\ dropped' = IF carried = NoRequest THEN dropped ELSE dropped \cup {f}

\* read() ends: with bytes, at the end of file, or with ECONNRESET
Complete(f) ==
  /\ request[f] = "reading"
  /\ Readable(conn[f])
  /\ LET c == conn[f]
         bytes == Chunk(c, AioSize)
     IN  /\ request' = [request EXCEPT ![f] =
                          IF bytes = <<>> /\ c \in unheard THEN "failed" ELSE "done"]
         /\ held' = [held EXCEPT ![f] = bytes]
         /\ Consume(c, Len(bytes), <<>>)
  /\ Raise(f)
  /\ UNCHANGED <<acceptor, joined, clients, unheard>>

\* the timer's write() to entry j, which by now may be somebody else's number;
\* to a closed number or a closed client it fails
AnswerTo(j) ==
  /\ j <= Len(clients)
  /\ clients[j] \in OpenFds /\ phase[conn[clients[j]]] = "open"
  /\ unheard' = unheard \cup {conn[clients[j]]}
  /\ UNCHANGED <<socketVars, acceptor, joined, request, held, carried, clients, dropped>>

(*****************************************************************************)
(* event_handler(), which interrupts main() anywhere but in itself.          *)
(*****************************************************************************)
Completed(how) == carried # NoRequest /\ request[carried] = how

\* faulty: no request is started after the first one
FetchOnce ==
  /\ Completed("done") /\ held[carried] # <<>>
  /\ shown' = [shown EXCEPT ![conn[carried]] = @ \o UpperText(held[carried])]
  /\ held' = [held EXCEPT ![carried] = <<>>]
  /\ carried' = NoRequest
  /\ UNCHANGED <<phase, backlog, conn, sent, rd, request, acceptor, joined, clients, unheard, dropped>>

Fetch ==
  /\ Completed("done") /\ held[carried] # <<>>
  /\ shown' = [shown EXCEPT ![conn[carried]] = @ \o UpperText(held[carried])]
  /\ held' = [held EXCEPT ![carried] = <<>>]
  /\ request' = [request EXCEPT ![carried] = "reading"]
  /\ carried' = NoRequest
  /\ UNCHANGED <<phase, backlog, conn, sent, rd, acceptor, joined, clients, unheard, dropped>>

FetchEnd ==
  /\ Completed("done") /\ held[carried] = <<>>
  /\ CloseFd(carried)
  /\ request' = [request EXCEPT ![carried] = "none"]
  /\ carried' = NoRequest
  /\ UNCHANGED <<acceptor, joined, held, clients, unheard, dropped>>

\* free() while the main program is in calloc() or malloc()
FreeInMalloc ==
  /\ Completed("done") /\ held[carried] = <<>>
  /\ acceptor = "create"
  /\ acceptor' = "stopped"
  /\ UNCHANGED <<socketVars, joined, request, held, carried, clients, unheard, dropped>>

\* aio_error() is not 0: nothing is done, nothing is closed
FetchError ==
  /\ Completed("failed")
  /\ carried' = NoRequest
  /\ UNCHANGED <<socketVars, acceptor, joined, request, held, clients, unheard, dropped>>

EventHandler == Fetch \/ FetchEnd \/ FreeInMalloc \/ FetchError

AioServerStep == AioMain \/ EventHandler \/ \E f \in Fds : Complete(f)

(*****************************************************************************)
(* The clients. Tsyrenov's writes its whole buffer for each line, and its    *)
(* own timer reads answers now and then.                                     *)
(*****************************************************************************)
AioClient(c) ==
  \/ /\ \/ Connect(c) \/ Hangup(c)
        \/ \E line \in AioLines : (aio.answers <=> Len(line) = AioSize) /\ Write(c, line)
     /\ UNCHANGED aioServerVars
  \/ /\ c \in unheard /\ phase[c] = "open"
     /\ unheard' = unheard \ {c}
     /\ UNCHANGED <<socketVars, acceptor, joined, request, held, carried, clients, dropped>>

AioNext ==
  /\ acceptor # "stopped"
  /\ \/ AioServerStep
     \/ \E j \in 1 .. AioClients : AnswerTo(j)
     \/ \E c \in Clients : AioClient(c)
  /\ UNCHANGED aio

\* main() and the helper threads run, and a pending signal is delivered
AioFairness ==
  LET Running(step) == acceptor # "stopped" /\ step /\ UNCHANGED aio
  IN  /\ WF_aioVars(Running(AioMain))
      /\ WF_aioVars(Running(EventHandler))
      /\ \A f \in Fds : WF_aioVars(Running(Complete(f)))

-----------------------------------------------------------------------------
(*****************************************************************************)
(* Properties.                                                               *)
(*****************************************************************************)
\* Whatever main(), helper threads, handler and timer interrupt of each other,
\* an open connection is in one pair of hands: main() has just accepted it, a
\* read is in flight, or the pending signal names it. It is in none in two
\* cases only: its signal was merged into another one (event_handler() looks
\* at the one request a signal names), or its read was reset.
OneOperation ==
  /\ AioType
  /\ acceptor # "stopped" =>
       \A f \in Fds :
         /\ request[f] = "none" /\ f \in OpenFds => acceptor = "create" /\ joined = f
         /\ request[f] # "none" => f \in OpenFds
         /\ request[f] = "reading" => carried # f /\ held[f] = <<>>
         /\ request[f] = "done" => carried = f \/ f \in dropped
         /\ request[f] = "failed" => aio.answers

\* What a client wrote is shown in the end, unless the signal for it was
\* merged into another one or the program's behaviour became undefined.
EventuallyFetched ==
  \A f \in Fds :
    request[f] = "reading" /\ Unread(conn[f]) > 0
      ~> \/ f \notin OpenFds \/ (Unread(conn[f]) = 0 /\ held[f] = <<>>)
         \/ f \in dropped \/ acceptor = "stopped"

=============================================================================
