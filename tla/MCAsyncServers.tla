--------------------------- MODULE MCAsyncServers ---------------------------
(****************************************************************************)
(* The servers of laboratory 32 that are driven by signals, by asynchronous *)
(* requests and by a clock, on the same three clients. A behaviour is one   *)
(* program's.                                                               *)
(****************************************************************************)
EXTENDS SigioServer, AioServer, TickServer

CONSTANTS c1, c2, c3

ThreeClients == {c1, c2, c3}

\* MaxBytes: one client writes streams longer than a read, one a byte, and one
\* only comes and goes, which is what it takes to fill the tables
Unequal == [c \in Clients |-> CASE c = c1 -> 3 [] c = c2 -> 1 [] OTHER -> 0]

MCLines == {<<97>>, <<98, 0, 99>>}
MCBlocks == {<<97>>, <<98, 99>>}
MCAio == {Chelbaev32, Tsyrenov32}

VARIABLE driven
asyncVars == <<driven, vars, aio, aioServerVars, tickServerVars, letters>>

(* What does not run: a program that has ended, or one nobody interrupts.   *)
NoSigio ==
  /\ client_sockets = [s \in Index |-> 0] /\ mode = [f \in Fds |-> "plain"]
  /\ main = "accept" /\ client_fd = 0 /\ k = 1
  /\ sigio = FALSE /\ i = 0 /\ late = {} /\ full = {}
NoAio ==
  /\ aio = Chelbaev32 /\ acceptor = "stopped" /\ joined = NoRequest /\ carried = NoRequest
  /\ request = [f \in Fds |-> "none"] /\ held = [f \in Fds |-> <<>>]
  /\ clients = <<>> /\ unheard = {} /\ dropped = {}
NoTick ==
  /\ ticker = "stopped" /\ reported = {} /\ clientFds = <<>> /\ ticked = 0
  /\ letters = [c \in Clients |-> 0]

AsyncInit ==
  \/ driven = "signal" /\ Init /\ NoAio /\ NoTick
  \/ driven = "request" /\ AioInit /\ NoSigio /\ NoTick
  \/ driven = "clock" /\ TickInit /\ NoSigio /\ NoAio

AsyncNext ==
  /\ UNCHANGED driven
  /\ \/ /\ driven = "signal" /\ Next
        /\ UNCHANGED <<aio, aioServerVars, tickServerVars, letters>>
     \/ /\ driven = "request" /\ AioNext
        /\ UNCHANGED <<serverVars, tickServerVars, letters>>
     \/ /\ driven = "clock" /\ TickNext
        /\ UNCHANGED <<serverVars, aio, aioServerVars>>

AsyncSpec ==
  /\ AsyncInit /\ [][AsyncNext]_asyncVars
  /\ WF_vars(driven = "signal" /\ Main) /\ WF_vars(driven = "signal" /\ Handler)
  /\ AioFairness
  /\ WF_tickVars(driven = "clock" /\ TickServerStep)
=============================================================================
