---------------------------- MODULE AsyncProofs -----------------------------
(****************************************************************************)
(* The servers of laboratory 32 that are driven by signals, by asynchronous *)
(* requests, by a clock and by edges, for every number of clients,          *)
(* descriptors, table entries and bytes.                                    *)
(*                                                                          *)
(* The module AioServer and the module TickServer leave the behaviour       *)
(* formula to the runs; here it is written without fairness.                *)
(****************************************************************************)
EXTENDS SigioServer, AioServer, TickServer, EpollEdgeServer, SocketTheorems, FiniteSetTheorems, FunctionTheorems

-----------------------------------------------------------------------------
(****************************************************************************)
(* The clock: TickServer.                                                   *)
(****************************************************************************)
TickSpec == TickInit /\ [][TickNext]_tickVars

\* ArrayIsOpen counts; a step keeps that the entries are the open connections
\* and no two of them the same.
TickDense ==
  /\ {clientFds[j] : j \in 1 .. Len(clientFds)} = OpenFds
  /\ \A j, l \in 1 .. Len(clientFds) : clientFds[j] = clientFds[l] => j = l

\* what was reported and not yet walked over
TickFresh ==
  \A f \in reported : IF f = ServerFd THEN backlog # <<>>
                      ELSE f \in OpenFds /\ Readable(conn[f])

TickInv == SocketInv /\ TickType /\ (ticker # "stopped" => TickDense /\ TickFresh)

\* The invariant of the ticker is what the run checks, and more.
LEMMA TickCounts == TickInv => ArrayIsOpen
<1> SUFFICES ASSUME TickInv, ticker # "stopped" PROVE Len(clientFds) = Cardinality(OpenFds)
  BY DEF TickInv, ArrayIsOpen, TickDense, TickFresh
<1>1. /\ clientFds \in Seq(Fds) /\ Len(clientFds) \in Nat
      /\ clientFds \in [1 .. Len(clientFds) -> Fds]
  BY LenProperties DEF TickInv, TickType
<1> DEFINE N == 1 .. Len(clientFds)
<1>2. clientFds \in [N -> OpenFds]
  BY <1>1 DEF TickInv, TickDense
<1>3. clientFds \in Bijection(N, OpenFds)
  BY <1>2 DEF TickInv, TickDense, Bijection, Injection, Surjection, IsInjective
<1>4. ExistsBijection(1 .. Len(clientFds), OpenFds)
  BY <1>3 DEF ExistsBijection
<1>5. QED
  BY <1>1, <1>4, FS_CountingElements

\* The array of a running server.
LEMMA ArrayFacts ==
  ASSUME TickInv
  PROVE  /\ clientFds \in Seq(Fds) /\ Len(clientFds) \in Nat /\ Len(clientFds) <= TickClients
         /\ clientFds \in [1 .. Len(clientFds) -> Fds]
         /\ ticker # "stopped" => \A j \in 1 .. Len(clientFds) :
              clientFds[j] \in OpenFds /\ conn[clientFds[j]] \in Clients
         /\ \A f \in reported \ {ServerFd} : ticker # "stopped" =>
              /\ f \in OpenFds /\ f \in Fds /\ conn[f] \in Clients /\ Readable(conn[f])
              /\ \A g \in OpenFds : g # f => conn[g] # conn[f]
<1>1. /\ clientFds \in Seq(Fds) /\ Len(clientFds) \in Nat /\ Len(clientFds) <= TickClients
      /\ clientFds \in [1 .. Len(clientFds) -> Fds]
  BY LenProperties DEF TickInv, TickType
<1>2. QED
  BY <1>1, OpenFdFacts DEF TickInv, TickDense, TickFresh

\* The server starts without a client.
LEMMA TickInitInv == TickInit => TickInv
<1> SUFFICES ASSUME TickInit PROVE TickInv
  OBVIOUS
<1>1. SocketInv
  BY SocketInitInv DEF TickInit
<1>2. OpenFds = {}
  BY DEF TickInit, SocketInit, OpenFds
<1>3. TickType
  BY <1>1, TickAssumption DEF TickInit, TickType, SocketInv
<1>4. QED
  BY <1>1, <1>2, <1>3 DEF TickInit, TickInv, TickDense, TickFresh

\* Steps of the loop without a system call on a connection, or with one that
\* ends the server.
LEMMA TickLoopInv ==
  ASSUME TickInv, TickWait \/ TickAcceptFails \/ TickWalkEnds \/ TickKilled \/ TicksDone
                    \/ \E f \in Fds : TickReadReset(f)
  PROVE  TickInv'
<1>1. UNCHANGED socketVars /\ clientFds' = clientFds /\ letters' = letters
  BY DEF TickWait, TickAcceptFails, TickWalkEnds, TickKilled, TicksDone, TickReadReset
<1>2. /\ SocketInv' /\ OpenFds' = OpenFds /\ conn' = conn /\ backlog' = backlog
      /\ \A c \in Clients : Readable(c)' = Readable(c)
  BY <1>1, QuietFrame DEF TickInv
<1>3. \A f \in OpenFds : f \in Fds /\ conn[f] \in Clients
  BY OpenFdFacts DEF TickInv
<1>4. CASE TickWait
  <2>1. reported' \subseteq Fds \cup {ServerFd} /\ TickFresh'
    BY <1>2, <1>3, <1>4, FdNumbers DEF TickWait, TickFresh
  <2>2. TickType'
    BY <1>1, <1>2, <1>4, <2>1 DEF TickWait, TickInv, TickType, SocketInv
  <2>3. QED
    BY <1>1, <1>2, <1>4, <2>1, <2>2 DEF TickWait, TickInv, TickDense
<1>5. CASE TickAcceptFails \/ TickWalkEnds \/ TickKilled \/ TicksDone
            \/ \E f \in Fds : TickReadReset(f)
  <2>1. /\ reported' = reported /\ ticked' \in 0 .. TickClients
        /\ ticker' \in {"wait", "walk", "tick", "stopped"} /\ ticker # "stopped"
    BY <1>5, TickAssumption
       DEF TickAcceptFails, TickWalkEnds, TickKilled, TicksDone, TickReadReset, TickInv, TickType
  <2>2. TickType'
    BY <1>1, <1>2, <2>1 DEF TickInv, TickType, SocketInv
  <2>3. TickFresh'
    BY <1>2, <1>3, <2>1 DEF TickInv, TickFresh
  <2>4. QED
    BY <1>1, <1>2, <2>1, <2>2, <2>3 DEF TickInv, TickDense
<1>6. QED
  BY <1>4, <1>5

\* accept() appends the one number that was not in the array.
LEMMA TickAcceptInv ==
  ASSUME TickInv, TickAccept
  PROVE  TickInv'
<1>1. PICK f \in Fds : AcceptInto(f) /\ clientFds' = Append(clientFds, f)
  BY DEF TickAccept
<1>2. /\ ticker = "walk" /\ ticker' = "walk" /\ ticked' = ticked /\ letters' = letters
      /\ reported' = reported \ {ServerFd} /\ Len(clientFds) < TickClients
  BY DEF TickAccept
<1>3. SocketInv' /\ OpenFds' = OpenFds \cup {f} /\ f \notin OpenFds
  BY <1>1, AcceptInv DEF TickInv
<1> DEFINE m == Len(clientFds)
<1>4. /\ clientFds' \in Seq(Fds) /\ Len(clientFds') = m + 1 /\ m \in Nat
      /\ \A j \in 1 .. m : clientFds'[j] = clientFds[j]
      /\ clientFds'[m + 1] = f
  BY <1>1, ArrayFacts, AppendProperties
<1> HIDE DEF m
<1>5. TickType'
  BY <1>2, <1>3, <1>4, TickAssumption DEF TickInv, TickType, SocketInv, m
<1>6. TickDense'
  <2>1. 1 .. Len(clientFds') = 1 .. m \cup {m + 1} /\ m + 1 \notin 1 .. m
    BY <1>4
  <2>2. /\ {clientFds[j] : j \in 1 .. m} = OpenFds
        /\ \A j, l \in 1 .. m : clientFds[j] = clientFds[l] => j = l
    BY <1>2 DEF TickInv, TickDense, m
  <2>3. {clientFds'[j] : j \in 1 .. m} = OpenFds
    BY <1>4, <2>2
  <2>4. {clientFds'[j] : j \in 1 .. Len(clientFds')} = OpenFds'
    BY <1>3, <1>4, <2>1, <2>3
  <2>5. \A j \in 1 .. m : clientFds'[j] # clientFds'[m + 1]
    BY <1>3, <1>4, <2>3
  <2>6. \A j, l \in 1 .. Len(clientFds') : clientFds'[j] = clientFds'[l] => j = l
    BY <1>4, <2>1, <2>2, <2>5
  <2>7. QED
    BY <2>4, <2>6 DEF TickDense
<1>7. TickFresh'
  <2> SUFFICES ASSUME NEW g \in reported', g # ServerFd
               PROVE  g \in OpenFds' /\ Readable(conn[g])'
    BY <1>2 DEF TickFresh
  <2>1. g \in reported \ {ServerFd} /\ g \in OpenFds /\ g # f /\ g \in Fds
    BY <1>2, <1>3, ArrayFacts
  <2>2. conn'[g] = conn[g]
    BY <1>1, <2>1, AcceptFrame DEF TickInv
  <2>3. PICK c \in Clients : c = conn[g] /\ Readable(c)
    BY <1>2, <2>1, ArrayFacts
  <2>4. Readable(c)'
    BY <1>1, <2>3, AcceptFrame DEF TickInv
  <2>5. QED
    BY <1>3, <2>1, <2>2, <2>3, <2>4
<1>8. QED
  BY <1>3, <1>5, <1>6, <1>7 DEF TickInv

\* The client past the end is accepted, and the server is undefined from then on.
LEMMA TickPastEndInv ==
  ASSUME TickInv, TickAcceptPastEnd
  PROVE  TickInv'
<1>1. PICK f \in Fds : AcceptInto(f)
  BY DEF TickAcceptPastEnd
<1>2. SocketInv'
  BY <1>1, AcceptInv DEF TickInv
<1>3. QED
  BY <1>2 DEF TickAcceptPastEnd, TickInv, TickType, SocketInv

\* Reading text closes nothing and moves nothing.
LEMMA TickReadDataInv ==
  ASSUME TickInv, NEW f \in Fds, TickReadData(f)
  PROVE  TickInv'
<1>1. /\ ticker = "walk" /\ f \in reported \ {ServerFd} /\ reported' = reported \ {f}
      /\ UNCHANGED <<ticker, clientFds, ticked, letters>>
  BY DEF TickReadData
<1>2. PICK c \in Clients : c = conn[f]
  BY <1>1, ArrayFacts
<1> DEFINE bytes == Chunk(c, TickSize)
<1>3. Consume(c, Len(bytes), UpperText(bytes))
  BY <1>2 DEF TickReadData
<1>4. Len(bytes) \in Nat /\ Len(bytes) <= Unread(c) /\ UpperText(bytes) \in Seq(Byte)
  BY ReadFacts, TickAssumption DEF TickInv
<1> HIDE DEF bytes
<1>5. SocketInv'
  BY <1>3, <1>4, ConsumeInv DEF TickInv
<1>6. /\ conn' = conn /\ backlog' = backlog /\ OpenFds' = OpenFds
      /\ \A d \in Clients \ {c} : Readable(d)' = Readable(d)
  BY <1>3, <1>4, ConsumeFrame DEF TickInv
<1>7. TickType'
  BY <1>1, <1>5 DEF TickInv, TickType, SocketInv
<1>8. TickFresh'
  <2> SUFFICES ASSUME NEW g \in reported \ {f}
               PROVE  IF g = ServerFd THEN backlog # <<>>
                      ELSE g \in OpenFds /\ Readable(conn[g])'
    BY <1>1, <1>6 DEF TickFresh
  <2>1. CASE g = ServerFd
    BY <1>1, <2>1 DEF TickInv, TickFresh
  <2>2. CASE g # ServerFd
    <3>1. PICK d \in Clients \ {c} : d = conn[g] /\ Readable(d)
      BY <1>1, <1>2, <2>2, ArrayFacts
    <3>2. QED
      BY <1>1, <1>6, <2>2, <3>1, ArrayFacts
  <2>3. QED
    BY <2>1, <2>2
<1>9. QED
  BY <1>1, <1>5, <1>6, <1>7, <1>8 DEF TickInv, TickDense


\* clientFds[j] = clientFds[--clientCount]: the others stay, each once.
LEMMA WithoutFdFacts ==
  ASSUME NEW fds \in Seq(Fds), NEW f \in {fds[j] : j \in 1 .. Len(fds)},
         \A j, l \in 1 .. Len(fds) : fds[j] = fds[l] => j = l
  PROVE  LET rest == WithoutFd(fds, f)
         IN  /\ rest \in Seq(Fds) /\ Len(rest) \in Nat /\ Len(rest) = Len(fds) - 1
             /\ {rest[j] : j \in 1 .. Len(rest)} = {fds[j] : j \in 1 .. Len(fds)} \ {f}
             /\ \A j, l \in 1 .. Len(rest) : rest[j] = rest[l] => j = l
<1> DEFINE m == Len(fds)
           rest == WithoutFd(fds, f)
<1>1. m \in Nat /\ \A j \in 1 .. m : fds[j] \in Fds
  BY LenProperties, ElementOfSeq
<1>2. PICK p \in 1 .. m : fds[p] = f
  OBVIOUS
<1>3. /\ m \in Nat \ {0} /\ m - 1 \in Nat
      /\ 1 .. m = 1 .. m - 1 \cup {m} /\ m \notin 1 .. m - 1
  BY <1>1, <1>2
<1>4. rest = [j \in 1 .. m - 1 |-> IF fds[j] = f THEN fds[m] ELSE fds[j]]
  BY DEF WithoutFd
<1>5. \A j \in 1 .. m - 1 : rest[j] = (IF j = p THEN fds[m] ELSE fds[j]) /\ rest[j] \in Fds
  BY <1>1, <1>2, <1>3, <1>4
<1>6. rest \in Seq(Fds) /\ Len(rest) = m - 1
  BY <1>1, <1>3, <1>4
<1> HIDE DEF m, rest
<1>7. {rest[j] : j \in 1 .. m - 1} = {fds[j] : j \in 1 .. m} \ {f}
  <2>1. ASSUME NEW j \in 1 .. m - 1
        PROVE  \E l \in 1 .. m : rest[j] = fds[l] /\ fds[l] # f
    <3>1. CASE j = p
      BY <1>2, <1>3, <1>5, <3>1 DEF m
    <3>2. CASE j # p
      BY <1>2, <1>3, <1>5, <3>2 DEF m
    <3>3. QED
      BY <3>1, <3>2
  <2>2. ASSUME NEW l \in 1 .. m, fds[l] # f
        PROVE  \E j \in 1 .. m - 1 : rest[j] = fds[l]
    <3>1. CASE l = m
      <4>1. p \in 1 .. m - 1
        BY <1>2, <1>3, <2>2, <3>1
      <4>2. QED
        BY <1>5, <3>1, <4>1
    <3>2. CASE l # m
      BY <1>2, <1>3, <1>5, <2>2, <3>2
    <3>3. QED
      BY <3>1, <3>2
  <2>3. {rest[j] : j \in 1 .. m - 1} \subseteq {fds[j] : j \in 1 .. m} \ {f}
    BY <2>1
  <2>4. {fds[j] : j \in 1 .. m} \ {f} \subseteq {rest[j] : j \in 1 .. m - 1}
    BY <2>2
  <2>5. QED
    BY <2>3, <2>4
<1>8. \A j, l \in 1 .. m - 1 : rest[j] = rest[l] => j = l
  BY <1>2, <1>3, <1>5 DEF m
<1>9. QED
  BY <1>3, <1>6, <1>7, <1>8 DEF m, rest

\* Closing a client moves the last entry over the first one that holds its number.
LEMMA TickReadEofInv ==
  ASSUME TickInv, NEW f \in Fds, TickReadEof(f)
  PROVE  TickInv'
<1>1. /\ ticker = "walk" /\ f \in reported \ {ServerFd} /\ reported' = reported \ {f}
      /\ CloseFd(f) /\ clientFds' = WithoutFd(clientFds, f)
      /\ UNCHANGED <<ticker, ticked, letters>>
  BY DEF TickReadEof
<1>2. SocketInv' /\ OpenFds' = OpenFds \ {f}
  BY <1>1, CloseInv DEF TickInv
<1>3. /\ clientFds' \in Seq(Fds) /\ Len(clientFds') \in Nat /\ Len(clientFds') = Len(clientFds) - 1
      /\ {clientFds'[j] : j \in 1 .. Len(clientFds')} = OpenFds \ {f}
      /\ \A j, l \in 1 .. Len(clientFds') : clientFds'[j] = clientFds'[l] => j = l
  <2>1. /\ clientFds \in Seq(Fds)
        /\ {clientFds[j] : j \in 1 .. Len(clientFds)} = OpenFds
        /\ \A j, l \in 1 .. Len(clientFds) : clientFds[j] = clientFds[l] => j = l
        /\ f \in {clientFds[j] : j \in 1 .. Len(clientFds)}
    BY <1>1, ArrayFacts DEF TickInv, TickDense
  <2> DEFINE rest == WithoutFd(clientFds, f)
  <2>2. /\ rest \in Seq(Fds) /\ Len(rest) \in Nat /\ Len(rest) = Len(clientFds) - 1
        /\ {rest[j] : j \in 1 .. Len(rest)}
             = {clientFds[j] : j \in 1 .. Len(clientFds)} \ {f}
        /\ \A j, l \in 1 .. Len(rest) : rest[j] = rest[l] => j = l
    BY <2>1, WithoutFdFacts
  <2>3. clientFds' = rest
    BY <1>1
  <2> HIDE DEF rest
  <2>4. clientFds' \in Seq(Fds) /\ Len(clientFds') \in Nat /\ Len(clientFds') = Len(clientFds) - 1
    BY <2>2, <2>3
  <2>5. {clientFds'[j] : j \in 1 .. Len(clientFds')} = {rest[j] : j \in 1 .. Len(rest)}
    BY <2>3, Zenon
  <2>6. {clientFds'[j] : j \in 1 .. Len(clientFds')} = OpenFds \ {f}
    BY <2>1, <2>2, <2>5, Zenon
  <2>7. \A j, l \in 1 .. Len(clientFds') : clientFds'[j] = clientFds'[l] => j = l
    BY <2>2, <2>3, Zenon
  <2>8. QED
    BY <2>4, <2>6, <2>7
<1>4. TickType'
  <2>1. Len(clientFds') <= TickClients
    BY <1>3, ArrayFacts, TickAssumption
  <2>2. QED
    BY <1>1, <1>2, <1>3, <2>1 DEF TickInv, TickType, SocketInv
<1>5. TickDense'
  BY <1>2, <1>3 DEF TickDense
<1>6. TickFresh'
  <2> SUFFICES ASSUME NEW g \in reported \ {f}
               PROVE  IF g = ServerFd THEN backlog' # <<>>
                      ELSE g \in OpenFds' /\ Readable(conn[g])'
    BY <1>1 DEF TickFresh
  <2>1. CASE g = ServerFd
    BY <1>1, <2>1 DEF TickInv, TickFresh, CloseFd
  <2>2. CASE g # ServerFd
    <3>1. g \in OpenFds /\ g \in Fds /\ conn'[g] = conn[g]
      BY <1>1, <2>2, ArrayFacts, CloseFrame DEF TickInv
    <3>2. PICK d \in Clients : d = conn[g] /\ Readable(d)
      BY <1>1, <2>2, ArrayFacts
    <3>3. Readable(d)'
      BY <1>1, <3>2, CloseFrame DEF TickInv
    <3>4. QED
      BY <1>2, <2>2, <3>1, <3>2, <3>3
  <2>3. QED
    BY <2>1, <2>2
<1>7. QED
  BY <1>2, <1>4, <1>5, <1>6 DEF TickInv

\* Steps that touch no descriptor and no stream but add to what can be read or
\* written: a letter, and what the clients do.
LEMMA TickQuietInv ==
  ASSUME TickInv, ticker # "stopped", SocketInv', conn' = conn, OpenFds' = OpenFds,
         backlog # <<>> => backlog' # <<>>,
         \A d \in Clients : Readable(d) => Readable(d)',
         ticker' = ticker, reported' = reported, clientFds' = clientFds,
         ticked' \in 0 .. TickClients, letters' \in [Clients -> 0 .. TickRoom]
  PROVE  TickInv'
<1>1. TickType'
  BY DEF TickInv, TickType, SocketInv
<1>2. TickDense'
  BY DEF TickInv, TickDense
<1>3. TickFresh'
  <2>1. \A f \in reported : f # ServerFd => conn[f] \in Clients /\ Readable(conn[f])
    BY ArrayFacts
  <2>2. QED
    BY <2>1 DEF TickInv, TickFresh
<1>4. QED
  BY <1>1, <1>2, <1>3 DEF TickInv

\* A letter leaves descriptors and array alone.
LEMMA LetterInv ==
  ASSUME TickInv, Tick
  PROVE  TickInv'
<1>1. UNCHANGED <<socketVars, ticker, reported, clientFds>> /\ ticker = "tick"
      /\ ticked' = ticked + 1 /\ ticked < Len(clientFds)
      /\ letters' = [letters EXCEPT ![Addressee] = @ + 1] /\ letters[Addressee] < TickRoom
  BY DEF Tick
<1>2. /\ SocketInv' /\ OpenFds' = OpenFds /\ conn' = conn /\ backlog' = backlog
      /\ \A c \in Clients : Readable(c)' = Readable(c)
  BY <1>1, QuietFrame DEF TickInv
<1>3. ticked \in Nat /\ ticked + 1 \in 1 .. Len(clientFds) /\ ticked' \in 0 .. TickClients
  BY <1>1, ArrayFacts, TickAssumption DEF TickInv, TickType
<1>4. letters' \in [Clients -> 0 .. TickRoom]
  <2>1. letters \in [Clients -> 0 .. TickRoom]
    BY DEF TickInv, TickType
  <2>2. Addressee \in Clients
    BY <1>1, <1>3, ArrayFacts DEF Addressee
  <2>3. letters[Addressee] + 1 \in 0 .. TickRoom
    BY <1>1, <2>1, <2>2, TickAssumption
  <2>4. QED
    BY <1>1, <2>1, <2>3
<1>5. QED
  BY <1>1, <1>2, <1>3, <1>4, TickQuietInv

\* A client opens no descriptor and closes none.
LEMMA TickClientInv ==
  ASSUME TickInv, ticker # "stopped", NEW c \in Clients, TickClient(c)
  PROVE  TickInv'
<1>1. CASE /\ Connect(c) \/ Hangup(c) \/ \E line \in TickLines : Write(c, line)
           /\ UNCHANGED <<tickServerVars, letters>>
  <2>1. Connect(c) \/ Hangup(c) \/ \E bytes \in Seq(Byte) : Write(c, bytes)
    BY <1>1, TickAssumption
  <2>2. /\ SocketInv' /\ conn' = conn /\ OpenFds' = OpenFds
        /\ backlog # <<>> => backlog' # <<>>
        /\ \A d \in Clients : Readable(d) => Readable(d)'
    BY <2>1, ClientFrame DEF TickInv
  <2>3. ticked' \in 0 .. TickClients /\ letters' \in [Clients -> 0 .. TickRoom]
    BY <1>1 DEF TickInv, TickType, tickServerVars
  <2>4. QED
    BY <1>1, <2>2, <2>3, TickQuietInv DEF tickServerVars
<1>2. CASE letters' = [letters EXCEPT ![c] = 0] /\ UNCHANGED <<socketVars, tickServerVars>>
  <2>1. /\ SocketInv' /\ OpenFds' = OpenFds /\ conn' = conn /\ backlog' = backlog
        /\ \A d \in Clients : Readable(d)' = Readable(d)
    BY <1>2, QuietFrame DEF TickInv
  <2>2. ticked' \in 0 .. TickClients /\ letters' \in [Clients -> 0 .. TickRoom]
    BY <1>2, TickAssumption DEF TickInv, TickType, tickServerVars
  <2>3. QED
    BY <1>2, <2>1, <2>2, TickQuietInv DEF tickServerVars
<1>3. QED
  BY <1>1, <1>2 DEF TickClient

\* A step that changes nothing keeps the invariant.
LEMMA TickStutterInv ==
  ASSUME TickInv, UNCHANGED tickVars
  PROVE  TickInv'
<1>1. UNCHANGED <<socketVars, tickServerVars, letters>>
  BY DEF tickVars
<1>2. /\ SocketInv' /\ OpenFds' = OpenFds /\ conn' = conn /\ backlog' = backlog
      /\ \A d \in Clients : Readable(d)' = Readable(d)
  BY <1>1, QuietFrame DEF TickInv
<1>3. TickType'
  BY <1>1, <1>2 DEF TickInv, TickType, SocketInv, tickServerVars
<1>4. ticker # "stopped" => TickDense' /\ TickFresh'
  <2> SUFFICES ASSUME ticker # "stopped" PROVE TickDense' /\ TickFresh'
    OBVIOUS
  <2>1. \A f \in reported : f # ServerFd => conn[f] \in Clients /\ Readable(conn[f])
    BY ArrayFacts
  <2>2. QED
    BY <1>1, <1>2, <2>1 DEF TickInv, TickDense, TickFresh, tickServerVars
<1>5. QED
  BY <1>1, <1>2, <1>3, <1>4 DEF TickInv, tickServerVars

\* Whatever is accepted, read, closed and sent, the array holds the open connections once each.
THEOREM TickInductive == TickSpec => []TickInv
<1>1. TickInit => TickInv
  BY TickInitInv
<1>2. TickInv /\ [TickNext]_tickVars => TickInv'
  BY TickLoopInv, TickAcceptInv, TickPastEndInv, TickReadDataInv, TickReadEofInv, LetterInv,
     TickClientInv, TickStutterInv DEF TickNext, TickServerStep
<1>3. QED
  BY <1>1, <1>2, PTL DEF TickSpec

\* The array holds each open connection once and nothing else, at every step
\* of every round, and what was reported still holds when the walk reaches it.
THEOREM TickArrayIsOpen == TickSpec => []ArrayIsOpen
<1>1. TickInv => ArrayIsOpen
  BY TickCounts
<1>2. QED
  BY <1>1, TickInductive, PTL

-----------------------------------------------------------------------------
(****************************************************************************)
(* The signal: SigioServer.                                                 *)
(****************************************************************************)
\* What main() has in its variable: before the client is in the table, an open
\* connection nobody else knows of, still in blocking mode; after it, a number
\* the handler may have closed.
MainKnows ==
  /\ main = "search" => client_fd \in OpenFds \ Slotted /\ mode[client_fd] = "plain"
  /\ main \in {"setfl", "setown"} => client_fd \in Fds

\* Of the clients in the table only the one just published can block a read().
PlainIsPublished ==
  \A s \in Index : client_sockets[s] # 0 /\ mode[client_sockets[s]] = "plain"
                     => main = "setfl" /\ client_sockets[s] = client_fd

\* The client in slot s will be read, or is one of the cases of ForgottenOnly.
Told(s) ==
  LET f == client_sockets[s]
  IN  f # 0 /\ Readable(conn[f]) /\ ~sigio /\ ~(i \in 1 .. s) =>
        \/ mode[f] # "owned"
        \/ f \in late \cup full
        \/ Unread(conn[f]) = 0 /\ phase[conn[f]] = "closed" /\ rd[conn[f]] > 0

SigioInv ==
  SocketInv /\ SlotsAreOpen /\ MainKnows /\ PlainIsPublished /\ \A s \in Index : Told(s)

\* What the invariant says of the slots, entry by entry.
LEMMA SlotFacts ==
  ASSUME SigioInv
  PROVE  /\ Index = 1 .. Slots /\ Slots \in Nat \ {0} /\ 0 \notin Fds
         /\ client_sockets \in [Index -> Fds \cup {0}] /\ mode \in [Fds -> {"plain", "flags", "owned"}]
         /\ k \in Index /\ i \in 0 .. Slots /\ (i # 0 => i \in Index)
         /\ \A s \in Index : client_sockets[s] # 0 =>
              /\ client_sockets[s] \in OpenFds /\ client_sockets[s] \in Fds
              /\ conn[client_sockets[s]] \in Clients
              /\ \A u \in Index : u # s /\ client_sockets[u] # 0 =>
                   /\ client_sockets[u] # client_sockets[s]
                   /\ conn[client_sockets[u]] # conn[client_sockets[s]]
<1>1. 0 \notin Fds
  BY FdNumbers
<1>2. \A s \in Index : client_sockets[s] # 0 => client_sockets[s] \in OpenFds
  BY DEF SigioInv, SlotsAreOpen, Slotted
<1>3. \A f \in OpenFds : f \in Fds /\ conn[f] \in Clients
  BY OpenFdFacts DEF SigioInv
<1>4. \A s, u \in Index : client_sockets[u] = client_sockets[s] /\ client_sockets[u] # 0 => u = s
  BY DEF SigioInv, SlotsAreOpen
<1>5. \A s, u \in Index : u # s /\ client_sockets[u] # 0 /\ client_sockets[s] # 0
        => conn[client_sockets[u]] # conn[client_sockets[s]]
  BY <1>2, <1>4, OpenFdFacts DEF SigioInv
<1>6. Index = 1 .. Slots /\ Slots \in Nat \ {0} /\ (i \in 0 .. Slots => (i # 0 => i \in Index))
  BY SigioAssumption DEF Index
<1>7. QED
  BY <1>1, <1>2, <1>3, <1>4, <1>5, <1>6 DEF SigioInv, SlotsAreOpen, TypeOK

\* The server starts with an empty table and no signal.
LEMMA SigioInitInv == Init => SigioInv
<1> SUFFICES ASSUME Init PROVE SigioInv
  OBVIOUS
<1>1. SocketInv
  BY SocketInitInv DEF Init
<1>2. TypeOK
  <2>1. 1 \in Index /\ 0 \in 0 .. Slots
    BY SigioAssumption DEF Index
  <2>2. client_sockets \in [Index -> Fds \cup {0}] /\ mode \in [Fds -> {"plain", "flags", "owned"}]
    BY DEF Init
  <2>3. QED
    BY <1>1, <2>1, <2>2 DEF Init, TypeOK, SocketInv
<1>3. \A s \in Index : client_sockets[s] = 0
  BY DEF Init
<1>4. QED
  BY <1>1, <1>2, <1>3
     DEF Init, SigioInv, SlotsAreOpen, Slotted, MainKnows, PlainIsPublished, Told

\* A step that leaves the table, the streams and the descriptors alone.
LEMMA SlottedKept ==
  ASSUME SigioInv, UNCHANGED <<socketVars, client_sockets>>
  PROVE  /\ SocketInv' /\ OpenFds' = OpenFds /\ Slotted' = Slotted /\ Index' = Index
         /\ \A s \in Index : client_sockets[s] # 0 =>
              /\ Readable(conn[client_sockets[s]])' = Readable(conn[client_sockets[s]])
              /\ Unread(conn[client_sockets[s]])' = Unread(conn[client_sockets[s]])
         /\ conn' = conn /\ phase' = phase /\ rd' = rd
         /\ TypeOK' => SlotsAreOpen'
<1>1. UNCHANGED socketVars /\ client_sockets' = client_sockets
  OBVIOUS
<1>2. /\ SocketInv' /\ OpenFds' = OpenFds /\ conn' = conn
      /\ \A c \in Clients : Unread(c)' = Unread(c) /\ Readable(c)' = Readable(c)
  BY <1>1, QuietFrame DEF SigioInv
<1>3. Slotted' = Slotted
  BY <1>1 DEF Slotted, Index
<1>4. phase' = phase /\ rd' = rd
  BY <1>1 DEF socketVars
<1>5. QED
  BY <1>1, <1>2, <1>3, <1>4, SlotFacts DEF SigioInv, SlotsAreOpen, Index

\* An accepted connection is in no slot before main() puts it there.
LEMMA SigioAcceptInv ==
  ASSUME SigioInv, Accept
  PROVE  SigioInv'
<1>1. PICK f \in Fds :
        /\ AcceptInto(f) /\ client_fd' = f /\ mode' = [mode EXCEPT ![f] = "plain"]
        /\ late' = late \ {f} /\ full' = full \ {f}
  BY DEF Accept
<1>2. /\ i = 0 /\ i' = i /\ main = "accept" /\ main' = "search" /\ k' = 1
      /\ client_sockets' = client_sockets /\ sigio' = sigio
  BY DEF Accept, MainAt
<1>3. SocketInv' /\ OpenFds' = OpenFds \cup {f} /\ f \notin OpenFds
  BY <1>1, AcceptInv DEF SigioInv
<1>4. Slotted' = Slotted /\ f \notin Slotted
  BY <1>2, <1>3 DEF Slotted, Index, SigioInv, SlotsAreOpen
<1>5. TypeOK'
  BY <1>1, <1>2, <1>3, SlotFacts DEF SigioInv, SlotsAreOpen, TypeOK, SocketInv, Index
<1>6. SlotsAreOpen'
  BY <1>2, <1>3, <1>4, <1>5 DEF SigioInv, SlotsAreOpen, Index
<1>7. ASSUME NEW s \in Index, client_sockets[s] # 0
      PROVE  /\ client_sockets[s] # f /\ client_sockets[s] \in Fds
             /\ mode'[client_sockets[s]] = mode[client_sockets[s]]
             /\ conn'[client_sockets[s]] = conn[client_sockets[s]]
  BY <1>1, <1>3, <1>7, SlotFacts, AcceptFrame DEF SigioInv
<1>8. MainKnows'
  BY <1>1, <1>2, <1>3, <1>4, SlotFacts DEF MainKnows
<1>9. PlainIsPublished'
  BY <1>2, <1>7 DEF SigioInv, PlainIsPublished, Index
<1>10. ASSUME NEW s \in Index PROVE Told(s)'
  <2>1. CASE client_sockets[s] = 0
    BY <1>2, <2>1 DEF Told
  <2>2. CASE client_sockets[s] # 0
    <3>1. PICK c \in Clients : c = conn[client_sockets[s]]
      BY <2>2, SlotFacts
    <3>2. Readable(c)' = Readable(c) /\ Unread(c)' = Unread(c)
      BY <1>1, AcceptFrame DEF SigioInv
    <3>3. phase' = phase /\ rd' = rd
      BY <1>1 DEF AcceptInto
    <3>4. Told(s)
      BY DEF SigioInv
    <3>5. QED
      BY <1>1, <1>2, <1>7, <2>2, <3>1, <3>2, <3>3, <3>4 DEF Told
  <2>3. QED
    BY <2>1, <2>2
<1>11. QED
  BY <1>3, <1>6, <1>8, <1>9, <1>10 DEF SigioInv, Index

\* main() goes through the table, puts the client into it, and makes it
\* asynchronous; none of these steps touches a stream.
LEMMA SearchOnInv ==
  ASSUME SigioInv, SearchOn
  PROVE  SigioInv'
<1> USE DEF SearchOn, MainAt
<1>1. /\ SocketInv' /\ OpenFds' = OpenFds /\ Slotted' = Slotted /\ Index' = Index
      /\ conn' = conn /\ phase' = phase /\ rd' = rd
      /\ TypeOK' => SlotsAreOpen'
  BY SlottedKept
<1>2. k' \in Index /\ main' \in {"search", "accept"}
  BY SlotFacts
<1>3. TypeOK'
  BY <1>1, <1>2 DEF SigioInv, SlotsAreOpen, TypeOK, SocketInv, historyVars
<1>4. MainKnows' /\ PlainIsPublished'
  BY <1>1, <1>2 DEF SigioInv, MainKnows, PlainIsPublished
<1>5. \A s \in Index : Told(s)'
  BY <1>1, SlottedKept DEF SigioInv, Told, historyVars
<1>6. QED
  BY <1>1, <1>3, <1>4, <1>5 DEF SigioInv

\* The store into the table shows the handler a client that is not set up yet.
LEMMA PublishInv ==
  ASSUME SigioInv, Publish
  PROVE  SigioInv'
<1>1. /\ i = 0 /\ main = "search" /\ main' = "setfl" /\ client_sockets[k] = 0
      /\ client_sockets' = [client_sockets EXCEPT ![k] = client_fd]
      /\ UNCHANGED <<socketVars, mode, client_fd, k, sigio, i, late, full>>
  BY DEF Publish, MainAt, historyVars
<1>2. /\ SocketInv' /\ OpenFds' = OpenFds /\ conn' = conn
      /\ \A c \in Clients : Readable(c)' = Readable(c) /\ Unread(c)' = Unread(c)
  BY <1>1, QuietFrame DEF SigioInv
<1>3. client_fd \in OpenFds /\ client_fd \in Fds /\ client_fd \notin Slotted
      /\ mode[client_fd] = "plain" /\ client_fd # 0
  BY <1>1, SlotFacts, OpenFdFacts DEF SigioInv, MainKnows
<1>4. \A s \in Index : client_sockets'[s] = IF s = k THEN client_fd ELSE client_sockets[s]
  BY <1>1, SlotFacts
<1>5. TypeOK'
  BY <1>1, <1>2, <1>3 DEF SigioInv, SlotsAreOpen, TypeOK, SocketInv, Index
<1>6. SlotsAreOpen'
  <2>1. Slotted' \subseteq Slotted \cup {client_fd}
    BY <1>4 DEF Slotted, Index
  <2>2. \A s \in Index : client_sockets[s] # client_fd
    BY <1>3 DEF Slotted
  <2>3. QED
    BY <1>2, <1>3, <1>4, <1>5, <2>1, <2>2 DEF SigioInv, SlotsAreOpen, Index
<1>7. MainKnows'
  BY <1>1, <1>3 DEF MainKnows
<1>8. PlainIsPublished'
  BY <1>1, <1>4 DEF SigioInv, PlainIsPublished, Index
<1>9. ASSUME NEW s \in Index PROVE Told(s)'
  <2>1. CASE s = k
    BY <1>1, <1>3, <1>4, <2>1 DEF Told
  <2>2. CASE s # k /\ client_sockets[s] = 0
    BY <1>4, <2>2 DEF Told
  <2>3. CASE s # k /\ client_sockets[s] # 0
    <3>1. PICK c \in Clients : c = conn[client_sockets[s]]
      BY <2>3, SlotFacts
    <3>2. Told(s) /\ client_sockets'[s] = client_sockets[s]
      BY <1>4, <2>3 DEF SigioInv
    <3>3. QED
      BY <1>1, <1>2, <3>1, <3>2 DEF Told, socketVars
  <2>4. QED
    BY <2>1, <2>2, <2>3
<1>10. QED
  BY <1>2, <1>6, <1>7, <1>8, <1>9 DEF SigioInv, Index

\* fcntl() makes the client non-blocking, then lets it raise signals.
LEMMA SetFlagsInv ==
  ASSUME SigioInv, SetFlags
  PROVE  SigioInv'
<1>1. /\ i = 0 /\ main = "setfl" /\ main' = "setown"
      /\ mode' = [mode EXCEPT ![client_fd] = "flags"]
      /\ UNCHANGED <<socketVars, client_sockets, client_fd, k, sigio, i, late, full>>
  BY DEF SetFlags, MainAt, historyVars
<1>2. /\ SocketInv' /\ OpenFds' = OpenFds /\ Slotted' = Slotted /\ Index' = Index
      /\ conn' = conn /\ phase' = phase /\ rd' = rd
      /\ TypeOK' => SlotsAreOpen'
  BY <1>1, SlottedKept
<1>3. client_fd \in Fds
  BY <1>1 DEF SigioInv, MainKnows
<1>4. /\ \A f \in Fds : mode'[f] = IF f = client_fd THEN "flags" ELSE mode[f]
      /\ mode' \in [Fds -> {"plain", "flags", "owned"}]
  BY <1>1, <1>3, SlotFacts
<1>5. TypeOK'
  BY <1>1, <1>2, <1>4 DEF SigioInv, SlotsAreOpen, TypeOK, SocketInv
<1>6. MainKnows'
  BY <1>1, <1>3 DEF MainKnows
<1>7. PlainIsPublished'
  BY <1>1, <1>2, <1>4, SlotFacts DEF SigioInv, PlainIsPublished
<1>8. \A s \in Index : Told(s)'
  BY <1>1, <1>2, <1>4, SlottedKept, SlotFacts DEF SigioInv, Told
<1>9. QED
  BY <1>2, <1>5, <1>6, <1>7, <1>8 DEF SigioInv

\* Here the client becomes one a signal tells of; what it has written before is
\* noted in late.
LEMMA SetOwnerInv ==
  ASSUME SigioInv, SetOwner
  PROVE  SigioInv'
<1>1. /\ i = 0 /\ main = "setown" /\ main' = "accept"
      /\ mode' = [mode EXCEPT ![client_fd] = "owned"]
      /\ late' = late \cup {f \in {client_fd} \cap OpenFds : Readable(conn[f])}
      /\ UNCHANGED <<socketVars, client_sockets, client_fd, k, sigio, i, full>>
  BY DEF SetOwner, MainAt
<1>2. /\ SocketInv' /\ OpenFds' = OpenFds /\ Slotted' = Slotted /\ Index' = Index
      /\ conn' = conn /\ phase' = phase /\ rd' = rd
      /\ TypeOK' => SlotsAreOpen'
  BY <1>1, SlottedKept
<1>3. client_fd \in Fds
  BY <1>1 DEF SigioInv, MainKnows
<1>4. /\ \A f \in Fds : mode'[f] = IF f = client_fd THEN "owned" ELSE mode[f]
      /\ mode' \in [Fds -> {"plain", "flags", "owned"}]
  BY <1>1, <1>3, SlotFacts
<1>5. late \subseteq late' /\ late' \subseteq Fds
  BY <1>1, <1>3 DEF SigioInv, SlotsAreOpen, TypeOK
<1>6. TypeOK'
  BY <1>1, <1>2, <1>4, <1>5 DEF SigioInv, SlotsAreOpen, TypeOK, SocketInv
<1>7. MainKnows'
  BY <1>1 DEF MainKnows
<1>8. PlainIsPublished'
  BY <1>1, <1>2, <1>4, SlotFacts DEF SigioInv, PlainIsPublished
<1>9. ASSUME NEW s \in Index PROVE Told(s)'
  <2> DEFINE f == client_sockets[s]
  <2>1. CASE f = 0
    BY <1>1, <2>1 DEF Told
  <2>2. CASE f # 0 /\ f # client_fd
    BY <1>1, <1>2, <1>4, <1>5, <2>2, SlottedKept, SlotFacts DEF SigioInv, Told
  <2>3. CASE f # 0 /\ f = client_fd
    <3>1. f \in OpenFds /\ Readable(conn[f])' = Readable(conn[f])
      BY <1>1, <2>3, SlottedKept, SlotFacts
    <3>2. Readable(conn[f]) => f \in late'
      BY <1>1, <2>3, <3>1
    <3>3. client_sockets'[s] = f
      BY <1>1
    <3>4. QED
      BY <1>1, <3>1, <3>2, <3>3 DEF Told
  <2>4. QED
    BY <2>1, <2>2, <2>3
<1>10. QED
  BY <1>2, <1>6, <1>7, <1>8, <1>9 DEF SigioInv

\* The handler's loop: a slot is left behind, and no other one.
LEMMA NextSlotFacts ==
  ASSUME SigioInv, i # 0, NextSlot
  PROVE  /\ i' \in 0 .. Slots /\ i \in Index
         /\ \A s \in Index : s # i /\ ~(i' \in 1 .. s) => ~(i \in 1 .. s)
<1>1. i \in 1 .. Slots /\ Slots \in Nat /\ Index = 1 .. Slots
  BY SlotFacts
<1>2. i' = IF i < Slots THEN i + 1 ELSE 0
  BY DEF NextSlot
<1>3. QED
  BY <1>1, <1>2

\* Entering and leaving the handler, and passing over a slot, read nothing.
LEMMA HandlerQuietInv ==
  ASSUME SigioInv, Deliver \/ SkipFree \/ WouldBlock
  PROVE  SigioInv'
<1>1. /\ UNCHANGED <<socketVars, client_sockets, mode, main, client_fd, k, late, full>>
      /\ sigio' \in BOOLEAN
  BY DEF Deliver, SkipFree, WouldBlock, mainVars, historyVars, SigioInv, SlotsAreOpen, TypeOK
<1>2. /\ SocketInv' /\ OpenFds' = OpenFds /\ Slotted' = Slotted /\ Index' = Index
      /\ conn' = conn /\ phase' = phase /\ rd' = rd
      /\ TypeOK' => SlotsAreOpen'
  BY <1>1, SlottedKept
<1>3. i' \in 0 .. Slots
  BY NextSlotFacts, SlotFacts DEF Deliver, SkipFree, WouldBlock, AtClient
<1>4. TypeOK'
  BY <1>1, <1>2, <1>3 DEF SigioInv, SlotsAreOpen, TypeOK, SocketInv
<1>5. MainKnows' /\ PlainIsPublished'
  BY <1>1, <1>2 DEF SigioInv, MainKnows, PlainIsPublished
<1>6. ASSUME NEW s \in Index PROVE Told(s)'
  <2>1. CASE Deliver
    <3>1. i' = 1 /\ 1 \in 1 .. s
      BY <2>1, SlotFacts DEF Deliver
    <3>2. QED
      BY <3>1 DEF Told
  <2>2. CASE SkipFree \/ WouldBlock
    <3>1. NextSlot /\ i # 0 /\ sigio' = sigio
      BY <2>2 DEF SkipFree, WouldBlock, AtClient
    <3>2. CASE s = i
      <4>1. client_sockets[s] = 0 \/ (client_sockets[s] # 0 /\ ~Readable(conn[client_sockets[s]]))
        BY <2>2, <3>2 DEF SkipFree, WouldBlock, AtClient
      <4>2. QED
        BY <1>1, <4>1, SlottedKept DEF Told
    <3>3. CASE s # i
      BY <1>1, <1>2, <3>1, <3>3, NextSlotFacts, SlottedKept DEF SigioInv, Told
    <3>4. QED
      BY <3>2, <3>3
  <2>3. QED
    BY <2>1, <2>2
<1>7. QED
  BY <1>2, <1>4, <1>5, <1>6 DEF SigioInv

\* What a read() of the handler leaves behind of its client.
LEMMA HandlerReads ==
  ASSUME SigioInv, ReadData
  PROVE  LET f == client_sockets[i]
             c == conn[f]
             bytes == Chunk(c, BufSize)
         IN  /\ i # 0 /\ i \in Index /\ f # 0 /\ f \in Fds /\ c \in Clients
             /\ Consume(c, Len(bytes), PrintedText(bytes))
             /\ Len(bytes) \in Nat /\ Len(bytes) > 0 /\ Len(bytes) <= Unread(c)
             /\ PrintedText(bytes) \in Seq(Byte)
             /\ late' = late \ {f}
             /\ full' = IF Len(bytes) = BufSize THEN full \cup {f} ELSE full \ {f}
             /\ Len(bytes) # BufSize => Len(bytes) = Unread(c)
<1> DEFINE f == client_sockets[i]
           c == conn[f]
           bytes == Chunk(c, BufSize)
<1>1. /\ i # 0 /\ f # 0 /\ Unread(c) > 0 /\ Consume(c, Len(bytes), PrintedText(bytes))
      /\ late' = late \ {f}
      /\ full' = IF Len(bytes) = BufSize THEN full \cup {f} ELSE full \ {f}
  BY DEF ReadData, AtClient
<1>2. i \in Index /\ f \in Fds /\ c \in Clients
  BY <1>1, SlotFacts
<1>3. /\ Len(bytes) \in Nat /\ Len(bytes) > 0 /\ Len(bytes) <= Unread(c)
      /\ PrintedText(bytes) \in Seq(Byte)
  BY <1>1, <1>2, ReadFacts, SigioAssumption DEF SigioInv, PrintedText
<1>4. Len(bytes) # BufSize => Len(bytes) = Unread(c)
  BY <1>2, ChunkLength, SigioAssumption DEF SigioInv
<1> HIDE DEF f, bytes
<1>5. QED
  BY <1>1, <1>2, <1>3, <1>4 DEF f, bytes

\* A read takes what is there, and only a full buffer can leave text behind.
LEMMA SigioReadInv ==
  ASSUME SigioInv, ReadData
  PROVE  SigioInv'
<1> PICK f \in Fds, c \in Clients : f = client_sockets[i] /\ c = conn[f]
  BY HandlerReads
<1> DEFINE bytes == Chunk(c, BufSize)
<1>1. /\ i # 0 /\ i \in Index /\ f # 0
      /\ Consume(c, Len(bytes), PrintedText(bytes))
      /\ Len(bytes) \in Nat /\ Len(bytes) > 0 /\ Len(bytes) <= Unread(c)
      /\ PrintedText(bytes) \in Seq(Byte)
      /\ late' = late \ {f}
      /\ full' = IF Len(bytes) = BufSize THEN full \cup {f} ELSE full \ {f}
      /\ Len(bytes) # BufSize => Len(bytes) = Unread(c)
  BY HandlerReads
<1>2. NextSlot /\ UNCHANGED <<client_sockets, mode, main, client_fd, k, sigio>>
  BY DEF ReadData, mainVars
<1> HIDE DEF bytes
<1>3. SocketInv'
  BY <1>1, ConsumeInv DEF SigioInv
<1>4. /\ conn' = conn /\ phase' = phase /\ OpenFds' = OpenFds
      /\ \A d \in Clients \ {c} : /\ rd'[d] = rd[d] /\ Unread(d)' = Unread(d)
                                  /\ Readable(d)' = Readable(d)
      /\ rd'[c] = rd[c] + Len(bytes)
      /\ Unread(c)' = Unread(c) - Len(bytes)
  BY <1>1, ConsumeFrame DEF SigioInv
<1>5. Slotted' = Slotted /\ Index' = Index /\ i' \in 0 .. Slots
  BY <1>1, <1>2, NextSlotFacts DEF Slotted, Index
<1>6. TypeOK'
  BY <1>1, <1>2, <1>3, <1>5 DEF SigioInv, SlotsAreOpen, TypeOK, SocketInv
<1>7. SlotsAreOpen'
  BY <1>2, <1>4, <1>5, <1>6 DEF SigioInv, SlotsAreOpen
<1>8. MainKnows' /\ PlainIsPublished'
  BY <1>2, <1>4, <1>5 DEF SigioInv, MainKnows, PlainIsPublished
<1>9. ASSUME NEW s \in Index PROVE Told(s)'
  <2>1. CASE s = i
    <3>1. Len(bytes) = BufSize => f \in full'
      BY <1>1
    <3>2. Unread(c) \in Nat /\ rd[c] \in Nat
      BY OpenFdFacts DEF SigioInv, SocketInv, SocketType
    <3>3. Len(bytes) # BufSize => (Unread(c) = 0)'
      BY <1>1, <1>4, <3>2
    <3>4. rd'[c] > 0
      BY <1>1, <1>4, <3>2
    <3>5. client_sockets'[s] = f /\ conn'[f] = c
      BY <1>2, <1>4, <2>1
    <3>6. Readable(c)' /\ (Unread(c) = 0)' => phase'[c] = "closed"
      BY DEF Readable
    <3>7. QED
      BY <3>1, <3>3, <3>4, <3>5, <3>6 DEF Told
  <2>2. CASE s # i /\ client_sockets[s] = 0
    BY <1>2, <2>2 DEF Told
  <2>3. CASE s # i /\ client_sockets[s] # 0
    <3>1. PICK d \in Clients \ {c} : d = conn[client_sockets[s]]
      BY <1>1, <2>3, SlotFacts
    <3>2. client_sockets[s] # f
      BY <1>1, <2>3, SlotFacts
    <3>3. client_sockets[s] \in late \cup full => client_sockets[s] \in late' \cup full'
      BY <1>1, <3>2
    <3>4. Told(s) /\ (~(i' \in 1 .. s) => ~(i \in 1 .. s))
      BY <1>1, <1>2, <2>3, NextSlotFacts DEF SigioInv
    <3>5. QED
      BY <1>2, <1>4, <3>1, <3>3, <3>4 DEF Told
  <2>4. QED
    BY <2>1, <2>2, <2>3
<1>10. QED
  BY <1>3, <1>5, <1>7, <1>8, <1>9 DEF SigioInv

\* An end of file empties the slot and closes the descriptor together.
LEMMA SigioEofInv ==
  ASSUME SigioInv, ReadEof
  PROVE  SigioInv'
<1> DEFINE f == client_sockets[i]
<1>1. /\ i # 0 /\ f # 0 /\ CloseFd(f) /\ NextSlot
      /\ client_sockets' = [client_sockets EXCEPT ![i] = 0]
      /\ UNCHANGED <<mode, main, client_fd, k, sigio, late, full>>
  BY DEF ReadEof, AtClient, mainVars, historyVars
<1>2. i \in Index /\ f \in Fds
  BY <1>1, SlotFacts
<1>3. SocketInv' /\ OpenFds' = OpenFds \ {f}
  BY <1>1, <1>2, CloseInv DEF SigioInv
<1>4. /\ i' \in 0 .. Slots /\ Index' = Index
      /\ \A s \in Index : client_sockets'[s] = IF s = i THEN 0 ELSE client_sockets[s]
  BY <1>1, NextSlotFacts, SlotFacts DEF Index
<1>5. TypeOK'
  <2>1. client_sockets' \in [Index -> Fds \cup {0}]
    BY <1>1, SlotFacts
  <2>2. QED
    BY <1>1, <1>3, <1>4, <2>1 DEF SigioInv, SlotsAreOpen, TypeOK, SocketInv
<1> HIDE DEF f
<1>6. Slotted' \subseteq Slotted \ {f} /\ f \in Slotted
  <2>1. \A s \in Index : s # i /\ client_sockets[s] # 0 => client_sockets[s] # f
    BY <1>1, <1>2, SlotFacts DEF f
  <2>2. QED
    BY <1>1, <1>2, <1>4, <2>1 DEF Slotted, f
<1>7. SlotsAreOpen'
  BY <1>3, <1>4, <1>5, <1>6 DEF SigioInv, SlotsAreOpen
<1>8. MainKnows'
  BY <1>1, <1>3, <1>6 DEF SigioInv, MainKnows
<1>9. PlainIsPublished'
  BY <1>1, <1>4 DEF SigioInv, PlainIsPublished
<1>10. ASSUME NEW s \in Index PROVE Told(s)'
  <2>1. CASE s = i \/ client_sockets[s] = 0
    BY <1>4, <2>1 DEF Told
  <2>2. CASE s # i /\ client_sockets[s] # 0
    <3>1. client_sockets[s] # f /\ client_sockets[s] \in Fds
      BY <1>1, <1>2, <2>2, SlotFacts DEF f
    <3>2. PICK d \in Clients : d = conn[client_sockets[s]]
      BY <2>2, SlotFacts
    <3>3. /\ conn'[client_sockets[s]] = d /\ phase' = phase /\ rd' = rd
          /\ Unread(d)' = Unread(d) /\ Readable(d)' = Readable(d)
      BY <1>1, <1>2, <3>1, <3>2, CloseFrame DEF SigioInv
    <3>4. Told(s) /\ (~(i' \in 1 .. s) => ~(i \in 1 .. s))
      BY <1>1, <2>2, NextSlotFacts DEF SigioInv
    <3>5. QED
      BY <1>1, <1>4, <2>2, <3>2, <3>3, <3>4 DEF Told
  <2>3. QED
    BY <2>1, <2>2
<1>11. QED
  BY <1>3, <1>4, <1>7, <1>8, <1>9, <1>10 DEF SigioInv

\* A client that writes or closes raises the signal that its owner asked for.
LEMMA SigioClientInv ==
  ASSUME SigioInv, NEW c \in Clients, Client(c)
  PROVE  SigioInv'
<1>1. UNCHANGED <<client_sockets, mode, main, client_fd, k, i, late, full>> /\ sigio' \in BOOLEAN
  BY DEF Client, mainVars, historyVars, SigioInv, SlotsAreOpen, TypeOK
<1>2. Connect(c) \/ Hangup(c) \/ \E bytes \in Seq(Byte) : Write(c, bytes)
  BY SigioAssumption DEF Client
<1>3. /\ SocketInv' /\ conn' = conn /\ rd' = rd /\ OpenFds' = OpenFds
      /\ \A d \in Clients : d # c => sent'[d] = sent[d] /\ phase'[d] = phase[d]
  BY <1>2, ClientFrame DEF SigioInv
<1>4. Slotted' = Slotted /\ Index' = Index
  BY <1>1 DEF Slotted, Index
<1>5. SlotsAreOpen'
  BY <1>1, <1>3, <1>4 DEF SigioInv, SlotsAreOpen, TypeOK, SocketInv
<1>6. MainKnows' /\ PlainIsPublished'
  BY <1>1, <1>3, <1>4 DEF SigioInv, MainKnows, PlainIsPublished
<1>7. ASSUME NEW s \in Index PROVE Told(s)'
  <2> DEFINE f == client_sockets[s]
  <2>1. CASE f = 0 \/ sigio'
    BY <1>1, <2>1 DEF Told
  <2>2. CASE f # 0 /\ ~sigio' /\ conn[f] = c
    <3>1. f \in OpenFds
      BY <2>2, SlotFacts
    <3>2. mode[f] # "owned"
      BY <2>2, <3>1 DEF Client
    <3>3. QED
      BY <1>1, <3>2 DEF Told
  <2>3. CASE f # 0 /\ ~sigio' /\ conn[f] # c
    <3>1. PICK d \in Clients : d = conn[f] /\ d # c
      BY <2>3, SlotFacts
    <3>2. Unread(d)' = Unread(d) /\ Readable(d)' = Readable(d) /\ phase'[d] = phase[d]
      BY <1>3, <3>1 DEF Unread, Readable
    <3>3. ~sigio
      BY <2>3 DEF Client
    <3>4. Told(s)
      BY DEF SigioInv
    <3>5. QED
      BY <1>1, <1>3, <2>3, <3>1, <3>2, <3>3, <3>4 DEF Told
  <2>4. QED
    BY <2>1, <2>2, <2>3
<1>8. QED
  BY <1>3, <1>4, <1>5, <1>6, <1>7 DEF SigioInv

\* A step that changes nothing keeps the invariant.
LEMMA SigioStutterInv ==
  ASSUME SigioInv, UNCHANGED vars
  PROVE  SigioInv'
<1>1. UNCHANGED <<socketVars, client_sockets, mode, main, client_fd, k, sigio, i, late, full>>
  BY DEF vars, serverVars, mainVars, historyVars
<1>2. /\ SocketInv' /\ OpenFds' = OpenFds /\ Slotted' = Slotted /\ Index' = Index
      /\ conn' = conn /\ phase' = phase /\ rd' = rd
      /\ TypeOK' => SlotsAreOpen'
  BY <1>1, SlottedKept
<1>3. TypeOK'
  BY <1>1, <1>2 DEF SigioInv, SlotsAreOpen, TypeOK, SocketInv
<1>4. MainKnows' /\ PlainIsPublished'
  BY <1>1, <1>2 DEF SigioInv, MainKnows, PlainIsPublished
<1>5. \A s \in Index : Told(s)'
  BY <1>1, <1>2, SlottedKept DEF SigioInv, Told
<1>6. QED
  BY <1>2, <1>3, <1>4, <1>5 DEF SigioInv

\* Main(), handler and clients keep the invariant, whichever statement the signal interrupts.
THEOREM SigioInductive == Spec => []SigioInv
<1>1. Init => SigioInv
  BY SigioInitInv
<1>2. SigioInv /\ [Next]_vars => SigioInv'
  BY SigioAcceptInv, SearchOnInv, PublishInv, SetFlagsInv, SetOwnerInv, HandlerQuietInv,
     SigioReadInv, SigioEofInv, SigioClientInv, SigioStutterInv DEF Next, Main, Handler
<1>3. QED
  BY <1>1, <1>2, PTL DEF Spec

\* Whatever main() and the handler interrupt of each other, a slot holds an
\* open connection and no two slots the same, and the handler blocks only on
\* the client that main() has published and not yet made non-blocking.
THEOREM SigioBlocksOnlyOnPublished == Spec => []BlocksOnlyOnPublished
<1>1. SigioInv => BlocksOnlyOnPublished
  BY SlotFacts DEF SigioInv, BlocksOnlyOnPublished, PlainIsPublished, Blocked, AtClient
<1>2. QED
  BY <1>1, SigioInductive, PTL

\* No client in the table is left with something to read that no signal will
\* tell of, but in the three cases the property names.
THEOREM SigioForgets == Spec => []ForgottenOnly
<1>1. SigioInv => ForgottenOnly
  BY DEF SigioInv, ForgottenOnly, Told
<1>2. QED
  BY <1>1, SigioInductive, PTL

-----------------------------------------------------------------------------
(****************************************************************************)
(* The asynchronous requests: AioServer.                                    *)
(****************************************************************************)
AioSpec == AioInit /\ [][AioNext]_aioVars

\* OneOperation is about requests one by one. What a step needs besides it:
\* main() holds the connection it has just accepted, a pending signal names a
\* request that has ended, a buffer holds bytes only between completion and
\* fetching, and only the program with a timer has clients to answer.
HandsAreKnown ==
  /\ acceptor = "create" => joined \in OpenFds /\ request[joined] = "none"
  /\ carried # NoRequest => request[carried] \in {"done", "failed"}
  /\ \A f \in Fds : request[f] # "done" => held[f] = <<>>
  /\ ~aio.answers => clients = <<>> /\ unheard = {}

AioInv == SocketInv /\ OneOperation /\ (acceptor # "stopped" => HandsAreKnown)

\* The requests of a running server.
LEMMA RequestFacts ==
  ASSUME AioInv
  PROVE  /\ request \in [Fds -> {"none", "reading", "done", "failed"}]
         /\ held \in [Fds -> Seq(Byte)]
         /\ carried \in Fds \cup {NoRequest} /\ NoRequest \notin Fds
         /\ clients \in Seq(Fds) /\ Len(clients) <= AioClients
         /\ acceptor # "stopped" => \A f \in Fds :
              /\ request[f] = "none" /\ f \in OpenFds => acceptor = "create" /\ joined = f
              /\ request[f] # "none" => f \in OpenFds /\ conn[f] \in Clients
              /\ request[f] = "reading" => carried # f
              /\ request[f] # "done" => held[f] = <<>>
              /\ request[f] = "done" => carried = f \/ f \in dropped
              /\ request[f] = "failed" => aio.answers
<1>1. NoRequest \notin Fds
  BY FdNumbers DEF NoRequest
<1>2. QED
  BY <1>1, OpenFdFacts DEF AioInv, OneOperation, AioType, HandsAreKnown

\* The server starts with nobody in its hands.
LEMMA AioInitInv == AioInit => AioInv
<1> SUFFICES ASSUME AioInit PROVE AioInv
  OBVIOUS
<1>1. SocketInv
  BY SocketInitInv DEF AioInit
<1>2. OpenFds = {}
  BY DEF AioInit, SocketInit, OpenFds
<1>3. <<>> \in Seq(Fds) /\ Len(<<>>) = 0 /\ <<>> \in Seq(Byte)
  BY EmptySeq
<1>4. AioType
  BY <1>1, <1>3, AioAssumption DEF AioInit, AioType, SocketInv
<1>5. QED
  BY <1>1, <1>2, <1>4 DEF AioInit, AioInv, OneOperation, HandsAreKnown

\* An accepted connection is in the hands of main().
LEMMA AioAcceptInv ==
  ASSUME AioInv, acceptor # "stopped", AioAccept, aio' = aio
  PROVE  AioInv'
<1>1. PICK f \in Fds : AcceptInto(f) /\ joined' = f
  BY DEF AioAccept
<1>2. /\ acceptor = "accept" /\ acceptor' = "create"
      /\ UNCHANGED <<request, held, carried, clients, unheard, dropped>>
  BY DEF AioAccept
<1>3. SocketInv' /\ OpenFds' = OpenFds \cup {f} /\ f \notin OpenFds
  BY <1>1, AcceptInv DEF AioInv
<1>4. AioType'
  BY <1>1, <1>2, <1>3 DEF AioInv, OneOperation, AioType, SocketInv
<1>5. request[f] = "none"
  BY <1>3, RequestFacts
<1>6. OneOperation'
  BY <1>1, <1>2, <1>3, <1>4, <1>5, RequestFacts DEF OneOperation
<1>7. HandsAreKnown'
  BY <1>1, <1>2, <1>3, <1>5 DEF AioInv, HandsAreKnown
<1>8. QED
  BY <1>3, <1>6, <1>7 DEF AioInv

\* aio_read() hands a connection from main() to a request.
LEMMA ArmInv ==
  ASSUME AioInv, acceptor # "stopped", Arm, aio' = aio
  PROVE  AioInv'
<1>1. /\ acceptor = "create" /\ acceptor' = "accept"
      /\ aio.answers => Len(clients) < AioClients
      /\ request' = [request EXCEPT ![joined] = "reading"]
      /\ clients' = IF aio.answers THEN Append(clients, joined) ELSE clients
      /\ UNCHANGED <<socketVars, joined, held, carried, unheard, dropped>>
  BY DEF Arm
<1>2. joined \in OpenFds /\ joined \in Fds /\ request[joined] = "none"
  BY <1>1, OpenFdFacts DEF AioInv, HandsAreKnown
<1>3. SocketInv' /\ OpenFds' = OpenFds
  BY <1>1, QuietFrame DEF AioInv
<1>4. /\ \A f \in Fds : request'[f] = IF f = joined THEN "reading" ELSE request[f]
      /\ request' \in [Fds -> {"none", "reading", "done", "failed"}]
  BY <1>1, <1>2, RequestFacts
<1>5. clients' \in Seq(Fds) /\ Len(clients') <= AioClients
  <2> DEFINE m == Len(clients)
  <2>1. m \in Nat /\ clients \in Seq(Fds) /\ m <= AioClients /\ AioClients \in Nat
    BY RequestFacts, LenProperties, AioAssumption
  <2>2. Append(clients, joined) \in Seq(Fds) /\ Len(Append(clients, joined)) = m + 1
    BY <1>2, <2>1, AppendProperties
  <2>3. aio.answers => m < AioClients
    BY <1>1
  <2> HIDE DEF m
  <2>4. aio.answers => m + 1 <= AioClients
    BY <2>1, <2>3
  <2>5. QED
    BY <1>1, <2>1, <2>2, <2>4 DEF m
<1>6. AioType'
  BY <1>1, <1>3, <1>4, <1>5 DEF AioInv, OneOperation, AioType, SocketInv
<1>7. carried # joined
  BY <1>1, <1>2, RequestFacts DEF AioInv, HandsAreKnown
<1>8. OneOperation'
  BY <1>1, <1>2, <1>3, <1>4, <1>6, <1>7, RequestFacts DEF OneOperation
<1>9. HandsAreKnown'
  BY <1>1, <1>2, <1>4, <1>7, RequestFacts DEF AioInv, HandsAreKnown
<1>10. QED
  BY <1>3, <1>8, <1>9 DEF AioInv

\* The two steps after which what the program does is undefined.
LEMMA AioStopsInv ==
  ASSUME AioInv, acceptor # "stopped", ArmPastEnd \/ FreeInMalloc, aio' = aio
  PROVE  AioInv'
<1>1. /\ acceptor' = "stopped"
      /\ UNCHANGED <<socketVars, joined, request, held, carried, clients, unheard, dropped>>
  BY DEF ArmPastEnd, FreeInMalloc
<1>2. SocketInv'
  BY <1>1, QuietFrame DEF AioInv
<1>3. AioType'
  BY <1>1, <1>2 DEF AioInv, OneOperation, AioType, SocketInv
<1>4. QED
  BY <1>1, <1>2, <1>3 DEF AioInv, OneOperation

\* The helper thread: read() may end while main() holds another connection.
LEMMA CompleteInv ==
  ASSUME AioInv, acceptor # "stopped", NEW f \in Fds, Complete(f), aio' = aio
  PROVE  AioInv'
<1>1. request[f] = "reading" /\ f \in OpenFds /\ conn[f] \in Clients /\ Readable(conn[f])
  BY RequestFacts DEF Complete
<1> PICK c \in Clients : c = conn[f]
  BY <1>1
<1> DEFINE bytes == Chunk(c, AioSize)
           how == IF bytes = <<>> /\ c \in unheard THEN "failed" ELSE "done"
<1>2. /\ request' = [request EXCEPT ![f] = how]
      /\ held' = [held EXCEPT ![f] = bytes]
      /\ Consume(c, Len(bytes), <<>>)
      /\ carried' = IF carried = NoRequest THEN f ELSE carried
      /\ dropped' = IF carried = NoRequest THEN dropped ELSE dropped \cup {f}
      /\ UNCHANGED <<acceptor, joined, clients, unheard>>
  BY DEF Complete, Raise
<1>3. bytes \in Seq(Byte) /\ Len(bytes) \in Nat /\ Len(bytes) <= Unread(c) /\ <<>> \in Seq(Byte)
  BY ReadFacts, AioAssumption, EmptySeq DEF AioInv
<1>4. how \in {"done", "failed"} /\ (how = "failed" => bytes = <<>> /\ c \in unheard)
  OBVIOUS
<1> HIDE DEF bytes, how
<1>5. SocketInv'
  BY <1>2, <1>3, ConsumeInv DEF AioInv
<1>6. OpenFds' = OpenFds
  BY <1>2, <1>3, ConsumeFrame DEF AioInv
<1>7. /\ \A g \in Fds : request'[g] = IF g = f THEN how ELSE request[g]
      /\ \A g \in Fds : held'[g] = IF g = f THEN bytes ELSE held[g]
      /\ request' \in [Fds -> {"none", "reading", "done", "failed"}]
      /\ held' \in [Fds -> Seq(Byte)]
  BY <1>2, <1>3, <1>4, RequestFacts
<1>8. AioType'
  BY <1>2, <1>5, <1>7 DEF AioInv, OneOperation, AioType, SocketInv
<1>9. how = "failed" => aio.answers
  BY <1>4 DEF AioInv, HandsAreKnown
<1>10. OneOperation'
  <2> SUFFICES ASSUME NEW g \in Fds
               PROVE  /\ request'[g] = "none" /\ g \in OpenFds' => acceptor' = "create" /\ joined' = g
                      /\ request'[g] # "none" => g \in OpenFds'
                      /\ request'[g] = "reading" => carried' # g /\ held'[g] = <<>>
                      /\ request'[g] = "done" => carried' = g \/ g \in dropped'
                      /\ request'[g] = "failed" => aio'.answers
    BY <1>8 DEF OneOperation
  <2>1. CASE g = f
    BY <1>1, <1>2, <1>4, <1>6, <1>7, <1>9, <2>1
  <2>2. CASE g # f
    BY <1>2, <1>6, <1>7, <2>2, RequestFacts
  <2>3. QED
    BY <2>1, <2>2
<1>11. HandsAreKnown'
  <2>1. acceptor = "create" => joined # f /\ joined \in Fds
    BY <1>1, OpenFdFacts DEF AioInv, HandsAreKnown
  <2>2. acceptor' = "create" => joined' \in OpenFds' /\ request'[joined'] = "none"
    BY <1>2, <1>6, <1>7, <2>1 DEF AioInv, HandsAreKnown
  <2>3. carried' # NoRequest => request'[carried'] \in {"done", "failed"}
    BY <1>2, <1>4, <1>7, RequestFacts DEF AioInv, HandsAreKnown
  <2>4. \A g \in Fds : request'[g] # "done" => held'[g] = <<>>
    BY <1>4, <1>7, RequestFacts
  <2>5. QED
    BY <1>2, <2>2, <2>3, <2>4 DEF AioInv, HandsAreKnown
<1>12. QED
  BY <1>5, <1>10, <1>11 DEF AioInv

\* The handler, when the request the signal names has bytes.
LEMMA FetchInv ==
  ASSUME AioInv, acceptor # "stopped", Fetch, aio' = aio
  PROVE  AioInv'
<1>1. PICK f \in Fds : f = carried /\ request[f] = "done" /\ f \in OpenFds /\ conn[f] \in Clients
  BY RequestFacts DEF Fetch, Completed
<1>2. /\ shown' = [shown EXCEPT ![conn[f]] = @ \o UpperText(held[f])]
      /\ held' = [held EXCEPT ![f] = <<>>]
      /\ request' = [request EXCEPT ![f] = "reading"]
      /\ carried' = NoRequest
      /\ UNCHANGED <<phase, backlog, conn, sent, rd, acceptor, joined, clients, unheard, dropped>>
  BY <1>1 DEF Fetch
<1>3. UpperText(held[f]) \in Seq(Byte)
  BY RequestFacts, UpperTextType
<1>4. SocketInv' /\ OpenFds' = OpenFds
  <2>1. shown[conn[f]] \o UpperText(held[f]) \in Seq(Byte)
    BY <1>1, <1>3, ConcatProperties DEF AioInv, SocketInv, SocketType
  <2>2. SocketType'
    BY <1>1, <1>2, <2>1 DEF AioInv, SocketInv, SocketType
  <2>3. QED
    BY <1>2, <2>2 DEF AioInv, SocketInv, OpenFds, Waiting, Accepted
<1>5. /\ \A g \in Fds : request'[g] = IF g = f THEN "reading" ELSE request[g]
      /\ \A g \in Fds : held'[g] = IF g = f THEN <<>> ELSE held[g]
      /\ request' \in [Fds -> {"none", "reading", "done", "failed"}]
      /\ held' \in [Fds -> Seq(Byte)]
  BY <1>2, EmptySeq, RequestFacts
<1>6. AioType'
  BY <1>2, <1>4, <1>5 DEF AioInv, OneOperation, AioType, SocketInv
<1>7. OneOperation'
  BY <1>1, <1>2, <1>4, <1>5, <1>6, RequestFacts DEF OneOperation
<1>8. HandsAreKnown'
  BY <1>1, <1>2, <1>4, <1>5, OpenFdFacts, RequestFacts DEF AioInv, HandsAreKnown
<1>9. QED
  BY <1>4, <1>7, <1>8 DEF AioInv

\* The handler that finds an end of file closes the connection.
LEMMA FetchEndInv ==
  ASSUME AioInv, acceptor # "stopped", FetchEnd, aio' = aio
  PROVE  AioInv'
<1>1. PICK f \in Fds : f = carried /\ request[f] = "done" /\ held[f] = <<>>
  BY RequestFacts DEF FetchEnd, Completed
<1>2. /\ CloseFd(f)
      /\ request' = [request EXCEPT ![f] = "none"]
      /\ carried' = NoRequest
      /\ UNCHANGED <<acceptor, joined, held, clients, unheard, dropped>>
  BY <1>1 DEF FetchEnd
<1>3. SocketInv' /\ OpenFds' = OpenFds \ {f}
  BY <1>2, CloseInv DEF AioInv
<1>4. /\ \A g \in Fds : request'[g] = IF g = f THEN "none" ELSE request[g]
      /\ request' \in [Fds -> {"none", "reading", "done", "failed"}]
  BY <1>2, RequestFacts
<1>5. AioType'
  BY <1>2, <1>3, <1>4 DEF AioInv, OneOperation, AioType, SocketInv
<1>6. OneOperation'
  BY <1>1, <1>2, <1>3, <1>4, <1>5, RequestFacts DEF OneOperation
<1>7. HandsAreKnown'
  BY <1>1, <1>2, <1>3, <1>4, OpenFdFacts, RequestFacts DEF AioInv, HandsAreKnown
<1>8. QED
  BY <1>3, <1>6, <1>7 DEF AioInv

\* The handler that finds an error leaves its descriptor as it is.
LEMMA FetchErrorInv ==
  ASSUME AioInv, acceptor # "stopped", FetchError, aio' = aio
  PROVE  AioInv'
<1>1. /\ request[carried] = "failed" /\ carried' = NoRequest
      /\ UNCHANGED <<socketVars, acceptor, joined, request, held, clients, unheard, dropped>>
  BY DEF FetchError, Completed
<1>2. SocketInv' /\ OpenFds' = OpenFds
  BY <1>1, QuietFrame DEF AioInv
<1>3. AioType'
  BY <1>1, <1>2 DEF AioInv, OneOperation, AioType, SocketInv
<1>4. OneOperation'
  BY <1>1, <1>2, <1>3, RequestFacts DEF OneOperation
<1>5. HandsAreKnown'
  BY <1>1, <1>2 DEF AioInv, HandsAreKnown
<1>6. QED
  BY <1>2, <1>4, <1>5 DEF AioInv

\* The timer may write to a number that is somebody else's by now; whoever it
\* is has an answer to read.
LEMMA AnswerInv ==
  ASSUME AioInv, acceptor # "stopped", NEW j \in 1 .. AioClients, AnswerTo(j), aio' = aio
  PROVE  AioInv'
<1>1. /\ UNCHANGED <<socketVars, acceptor, joined, request, held, carried, clients, dropped>>
      /\ unheard' = unheard \cup {conn[clients[j]]}
      /\ clients[j] \in OpenFds /\ j <= Len(clients)
  BY DEF AnswerTo
<1>2. conn[clients[j]] \in Clients
  BY <1>1, OpenFdFacts DEF AioInv
<1>3. SocketInv' /\ OpenFds' = OpenFds
  BY <1>1, QuietFrame DEF AioInv
<1>4. AioType'
  BY <1>1, <1>2, <1>3 DEF AioInv, OneOperation, AioType, SocketInv
<1>5. aio.answers
  <2>1. clients # <<>>
    BY <1>1, EmptySeq, AioAssumption
  <2>2. QED
    BY <2>1 DEF AioInv, HandsAreKnown
<1>6. OneOperation'
  BY <1>1, <1>3, <1>4, RequestFacts DEF OneOperation
<1>7. HandsAreKnown'
  BY <1>1, <1>3, <1>5 DEF AioInv, HandsAreKnown
<1>8. QED
  BY <1>3, <1>6, <1>7 DEF AioInv

\* A client is in nobody's way.
LEMMA AioClientInv ==
  ASSUME AioInv, acceptor # "stopped", NEW c \in Clients, AioClient(c), aio' = aio
  PROVE  AioInv'
<1>1. /\ UNCHANGED <<acceptor, joined, request, held, carried, clients, dropped>>
      /\ unheard' \subseteq unheard
  BY DEF AioClient, aioServerVars
<1>2. SocketInv' /\ OpenFds' = OpenFds
  <2>1. CASE Connect(c) \/ Hangup(c) \/ \E bytes \in Seq(Byte) : Write(c, bytes)
    BY <2>1, ClientFrame DEF AioInv
  <2>2. CASE UNCHANGED socketVars
    BY <2>2, QuietFrame DEF AioInv
  <2>3. QED
    BY <2>1, <2>2, AioAssumption DEF AioClient
<1>3. AioType'
  BY <1>1, <1>2 DEF AioInv, OneOperation, AioType, SocketInv
<1>4. OneOperation'
  BY <1>1, <1>2, <1>3, RequestFacts DEF OneOperation
<1>5. HandsAreKnown'
  BY <1>1, <1>2 DEF AioInv, HandsAreKnown
<1>6. QED
  BY <1>2, <1>4, <1>5 DEF AioInv

\* A step that changes nothing keeps the invariant.
LEMMA AioStutterInv ==
  ASSUME AioInv, UNCHANGED aioVars
  PROVE  AioInv'
<1>1. UNCHANGED <<socketVars, aio, acceptor, joined, request, held, carried, clients, unheard, dropped>>
  BY DEF aioVars, aioServerVars
<1>2. SocketInv' /\ OpenFds' = OpenFds
  BY <1>1, QuietFrame DEF AioInv
<1>3. AioType'
  BY <1>1, <1>2 DEF AioInv, OneOperation, AioType, SocketInv
<1>4. OneOperation'
  BY <1>1, <1>2, <1>3 DEF AioInv, OneOperation
<1>5. acceptor # "stopped" => HandsAreKnown'
  BY <1>1, <1>2 DEF AioInv, HandsAreKnown
<1>6. QED
  BY <1>1, <1>2, <1>4, <1>5 DEF AioInv

\* Whatever main(), helper threads, handler and timer interrupt of each other,
\* an open connection is in one pair of hands.
THEOREM AioInductive == AioSpec => []AioInv
<1>1. AioInit => AioInv
  BY AioInitInv
<1>2. AioInv /\ [AioNext]_aioVars => AioInv'
  BY AioAcceptInv, ArmInv, AioStopsInv, CompleteInv, FetchInv, FetchEndInv, FetchErrorInv,
     AnswerInv, AioClientInv, AioStutterInv
     DEF AioNext, AioServerStep, AioMain, EventHandler
<1>3. QED
  BY <1>1, <1>2, PTL DEF AioSpec

\* The property of the run, for every number of clients, descriptors and bytes.
THEOREM AioOneOperation == AioSpec => []OneOperation
<1>1. AioInv => OneOperation
  BY DEF AioInv
<1>2. QED
  BY <1>1, AioInductive, PTL

-----------------------------------------------------------------------------
(****************************************************************************)
(* Edges: EpollEdgeServer.                                                  *)
(****************************************************************************)
\* What ForgottenEdges says of one descriptor.
Heeded(f) ==
  Readable(conn[f]) /\ f \notin edge \cup events =>
    \/ f \in filled
    \/ Unread(conn[f]) = 0 /\ phase[conn[f]] = "closed" /\ rd[conn[f]] > 0

\* An edge of a closed descriptor would be reported for whoever gets its
\* number, so that edges are of open descriptors only has to be part of it.
EdgeInv ==
  /\ SocketInv
  /\ FreshEvents
  /\ edge \subseteq OpenFds
  /\ \A f \in OpenFds : Heeded(f)

\* The server starts without an edge.
LEMMA EdgeInitInv == EdgeInit => EdgeInv
<1> SUFFICES ASSUME EdgeInit PROVE EdgeInv
  OBVIOUS
<1>1. SocketInv /\ OpenFds = {}
  BY SocketInitInv DEF EdgeInit, SocketInit, OpenFds
<1>2. QED
  BY <1>1 DEF EdgeInit, EdgeInv, FreshEvents, EdgeType, SocketInv

\* What is reported is there, and reporting it forgets nobody.
LEMMA EpollWaitInv ==
  ASSUME EdgeInv, EpollWait
  PROVE  EdgeInv'
<1>1. /\ events = {} /\ events' \subseteq Reportable /\ edge' = edge \ events'
      /\ UNCHANGED <<socketVars, filled>>
  BY DEF EpollWait
<1>2. /\ SocketInv' /\ OpenFds' = OpenFds /\ conn' = conn /\ backlog' = backlog
      /\ phase' = phase /\ rd' = rd
      /\ \A c \in Clients : Unread(c)' = Unread(c) /\ Readable(c)' = Readable(c)
  BY <1>1, QuietFrame DEF EdgeInv, socketVars
<1>3. \A f \in events' : IF f = ServerFd THEN backlog # <<>>
                         ELSE f \in OpenFds /\ Readable(conn[f])
  BY <1>1, OpenFdFacts, FdNumbers DEF EdgeInv, Reportable
<1>4. edge' \subseteq OpenFds' /\ edge' \cup events' \subseteq Fds \cup {ServerFd}
  BY <1>1, <1>2, <1>3, OpenFdFacts DEF EdgeInv
<1>5. FreshEvents'
  <2>1. EdgeType'
    BY <1>1, <1>2, <1>4, OpenFdFacts, FdNumbers DEF EdgeInv, FreshEvents, EdgeType, SocketInv
  <2>2. ASSUME NEW f \in events'
        PROVE  IF f = ServerFd THEN backlog' # <<>> ELSE f \in OpenFds' /\ Readable(conn[f])'
    BY <1>2, <1>3, OpenFdFacts DEF EdgeInv
  <2>3. QED
    BY <2>1, <2>2 DEF FreshEvents
<1>6. ASSUME NEW f \in OpenFds PROVE Heeded(f)'
  <2>1. PICK c \in Clients : c = conn[f]
    BY OpenFdFacts DEF EdgeInv
  <2>2. Heeded(f)
    BY DEF EdgeInv
  <2>3. QED
    BY <1>1, <1>2, <2>1, <2>2 DEF Heeded
<1>7. QED
  BY <1>2, <1>4, <1>5, <1>6 DEF EdgeInv

\* A new connection with something to read has its edge at once.
LEMMA EdgeAcceptInv ==
  ASSUME EdgeInv, EdgeAccept
  PROVE  EdgeInv'
<1>1. PICK f \in Fds :
        /\ AcceptInto(f)
        /\ edge' = edge \cup {g \in {f} : Readable(Head(backlog))}
        /\ filled' = filled \ {f}
  BY DEF EdgeAccept
<1>2. events' = events \ {ServerFd}
  BY DEF EdgeAccept
<1>3. SocketInv' /\ OpenFds' = OpenFds \cup {f} /\ f \notin OpenFds
  BY <1>1, AcceptInv DEF EdgeInv
<1>4. /\ conn'[f] = Head(backlog) /\ Head(backlog) \in Clients
      /\ \A g \in Fds : g # f => conn'[g] = conn[g]
      /\ \A c \in Clients : Unread(c)' = Unread(c) /\ Readable(c)' = Readable(c)
      /\ phase' = phase /\ rd' = rd
  BY <1>1, AcceptFrame DEF EdgeInv, AcceptInto
<1>5. edge' \subseteq OpenFds'
  BY <1>1, <1>3 DEF EdgeInv
<1>6. EdgeType'
  BY <1>1, <1>2, <1>3, <1>5, OpenFdFacts DEF EdgeInv, FreshEvents, EdgeType, SocketInv
<1>7. ASSUME NEW g \in events'
      PROVE  IF g = ServerFd THEN backlog' # <<>> ELSE g \in OpenFds' /\ Readable(conn[g])'
  <2>1. g \in events /\ g # ServerFd
    BY <1>2
  <2>2. g \in OpenFds /\ Readable(conn[g])
    BY <2>1 DEF EdgeInv, FreshEvents
  <2>3. PICK c \in Clients : c = conn[g]
    BY <2>2, OpenFdFacts DEF EdgeInv
  <2>4. g # f /\ conn'[g] = c
    BY <1>3, <1>4, <2>2, <2>3 DEF OpenFds
  <2>5. QED
    BY <1>3, <1>4, <2>1, <2>2, <2>3, <2>4
<1>8. ASSUME NEW g \in OpenFds' PROVE Heeded(g)'
  <2>1. CASE g = f
    <3>1. PICK c \in Clients : c = Head(backlog)
      BY <1>4
    <3>2. Readable(c) => f \in edge'
      BY <1>1, <3>1
    <3>3. QED
      BY <1>4, <2>1, <3>1, <3>2 DEF Heeded
  <2>2. CASE g # f
    <3>1. g \in OpenFds /\ Heeded(g)
      BY <1>3, <2>2 DEF EdgeInv
    <3>2. PICK c \in Clients : c = conn[g]
      BY <3>1, OpenFdFacts DEF EdgeInv
    <3>3. conn'[g] = c /\ g \in Fds /\ g # ServerFd
      BY <1>4, <2>2, <3>1, <3>2, FdNumbers DEF OpenFds
    <3>4. g \in edge' \cup events' <=> g \in edge \cup events
      BY <1>1, <1>2, <2>2, <3>3
    <3>5. QED
      BY <1>1, <1>4, <2>2, <3>1, <3>2, <3>3, <3>4 DEF Heeded
  <2>3. QED
    BY <2>1, <2>2
<1>9. QED
  BY <1>3, <1>5, <1>6, <1>7, <1>8 DEF EdgeInv, FreshEvents

\* Steps that neither read nor close keep what is known about edges.
LEMMA EdgeQuietInv ==
  ASSUME EdgeInv, EdgeAcceptFails \/ UNCHANGED edgeVars
  PROVE  EdgeInv'
<1>1. /\ events' \in {events, events \ {ServerFd}}
      /\ UNCHANGED <<socketVars, edge, filled>>
  BY DEF EdgeAcceptFails, edgeVars, edgeServerVars
<1>2. /\ SocketInv' /\ OpenFds' = OpenFds /\ conn' = conn /\ backlog' = backlog
      /\ phase' = phase /\ rd' = rd
      /\ \A c \in Clients : Unread(c)' = Unread(c) /\ Readable(c)' = Readable(c)
  BY <1>1, QuietFrame DEF EdgeInv, socketVars
<1>3. EdgeType'
  BY <1>1, <1>2 DEF EdgeInv, FreshEvents, EdgeType, SocketInv
<1>4. ASSUME NEW f \in events'
      PROVE  IF f = ServerFd THEN backlog' # <<>> ELSE f \in OpenFds' /\ Readable(conn[f])'
  BY <1>1, <1>2, OpenFdFacts DEF EdgeInv, FreshEvents
<1>5. ASSUME NEW f \in OpenFds PROVE Heeded(f)'
  <2>1. PICK c \in Clients : c = conn[f]
    BY OpenFdFacts DEF EdgeInv
  <2>2. Heeded(f) /\ f # ServerFd
    BY FdNumbers DEF EdgeInv, OpenFds
  <2>3. QED
    BY <1>1, <1>2, <2>1, <2>2 DEF Heeded
<1>6. QED
  BY <1>1, <1>2, <1>3, <1>4, <1>5 DEF EdgeInv, FreshEvents

\* One read() for an edge: what it leaves behind is what ForgottenEdges names.
LEMMA EdgeReadDataInv ==
  ASSUME EdgeInv, NEW f \in Fds, EdgeReadData(f)
  PROVE  EdgeInv'
<1>1. /\ f \in events /\ f # ServerFd /\ events' = events \ {f} /\ edge' = edge
  BY DEF EdgeReadData
<1>2. f \in OpenFds
  BY <1>1 DEF EdgeInv, FreshEvents
<1>3. PICK c \in Clients : c = conn[f]
  BY <1>2, OpenFdFacts DEF EdgeInv
<1> DEFINE bytes == Chunk(c, EdgeSize)
<1>4. /\ Unread(c) > 0 /\ Consume(c, Len(bytes), PrintedText(bytes))
      /\ filled' = IF Len(bytes) = EdgeSize THEN filled \cup {f} ELSE filled \ {f}
  BY <1>3 DEF EdgeReadData
<1>5. /\ Len(bytes) \in Nat /\ Len(bytes) <= Unread(c) /\ Len(bytes) > 0
      /\ PrintedText(bytes) \in Seq(Byte)
  BY <1>4, ReadFacts, EpollAssumption DEF EdgeInv, PrintedText
<1>6. Len(bytes) = IF Unread(c) <= EdgeSize THEN Unread(c) ELSE EdgeSize
  BY ChunkLength, EpollAssumption DEF EdgeInv
<1> HIDE DEF bytes
<1>7. SocketInv'
  BY <1>4, <1>5, ConsumeInv DEF EdgeInv
<1>8. /\ conn' = conn /\ backlog' = backlog /\ phase' = phase /\ OpenFds' = OpenFds
      /\ \A d \in Clients \ {c} : /\ rd'[d] = rd[d] /\ Unread(d)' = Unread(d)
                                  /\ Readable(d)' = Readable(d)
      /\ rd'[c] = rd[c] + Len(bytes)
      /\ Unread(c)' = Unread(c) - Len(bytes)
  BY <1>4, <1>5, ConsumeFrame DEF EdgeInv
<1>9. \A g \in OpenFds : g # f => conn[g] \in Clients \ {c}
  BY <1>2, <1>3, OpenFdFacts DEF EdgeInv
<1>10. EdgeType'
  BY <1>1, <1>4, <1>7 DEF EdgeInv, FreshEvents, EdgeType, SocketInv
<1>11. ASSUME NEW g \in events'
       PROVE  IF g = ServerFd THEN backlog' # <<>> ELSE g \in OpenFds' /\ Readable(conn[g])'
  <2>1. g \in events /\ g # f
    BY <1>1
  <2>2. CASE g = ServerFd
    BY <1>8, <2>1, <2>2 DEF EdgeInv, FreshEvents
  <2>3. CASE g # ServerFd
    <3>1. g \in OpenFds /\ Readable(conn[g])
      BY <2>1, <2>3 DEF EdgeInv, FreshEvents
    <3>2. PICK d \in Clients \ {c} : d = conn[g]
      BY <1>9, <2>1, <3>1
    <3>3. QED
      BY <1>8, <2>3, <3>1, <3>2
  <2>4. QED
    BY <2>2, <2>3
<1>12. ASSUME NEW g \in OpenFds PROVE Heeded(g)'
  <2>1. CASE g # f
    <3>1. PICK d \in Clients \ {c} : d = conn[g]
      BY <1>9, <2>1
    <3>2. Heeded(g)
      BY DEF EdgeInv
    <3>3. g \in filled' <=> g \in filled
      BY <1>4, <2>1
    <3>4. g \in edge' \cup events' <=> g \in edge \cup events
      BY <1>1, <2>1
    <3>5. QED
      BY <1>8, <3>1, <3>2, <3>3, <3>4 DEF Heeded
  <2>2. CASE g = f /\ Len(bytes) = EdgeSize
    BY <1>4, <2>2 DEF Heeded
  <2>3. CASE g = f /\ Len(bytes) # EdgeSize
    <3>1. rd[c] \in Nat /\ Unread(c) \in Nat
      BY OpenFdFacts DEF EdgeInv, SocketInv, SocketType
    <3>2. Unread(c)' = 0 /\ rd'[c] > 0
      BY <1>5, <1>6, <1>8, <2>3, <3>1, EpollAssumption
    <3>3. Readable(c)' => phase'[c] = "closed"
      BY <3>2 DEF Readable
    <3>4. conn'[g] = c
      BY <1>3, <1>8, <2>3
    <3>5. QED
      BY <3>2, <3>3, <3>4 DEF Heeded
  <2>4. QED
    BY <2>1, <2>2, <2>3
<1>13. QED
  BY <1>1, <1>7, <1>8, <1>10, <1>11, <1>12 DEF EdgeInv, FreshEvents

\* An end of file closes the descriptor and takes its edge with it.
LEMMA EdgeReadEofInv ==
  ASSUME EdgeInv, NEW f \in Fds, EdgeReadEof(f)
  PROVE  EdgeInv'
<1>1. /\ f \in events /\ CloseFd(f) /\ events' = events \ {f} /\ edge' = edge \ {f}
      /\ filled' = filled
  BY DEF EdgeReadEof
<1>2. SocketInv' /\ OpenFds' = OpenFds \ {f}
  BY <1>1, CloseInv DEF EdgeInv
<1>3. /\ \A g \in Fds : g # f => conn'[g] = conn[g]
      /\ backlog' = backlog /\ phase' = phase /\ rd' = rd
      /\ \A c \in Clients : Unread(c)' = Unread(c) /\ Readable(c)' = Readable(c)
  BY <1>1, CloseFrame DEF EdgeInv
<1>4. EdgeType'
  BY <1>1, <1>2 DEF EdgeInv, FreshEvents, EdgeType, SocketInv
<1>5. \A g \in OpenFds : g # f => conn'[g] = conn[g] /\ conn[g] \in Clients
  BY <1>3, OpenFdFacts DEF EdgeInv
<1>6. ASSUME NEW g \in events'
      PROVE  IF g = ServerFd THEN backlog' # <<>> ELSE g \in OpenFds' /\ Readable(conn[g])'
  <2>1. g \in events /\ g # f
    BY <1>1
  <2>2. CASE g = ServerFd
    BY <1>3, <2>1, <2>2 DEF EdgeInv, FreshEvents
  <2>3. CASE g # ServerFd
    <3>1. g \in OpenFds /\ Readable(conn[g])
      BY <2>1, <2>3 DEF EdgeInv, FreshEvents
    <3>2. PICK d \in Clients : d = conn[g] /\ conn'[g] = d
      BY <1>5, <2>1, <3>1
    <3>3. QED
      BY <1>2, <1>3, <2>1, <2>3, <3>1, <3>2
  <2>4. QED
    BY <2>2, <2>3
<1>7. ASSUME NEW g \in OpenFds' PROVE Heeded(g)'
  <2>1. g \in OpenFds /\ g # f /\ Heeded(g)
    BY <1>2 DEF EdgeInv
  <2>2. PICK d \in Clients : d = conn[g] /\ conn'[g] = d
    BY <1>5, <2>1
  <2>3. QED
    BY <1>1, <1>3, <2>1, <2>2 DEF Heeded
<1>8. QED
  BY <1>1, <1>2, <1>4, <1>6, <1>7 DEF EdgeInv, FreshEvents

\* What a client does is an edge, if it is registered.
LEMMA EdgeClientInv ==
  ASSUME EdgeInv, NEW c \in Clients, EdgeClient(c)
  PROVE  EdgeInv'
<1>1. Connect(c) \/ Hangup(c) \/ \E bytes \in Seq(Byte) : Write(c, bytes)
  BY EpollAssumption DEF EdgeClient
<1>2. /\ SocketInv' /\ conn' = conn /\ rd' = rd /\ OpenFds' = OpenFds
      /\ backlog # <<>> => backlog' # <<>>
      /\ \A d \in Clients : /\ Readable(d) => Readable(d)'
                            /\ d # c => sent'[d] = sent[d] /\ phase'[d] = phase[d]
  BY <1>1, ClientFrame DEF EdgeInv
<1>3. events' = events /\ filled' = filled
  BY DEF EdgeClient
<1>4. edge' = edge \cup Registered(c) \/ (edge' = edge /\ Connect(c))
  BY DEF EdgeClient
<1>5. Registered(c) = {f \in OpenFds : conn[f] = c}
  BY SocketAssumption DEF Registered, OpenFds
<1>6. edge \subseteq edge' /\ edge' \subseteq OpenFds
  BY <1>4, <1>5 DEF EdgeInv
<1>7. EdgeType'
  BY <1>2, <1>3, <1>6, OpenFdFacts DEF EdgeInv, FreshEvents, EdgeType, SocketInv
<1>8. ASSUME NEW f \in events
      PROVE  IF f = ServerFd THEN backlog' # <<>> ELSE f \in OpenFds' /\ Readable(conn[f])'
  BY <1>2, OpenFdFacts DEF EdgeInv, FreshEvents
<1>9. ASSUME NEW f \in OpenFds PROVE Heeded(f)'
  <2>1. CASE conn[f] = c
    <3>1. ~Connect(c)
      BY <2>1 DEF EdgeInv, SocketInv, Connect, Accepted, OpenFds
    <3>2. f \in edge'
      BY <1>4, <1>5, <2>1, <3>1
    <3>3. QED
      BY <3>2 DEF Heeded
  <2>2. CASE conn[f] # c
    <3>1. PICK d \in Clients : d = conn[f] /\ d # c
      BY <2>2, OpenFdFacts DEF EdgeInv
    <3>2. Unread(d)' = Unread(d) /\ Readable(d)' = Readable(d) /\ phase'[d] = phase[d]
      BY <1>2, <3>1 DEF Unread, Readable
    <3>3. Heeded(f)
      BY DEF EdgeInv
    <3>4. QED
      BY <1>2, <1>3, <1>6, <3>1, <3>2, <3>3 DEF Heeded
  <2>3. QED
    BY <2>1, <2>2
<1>10. QED
  BY <1>2, <1>3, <1>6, <1>7, <1>8, <1>9 DEF EdgeInv, FreshEvents

\* Edges are of open descriptors, reports still hold when the loop reaches
\* them, and what was forgotten was forgotten in one of two ways.
THEOREM EdgeInductive == EdgeSpec => []EdgeInv
<1>1. EdgeInit => EdgeInv
  BY EdgeInitInv
<1>2. EdgeInv /\ [EdgeNext]_edgeVars => EdgeInv'
  BY EpollWaitInv, EdgeAcceptInv, EdgeQuietInv, EdgeReadDataInv, EdgeReadEofInv, EdgeClientInv
     DEF EdgeNext, EdgeServer
<1>3. QED
  BY <1>1, <1>2, PTL DEF EdgeSpec

\* The property of the run: nothing but a full read() or an end of file behind
\* a text loses an edge.
THEOREM EdgeForgets == EdgeSpec => []ForgottenEdges
<1>1. EdgeInv => ForgottenEdges
  BY DEF EdgeInv, ForgottenEdges, Heeded
<1>2. QED
  BY <1>1, EdgeInductive, PTL

=============================================================================
