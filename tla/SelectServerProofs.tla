------------------------- MODULE SelectServerProofs -------------------------
(*****************************************************************************)
(* The select() servers, for every number of clients, descriptors and bytes: *)
(* the five that print what they read, then the one that relays it.          *)
(*                                                                           *)
(* FreshReadiness is not inductive: that a reported descriptor is still      *)
(* readable when the walk reaches it rests on nobody else reading from the   *)
(* same connection (SocketInv: one descriptor per connection) and on every   *)
(* reported descriptor still being watched and open.                         *)
(*****************************************************************************)
EXTENDS SelectServer, BroadcastServer, SocketTheorems

IInv ==
  /\ SocketInv
  /\ TypeOK
  /\ WatchedAreOpen
  /\ pending \subseteq active
  /\ FreshReadiness

\* The programs are records of what differs.
LEMMA ProgramType ==
  ASSUME TypeOK
  PROVE  prog.read \in Nat \ {0} /\ prog.acceptFatal \in BOOLEAN
  BY SelectAssumption DEF TypeOK, Program

\* Descriptor numbers are natural numbers, and the listening socket is none of a connection.
LEMMA FdFacts ==
  /\ ServerFd \in Nat
  /\ ServerFd \notin Fds
  /\ Fds \subseteq Nat
  /\ \A f \in Fds : ServerFd <= f
  BY SocketAssumption DEF Fds

\* The server starts with the listening socket alone.
LEMMA InitInv == Init => IInv
<1> SUFFICES ASSUME Init PROVE IInv
  OBVIOUS
<1>1. SocketInv
  BY SocketInitInv DEF Init
<1>2. TypeOK
  BY <1>1 DEF Init, TypeOK, SocketInv
<1>3. OpenFds = {}
  BY DEF Init, SocketInit, OpenFds
<1>4. QED
  BY <1>1, <1>2, <1>3, FdFacts DEF Init, IInv, WatchedAreOpen, FreshReadiness

\* select() reports what holds when it returns.
LEMMA SelectInv ==
  ASSUME IInv, Select
  PROVE  IInv' /\ up'
<1> USE DEF Select
<1>1. Watched = active
  BY DEF IInv, WatchedAreOpen, Watched
<1>2. up'
  BY <1>1 DEF IInv, WatchedAreOpen
<1>3. OpenFds' = OpenFds /\ \A f \in active : Ready(f)' = Ready(f)
  BY DEF OpenFds, Ready, Readable, Unread, socketVars
<1>4. SocketInv'
  BY DEF IInv, SocketInv, SocketType, OpenFds, Waiting, Accepted, socketVars
<1>5. pending' \subseteq active
  BY <1>1
<1>6. TypeOK'
  BY <1>4, <1>5 DEF IInv, TypeOK, SocketInv
<1>7. WatchedAreOpen'
  BY <1>3 DEF IInv, WatchedAreOpen
<1>8. FreshReadiness'
  BY <1>1, <1>3 DEF FreshReadiness
<1>9. QED
  BY <1>2, <1>4, <1>5, <1>6, <1>7, <1>8 DEF IInv

\* accept() adds its descriptor to the set and raises max_fd.
LEMMA AcceptStepInv ==
  ASSUME IInv, Accept
  PROVE  IInv'
<1> USE DEF Accept, At
<1>1. PICK f \in Fds : /\ AcceptInto(f)
                       /\ active' = active \cup {f}
                       /\ maxFd' = IF f > maxFd THEN f ELSE maxFd
  OBVIOUS
<1>2. SocketInv' /\ OpenFds' = OpenFds \cup {f} /\ f \notin OpenFds
  BY <1>1, AcceptInv DEF IInv
<1>3. pending' \subseteq active \ {ServerFd}
  BY DEF IInv
<1>4. TypeOK'
  BY <1>1, <1>2, <1>3 DEF IInv, TypeOK, SocketInv
<1>5. WatchedAreOpen'
  <2>1. active' = {ServerFd} \cup OpenFds'
    BY <1>1, <1>2 DEF IInv, WatchedAreOpen
  <2>2. maxFd \in Nat /\ active \subseteq Nat /\ f \in Nat
    BY FdFacts DEF IInv, TypeOK
  <2>3. \A g \in active' : g <= maxFd'
    BY <1>1, <2>2 DEF IInv, WatchedAreOpen
  <2>4. QED
    BY <2>1, <2>3 DEF WatchedAreOpen
<1>6. FreshReadiness'
  <2> SUFFICES ASSUME NEW g \in pending' PROVE Ready(g)'
    BY DEF FreshReadiness
  <2>1. g # ServerFd /\ g \in OpenFds /\ g # f
    BY <1>2, <1>3 DEF IInv, WatchedAreOpen
  <2>2. Ready(g)
    BY DEF IInv, FreshReadiness
  <2>3. conn'[g] = conn[g]
    BY <1>1, <2>1 DEF AcceptInto, IInv, TypeOK, SocketType
  <2>4. QED
    BY <1>1, <1>2, <2>1, <2>2, <2>3 DEF Ready, Readable, Unread, AcceptInto
<1>7. QED
  BY <1>1, <1>2, <1>3, <1>4, <1>5, <1>6 DEF IInv

\* accept() that fails changes the walk only, or ends the process.
LEMMA AcceptFailsInv ==
  ASSUME IInv, AcceptFails
  PROVE  IInv'
<1> USE DEF AcceptFails, At
<1>1. OpenFds' = OpenFds /\ \A f \in active : Ready(f)' = Ready(f)
  BY DEF OpenFds, Ready, Readable, Unread, socketVars
<1>2. SocketInv'
  BY DEF IInv, SocketInv, SocketType, OpenFds, Waiting, Accepted, socketVars
<1>3. pending' \subseteq active'
  BY DEF IInv
<1>4. up' \in BOOLEAN
  BY ProgramType DEF IInv
<1>5. TypeOK'
  BY <1>2, <1>3, <1>4 DEF IInv, TypeOK, SocketInv
<1>6. WatchedAreOpen' /\ FreshReadiness'
  BY <1>1 DEF IInv, WatchedAreOpen, FreshReadiness
<1>7. QED
  BY <1>2, <1>3, <1>5, <1>6 DEF IInv

\* What a read takes is at least a byte and was not read before.
LEMMA ReadDataFacts ==
  ASSUME IInv, NEW f \in Fds, ReadData(f)
  PROVE  LET c == conn[f]
             bytes == Chunk(c, prog.read)
         IN  /\ c \in Clients
             /\ f \in OpenFds
             /\ bytes \in Seq(Byte)
             /\ Len(bytes) \in Nat /\ Len(bytes) > 0 /\ Len(bytes) <= Unread(c)
             /\ bytes = SubSeq(sent[c], rd[c] + 1, rd[c] + Len(bytes))
             /\ UpperText(CString(bytes)) \in Seq(Byte)
             /\ Consume(c, Len(bytes), UpperText(CString(bytes)))
<1> USE DEF ReadData, At
<1>1. f \in OpenFds
  BY DEF IInv, WatchedAreOpen
<1>2. conn[f] \in Clients
  BY <1>1 DEF OpenFds, IInv, TypeOK, SocketType
<1>3. prog.read \in Nat \ {0}
  BY ProgramType DEF IInv
<1>4. SocketInv /\ Unread(conn[f]) > 0
  BY DEF IInv
<1> DEFINE bytes == Chunk(conn[f], prog.read)
<1>5. /\ bytes \in Seq(Byte)
      /\ Len(bytes) \in Nat /\ Len(bytes) > 0 /\ Len(bytes) <= Unread(conn[f])
      /\ bytes = SubSeq(sent[conn[f]], rd[conn[f]] + 1, rd[conn[f]] + Len(bytes))
  BY <1>2, <1>3, <1>4, ChunkProperties
<1>6. UpperText(CString(bytes)) \in Seq(Byte)
  BY <1>5, CStringType, UpperTextType
<1>7. QED
  BY <1>1, <1>2, <1>5, <1>6

\* A read empties no stream but its own.
LEMMA ReadDataInv ==
  ASSUME IInv, NEW f \in Fds, ReadData(f)
  PROVE  IInv'
<1> DEFINE c == conn[f]
           n == Len(Chunk(c, prog.read))
           text == UpperText(CString(Chunk(c, prog.read)))
<1>1. /\ c \in Clients /\ f \in OpenFds
      /\ n \in Nat /\ n > 0 /\ n <= Unread(c) /\ text \in Seq(Byte)
      /\ Consume(c, n, text)
  BY ReadDataFacts
<1> HIDE DEF c, n, text
<1>2. SocketInv'
  BY <1>1, ConsumeInv DEF IInv
<1> USE DEF ReadData, At
<1>3. OpenFds' = OpenFds /\ conn' = conn
  BY <1>1 DEF OpenFds, Consume
<1>4. pending' \subseteq active'
  BY DEF IInv
<1>5. TypeOK'
  BY <1>2, <1>4 DEF IInv, TypeOK, SocketInv
<1>6. WatchedAreOpen'
  BY <1>3 DEF IInv, WatchedAreOpen
<1>7. FreshReadiness'
  <2> SUFFICES ASSUME NEW g \in pending' PROVE Ready(g)'
    BY DEF FreshReadiness
  <2>1. g # f /\ g \in active /\ Ready(g)
    BY DEF IInv, FreshReadiness
  <2>2. CASE g = ServerFd
    BY <1>1, <2>1, <2>2 DEF Ready, Consume
  <2>3. CASE g # ServerFd
    <3>1. g \in OpenFds /\ conn[g] # c
      BY <1>1, <2>1, <2>3 DEF IInv, WatchedAreOpen, SocketInv, c
    <3>2. conn[g] \in Clients
      BY <3>1 DEF OpenFds, IInv, TypeOK, SocketType
    <3>3. rd'[conn[g]] = rd[conn[g]]
      BY <1>1, <3>1, <3>2 DEF Consume, IInv, TypeOK, SocketType
    <3>4. QED
      BY <1>1, <1>3, <2>1, <2>3, <3>1, <3>3 DEF Ready, Readable, Unread, Consume
  <2>4. QED
    BY <2>2, <2>3
<1>8. QED
  BY <1>2, <1>4, <1>5, <1>6, <1>7 DEF IInv

\* An end of file closes the descriptor and removes it from the set.
LEMMA ReadEofInv ==
  ASSUME IInv, NEW f \in Fds, ReadEof(f)
  PROVE  IInv'
<1> USE DEF ReadEof, At
<1>1. SocketInv' /\ OpenFds' = OpenFds \ {f}
  BY CloseInv DEF IInv
<1>2. active' = {ServerFd} \cup OpenFds'
  BY <1>1, FdFacts DEF IInv, WatchedAreOpen
<1>3. pending' \subseteq active'
  BY DEF IInv
<1>4. TypeOK'
  BY <1>1, <1>3 DEF IInv, TypeOK, SocketInv
<1>5. WatchedAreOpen'
  BY <1>2 DEF IInv, WatchedAreOpen
<1>6. FreshReadiness'
  <2> SUFFICES ASSUME NEW g \in pending' PROVE Ready(g)'
    BY DEF FreshReadiness
  <2>1. g # f /\ Ready(g)
    BY DEF IInv, FreshReadiness
  <2>2. g = ServerFd \/ conn'[g] = conn[g]
    BY <2>1 DEF CloseFd, IInv, TypeOK, SocketType
  <2>3. QED
    BY <1>1, <2>1, <2>2 DEF Ready, Readable, Unread, CloseFd
<1>7. QED
  BY <1>1, <1>3, <1>4, <1>5, <1>6 DEF IInv

\* What is printed is a text.
LEMMA FramedType ==
  ASSUME NEW frame \in Frames, NEW text \in Texts
  PROVE  Framed(frame, text) \in Seq(Byte)
<1>1. text \in Seq(1 .. 255)
  BY SelectAssumption
<1>2. text \in Seq(Byte)
  BY <1>1, SeqMonotonic DEF Byte
<1>3. Nul \in Byte /\ Newline \in Byte
  BY DEF Nul, Newline, Byte
<1>4. QED
  BY <1>2, <1>3 DEF Frames, Framed, NulFramed, NewlineFramed, Unframed

\* Clients only add bytes, hang up and join the end of the queue: whatever
\* was ready stays ready.
LEMMA ClientInv ==
  ASSUME IInv, NEW c \in Clients, Client(c)
  PROVE  IInv'
<1> USE DEF Client, serverVars
<1>1. SocketInv' /\ conn' = conn /\ rd' = rd
      /\ (backlog # <<>> => backlog' # <<>>)
      /\ \A d \in Clients : Readable(d) => Readable(d)'
  <2>1. CASE Connect(c)
    <3>1. backlog' # <<>>
      BY <2>1, EmptySeq DEF Connect, IInv, TypeOK, SocketType
    <3>2. \A d \in Clients : Readable(d) => Readable(d)'
      BY <2>1 DEF Connect, Readable, Unread, IInv, TypeOK, SocketType
    <3>3. QED
      BY <2>1, <3>1, <3>2, ConnectInv DEF IInv, Connect
  <2>2. CASE SendLine(c)
    <3>1. PICK frame \in prog.frames, text \in Texts : Write(c, Framed(frame, text))
      BY <2>2 DEF SendLine
    <3>2. Framed(frame, text) \in Seq(Byte)
      BY FramedType, SelectAssumption DEF IInv, TypeOK, Program
    <3>3. SocketInv'
      BY <3>1, <3>2, WriteInv DEF IInv
    <3>4. \A d \in Clients : Readable(d) => Readable(d)'
      <4> SUFFICES ASSUME NEW d \in Clients, Readable(d) PROVE Readable(d)'
        OBVIOUS
      <4> DEFINE bytes == Framed(frame, text)
      <4>1. /\ Len(sent[c] \o bytes) = Len(sent[c]) + Len(bytes)
            /\ Len(bytes) \in Nat /\ Len(sent[c]) \in Nat /\ rd[c] \in Nat
        BY <3>2, ConcatProperties, LenProperties DEF IInv, TypeOK, SocketType
      <4> HIDE DEF bytes
      <4>2. sent' = [sent EXCEPT ![c] = sent[c] \o bytes] /\ rd' = rd /\ phase' = phase
        BY <3>1 DEF Write, bytes
      <4>3. CASE d = c
        <5>1. sent'[d] = sent[c] \o bytes
          BY <4>2, <4>3 DEF IInv, TypeOK, SocketType
        <5>2. QED
          BY <4>1, <4>2, <4>3, <5>1 DEF Readable, Unread
      <4>4. CASE d # c
        BY <4>2, <4>4 DEF Readable, Unread, IInv, TypeOK, SocketType
      <4>5. QED
        BY <4>3, <4>4
    <3>5. QED
      BY <3>1, <3>3, <3>4 DEF Write
  <2>3. CASE Hangup(c)
    BY <2>3, HangupInv DEF IInv, Hangup, Readable, Unread, TypeOK, SocketType
  <2>4. QED
    BY <2>1, <2>2, <2>3
<1>2. OpenFds' = OpenFds
  BY <1>1 DEF OpenFds
<1>3. TypeOK'
  BY <1>1 DEF IInv, TypeOK, SocketInv
<1>4. WatchedAreOpen'
  BY <1>2 DEF IInv, WatchedAreOpen
<1>5. \A f \in OpenFds : conn[f] \in Clients
  BY DEF OpenFds, IInv, TypeOK, SocketType
<1>6. FreshReadiness'
  BY <1>1, <1>2, <1>5 DEF IInv, FreshReadiness, Ready
<1>7. QED
  BY <1>1, <1>3, <1>4, <1>6 DEF IInv

\* A step that changes nothing keeps the invariant.
LEMMA StutterInv ==
  ASSUME IInv, UNCHANGED vars
  PROVE  IInv'
  BY DEF vars, socketVars, serverVars, IInv, SocketInv, SocketType, TypeOK, WatchedAreOpen,
         FreshReadiness, Ready, Readable, Unread, OpenFds, Waiting, Accepted

\* IInv is inductive.
LEMMA NextInv == IInv /\ [Next]_vars => IInv'
<1> SUFFICES ASSUME IInv, [Next]_vars PROVE IInv'
  OBVIOUS
<1>1. CASE Select
  BY <1>1, SelectInv
<1>2. CASE Accept
  BY <1>2, AcceptStepInv
<1>3. CASE AcceptFails
  BY <1>3, AcceptFailsInv
<1>4. ASSUME NEW f \in Fds, ReadData(f) PROVE IInv'
  BY <1>4, ReadDataInv
<1>5. ASSUME NEW f \in Fds, ReadEof(f) PROVE IInv'
  BY <1>5, ReadEofInv
<1>6. ASSUME NEW c \in Clients, Client(c) PROVE IInv'
  BY <1>6, ClientInv
<1>7. CASE UNCHANGED vars
  BY <1>7, StutterInv
<1>8. QED
  BY <1>1, <1>2, <1>3, <1>4, <1>5, <1>6, <1>7 DEF Next, Server

\* Every reachable state satisfies the inductive invariant.
THEOREM Inductive == Spec => []IInv
  BY InitInv, NextInv, PTL DEF Spec

\* Every variable keeps its type: descriptors stay within the limit, read
\* indices are naturals, and what is shown are bytes.
THEOREM TypeCorrect == Spec => []TypeOK
<1>1. IInv => TypeOK
  BY DEF IInv
<1>2. QED
  BY <1>1, Inductive, PTL

\* What select() reported is still true when the walk reaches it.
THEOREM ReadinessStaysFresh == Spec => []FreshReadiness
<1>1. IInv => FreshReadiness
  BY DEF IInv
<1>2. QED
  BY <1>1, Inductive, PTL

\* The watched set is exactly the listening socket and the open connections.
THEOREM NobodyForgotten == Spec => []WatchedAreOpen
<1>1. IInv => WatchedAreOpen
  BY DEF IInv
<1>2. QED
  BY <1>1, Inductive, PTL

-----------------------------------------------------------------------------
(*****************************************************************************)
(* What reaches the terminal. Only a read shows something, of one client,    *)
(* and what it shows keeps the promise over all the reads before it: the     *)
(* bytes in front of its first '\0' take the next places on the screen, and  *)
(* the others lie behind that '\0' in the same read.                         *)
(*****************************************************************************)
\* A read goes on where the last one ended.
LEMMA ReadDataShows ==
  ASSUME IInv, ReadIsShown, NEW f \in Fds, ReadData(f)
  PROVE  ReadIsShown'
<1> DEFINE c == conn[f]
           bytes == Chunk(c, prog.read)
<1>1. /\ c \in Clients /\ bytes \in Seq(Byte)
      /\ Len(bytes) \in Nat /\ Len(bytes) > 0 /\ Len(bytes) <= Unread(c)
      /\ bytes = SubSeq(sent[c], rd[c] + 1, rd[c] + Len(bytes))
      /\ Consume(c, Len(bytes), UpperText(CString(bytes)))
  BY ReadDataFacts
<1>2. Len(bytes) <= prog.read /\ prog.read \in Nat
  BY <1>1, ProgramType, ChunkLength DEF IInv
<1> HIDE DEF c, bytes
<1>3. prog' = prog
  BY DEF ReadData
<1>4. /\ rd' = [rd EXCEPT ![c] = rd[c] + Len(bytes)] /\ sent' = sent
      /\ shown' = [shown EXCEPT ![c] = shown[c] \o UpperText(CString(bytes))]
      /\ rd \in [Clients -> Nat] /\ shown \in [Clients -> Seq(Byte)]
  BY <1>1 DEF Consume, IInv, TypeOK, SocketType
<1> SUFFICES ASSUME NEW d \in Clients
             PROVE  ShownOnce(shown'[d], SubSeq(sent[d], 1, rd'[d]), prog.read)
  BY <1>3, <1>4 DEF ReadIsShown
<1>5. CASE d # c
  BY <1>1, <1>4, <1>5 DEF ReadIsShown
<1>6. CASE d = c
  <2> DEFINE old == SubSeq(sent[c], 1, rd[c])
  <2>1. old \in Seq(Byte) /\ SubSeq(sent[c], 1, rd[c] + Len(bytes)) = old \o bytes
    BY <1>1, ReadGrows DEF IInv
  <2>2. ShownOnce(shown[c], old, prog.read) /\ shown[c] \in Seq(Byte)
    BY <1>1, <1>4 DEF ReadIsShown
  <2> HIDE DEF old
  <2>3. ShownOnce(shown[c] \o UpperText(CString(bytes)), old \o bytes, prog.read)
    BY <1>1, <1>2, <2>1, <2>2, ShownOnceMore
  <2>4. shown'[c] = shown[c] \o UpperText(CString(bytes)) /\ rd'[c] = rd[c] + Len(bytes)
    BY <1>1, <1>4
  <2>5. QED
    BY <1>6, <2>1, <2>3, <2>4
<1>7. QED
  BY <1>5, <1>6

\* Everything else leaves what was read and what was shown alone.
LEMMA DeliveryStep ==
  ASSUME IInv, ReadIsShown, [Next]_vars
  PROVE  ReadIsShown'
<1>1. ASSUME UNCHANGED <<sent, rd, shown>>, prog' = prog PROVE ReadIsShown'
  BY <1>1 DEF ReadIsShown
<1>2. ASSUME NEW c \in Clients, SendLine(c), prog' = prog PROVE ReadIsShown'
  <2>1. PICK frame \in prog.frames, text \in Texts : Write(c, Framed(frame, text))
    BY <1>2 DEF SendLine
  <2>2. Framed(frame, text) \in Seq(Byte)
    BY FramedType, SelectAssumption DEF IInv, TypeOK, Program
  <2>3. /\ rd' = rd /\ shown' = shown
        /\ \A d \in Clients : SubSeq(sent'[d], 1, rd[d]) = SubSeq(sent[d], 1, rd[d])
    BY <2>1, <2>2, WriteKeepsPrefix DEF IInv, Write
  <2>4. QED
    BY <1>2, <2>3 DEF ReadIsShown
<1>3. ASSUME NEW c \in Clients, Client(c) PROVE ReadIsShown'
  <2>1. prog' = prog /\ (SendLine(c) \/ UNCHANGED <<sent, rd, shown>>)
    BY <1>3 DEF Client, Connect, Hangup, serverVars
  <2>2. QED
    BY <1>1, <1>2, <2>1
<1>4. CASE Select \/ Accept \/ AcceptFails \/ \E f \in Fds : ReadEof(f)
  BY <1>1, <1>4 DEF Select, Accept, AcceptInto, AcceptFails, ReadEof, CloseFd, socketVars
<1>5. CASE UNCHANGED vars
  BY <1>1, <1>5 DEF vars, socketVars, serverVars
<1>6. QED
  BY <1>3, <1>4, <1>5, ReadDataShows DEF Next, Server

\* In each of the five programs, for every number of clients, sizes of reads and
\* orders of steps: what was read is shown once, in order and in upper case, and
\* a byte is missing only behind a '\0' that the same read() took.
THEOREM StreamsAreShown == Spec => []ReadIsShown
<1>1. Init => ReadIsShown
  <2> SUFFICES ASSUME Init, NEW c \in Clients
               PROVE  ShownOnce(shown[c], SubSeq(sent[c], 1, rd[c]), prog.read)
    BY DEF ReadIsShown
  <2>1. shown[c] = <<>> /\ sent[c] = <<>> /\ rd[c] = 0
    BY DEF Init, SocketInit
  <2>2. SubSeq(sent[c], 1, rd[c]) = <<>>
    BY <2>1, SubSeqEmpty
  <2>3. QED
    BY <2>1, <2>2, ShownNothing
<1>2. IInv /\ ReadIsShown /\ [Next]_vars => ReadIsShown'
  BY DeliveryStep
<1>3. QED
  BY <1>1, <1>2, Inductive, PTL DEF Spec

\* The process ends only where the code exits on a failed accept(), and only
\* while every descriptor is in use: select() itself never fails.
THEOREM StopsOnlyInAccept == Spec => StopsOnlyWhenFull
<1>1. IInv /\ [Next]_vars => (up /\ ~up' => prog.acceptFatal /\ DescriptorsFull)
  <2> SUFFICES ASSUME IInv, [Next]_vars, up, ~up'
               PROVE  prog.acceptFatal /\ DescriptorsFull
    OBVIOUS
  <2>1. CASE Select
    BY <2>1, SelectInv
  <2>2. CASE AcceptFails
    BY <2>2, ProgramType DEF AcceptFails, IInv
  <2>3. CASE Accept \/ \E f \in Fds : ReadData(f) \/ ReadEof(f)
    BY <2>3 DEF Accept, ReadData, ReadEof
  <2>4. CASE (\E c \in Clients : Client(c)) \/ UNCHANGED vars
    BY <2>4 DEF Client, serverVars, vars
  <2>5. QED
    BY <2>1, <2>2, <2>3, <2>4 DEF Next, Server
<1>2. QED
  BY <1>1, Inductive, PTL DEF Spec, StopsOnlyWhenFull

-----------------------------------------------------------------------------
(*****************************************************************************)
(* The relaying server, for every number of clients and descriptors and for  *)
(* streams and buffers of every size: the loop of blocking writes is, for    *)
(* whoever listens, one atomic broadcast (BroadcastService).                 *)
(*                                                                           *)
(* A step of the loop is a stutter of the service only if the descriptors    *)
(* still in todo stand for members, each of them for another one, so         *)
(* RelayInv relates master_fds to the descriptors that are open, and says    *)
(* that nothing is owed outside the loop. That nobody is left out rests on   *)
(* max_fd, which never decreases, being no smaller than any of master_fds.   *)
(*****************************************************************************)
RelayInv ==
  /\ SocketInv
  /\ RelayType
  /\ master = OpenFds \cup {ServerFd}
  /\ \A f \in master : f <= max_fd
  /\ ServerFd \notin todo
  /\ todo # {} => pc \in {"relay", "killed"}

BroadcastStep == Broadcast!Next \/ UNCHANGED <<Audience, sent, rd, WillHear>>

-----------------------------------------------------------------------------
(*****************************************************************************)
(* The mapping.                                                              *)
(*****************************************************************************)
\* Who is a member depends on conn alone, and what they will have heard on
\* what the loop has not reached.
LEMMA MembersKept ==
  ASSUME conn' = conn
  PROVE  Audience' = Audience /\ OpenFds' = OpenFds
  BY DEF Audience, OpenFds

\* Who has heard as much as before still hears a prefix of what was said.
LEMMA HearingKept ==
  ASSUME conn' = conn, todo' = todo, heard' = heard, buffer' = buffer
  PROVE  WillHear' = WillHear
  BY DEF WillHear, Owed

\* Outside the loop everybody has heard what there is to hear.
LEMMA NothingOwed ==
  ASSUME heard \in [Clients -> Seq(Byte)], todo = {}
  PROVE  WillHear = heard
  BY DEF WillHear, Owed

\* When nobody is owed anything the next read begins a new message.
LEMMA NothingOwedNext ==
  ASSUME heard' \in [Clients -> Seq(Byte)], todo' = {}
  PROVE  WillHear' = heard'
  BY DEF WillHear, Owed

\* The watched descriptors are the listening socket and the open connections.
LEMMA WatchedFds ==
  ASSUME RelayInv
  PROVE  /\ OpenFds = master \ {ServerFd}
         /\ \A f \in OpenFds : f \in Fds /\ conn[f] \in Clients
         /\ todo \subseteq OpenFds
         /\ \A f, g \in OpenFds : conn[f] = conn[g] => f = g
  BY FdNumbers, OpenFdFacts DEF RelayInv, RelayType

\* A step that changes neither what a member is nor what it hears.
LEMMA StutterStep ==
  ASSUME UNCHANGED <<conn, sent, rd, todo, heard, buffer>>
  PROVE  BroadcastStep
  BY MembersKept, HearingKept DEF BroadcastStep

-----------------------------------------------------------------------------
(*****************************************************************************)
(* The server.                                                               *)
(*****************************************************************************)
LEMMA RelayInitInv == RelayInit => RelayInv /\ Broadcast!Init
<1> SUFFICES ASSUME RelayInit PROVE RelayInv /\ Broadcast!Init
  OBVIOUS
<1> USE DEF RelayInit
<1>1. SocketInv /\ OpenFds = {}
  BY SocketInitInv DEF SocketInit, OpenFds
<1>2. <<>> \in Seq(Byte) /\ Len(<<>>) = 0
  BY EmptySeq
<1>3. RelayType
  BY <1>1, <1>2, FdNumbers DEF RelayType, SocketInv
<1>4. Audience = {}
  BY <1>1 DEF Audience
<1>5. WillHear = heard
  BY <1>3, NothingOwed DEF RelayType
<1>6. Broadcast!Init
  BY <1>4, <1>5 DEF Broadcast!Init, SocketInit
<1>7. RelayInv
  BY <1>1, <1>3, FdNumbers DEF RelayInv
<1>8. QED
  BY <1>6, <1>7

\* select() is no step of the broadcast.
LEMMA SelectStep ==
  ASSUME RelayInv, RelaySelect
  PROVE  RelayInv' /\ BroadcastStep
<1> USE DEF RelaySelect
<1>1. SocketInv' /\ OpenFds' = OpenFds /\ conn' = conn
  BY QuietFrame DEF RelayInv
<1>2. todo = {}
  BY DEF RelayInv
<1>3. RelayType'
  BY <1>1, <1>2 DEF RelayInv, RelayType, SocketInv, listenVars
<1>4. RelayInv'
  BY <1>1, <1>2, <1>3 DEF RelayInv
<1>5. QED
  BY <1>4, StutterStep DEF socketVars

\* accept(): a client joins, and hears of nothing that came before.
LEMMA AcceptStep ==
  ASSUME RelayInv, RelayAccept
  PROVE  RelayInv' /\ BroadcastStep
<1>1. PICK f \in Fds :
        /\ AcceptInto(f)
        /\ master' = master \cup {f}
        /\ max_fd' = IF f > max_fd THEN f ELSE max_fd
  BY DEF RelayAccept
<1>2. /\ WalkAt(ServerFd) /\ ready' = ready \ {ServerFd} /\ pc' \in {"select", "walk"}
      /\ UNCHANGED <<typed, taken, heard, buffer, todo>>
  BY DEF RelayAccept, After, listenVars
<1>3. SocketInv' /\ OpenFds' = OpenFds \cup {f} /\ f \notin OpenFds
  BY <1>1, AcceptInv DEF RelayInv
<1>4. /\ conn'[f] = Head(backlog) /\ Head(backlog) \in Clients
      /\ \A g \in Fds : g # f => conn'[g] = conn[g]
  BY <1>1, AcceptFrame DEF RelayInv
<1>5. todo = {}
  BY <1>2 DEF RelayInv, WalkAt
<1>6. RelayType'
  BY <1>1, <1>2, <1>3 DEF RelayInv, RelayType, SocketInv
<1>7. RelayInv'
  <2>1. \A g \in master' : g <= max_fd'
    BY <1>1, FdNumbers DEF RelayInv, RelayType
  <2>2. QED
    BY <1>1, <1>2, <1>3, <1>5, <1>6, <2>1 DEF RelayInv
<1>8. Audience' = Audience \cup {Head(backlog)}
  BY <1>3, <1>4, WatchedFds DEF Audience
<1>9. WillHear = heard /\ WillHear' = heard'
  BY <1>2, <1>5, NothingOwed, NothingOwedNext DEF RelayInv, RelayType
<1>10. Broadcast!Join(Head(backlog))
  BY <1>1, <1>2, <1>8, <1>9 DEF Broadcast!Join, AcceptInto
<1>11. QED
  BY <1>4, <1>7, <1>10 DEF BroadcastStep, Broadcast!Next

\* Neither is an accept() that fails,
LEMMA AcceptFailsStep ==
  ASSUME RelayInv, RelayAcceptFails
  PROVE  RelayInv' /\ BroadcastStep
<1> USE DEF RelayAcceptFails
<1>1. SocketInv' /\ OpenFds' = OpenFds /\ conn' = conn
  BY QuietFrame DEF RelayInv
<1>2. todo = {} /\ pc' \in {"select", "walk"}
  BY DEF RelayInv, WalkAt, After
<1>3. RelayType'
  BY <1>1, <1>2 DEF RelayInv, RelayType, SocketInv, listenVars
<1>4. RelayInv'
  BY <1>1, <1>2, <1>3 DEF RelayInv
<1>5. QED
  BY <1>4, StutterStep DEF socketVars

\* An end of file: a client leaves, when all of its text has been relayed.
LEMMA ReadEofStep ==
  ASSUME RelayInv, NEW f \in Fds, RelayReadEof(f)
  PROVE  RelayInv' /\ BroadcastStep
<1>1. /\ WalkAt(f) /\ f # ServerFd /\ Unread(conn[f]) = 0 /\ CloseFd(f)
      /\ master' = master \ {f} /\ ready' = ready \ {f} /\ pc' \in {"select", "walk"}
      /\ UNCHANGED <<typed, taken, heard, max_fd, buffer, todo>>
  BY DEF RelayReadEof, After, listenVars
<1>2. SocketInv' /\ OpenFds' = OpenFds \ {f}
  BY <1>1, CloseInv DEF RelayInv
<1>3. /\ \A g \in Fds : g # f => conn'[g] = conn[g]
      /\ sent' = sent /\ rd' = rd
  BY <1>1, CloseFrame DEF RelayInv
<1>4. todo = {} /\ f \in OpenFds
  BY <1>1, WatchedFds DEF RelayInv, WalkAt, RelayType
<1>5. RelayType'
  BY <1>1, <1>2, <1>4 DEF RelayInv, RelayType, SocketInv
<1>6. RelayInv'
  BY <1>1, <1>2, <1>4, <1>5 DEF RelayInv
<1>7. PICK c \in Clients : c = conn[f]
  BY <1>4, WatchedFds
<1>8. Audience' = Audience \ {c}
  BY <1>2, <1>3, <1>4, <1>7, WatchedFds DEF Audience
<1>9. WillHear = heard /\ WillHear' = heard'
  BY <1>1, <1>4, NothingOwed, NothingOwedNext DEF RelayInv, RelayType
<1>10. rd[c] = Len(sent[c])
  <2>1. Len(sent[c]) \in Nat /\ rd[c] \in Nat
    BY LenProperties DEF RelayInv, SocketInv, SocketType
  <2>2. QED
    BY <1>1, <1>7, <2>1 DEF Unread
<1>11. Broadcast!Leave(c)
  BY <1>1, <1>3, <1>8, <1>9, <1>10 DEF Broadcast!Leave
<1>12. QED
  BY <1>6, <1>11 DEF BroadcastStep, Broadcast!Next

\* What ReadData(f) reads, and for whom.
LEMMA ReadIsForOthers ==
  ASSUME RelayInv, NEW f \in OpenFds, todo' = {g \in master \ {ServerFd, f} : g <= max_fd},
         conn' = conn
  PROVE  todo' = OpenFds \ {f} /\ Owed' = Audience \ {conn[f]}
<1>1. todo' = OpenFds \ {f}
  BY WatchedFds DEF RelayInv
<1>2. Owed' = {conn[g] : g \in OpenFds \ {f}}
  BY <1>1 DEF Owed
<1>3. QED
  BY <1>1, <1>2, WatchedFds DEF Audience

\* A read: its text is owed to every other member at once.
LEMMA ReadDataStep ==
  ASSUME RelayInv, NEW f \in Fds, RelayReadData(f)
  PROVE  RelayInv' /\ BroadcastStep
<1>1. /\ WalkAt(f) /\ f # ServerFd /\ ready' = ready \ {f}
      /\ todo' = {g \in master \ {ServerFd, f} : g <= max_fd}
      /\ pc' \in {"select", "walk", "relay"} /\ (todo' # {} => pc' = "relay")
      /\ UNCHANGED <<typed, taken, heard, master, max_fd>>
  BY DEF RelayReadData, After, listenVars
<1>2. f \in OpenFds /\ todo = {}
  BY <1>1, WatchedFds DEF RelayInv, WalkAt, RelayType
<1>3. PICK c \in Clients : c = conn[f]
  BY <1>2, WatchedFds
<1> DEFINE bytes == Chunk(c, BufSize)
<1>4. /\ Unread(c) > 0 /\ Consume(c, Len(bytes), <<>>) /\ buffer' = PrintedText(bytes)
  BY <1>3 DEF RelayReadData
<1>5. /\ Len(bytes) \in Nat /\ Len(bytes) <= Unread(c) /\ Len(bytes) > 0
      /\ bytes = SubSeq(sent[c], rd[c] + 1, rd[c] + Len(bytes))
      /\ PrintedText(bytes) \in Seq(Byte)
  BY <1>4, ReadFacts, BroadcastAssumption DEF RelayInv, PrintedText
<1> HIDE DEF bytes
<1>6. SocketInv'
  BY <1>4, <1>5, ConsumeInv, EmptySeq DEF RelayInv
<1>7. /\ conn' = conn /\ sent' = sent /\ OpenFds' = OpenFds
      /\ rd' = [rd EXCEPT ![c] = rd[c] + Len(bytes)]
  BY <1>4, ConsumeFrame, <1>5 DEF Consume, RelayInv
<1>8. todo' = OpenFds \ {f} /\ Owed' = Audience \ {c}
  BY <1>1, <1>2, <1>3, <1>7, ReadIsForOthers
<1>9. RelayType'
  <2>1. todo' \subseteq master' /\ buffer' \in Seq(Byte)
    BY <1>1, <1>4, <1>5
  <2>2. QED
    BY <1>1, <1>6, <2>1 DEF RelayInv, RelayType, SocketInv
<1>10. RelayInv'
  BY <1>1, <1>6, <1>7, <1>8, <1>9, FdNumbers DEF RelayInv, OpenFds
<1>11. WillHear = heard
  BY <1>2, NothingOwed DEF RelayInv, RelayType
<1>12. WillHear' = [d \in Clients |->
                      IF d \in Audience \ {c} THEN heard[d] \o PrintedText(bytes) ELSE heard[d]]
  BY <1>1, <1>4, <1>8 DEF WillHear
<1>13. c \in Audience /\ Audience' = Audience
  BY <1>2, <1>3, <1>7, MembersKept DEF Audience
<1>14. Broadcast!Relay(c, rd[c] + Len(bytes))
  BY <1>5, <1>7, <1>11, <1>12, <1>13 DEF Broadcast!Relay
<1>15. rd[c] + Len(bytes) \in rd[c] + 1 .. Len(sent[c])
  <2>1. Len(sent[c]) \in Nat /\ rd[c] \in Nat
    BY LenProperties DEF RelayInv, SocketInv, SocketType
  <2>2. QED
    BY <1>5, <2>1 DEF Unread
<1>16. QED
  BY <1>10, <1>14, <1>15 DEF BroadcastStep, Broadcast!Next

\* A write() of the loop: what it adds was owed, so nothing changes.
LEMMA RelayStep ==
  ASSUME RelayInv, NEW f \in Fds, Relay(f)
  PROVE  RelayInv' /\ BroadcastStep
<1>1. /\ f \in todo /\ pc = "relay"
      /\ heard' = [heard EXCEPT ![conn[f]] = @ \o buffer]
      /\ todo' = todo \ {f}
      /\ pc' \in {"select", "walk", "relay"} /\ (todo' # {} => pc' = "relay")
      /\ UNCHANGED <<socketVars, typed, taken, master, max_fd, ready, buffer>>
  BY DEF Relay, RelayAt, After, listenVars
<1>2. SocketInv' /\ OpenFds' = OpenFds /\ conn' = conn /\ sent' = sent /\ rd' = rd
  BY <1>1, QuietFrame DEF RelayInv, socketVars
<1>3. PICK c \in Clients : c = conn[f]
  BY <1>1, WatchedFds
<1>4. heard \in [Clients -> Seq(Byte)] /\ buffer \in Seq(Byte)
  BY DEF RelayInv, RelayType
<1>5. /\ heard[c] \o buffer \in Seq(Byte)
      /\ Len(heard[c] \o buffer) = Len(heard[c]) + Len(buffer)
      /\ Len(heard[c]) \in Nat /\ Len(buffer) \in Nat
  BY <1>4, ConcatProperties, LenProperties
<1>6. heard' \in [Clients -> Seq(Byte)] /\ heard' = [heard EXCEPT ![c] = heard[c] \o buffer]
  BY <1>1, <1>3, <1>4, <1>5
<1>7. \A d \in Clients : taken'[d] \in Nat /\ taken'[d] <= Len(heard'[d])
  <2> SUFFICES ASSUME NEW d \in Clients PROVE taken'[d] \in Nat /\ taken'[d] <= Len(heard'[d])
    OBVIOUS
  <2>1. taken'[d] = taken[d] /\ taken[d] \in Nat /\ taken[d] <= Len(heard[d])
    BY <1>1 DEF RelayInv, RelayType
  <2>2. CASE d = c
    BY <1>4, <1>5, <1>6, <2>1, <2>2
  <2>3. CASE d # c
    BY <1>4, <1>6, <2>1, <2>3
  <2>4. QED
    BY <2>2, <2>3
<1>8. RelayType'
  BY <1>1, <1>2, <1>6, <1>7 DEF RelayInv, RelayType, SocketInv
<1>9. RelayInv'
  BY <1>1, <1>2, <1>8 DEF RelayInv
<1>10. Owed' = Owed \ {c} /\ c \in Owed
  BY <1>1, <1>2, <1>3, WatchedFds DEF Owed
<1>11. WillHear' = WillHear
  BY <1>1, <1>4, <1>6, <1>10 DEF WillHear
<1>12. QED
  BY <1>2, <1>9, <1>11, MembersKept DEF BroadcastStep

\* nor the end of the server.
LEMMA KilledStep ==
  ASSUME RelayInv, NEW f \in Fds, Killed(f)
  PROVE  RelayInv' /\ BroadcastStep
<1> USE DEF Killed
<1>1. SocketInv' /\ OpenFds' = OpenFds /\ conn' = conn
  BY QuietFrame DEF RelayInv
<1>2. RelayType'
  BY <1>1 DEF RelayInv, RelayType, SocketInv, listenVars
<1>3. RelayInv'
  BY <1>1, <1>2 DEF RelayInv
<1>4. QED
  BY <1>3, StutterStep DEF socketVars

-----------------------------------------------------------------------------
(*****************************************************************************)
(* The clients.                                                              *)
(*****************************************************************************)
\* connect(), close(), and the other steps that are nobody else's business.
LEMMA ClientStep ==
  ASSUME RelayInv, NEW c \in Clients, RelayClient(c)
  PROVE  RelayInv' /\ BroadcastStep
<1> USE DEF RelayClient
<1>1. SocketInv' /\ conn' = conn /\ rd' = rd /\ OpenFds' = OpenFds
  BY ClientFrame DEF RelayInv
<1>2. sent' = sent
  BY DEF Connect, Hangup
<1>3. RelayType'
  BY <1>1 DEF RelayInv, RelayType, SocketInv, relayServerVars, listenVars
<1>4. RelayInv'
  BY <1>1, <1>3 DEF RelayInv, relayServerVars
<1>5. QED
  BY <1>1, <1>2, <1>4, StutterStep DEF relayServerVars

\* What a client types is not said before it is written.
LEMMA TypeStep ==
  ASSUME RelayInv, NEW c \in Clients, Type(c)
  PROVE  RelayInv' /\ BroadcastStep
<1>1. PICK text \in Lines : typed' = [typed EXCEPT ![c] = NewlineFramed(text)]
  BY DEF Type
<1>2. UNCHANGED <<socketVars, relayServerVars, heard, taken>>
  BY DEF Type
<1>3. SocketInv' /\ OpenFds' = OpenFds /\ conn' = conn
  BY <1>2, QuietFrame DEF RelayInv
<1>4. NewlineFramed(text) \in Seq(Byte)
  BY BroadcastAssumption, ConcatProperties, AppendProperties, EmptySeq DEF NewlineFramed, Byte, Newline
<1>5. RelayType'
  BY <1>1, <1>2, <1>3, <1>4 DEF RelayInv, RelayType, SocketInv, relayServerVars
<1>6. RelayInv'
  BY <1>2, <1>3, <1>5 DEF RelayInv, relayServerVars
<1>7. QED
  BY <1>2, <1>6, StutterStep DEF socketVars, relayServerVars

\* A client that reads its socket hears nothing it was not sent.
LEMMA ReceiveStep ==
  ASSUME RelayInv, NEW c \in Clients, Receive(c)
  PROVE  RelayInv' /\ BroadcastStep
<1>1. /\ taken[c] < Len(heard[c])
      /\ taken' = [taken EXCEPT ![c] = IF Len(heard[c]) - taken[c] <= BufSize
                                       THEN Len(heard[c]) ELSE taken[c] + BufSize]
      /\ UNCHANGED <<socketVars, relayServerVars, heard, typed>>
  BY DEF Receive
<1>2. SocketInv' /\ OpenFds' = OpenFds /\ conn' = conn
  BY <1>1, QuietFrame DEF RelayInv
<1>3. \A d \in Clients : taken'[d] \in Nat /\ taken'[d] <= Len(heard'[d])
  <2> SUFFICES ASSUME NEW d \in Clients PROVE taken'[d] \in Nat /\ taken'[d] <= Len(heard'[d])
    OBVIOUS
  <2>1. taken[d] \in Nat /\ taken[d] <= Len(heard[d]) /\ Len(heard[d]) \in Nat
    BY LenProperties DEF RelayInv, RelayType
  <2>2. CASE d = c
    BY <1>1, <2>1, <2>2, BroadcastAssumption
  <2>3. CASE d # c
    BY <1>1, <2>1, <2>3
  <2>4. QED
    BY <2>2, <2>3
<1>4. RelayType'
  BY <1>1, <1>2, <1>3 DEF RelayInv, RelayType, SocketInv, relayServerVars
<1>5. RelayInv'
  BY <1>1, <1>2, <1>4 DEF RelayInv, relayServerVars
<1>6. QED
  BY <1>1, <1>5, StutterStep DEF socketVars, relayServerVars

\* A write adds to the end of the client's own stream.
LEMMA SendTypedStep ==
  ASSUME RelayInv, NEW c \in Clients, SendTyped(c)
  PROVE  RelayInv' /\ BroadcastStep
<1>1. /\ Write(c, typed[c]) /\ typed' = [typed EXCEPT ![c] = <<>>]
      /\ UNCHANGED <<relayServerVars, heard, taken>>
  BY DEF SendTyped
<1>2. typed[c] \in Seq(Byte)
  BY DEF RelayInv, RelayType
<1>3. SocketInv' /\ conn' = conn /\ rd' = rd /\ OpenFds' = OpenFds
  BY <1>1, <1>2, ClientFrame DEF RelayInv
<1>4. RelayType'
  BY <1>1, <1>3, EmptySeq DEF RelayInv, RelayType, SocketInv, relayServerVars
<1>5. RelayInv'
  BY <1>1, <1>3, <1>4 DEF RelayInv, relayServerVars
<1>6. Service!Send(c)
  BY <1>1, <1>2, WriteSends DEF RelayInv
<1>7. Audience' = Audience /\ WillHear' = WillHear
  BY <1>1, <1>3, MembersKept, HearingKept DEF relayServerVars
<1>8. Broadcast!Send(c)
  BY <1>3, <1>6, <1>7 DEF Service!Send, Broadcast!Send
<1>9. QED
  BY <1>5, <1>8 DEF BroadcastStep, Broadcast!Next

-----------------------------------------------------------------------------
\* Every step of the server and its clients is a step of the broadcast or a stutter.
LEMMA BroadcastSteps ==
  ASSUME RelayInv, [RelayNext]_relayVars
  PROVE  RelayInv' /\ BroadcastStep
<1>1. CASE UNCHANGED relayVars
  <2>1. SocketInv' /\ OpenFds' = OpenFds /\ conn' = conn
    BY <1>1, QuietFrame DEF RelayInv, relayVars
  <2>2. UNCHANGED <<relayServerVars, listenVars, heard, sent, rd>>
    BY <1>1 DEF relayVars, socketVars
  <2>3. RelayType'
    BY <2>1, <2>2 DEF RelayInv, RelayType, SocketInv, relayServerVars, listenVars
  <2>4. RelayInv'
    BY <2>1, <2>2, <2>3 DEF RelayInv, relayServerVars
  <2>5. QED
    BY <2>1, <2>2, <2>4, StutterStep DEF relayServerVars
<1>2. CASE RelayServer
  BY <1>2, SelectStep, AcceptStep, AcceptFailsStep, ReadEofStep, ReadDataStep, RelayStep,
     KilledStep DEF RelayServer
<1>3. CASE \E c \in Clients : RelayClient(c) \/ Type(c) \/ SendTyped(c) \/ Receive(c)
  BY <1>3, ClientStep, TypeStep, SendTypedStep, ReceiveStep
<1>4. QED
  BY <1>1, <1>2, <1>3 DEF RelayNext

\* master_fds are the descriptors that are open, none of them above max_fd,
\* and what the relaying loop owes it owes to open ones.
THEOREM RelayInductive == RelaySpec => []RelayInv
<1>1. RelayInit => RelayInv
  BY RelayInitInv
<1>2. RelayInv /\ [RelayNext]_relayVars => RelayInv'
  BY BroadcastSteps
<1>3. QED
  BY <1>1, <1>2, PTL DEF RelaySpec

\* The server's loop of blocking writes implements the atomic broadcast.
THEOREM RelayIsAtomic == RelaySpec => AtomicBroadcast
<1>1. RelayInit => Broadcast!Init
  BY RelayInitInv
<1>2. RelayInv /\ [RelayNext]_relayVars => [Broadcast!Next]_(Broadcast!vars)
  BY BroadcastSteps DEF BroadcastStep, Broadcast!vars
<1>3. QED
  BY <1>1, <1>2, RelayInductive, PTL DEF RelaySpec, AtomicBroadcast, Broadcast!Spec

=============================================================================
