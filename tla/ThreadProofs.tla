---------------------------- MODULE ThreadProofs ----------------------------
(***************************************************************************)
(* The threaded servers, for every number of clients, threads, descriptors *)
(* and bytes.                                                              *)
(*                                                                         *)
(* OneServant counts, for each descriptor, the threads that answer for it. *)
(* What a step keeps is said without counting (Sole): whoever serves holds *)
(* an open descriptor, no two of them the same, and none is forgotten. The *)
(* contract needs in addition what a thread has between its read() and its *)
(* printf(): the last bytes read from its own client (Pending).            *)
(***************************************************************************)
EXTENDS ThreadServer, SocketTheorems, FiniteSetTheorems

\* thread t answers for a descriptor, and for which
Serving(t) == at[t] \in {"start", "read", "print", "close"}
Hand(t) == IF at[t] = "start" THEN cell[t] ELSE fd[t]

Sole ==
  /\ \A t \in Threads : Serving(t) => Hand(t) \in OpenFds
  /\ \A t, u \in Threads : Serving(t) /\ Serving(u) /\ Hand(t) = Hand(u) => t = u
  /\ main = "create" =>
       /\ client_fd \in OpenFds
       /\ \A t \in Threads : Serving(t) => Hand(t) # client_fd
  /\ \A f \in OpenFds : \/ main = "create" /\ client_fd = f
                        \/ \E t \in Threads : Serving(t) /\ Hand(t) = f

\* between read() and printf() of a thread
Pending ==
  \A t \in Threads : at[t] = "print" =>
    LET c == conn[fd[t]]
        m == Len(buffer[t])
    IN  /\ m \in 1 .. rd[c]
        /\ buffer[t] = SubSeq(sent[c], rd[c] - m + 1, rd[c])

IInv == SocketInv /\ TypeOK /\ Sole /\ Pending

-----------------------------------------------------------------------------
(***************************************************************************)
(* Counting.                                                               *)
(***************************************************************************)
LEMMA ServantsAre ==
  ASSUME NEW f \in Fds
  PROVE  Servants(f) = {t \in Threads : Serving(t) /\ Hand(t) = f}
  BY DEF Servants, Serving, Hand

\* What the invariant says of hands is what the run checks.
LEMMA SoleServant == SocketInv /\ TypeOK /\ Sole => OneServant
<1> SUFFICES ASSUME SocketInv, TypeOK, Sole, NEW f \in Fds
             PROVE  LET mine == main = "create" /\ client_fd = f
                    IN  /\ f \in OpenFds => Cardinality(Servants(f)) + (IF mine THEN 1 ELSE 0) = 1
                        /\ f \notin OpenFds => Servants(f) = {} /\ ~mine
  BY DEF OneServant
<1> DEFINE mine == main = "create" /\ client_fd = f
<1>1. CASE f \notin OpenFds
  BY <1>1, ServantsAre DEF Sole
<1>2. CASE f \in OpenFds /\ mine
  <2>1. Servants(f) = {}
    BY <1>2, ServantsAre DEF Sole
  <2>2. Cardinality(Servants(f)) = 0
    BY <2>1, FS_EmptySet
  <2>3. QED
    BY <1>2, <2>2
<1>3. CASE f \in OpenFds /\ ~mine
  <2>1. PICK t \in Threads : Serving(t) /\ Hand(t) = f
    BY <1>3 DEF Sole
  <2>2. Servants(f) = {t}
    BY <2>1, ServantsAre DEF Sole
  <2>3. Cardinality(Servants(f)) = 1
    BY <2>2, FS_Singleton
  <2>4. QED
    BY <1>3, <2>3
<1>4. QED
  BY <1>1, <1>2, <1>3

\* What a thread that serves has in its hand.
LEMMA HandFacts ==
  ASSUME IInv, NEW t \in Threads, Serving(t)
  PROVE  /\ Hand(t) \in OpenFds /\ Hand(t) \in Fds /\ conn[Hand(t)] \in Clients
         /\ \A u \in Threads : u # t /\ Serving(u) =>
              Hand(u) # Hand(t) /\ conn[Hand(u)] # conn[Hand(t)]
  BY OpenFdFacts DEF IInv, Sole

\* There is no thread at first.
LEMMA InitInv == Init => IInv
<1> SUFFICES ASSUME Init PROVE IInv
  OBVIOUS
<1>1. SocketInv
  BY SocketInitInv DEF Init
<1>2. OpenFds = {}
  BY DEF Init, SocketInit, OpenFds
<1>3. TypeOK
  BY <1>1 DEF Init, TypeOK, SocketInv, NoFd
<1>4. QED
  BY <1>1, <1>2, <1>3 DEF Init, IInv, Sole, Serving, Pending

\* What is pending is not touched by a step that moves no stream backwards and
\* leaves the thread and its descriptor alone.
LEMMA PendingKept ==
  ASSUME IInv,
         \A t \in Threads : at'[t] = "print" =>
           /\ at[t] = "print" /\ fd'[t] = fd[t] /\ buffer'[t] = buffer[t]
           /\ conn'[fd[t]] = conn[fd[t]]
           /\ rd'[conn[fd[t]]] = rd[conn[fd[t]]]
           /\ sent'[conn[fd[t]]] = sent[conn[fd[t]]]
  PROVE  Pending'
<1> SUFFICES ASSUME NEW t \in Threads, at'[t] = "print"
             PROVE  LET c == conn'[fd'[t]]
                        m == Len(buffer'[t])
                    IN  m \in 1 .. rd'[c] /\ buffer'[t] = SubSeq(sent'[c], rd'[c] - m + 1, rd'[c])
  BY DEF Pending
<1> DEFINE c == conn[fd[t]]
           m == Len(buffer[t])
<1>1. m \in 1 .. rd[c] /\ buffer[t] = SubSeq(sent[c], rd[c] - m + 1, rd[c])
  BY DEF IInv, Pending
<1>2. conn'[fd'[t]] = c /\ Len(buffer'[t]) = m /\ rd'[c] = rd[c] /\ sent'[c] = sent[c]
  OBVIOUS
<1>3. QED
  BY <1>1, <1>2

\* An accepted connection is in the hands of main().
LEMMA AcceptStepInv ==
  ASSUME IInv, Accept
  PROVE  IInv'
<1> USE DEF Accept
<1>1. PICK f \in Fds : AcceptInto(f) /\ client_fd' = f
  OBVIOUS
<1>2. SocketInv' /\ OpenFds' = OpenFds \cup {f} /\ f \notin OpenFds
  BY <1>1, AcceptInv DEF IInv
<1>3. TypeOK'
  BY <1>1, <1>2 DEF IInv, TypeOK, SocketInv
<1>4. \A t \in Threads : Serving(t)' = Serving(t) /\ Hand(t)' = Hand(t)
  BY DEF Serving, Hand
<1>5. Sole'
  BY <1>1, <1>2, <1>4 DEF IInv, Sole
<1>6. Pending'
  <2>1. \A t \in Threads : at[t] = "print" => conn'[fd[t]] = conn[fd[t]]
    <3> SUFFICES ASSUME NEW t \in Threads, at[t] = "print"
                 PROVE  conn'[fd[t]] = conn[fd[t]]
      OBVIOUS
    <3>1. fd[t] \in OpenFds /\ fd[t] \in Fds
      BY HandFacts DEF Serving, Hand
    <3>2. QED
      BY <1>1, <1>2, <3>1, AcceptFrame DEF IInv
  <2>2. QED
    BY <1>1, <2>1, PendingKept DEF AcceptInto
<1>7. QED
  BY <1>2, <1>3, <1>5, <1>6 DEF IInv

\* main() fails to accept, or hands its descriptor to a thread.
LEMMA AcceptFailsInv ==
  ASSUME IInv, AcceptFails
  PROVE  IInv'
<1> USE DEF AcceptFails
<1>1. SocketInv' /\ OpenFds' = OpenFds
  BY QuietFrame DEF IInv
<1>2. TypeOK'
  BY <1>1 DEF IInv, TypeOK, SocketInv
<1>3. Sole'
  BY <1>1 DEF IInv, Sole, Serving, Hand
<1>4. Pending'
  BY PendingKept DEF socketVars
<1>5. QED
  BY <1>1, <1>2, <1>3, <1>4 DEF IInv

\* pthread_create() passes it on in a cell of its own.
LEMMA CreateInv ==
  ASSUME IInv, NEW t \in Threads, Create(t)
  PROVE  IInv'
<1> USE DEF Create
<1>1. SocketInv' /\ OpenFds' = OpenFds
  BY QuietFrame DEF IInv
<1>2. TypeOK'
  BY <1>1 DEF IInv, TypeOK, SocketInv
<1>3. /\ ~Serving(t) /\ Serving(t)' /\ Hand(t)' = client_fd
      /\ \A u \in Threads : u # t => Serving(u)' = Serving(u) /\ Hand(u)' = Hand(u)
  BY DEF IInv, TypeOK, Serving, Hand
<1>4. main = "create" /\ main' = "accept"
  OBVIOUS
<1> HIDE DEF Create
<1>5. Sole'
  BY <1>1, <1>3, <1>4 DEF IInv, Sole
<1>6. Pending'
  BY PendingKept DEF Create, IInv, TypeOK, socketVars
<1>7. QED
  BY <1>1, <1>2, <1>5, <1>6 DEF IInv

\* A pthread_create() that fails makes main() close it.
LEMMA CreateFailsInv ==
  ASSUME IInv, CreateFails
  PROVE  IInv'
<1> USE DEF CreateFails
<1>1. client_fd \in Fds /\ client_fd \in OpenFds
  BY OpenFdFacts DEF IInv, Sole
<1>2. SocketInv' /\ OpenFds' = OpenFds \ {client_fd}
  BY <1>1, CloseInv DEF IInv
<1>3. TypeOK'
  BY <1>2 DEF IInv, TypeOK, SocketInv
<1>4. \A t \in Threads : Serving(t)' = Serving(t) /\ Hand(t)' = Hand(t)
  BY DEF Serving, Hand
<1>5. Sole'
  BY <1>2, <1>4 DEF IInv, Sole
<1>6. Pending'
  <2>1. \A t \in Threads : at[t] = "print" => conn'[fd[t]] = conn[fd[t]]
    <3> SUFFICES ASSUME NEW t \in Threads, at[t] = "print"
                 PROVE  conn'[fd[t]] = conn[fd[t]]
      OBVIOUS
    <3>1. fd[t] \in Fds /\ fd[t] # client_fd
      BY HandFacts DEF Serving, Hand, IInv, Sole
    <3>2. QED
      BY <1>1, <3>1, CloseFrame DEF IInv
  <2>2. QED
    BY <2>1, PendingKept DEF CloseFd
<1>7. QED
  BY <1>2, <1>3, <1>5, <1>6 DEF IInv


\* A step of a thread that opens and closes nothing, and of which nobody else
\* notices.
LEMMA SoleKept ==
  ASSUME IInv, OpenFds' = OpenFds, main' = main, client_fd' = client_fd,
         \A u \in Threads : (Serving(u)' <=> Serving(u)) /\ (Serving(u) => Hand(u)' = Hand(u))
  PROVE  Sole'
  BY DEF IInv, Sole

\* A thread that starts takes the number from its cell.
LEMMA StartInv ==
  ASSUME IInv, NEW t \in Threads, Start(t)
  PROVE  IInv'
<1> USE DEF Start, Goto
<1>1. SocketInv' /\ OpenFds' = OpenFds
  BY QuietFrame DEF IInv
<1>2. TypeOK'
  BY <1>1 DEF IInv, TypeOK, SocketInv
<1>3. \A u \in Threads : Serving(u)' = Serving(u) /\ Hand(u)' = Hand(u)
  BY DEF IInv, TypeOK, Serving, Hand
<1>4. Sole'
  BY <1>1, <1>3, SoleKept
<1>5. Pending'
  BY PendingKept DEF IInv, TypeOK, socketVars
<1>6. QED
  BY <1>1, <1>2, <1>4, <1>5 DEF IInv

\* At the end of file a thread goes to close its connection.
LEMMA ReadEofInv ==
  ASSUME IInv, NEW t \in Threads, ReadEof(t)
  PROVE  IInv'
<1> USE DEF ReadEof, Goto
<1>1. SocketInv' /\ OpenFds' = OpenFds
  BY QuietFrame DEF IInv
<1>2. TypeOK'
  BY <1>1 DEF IInv, TypeOK, SocketInv
<1>3. \A u \in Threads : Serving(u)' = Serving(u) /\ Hand(u)' = Hand(u)
  BY DEF IInv, TypeOK, Serving, Hand
<1>4. Sole'
  BY <1>1, <1>3, SoleKept
<1>5. Pending'
  BY PendingKept DEF IInv, TypeOK, socketVars
<1>6. QED
  BY <1>1, <1>2, <1>4, <1>5 DEF IInv

\* What a read() of thread t returns, and what it does to the stream.
LEMMA ThreadReads ==
  ASSUME IInv, NEW t \in Threads, ReadData(t)
  PROVE  LET c == conn[fd[t]]
             bytes == Chunk(c, BufSize)
         IN  /\ at[t] = "read" /\ c \in Clients /\ fd[t] \in OpenFds
             /\ buffer' = [buffer EXCEPT ![t] = bytes]
             /\ bytes \in Seq(Byte) /\ Len(bytes) \in Nat
             /\ Len(bytes) > 0 /\ Len(bytes) <= Unread(c)
             /\ bytes = SubSeq(sent[c], rd[c] + 1, rd[c] + Len(bytes))
             /\ Consume(c, Len(bytes), <<>>)
<1> DEFINE c == conn[fd[t]]
           bytes == Chunk(c, BufSize)
<1>1. at[t] = "read" /\ Unread(c) > 0 /\ buffer' = [buffer EXCEPT ![t] = bytes]
  BY DEF ReadData, Goto
<1>2. c \in Clients /\ fd[t] \in OpenFds
  BY <1>1, HandFacts DEF Serving, Hand
<1>3. buffer'[t] = bytes
  BY <1>1 DEF IInv, TypeOK
<1>4. Consume(c, Len(bytes), <<>>)
  BY <1>3 DEF ReadData
<1>5. /\ bytes \in Seq(Byte) /\ Len(bytes) \in Nat /\ Len(bytes) > 0 /\ Len(bytes) <= Unread(c)
      /\ bytes = SubSeq(sent[c], rd[c] + 1, rd[c] + Len(bytes))
  BY <1>1, <1>2, ReadFacts, ThreadAssumption DEF IInv
<1>6. QED
  BY <1>1, <1>2, <1>4, <1>5

\* A read keeps its bytes in the thread's buffer.
LEMMA ReadDataInv ==
  ASSUME IInv, NEW t \in Threads, ReadData(t)
  PROVE  IInv'
<1> DEFINE c == conn[fd[t]]
           bytes == Chunk(c, BufSize)
<1>1. /\ at[t] = "read" /\ c \in Clients /\ fd[t] \in OpenFds
      /\ buffer' = [buffer EXCEPT ![t] = bytes]
      /\ bytes \in Seq(Byte) /\ Len(bytes) \in Nat
      /\ Len(bytes) > 0 /\ Len(bytes) <= Unread(c)
      /\ bytes = SubSeq(sent[c], rd[c] + 1, rd[c] + Len(bytes))
      /\ Consume(c, Len(bytes), <<>>)
  BY ThreadReads
<1>2. at' = [at EXCEPT ![t] = "print"] /\ UNCHANGED <<main, client_fd, cell, fd>>
  BY DEF ReadData, Goto
<1> HIDE DEF bytes
<1>3. <<>> \in Seq(Byte)
  OBVIOUS
<1>4. SocketInv'
  BY <1>1, <1>3, ConsumeInv DEF IInv
<1>5. /\ conn' = conn /\ sent' = sent /\ OpenFds' = OpenFds
      /\ \A d \in Clients \ {c} : rd'[d] = rd[d]
      /\ rd'[c] = rd[c] + Len(bytes)
  BY <1>1, ConsumeFrame DEF IInv
<1>6. TypeOK'
  BY <1>1, <1>2, <1>4 DEF IInv, TypeOK, SocketInv
<1>7. \A u \in Threads : Serving(u)' = Serving(u) /\ Hand(u)' = Hand(u)
  BY <1>1, <1>2 DEF IInv, TypeOK, Serving, Hand
<1>8. Sole'
  BY <1>2, <1>5, <1>7, SoleKept
<1>9. \A u \in Threads : u # t /\ at[u] = "print" => conn[fd[u]] \in Clients \ {c}
  <2>1. Serving(t) /\ Hand(t) = fd[t]
    BY <1>1 DEF Serving, Hand
  <2>2. \A u \in Threads : at[u] = "print" => Serving(u) /\ Hand(u) = fd[u]
    BY DEF Serving, Hand
  <2>3. QED
    BY <2>1, <2>2, HandFacts
<1>10. Pending'
  <2> SUFFICES ASSUME NEW u \in Threads, at'[u] = "print"
               PROVE  LET d == conn[fd[u]]
                          m == Len(buffer'[u])
                      IN  /\ m \in 1 .. rd'[d]
                          /\ buffer'[u] = SubSeq(sent[d], rd'[d] - m + 1, rd'[d])
    BY <1>2, <1>5 DEF Pending
  <2>1. CASE u = t
    <3>1. buffer'[u] = bytes
      BY <1>1, <2>1 DEF IInv, TypeOK
    <3>2. rd[c] \in Nat
      BY <1>1 DEF IInv, SocketInv, SocketType
    <3>3. QED
      <4> DEFINE m == Len(bytes)
      <4>1. rd'[c] - m + 1 = rd[c] + 1 /\ rd'[c] = rd[c] + m /\ m \in 1 .. rd'[c]
        <5>1. rd'[c] = rd[c] + m /\ m \in Nat /\ m > 0
          BY <1>1, <1>5
        <5> HIDE DEF m
        <5>2. QED
          BY <3>2, <5>1
      <4>2. bytes = SubSeq(sent[c], rd'[c] - m + 1, rd'[c])
        BY <1>1, <4>1
      <4>3. conn[fd[u]] = c
        BY <2>1
      <4>4. QED
        BY <3>1, <4>1, <4>2, <4>3
  <2>2. CASE u # t
    <3>1. at[u] = "print" /\ buffer'[u] = buffer[u]
      BY <1>1, <1>2, <2>2 DEF IInv, TypeOK
    <3>2. rd'[conn[fd[u]]] = rd[conn[fd[u]]]
      BY <1>5, <1>9, <2>2, <3>1
    <3>3. QED
      BY <3>1, <3>2 DEF IInv, Pending
  <2>3. QED
    BY <2>1, <2>2
<1>11. QED
  BY <1>4, <1>6, <1>8, <1>10 DEF IInv

\* What printf() is given: bytes of the thread's own client.
LEMMA ThreadPrints ==
  ASSUME IInv, NEW t \in Threads, Printf(t)
  PROVE  LET c == conn[fd[t]]
             m == Len(buffer[t])
         IN  /\ at[t] = "print" /\ c \in Clients
             /\ m \in 1 .. rd[c] /\ rd[c] \in Nat /\ rd[c] <= Len(sent[c])
             /\ buffer[t] \in Seq(Byte)
             /\ PrintedText(buffer[t]) \in Seq(Byte)
             /\ buffer[t] = SubSeq(sent[c], rd[c] - m + 1, rd[c])
<1>1. at[t] = "print" /\ conn[fd[t]] \in Clients
  BY HandFacts DEF Printf, Goto, Serving, Hand
<1>2. buffer[t] \in Seq(Byte)
  BY DEF IInv, TypeOK
<1>3. CString(buffer[t]) \in Seq(Byte)
  BY <1>2, CStringType
<1>4. PrintedText(buffer[t]) \in Seq(Byte)
  BY <1>3, UpperTextType DEF PrintedText
<1>5. QED
  BY <1>1, <1>2, <1>4 DEF IInv, Pending, SocketInv, SocketType

\* printf() shows what the buffer holds.
LEMMA PrintfInv ==
  ASSUME IInv, NEW t \in Threads, Printf(t)
  PROVE  IInv'
<1> DEFINE c == conn[fd[t]]
<1>1. at[t] = "print" /\ c \in Clients /\ PrintedText(buffer[t]) \in Seq(Byte)
  BY ThreadPrints
<1>2. /\ Consume(c, 0, PrintedText(buffer[t])) /\ at' = [at EXCEPT ![t] = "read"]
      /\ buffer' = [buffer EXCEPT ![t] = <<>>]
      /\ UNCHANGED <<main, client_fd, cell, fd>>
  BY DEF Printf, Goto
<1>3. 0 <= Unread(c)
  BY <1>1, OpenFdFacts DEF IInv
<1>4. SocketInv'
  BY <1>1, <1>2, <1>3, ConsumeInv DEF IInv
<1>5. conn' = conn /\ sent' = sent /\ OpenFds' = OpenFds /\ \A d \in Clients : rd'[d] = rd[d]
  <2>1. rd[c] \in Nat
    BY <1>1 DEF IInv, SocketInv, SocketType
  <2>2. QED
    BY <1>1, <1>2, <2>1, ConsumeFrame DEF IInv
<1>6. TypeOK'
  BY <1>2, <1>4 DEF IInv, TypeOK, SocketInv
<1>7. \A u \in Threads : Serving(u)' = Serving(u) /\ Hand(u)' = Hand(u)
  BY <1>1, <1>2 DEF IInv, TypeOK, Serving, Hand
<1>8. Sole'
  BY <1>2, <1>5, <1>7, SoleKept
<1>9. Pending'
  <2>1. \A u \in Threads : at'[u] = "print" =>
          at[u] = "print" /\ buffer'[u] = buffer[u] /\ conn[fd[u]] \in Clients
    <3> SUFFICES ASSUME NEW u \in Threads, at'[u] = "print"
                 PROVE  at[u] = "print" /\ buffer'[u] = buffer[u] /\ conn[fd[u]] \in Clients
      OBVIOUS
    <3>1. u # t /\ at[u] = "print"
      BY <1>2 DEF IInv, TypeOK
    <3>2. QED
      BY <1>2, <3>1, HandFacts DEF Serving, Hand, IInv, TypeOK
  <2>2. QED
    BY <1>2, <1>5, <2>1, PendingKept
<1>10. QED
  BY <1>4, <1>6, <1>8, <1>9 DEF IInv

\* close() gives the number back; the thread has no connection from there.
LEMMA CloseStepInv ==
  ASSUME IInv, NEW t \in Threads, Close(t)
  PROVE  IInv'
<1>1. /\ at[t] = "close" /\ at' = [at EXCEPT ![t] = "free"] /\ CloseFd(fd[t])
      /\ UNCHANGED <<main, client_fd, cell, fd, buffer>>
  BY DEF Close, Goto
<1>2. Serving(t) /\ Hand(t) = fd[t]
  BY <1>1 DEF Serving, Hand
<1>3. fd[t] \in OpenFds /\ fd[t] \in Fds
  BY <1>2, HandFacts
<1>4. SocketInv' /\ OpenFds' = OpenFds \ {fd[t]}
  BY <1>1, <1>3, CloseInv DEF IInv
<1>5. TypeOK'
  BY <1>1, <1>4 DEF IInv, TypeOK, SocketInv
<1>6. /\ ~Serving(t)'
      /\ \A u \in Threads : u # t => Serving(u)' = Serving(u) /\ Hand(u)' = Hand(u)
  BY <1>1 DEF IInv, TypeOK, Serving, Hand
<1>7. Sole'
  BY <1>1, <1>2, <1>4, <1>6 DEF IInv, Sole
<1>8. Pending'
  <2>1. \A u \in Threads : at'[u] = "print" => at[u] = "print" /\ conn'[fd[u]] = conn[fd[u]]
    <3> SUFFICES ASSUME NEW u \in Threads, at'[u] = "print"
                 PROVE  at[u] = "print" /\ conn'[fd[u]] = conn[fd[u]]
      OBVIOUS
    <3>1. u # t /\ at[u] = "print"
      BY <1>1 DEF IInv, TypeOK
    <3>2. fd[u] \in Fds /\ fd[u] # fd[t]
      BY <1>2, <3>1, HandFacts DEF Serving, Hand
    <3>3. QED
      BY <1>1, <1>3, <3>1, <3>2, CloseFrame DEF IInv
  <2>2. QED
    BY <1>1, <2>1, PendingKept DEF CloseFd
<1>9. QED
  BY <1>4, <1>5, <1>7, <1>8 DEF IInv

\* free() touches no connection.
LEMMA FreeInv ==
  ASSUME IInv, NEW t \in Threads, Free(t)
  PROVE  IInv'
<1> USE DEF Free, Goto
<1>1. SocketInv' /\ OpenFds' = OpenFds
  BY QuietFrame DEF IInv
<1>2. TypeOK'
  BY <1>1 DEF IInv, TypeOK, SocketInv
<1>3. /\ ~Serving(t) /\ ~Serving(t)'
      /\ \A u \in Threads : u # t => Serving(u)' = Serving(u) /\ Hand(u)' = Hand(u)
  BY DEF IInv, TypeOK, Serving, Hand
<1>4. main' = main /\ client_fd' = client_fd
  OBVIOUS
<1>5. Sole'
  BY <1>1, <1>3, <1>4, SoleKept
<1>6. Pending'
  BY PendingKept DEF IInv, TypeOK, socketVars
<1>7. QED
  BY <1>1, <1>2, <1>5, <1>6 DEF IInv

\* A client is in nobody's way.
LEMMA ClientInv ==
  ASSUME IInv, NEW c \in Clients, Client(c)
  PROVE  IInv'
<1>1. Connect(c) \/ Hangup(c) \/ \E bytes \in Seq(Byte) : Write(c, bytes)
  BY ThreadAssumption DEF Client
<1>2. SocketInv' /\ conn' = conn /\ rd' = rd /\ OpenFds' = OpenFds
  BY <1>1, ClientFrame DEF IInv
<1>3. UNCHANGED serverVars
  BY DEF Client
<1>4. TypeOK'
  BY <1>2, <1>3 DEF IInv, TypeOK, SocketInv, serverVars
<1>5. Sole'
  BY <1>2, <1>3 DEF IInv, Sole, Serving, Hand, serverVars
<1>6. Pending'
  <2>1. CASE \E bytes \in Seq(Byte) : Write(c, bytes)
    <3>1. PICK bytes \in Seq(Byte) : Write(c, bytes)
      BY <2>1
    <3>2. ASSUME NEW t \in Threads, at[t] = "print"
          PROVE  LET d == conn[fd[t]]
                     m == Len(buffer[t])
                 IN  /\ m \in 1 .. rd[d]
                     /\ buffer[t] = SubSeq(sent'[d], rd[d] - m + 1, rd[d])
      <4> DEFINE d == conn[fd[t]]
                 m == Len(buffer[t])
      <4>1. d \in Clients
        BY <3>2, HandFacts DEF Serving, Hand
      <4>2. m \in 1 .. rd[d] /\ buffer[t] = SubSeq(sent[d], rd[d] - m + 1, rd[d])
        BY <3>2 DEF IInv, Pending
      <4> HIDE DEF d, m
      <4>3. SubSeq(sent'[d], rd[d] - m + 1, rd[d]) = SubSeq(sent[d], rd[d] - m + 1, rd[d])
        BY <3>1, <4>1, <4>2, WriteKeepsRead DEF IInv
      <4>4. QED
        BY <4>2, <4>3 DEF d, m
    <3>3. QED
      BY <1>2, <1>3, <3>2 DEF Pending, serverVars
  <2>2. CASE Connect(c) \/ Hangup(c)
    BY <1>2, <1>3, <2>2, PendingKept DEF Connect, Hangup, serverVars
  <2>3. QED
    BY <1>1, <2>1, <2>2
<1>7. QED
  BY <1>2, <1>4, <1>5, <1>6 DEF IInv

\* A step that changes nothing keeps the invariant.
LEMMA StutterInv ==
  ASSUME IInv, UNCHANGED vars
  PROVE  IInv'
<1>1. UNCHANGED socketVars /\ UNCHANGED serverVars
  BY DEF vars
<1>2. SocketInv' /\ conn' = conn /\ OpenFds' = OpenFds
  BY <1>1, QuietFrame DEF IInv
<1>3. TypeOK'
  BY <1>1, <1>2 DEF IInv, TypeOK, SocketInv, serverVars
<1>4. Sole'
  BY <1>1, <1>2 DEF IInv, Sole, Serving, Hand, serverVars
<1>5. Pending'
  BY <1>1, PendingKept DEF socketVars, serverVars
<1>6. QED
  BY <1>2, <1>3, <1>4, <1>5 DEF IInv

\* Every step keeps the invariant.
LEMMA NextInv ==
  ASSUME IInv, [Next]_vars
  PROVE  IInv'
<1>1. CASE Main
  BY <1>1, AcceptStepInv, AcceptFailsInv, CreateInv, CreateFailsInv DEF Main
<1>2. ASSUME NEW t \in Threads, Thread(t) PROVE IInv'
  BY <1>2, StartInv, ReadDataInv, PrintfInv, ReadEofInv, CloseStepInv, FreeInv DEF Thread
<1>3. QED
  BY <1>1, <1>2, ClientInv, StutterInv DEF Next

\* The inductive invariant holds.
THEOREM Inductive == Spec => []IInv
<1>1. Init => IInv
  BY InitInv
<1>2. IInv /\ [Next]_vars => IInv'
  BY NextInv
<1>3. QED
  BY <1>1, <1>2, PTL DEF Spec

\* Each open connection is in the hands of exactly one thread, or still of
\* main(), although descriptor numbers come back and several threads may be
\* between close() and the end at once.
THEOREM OneServantEach == Spec => []OneServant
<1>1. IInv => OneServant
  BY SoleServant DEF IInv
<1>2. QED
  BY <1>1, Inductive, PTL

-----------------------------------------------------------------------------
(***************************************************************************)
(* The contract, under the mapping that counts a read when it is printed.  *)
(***************************************************************************)
Holds(t, c) == at[t] = "print" /\ conn[fd[t]] = c

\* What Held says: the bytes of the one thread that has read and not printed.
HeldFacts ==
  \A c \in Clients :
    /\ (\A t \in Threads : ~Holds(t, c)) => Held(c) = 0
    /\ \A t \in Threads : Holds(t, c) => Held(c) = Len(buffer[t])

\* What is held between read() and printf() is the end of what was read.
LEMMA HeldIs == IInv => HeldFacts
<1> SUFFICES ASSUME IInv, NEW c \in Clients
             PROVE  /\ (\A t \in Threads : ~Holds(t, c)) => Held(c) = 0
                    /\ \A t \in Threads : Holds(t, c) => Held(c) = Len(buffer[t])
  BY DEF HeldFacts
<1> DEFINE holders == {t \in Threads : at[t] = "print" /\ conn[fd[t]] = c}
<1>1. Held(c) = IF holders = {} THEN 0 ELSE Len(buffer[CHOOSE t \in holders : TRUE])
  BY DEF Held
<1>2. ASSUME \A t \in Threads : ~Holds(t, c) PROVE Held(c) = 0
  BY <1>1, <1>2 DEF Holds
<1>3. ASSUME NEW t \in Threads, Holds(t, c) PROVE Held(c) = Len(buffer[t])
  <2>1. holders = {t}
    <3>1. \A u \in Threads : u # t => ~Holds(u, c)
      BY <1>3, HandFacts DEF Holds, Serving, Hand
    <3>2. QED
      BY <1>3, <3>1 DEF Holds
  <2> HIDE DEF holders
  <2>2. holders # {} /\ (CHOOSE u \in holders : TRUE) = t
    BY <2>1
  <2>3. QED
    BY <1>1, <2>2
<1>4. QED
  BY <1>2, <1>3

\* The same after a step.
LEMMA HeldIsNext == IInv' => HeldFacts'
  BY HeldIs, PTL

\* A thread that is between read() and printf() stays there, with its bytes,
\* its descriptor and its client.
Undisturbed(t) ==
  /\ at'[t] = "print" <=> at[t] = "print"
  /\ at[t] = "print" =>
       fd'[t] = fd[t] /\ conn'[fd[t]] = conn[fd[t]] /\ buffer'[t] = buffer[t]

\* A step that touches neither keeps it.
LEMMA HeldKept ==
  ASSUME IInv, IInv', NEW c \in Clients,
         \A t \in Threads : Holds(t, c) \/ Holds(t, c)' => Undisturbed(t)
  PROVE  Held(c)' = Held(c)
<1>1. \A t \in Threads : /\ Holds(t, c)' <=> Holds(t, c)
                         /\ Holds(t, c) => buffer'[t] = buffer[t]
  BY DEF Holds, Undisturbed
<1>2. CASE \E t \in Threads : Holds(t, c)
  <2>1. PICK t \in Threads : Holds(t, c)
    BY <1>2
  <2>2. Holds(t, c)' /\ buffer'[t] = buffer[t]
    BY <1>1, <2>1
  <2>3. Held(c) = Len(buffer[t]) /\ Held(c)' = Len(buffer'[t])
    BY <2>1, <2>2, HeldIs, HeldIsNext DEF HeldFacts
  <2>4. QED
    BY <2>2, <2>3
<1>3. CASE \A t \in Threads : ~Holds(t, c)
  BY <1>1, <1>3, HeldIs, HeldIsNext DEF HeldFacts
<1>4. QED
  BY <1>2, <1>3

\* Nobody disturbs a thread between its read() and its printf(): no descriptor
\* that is opened or closed meanwhile is its own.
LEMMA NobodyDisturbs ==
  ASSUME IInv, NEW t \in Threads,
         \/ Main
         \/ \E u \in Threads : Start(u) \/ ReadEof(u) \/ Close(u) \/ Free(u)
         \/ \E c \in Clients : Client(c)
         \/ UNCHANGED vars
  PROVE  Undisturbed(t)
<1>1. at[t] = "print" => /\ fd[t] \in OpenFds /\ fd[t] \in Fds
                         /\ \A u \in Threads : at[u] = "close" => fd[u] # fd[t]
                         /\ main = "create" => client_fd # fd[t]
  BY HandFacts DEF Serving, Hand, IInv, Sole
<1>2. CASE Accept
  <2>1. PICK f \in Fds : AcceptInto(f)
    BY <1>2 DEF Accept
  <2>2. f \notin OpenFds
    BY <2>1 DEF AcceptInto, LowestFree
  <2>3. QED
    BY <1>1, <1>2, <2>1, <2>2, AcceptFrame DEF Accept, Undisturbed, IInv
<1>3. CASE CreateFails
  <2>1. client_fd \in Fds /\ main = "create"
    BY <1>3 DEF CreateFails, IInv, TypeOK
  <2>2. QED
    BY <1>1, <1>3, <2>1, CloseFrame DEF CreateFails, Undisturbed, IInv
<1>4. CASE AcceptFails \/ \E u \in Threads : Create(u)
  BY <1>4 DEF AcceptFails, Create, socketVars, Undisturbed, IInv, TypeOK
<1>5. ASSUME NEW u \in Threads, Close(u) PROVE Undisturbed(t)
  <2>1. fd[u] \in Fds /\ at[u] = "close"
    BY <1>5, HandFacts DEF Close, Goto, Serving, Hand
  <2>2. at[t] = "print" => u # t /\ conn'[fd[t]] = conn[fd[t]]
    BY <1>1, <1>5, <2>1, CloseFrame DEF Close, IInv
  <2>3. QED
    BY <1>5, <2>1, <2>2 DEF Close, Goto, Undisturbed, IInv, TypeOK
<1>6. CASE \E u \in Threads : Start(u) \/ ReadEof(u) \/ Free(u)
  BY <1>6 DEF Start, ReadEof, Free, Goto, socketVars, Undisturbed, IInv, TypeOK
<1>7. CASE (\E c \in Clients : Client(c)) \/ UNCHANGED vars
  BY <1>7 DEF Client, Connect, Hangup, Write, vars, socketVars, serverVars, Undisturbed
<1>8. QED
  BY <1>2, <1>3, <1>4, <1>5, <1>6, <1>7 DEF Main

ServiceStep == [Threaded!Next]_<<sent, PrintedUpTo, shown>>

\* A read() is no step of the service: its bytes are still to be printed.
LEMMA ReadStutters ==
  ASSUME IInv, IInv', NEW t \in Threads, ReadData(t)
  PROVE  UNCHANGED <<sent, PrintedUpTo, shown>>
<1> PICK c \in Clients : c = conn[fd[t]]
  BY ThreadReads
<1> DEFINE bytes == Chunk(c, BufSize)
<1>1. /\ at[t] = "read" /\ c \in Clients /\ fd[t] \in OpenFds
      /\ buffer' = [buffer EXCEPT ![t] = bytes]
      /\ Len(bytes) \in Nat
      /\ Consume(c, Len(bytes), <<>>)
  BY ThreadReads
<1>2. at' = [at EXCEPT ![t] = "print"] /\ UNCHANGED <<main, client_fd, cell, fd>>
  BY DEF ReadData, Goto
<1> HIDE DEF bytes
<1>3. /\ conn' = conn /\ sent' = sent
      /\ \A d \in Clients \ {c} : rd'[d] = rd[d]
      /\ rd'[c] = rd[c] + Len(bytes) /\ rd[c] \in Nat
  BY <1>1, ConsumeFrame DEF IInv, SocketInv, SocketType
<1>4. shown' = shown
  <2>1. shown \in [Clients -> Seq(Byte)] /\ shown[c] \o <<>> = shown[c]
    BY <1>1, ConcatEmptySeq DEF IInv, SocketInv, SocketType
  <2>2. shown' = [shown EXCEPT ![c] = shown[c] \o <<>>]
    BY <1>1 DEF Consume
  <2>3. QED
    BY <2>1, <2>2
<1>5. Held(c) = 0
  <2>1. \A u \in Threads : ~Holds(u, c)
    BY <1>1, HandFacts DEF Holds, Serving, Hand
  <2>2. QED
    BY <1>1, <2>1, HeldIs DEF HeldFacts
<1>6. Held(c)' = Len(bytes)
  <2>1. Holds(t, c)' /\ buffer'[t] = bytes
    BY <1>1, <1>2, <1>3 DEF Holds, IInv, TypeOK
  <2>2. QED
    BY <1>1, <2>1, HeldIsNext DEF HeldFacts
<1>7. ASSUME NEW d \in Clients, d # c PROVE Held(d)' = Held(d)
  <2>1. \A u \in Threads : Holds(u, d) \/ Holds(u, d)' => u # t
    BY <1>1, <1>2, <1>3, <1>7 DEF Holds
  <2>2. \A u \in Threads : u # t => Undisturbed(u)
    BY <1>1, <1>2, <1>3 DEF Undisturbed, IInv, TypeOK
  <2>3. QED
    BY <2>1, <2>2, HeldKept
<1>8. \A d \in Clients : rd'[d] - Held(d)' = rd[d] - Held(d)
  <2> TAKE d \in Clients
  <2>1. CASE d = c
    <3>1. Held(d) = 0 /\ Held(d)' = Len(bytes) /\ rd'[d] = rd[d] + Len(bytes) /\ rd[d] \in Nat
      BY <1>3, <1>5, <1>6, <2>1
    <3>2. QED
      BY <1>1, <3>1
  <2>2. CASE d # c
    BY <1>3, <1>7, <2>2
  <2>3. QED
    BY <2>1, <2>2
<1>9. PrintedUpTo' = PrintedUpTo
  BY <1>8 DEF PrintedUpTo
<1>10. QED
  BY <1>3, <1>4, <1>9

\* printf() shows what the thread read, whatever the others read meanwhile.
LEMMA PrintfShows ==
  ASSUME IInv, IInv', NEW t \in Threads, Printf(t)
  PROVE  Threaded!Next
<1> PICK c \in Clients : c = conn[fd[t]]
  BY ThreadPrints
<1> DEFINE m == Len(buffer[t])
<1>1. /\ at[t] = "print" /\ c \in Clients
      /\ m \in 1 .. rd[c] /\ rd[c] \in Nat /\ rd[c] <= Len(sent[c])
      /\ buffer[t] = SubSeq(sent[c], rd[c] - m + 1, rd[c])
  BY ThreadPrints
<1>2. /\ Consume(c, 0, PrintedText(buffer[t])) /\ at' = [at EXCEPT ![t] = "read"]
      /\ buffer' = [buffer EXCEPT ![t] = <<>>]
      /\ UNCHANGED <<main, client_fd, cell, fd>>
  BY DEF Printf, Goto
<1>3. conn' = conn /\ sent' = sent /\ \A d \in Clients : rd'[d] = rd[d]
  BY <1>1, <1>2, ConsumeFrame DEF IInv
<1>4. Held(c) = m
  BY <1>1, HeldIs DEF HeldFacts, Holds
<1>5. Held(c)' = 0
  <2>1. \A u \in Threads : ~Holds(u, c)'
    BY <1>1, <1>2, <1>3, HandFacts DEF Holds, Serving, Hand, IInv, TypeOK
  <2>2. QED
    BY <1>1, <2>1, HeldIsNext DEF HeldFacts
<1>6. ASSUME NEW d \in Clients, d # c PROVE Held(d)' = Held(d)
  <2>1. \A u \in Threads : Holds(u, d) \/ Holds(u, d)' => u # t
    BY <1>1, <1>2, <1>3, <1>6 DEF Holds
  <2>2. \A u \in Threads : u # t => Undisturbed(u)
    BY <1>1, <1>2, <1>3 DEF Undisturbed, IInv, TypeOK
  <2>3. QED
    BY <2>1, <2>2, HeldKept
<1> HIDE DEF m
<1>7. PrintedUpTo' = [PrintedUpTo EXCEPT ![c] = rd[c]]
  <2>1. \A d \in Clients : rd'[d] - Held(d)' = IF d = c THEN rd[c] ELSE rd[d] - Held(d)
    BY <1>1, <1>3, <1>5, <1>6
  <2>2. QED
    BY <2>1 DEF PrintedUpTo
<1>8. PrintedUpTo[c] = rd[c] - m
  BY <1>1, <1>4 DEF PrintedUpTo
<1>9. shown' = [shown EXCEPT ![c] = @ \o PrintedText(SubSeq(sent[c], PrintedUpTo[c] + 1, rd[c]))]
  BY <1>1, <1>2, <1>8 DEF Consume, m
<1>10. rd[c] \in PrintedUpTo[c] + 1 .. Len(sent[c])
  <2>1. Len(sent[c]) \in Nat
    BY <1>1, LenProperties DEF IInv, SocketInv, SocketType
  <2>2. QED
    BY <1>1, <1>8, <2>1
<1>11. Threaded!Show(c, rd[c])
  BY <1>3, <1>7, <1>9 DEF Threaded!Show
<1>12. QED
  BY <1>1, <1>10, <1>11 DEF Threaded!Next

\* So counting a read when it is printed maps every step to the service.
LEMMA DeliveryStep ==
  ASSUME IInv, [Next]_vars
  PROVE  ServiceStep
<1>1. IInv'
  BY NextInv
<1>2. ASSUME NEW t \in Threads, ReadData(t) PROVE ServiceStep
  BY <1>1, <1>2, ReadStutters DEF ServiceStep
<1>3. ASSUME NEW t \in Threads, Printf(t) PROVE ServiceStep
  BY <1>1, <1>3, PrintfShows DEF ServiceStep
<1>4. ASSUME \/ Main
             \/ \E u \in Threads : Start(u) \/ ReadEof(u) \/ Close(u) \/ Free(u)
             \/ \E c \in Clients : Client(c)
             \/ UNCHANGED vars,
             rd' = rd
      PROVE  PrintedUpTo' = PrintedUpTo
  <2>1. \A t \in Threads : Undisturbed(t)
    BY <1>4, NobodyDisturbs
  <2>2. \A c \in Clients : Held(c)' = Held(c)
    BY <1>1, <2>1, HeldKept
  <2>3. QED
    BY <1>4, <2>2 DEF PrintedUpTo
<1>5. CASE Main \/ (\E u \in Threads : Start(u) \/ ReadEof(u) \/ Close(u) \/ Free(u))
           \/ UNCHANGED vars
  <2>1. UNCHANGED <<sent, rd, shown>>
    BY <1>5 DEF Main, Accept, AcceptFails, Create, CreateFails, Start, ReadEof, Close, Free,
                AcceptInto, CloseFd, vars, socketVars
  <2>2. QED
    BY <1>4, <1>5, <2>1 DEF ServiceStep
<1>6. ASSUME NEW c \in Clients, Client(c) PROVE ServiceStep
  <2>1. CASE \E bytes \in Seq(Byte) : Write(c, bytes)
    <3>1. PICK bytes \in Seq(Byte) : Write(c, bytes)
      BY <2>1
    <3>2. Service!Send(c) /\ rd' = rd
      BY <3>1, WriteSends DEF IInv, Write
    <3>3. PrintedUpTo' = PrintedUpTo
      BY <1>4, <1>6, <3>2
    <3>4. QED
      BY <3>2, <3>3 DEF ServiceStep, Threaded!Next, Threaded!Send, Service!Send
  <2>2. CASE Connect(c) \/ Hangup(c)
    <3>1. UNCHANGED <<sent, rd, shown>>
      BY <2>2 DEF Connect, Hangup
    <3>2. QED
      BY <1>4, <1>6, <3>1 DEF ServiceStep
  <2>3. QED
    BY <1>6, <2>1, <2>2, ThreadAssumption DEF Client
<1>7. QED
  BY <1>2, <1>3, <1>5, <1>6 DEF Next, Thread

\* The threads together implement the contract: each client's bytes are shown
\* once, in the order it sent them, whatever the order of the threads' steps.
THEOREM Implements == Spec => ThreadedContract
<1>1. Init => Threaded!Init
  <2> SUFFICES ASSUME Init PROVE Threaded!Init
    OBVIOUS
  <2>1. \A c \in Clients : rd[c] = 0 /\ Held(c) = 0
    BY InitInv, HeldIs DEF Init, SocketInit, HeldFacts, Holds
  <2>2. PrintedUpTo = [c \in Clients |-> 0]
    BY <2>1 DEF PrintedUpTo
  <2>3. QED
    BY <2>2 DEF Init, SocketInit, Threaded!Init
<1>2. IInv /\ [Next]_vars => [Threaded!Next]_<<sent, PrintedUpTo, shown>>
  BY DeliveryStep DEF ServiceStep
<1>3. QED
  BY <1>1, <1>2, Inductive, PTL DEF Spec, ThreadedContract, Threaded!Spec

=============================================================================
