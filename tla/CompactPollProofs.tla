------------------------- MODULE CompactPollProofs --------------------------
(*****************************************************************************)
(* The poll() servers with a dense array, for every number of clients,       *)
(* descriptors, array entries and bytes.                                     *)
(*                                                                           *)
(* BlindOnlyOnNewest speaks of the walk, but Bedareva's walk comes after its *)
(* accept(): what poll() reported has to be carried over that step. That     *)
(* Makanin's array never overflows rests on entry 0 asking for POLLIN only   *)
(* while there is room, at the time of the poll(): nothing but accept() adds *)
(* an entry between the poll() and the accept() it announces.                *)
(*****************************************************************************)
EXTENDS CompactPollServer, SocketTheorems

\* What poll() said of entry k still holds.
Fresh(k) == table[k].in => Readable(conn[table[k].fd])

\* What poll() announced still holds when the loop comes to accept(): an
\* unaccepted connection, room in the array where there is a limit, and the
\* reported entries, which in Bedareva's program are walked over afterwards.
\* With the first conjunct accept() never blocks the server.
Announced ==
  /\ listen.in /\ (pc = "accept" \/ (pc = "walk" /\ prog.name = "Makanin")) => backlog # <<>>
  /\ listen.in /\ pc \in {"accept", "walk"} /\ prog.name = "Makanin" => n < prog.max
  /\ pc = "accept" /\ prog.name = "Bedareva" => i = 1 /\ \A k \in 1 .. n : Fresh(k)

\* accept() is called only when a connection waits.
AcceptNeverBlocks == pc = "accept" /\ listen.in => backlog # <<>>

IInv == SocketInv /\ BlindOnlyOnNewest /\ LimitIsKept /\ Announced

\* What the two programs have in common.
LEMMA ProgramFacts ==
  ASSUME IInv
  PROVE  /\ prog.max \in Nat \ {0} /\ prog.name \in {"Makanin", "Bedareva"}
         /\ n \in Nat /\ n <= prog.max /\ i \in Nat \ {0} /\ i <= prog.max + 1
         /\ Index = 1 .. prog.max
         /\ \A k \in 1 .. n : k \in Index
         /\ NoFd \notin Fds
<1>1. NoFd \notin Fds
  BY FdNumbers DEF NoFd
<1>2. QED
  BY <1>1, CompactAssumption DEF IInv, BlindOnlyOnNewest, DenseTable, TypeOK, Index

\* The client entries are the open connections.
LEMMA TableFacts ==
  ASSUME IInv, pc # "overrun", NEW k \in 1 .. n
  PROVE  /\ k \in Index /\ table[k] \in Entry
         /\ table[k].fd \in OpenFds /\ table[k].fd \in Fds
         /\ conn[table[k].fd] \in Clients
         /\ \A j \in 1 .. n : j # k => /\ table[j].fd # table[k].fd
                                       /\ conn[table[j].fd] # conn[table[k].fd]
<1>1. \A j \in 1 .. n : j \in Index /\ table[j] \in Entry /\ table[j].fd \in OpenFds
  BY ProgramFacts DEF IInv, BlindOnlyOnNewest, DenseTable, TypeOK
<1>2. \A j \in 1 .. n : j # k => table[j].fd # table[k].fd
  BY DEF IInv, BlindOnlyOnNewest, DenseTable
<1>3. QED
  BY <1>1, <1>2, OpenFdFacts DEF IInv

\* The server starts with an empty array.
LEMMA InitInv == Init => IInv
<1> SUFFICES ASSUME Init PROVE IInv
  OBVIOUS
<1> USE DEF Init
<1>1. SocketInv
  BY SocketInitInv
<1>2. OpenFds = {}
  BY DEF SocketInit, OpenFds
<1>3. prog.max \in Nat \ {0} /\ prog.name \in {"Makanin", "Bedareva"}
  BY CompactAssumption
<1>4. 1 .. n = {}
  OBVIOUS
<1>5. TypeOK
  BY <1>1, <1>3 DEF TypeOK, SocketInv
<1>6. QED
  BY <1>1, <1>2, <1>3, <1>4, <1>5 DEF IInv, BlindOnlyOnNewest, DenseTable, LimitIsKept, Announced

\* poll() reports what holds when it returns.
LEMMA PollInv ==
  ASSUME IInv, Poll
  PROVE  IInv'
<1> USE DEF Poll
<1>1. /\ SocketInv' /\ OpenFds' = OpenFds /\ conn' = conn /\ backlog' = backlog
      /\ \A c \in Clients : Readable(c)' = Readable(c)
  BY QuietFrame DEF IInv
<1>2. /\ prog' = prog /\ n' = n /\ i' = 1 /\ Index' = Index
      /\ pc' = IF prog.name = "Makanin" THEN "walk" ELSE "accept"
  BY DEF Index
<1>3. \A k \in 1 .. n :
        /\ table'[k] \in Entry /\ table'[k].fd = table[k].fd
        /\ table'[k].in <=> Readable(conn[table[k].fd])
  <2> TAKE k \in 1 .. n
  <2>1. k \in Index /\ table[k] \in Entry /\ k <= n
    BY TableFacts
  <2>2. table'[k] = [table[k] EXCEPT !.in = Readable(conn[table[k].fd])]
    BY <2>1
  <2>3. Readable(conn[table[k].fd]) \in BOOLEAN
    BY DEF Readable
  <2> HIDE DEF Poll
  <2>4. QED
    BY <2>1, <2>2, <2>3 DEF Entry
<1>4. table' \in [Index -> Entry]
  <2>1. \A k \in Index : k <= n => k \in 1 .. n
    BY ProgramFacts
  <2>2. \A k \in Index : ~(k <= n) => table'[k] = table[k]
    OBVIOUS
  <2>3. table \in [Index -> Entry]
    BY DEF IInv, BlindOnlyOnNewest, DenseTable, TypeOK
  <2>4. \A k \in Index : table'[k] \in Entry
    BY <1>3, <2>1, <2>2, <2>3
  <2>5. QED
    BY <2>4
<1>5. TypeOK'
  <2>1. listen' \in [on : BOOLEAN, in : BOOLEAN]
    BY DEF IInv, BlindOnlyOnNewest, DenseTable, TypeOK
  <2>2. QED
    BY <1>1, <1>2, <1>4, <2>1, ProgramFacts
       DEF IInv, BlindOnlyOnNewest, DenseTable, TypeOK, SocketInv
<1>6. DenseTable'
  <2>1. pc # "overrun"
    OBVIOUS
  <2> HIDE DEF Poll
  <2>2. {table'[k].fd : k \in 1 .. n'} = {table[k].fd : k \in 1 .. n}
    BY <1>2, <1>3
  <2>3. \A j, k \in 1 .. n' : table'[j].fd = table'[k].fd => j = k
    BY <1>2, <1>3, <2>1 DEF IInv, BlindOnlyOnNewest, DenseTable
  <2>4. QED
    BY <1>1, <1>5, <2>1, <2>2, <2>3 DEF IInv, BlindOnlyOnNewest, DenseTable
<1>7. \A k \in 1 .. n : Fresh(k)'
  BY <1>1, <1>3, TableFacts DEF Fresh
<1>8. listen'.on = listen.on /\ (listen'.in => listen.on /\ backlog # <<>>)
  BY DEF IInv, BlindOnlyOnNewest, DenseTable, TypeOK
<1>9. LimitIsKept' /\ Announced'
  BY <1>1, <1>2, <1>7, <1>8, ProgramFacts DEF IInv, LimitIsKept, Announced
<1>10. BlindOnlyOnNewest'
  BY <1>2, <1>6, <1>7 DEF BlindOnlyOnNewest, Fresh
<1>11. QED
  BY <1>1, <1>9, <1>10 DEF IInv

\* accept() appends an entry, and the program with a limit stops listening at its last one.
LEMMA AcceptStepInv ==
  ASSUME IInv, Accept
  PROVE  IInv'
<1> USE DEF Accept
<1>1. PICK f \in Fds : AcceptInto(f) /\ table' = [table EXCEPT ![n + 1].fd = f] /\ newest' = f
  OBVIOUS
<1>2. SocketInv' /\ OpenFds' = OpenFds \cup {f} /\ f \notin OpenFds
  BY <1>1, AcceptInv DEF IInv
<1>3. /\ pc = "accept" /\ n < prog.max /\ n' = n + 1 /\ prog' = prog /\ i' = i
      /\ Index' = Index /\ n + 1 \in Index
      /\ pc' = IF prog.name = "Makanin" THEN "poll" ELSE "walk"
  BY ProgramFacts DEF AfterAccept, Index
<1>4. /\ \A k \in 1 .. n : table'[k] = table[k]
      /\ table'[n + 1] = [table[n + 1] EXCEPT !.fd = f]
      /\ table'[n + 1].fd = f
      /\ table' \in [Index -> Entry]
  <2>1. table \in [Index -> Entry]
    BY DEF IInv, BlindOnlyOnNewest, DenseTable, TypeOK
  <2>2. \A k \in 1 .. n : k # n + 1 /\ k \in Index
    BY ProgramFacts
  <2> HIDE DEF Accept
  <2>3. QED
    BY <1>1, <1>3, <2>1, <2>2 DEF Entry
<1>5. listen' \in [on : BOOLEAN, in : BOOLEAN] /\ listen'.in = listen.in
      /\ listen'.on = (prog.name = "Makanin" => n + 1 < prog.max)
  BY DEF IInv, BlindOnlyOnNewest, DenseTable, TypeOK
<1> HIDE DEF Accept
<1>6. 1 .. n' = 1 .. n \cup {n + 1}
  BY <1>3, ProgramFacts
<1>7. TypeOK'
  BY <1>1, <1>2, <1>3, <1>4, <1>5, ProgramFacts
     DEF IInv, BlindOnlyOnNewest, DenseTable, TypeOK, SocketInv
<1>8. DenseTable'
  <2>1. {table[k].fd : k \in 1 .. n} = OpenFds
    BY <1>3 DEF IInv, BlindOnlyOnNewest, DenseTable
  <2>2. {table'[k].fd : k \in 1 .. n} = OpenFds
    BY <1>4, <2>1
  <2>3. {table'[k].fd : k \in 1 .. n'} = OpenFds'
    BY <1>2, <1>4, <1>6, <2>2
  <2>4. \A j, k \in 1 .. n : table'[j].fd = table'[k].fd => j = k
    BY <1>3, <1>4 DEF IInv, BlindOnlyOnNewest, DenseTable
  <2>5. \A j \in 1 .. n : table'[j].fd # table'[n + 1].fd
    BY <1>2, <1>4, <2>2
  <2>6. \A j, k \in 1 .. n' : table'[j].fd = table'[k].fd => j = k
    BY <1>6, <2>4, <2>5
  <2>7. QED
    BY <1>7, <2>3, <2>6 DEF DenseTable
<1>9. \A k \in 1 .. n : Fresh(k) => Fresh(k)'
  <2> TAKE k \in 1 .. n
  <2>1. table[k].fd \in OpenFds /\ table[k].fd \in Fds /\ conn[table[k].fd] \in Clients
    BY <1>3, TableFacts
  <2>2. conn'[table[k].fd] = conn[table[k].fd]
    BY <1>1, <1>2, <2>1, AcceptFrame DEF IInv
  <2>3. Readable(conn[table[k].fd]) => Readable(conn[table[k].fd])'
    <3>1. PICK d \in Clients : d = conn[table[k].fd]
      BY <2>1
    <3>2. Readable(d)' = Readable(d)
      BY <1>1, AcceptFrame DEF IInv
    <3>3. conn'[table'[k].fd] = d
      BY <1>4, <2>2, <3>1
    <3>4. QED
      BY <3>1, <3>2, <3>3
  <2>4. QED
    BY <1>4, <2>3 DEF Fresh
<1>10. BlindOnlyOnNewest'
  <2>1. SUFFICES ASSUME NEW k \in 1 .. n', (pc = "walk")', ~Fresh(k)'
                 PROVE  (prog.name = "Bedareva" /\ table[k].fd = newest)'
    BY <1>8 DEF BlindOnlyOnNewest, Fresh
  <2>2. prog.name = "Bedareva" /\ \A j \in 1 .. n : Fresh(j)
    BY <1>3, <2>1, ProgramFacts DEF IInv, Announced
  <2>3. k = n + 1
    BY <1>6, <1>9, <2>1, <2>2
  <2>4. QED
    BY <1>1, <1>3, <1>4, <2>2, <2>3
<1>11. LimitIsKept' /\ Announced'
  BY <1>3, <1>5, ProgramFacts DEF IInv, LimitIsKept, Announced
<1>12. QED
  BY <1>2, <1>10, <1>11 DEF IInv


\* Steps that only move the loop on. NothingToAccept and WalkEnds pass between
\* the walk and accept(); AcceptFails ends Makanin's program.
LEMMA LoopInv ==
  ASSUME IInv, NothingToAccept \/ AcceptFails \/ Skip \/ WalkEnds
  PROVE  IInv'
<1>1. /\ UNCHANGED socketVars
      /\ prog' = prog /\ table' = table /\ n' = n /\ listen' = listen /\ newest' = newest
  BY DEF NothingToAccept, AcceptFails, Skip, WalkEnds
<1>2. /\ SocketInv' /\ OpenFds' = OpenFds /\ conn' = conn /\ backlog' = backlog
      /\ \A c \in Clients : Readable(c)' = Readable(c)
  BY <1>1, QuietFrame DEF IInv
<1>3. /\ i' \in 1 .. prog.max + 1 /\ i <= i'
      /\ Skip => /\ i' = i + 1 /\ pc' = pc
                 /\ \A k \in 1 .. n : ~(k >= i + 1) => ~(k >= i) \/ ~table[k].in
      /\ ~Skip => i' = i
      /\ pc # "overrun" /\ pc' \in {"poll", "accept", "walk", "exit"}
  <2>1. CASE Skip
    <3>1. \A k \in 1 .. n : ~(k >= i + 1) => ~(k >= i) \/ k = i
      BY <2>1, ProgramFacts
    <3>2. QED
      BY <2>1, <3>1, ProgramFacts DEF Skip
  <2>2. CASE NothingToAccept \/ AcceptFails \/ WalkEnds
    <3>1. pc \in {"accept", "walk"} /\ i' = i /\ pc' \in {"poll", "accept", "walk", "exit"}
      BY <2>2 DEF NothingToAccept, AcceptFails, WalkEnds, AfterAccept
    <3>2. CASE Skip
      BY <2>1, <3>2
    <3>3. QED
      BY <3>1, <3>2, ProgramFacts
  <2>3. QED
    BY <2>1, <2>2
<1>4. TypeOK'
  BY <1>1, <1>2, <1>3
     DEF IInv, BlindOnlyOnNewest, DenseTable, TypeOK, SocketInv, Index
<1>5. DenseTable'
  BY <1>1, <1>2, <1>3, <1>4 DEF IInv, BlindOnlyOnNewest, DenseTable
<1>6. \A k \in 1 .. n : Fresh(k)' <=> Fresh(k)
  BY <1>1, <1>2, <1>3, TableFacts DEF Fresh
<1>7. BlindOnlyOnNewest'
  <2>1. SUFFICES ASSUME NEW k \in 1 .. n, pc' = "walk", k >= i', ~Fresh(k)
                 PROVE  prog.name = "Bedareva" /\ table[k].fd = newest
    BY <1>1, <1>5, <1>6 DEF BlindOnlyOnNewest, Fresh
  <2>2. k >= i
    BY <1>3, <2>1, ProgramFacts
  <2>3. CASE pc = "walk"
    BY <2>1, <2>2, <2>3 DEF IInv, BlindOnlyOnNewest, Fresh
  <2>4. CASE pc # "walk"
    <3>1. prog.name = "Bedareva" /\ pc = "accept"
      BY <2>1, <2>4, ProgramFacts DEF NothingToAccept, AcceptFails, Skip, WalkEnds, AfterAccept
    <3>2. QED
      BY <2>1, <3>1 DEF IInv, Announced
  <2>5. QED
    BY <2>3, <2>4
<1>8. LimitIsKept'
  BY <1>1, <1>3 DEF IInv, LimitIsKept
<1>9. Announced'
  <2>1. pc' = "accept" => pc = "walk" /\ prog.name = "Makanin"
    BY DEF NothingToAccept, AcceptFails, Skip, WalkEnds, AfterAccept
  <2>2. pc' = "walk" /\ prog.name = "Makanin" => pc = "walk"
    BY DEF NothingToAccept, AcceptFails, Skip, WalkEnds, AfterAccept
  <2>3. QED
    BY <1>1, <1>2, <2>1, <2>2 DEF IInv, Announced
<1>10. QED
  BY <1>2, <1>7, <1>8, <1>9 DEF IInv

\* Only the program without a limit accepts into a full array.
LEMMA PastEndInv ==
  ASSUME IInv, AcceptPastEnd
  PROVE  IInv'
<1> USE DEF AcceptPastEnd
<1>1. PICK f \in Fds : AcceptInto(f) /\ newest' = f
  OBVIOUS
<1>2. prog.name # "Makanin"
  BY ProgramFacts DEF IInv, Announced
<1>3. SocketInv'
  BY <1>1, AcceptInv DEF IInv
<1>4. TypeOK'
  BY <1>1, <1>3 DEF IInv, BlindOnlyOnNewest, DenseTable, TypeOK, SocketInv, Index
<1>5. QED
  BY <1>2, <1>3, <1>4 DEF IInv, BlindOnlyOnNewest, DenseTable, LimitIsKept, Announced

\* What a read() of the walk that finds bytes returns and prints.
LEMMA ReadIsPrinted ==
  ASSUME IInv, ReadData
  PROVE  LET c == conn[table[i].fd]
             bytes == Chunk(c, BufSize)
         IN  /\ i \in 1 .. n /\ c \in Clients
             /\ bytes \in Seq(Byte) /\ Len(bytes) \in Nat
             /\ Len(bytes) > 0 /\ Len(bytes) <= Unread(c)
             /\ bytes = SubSeq(sent[c], rd[c] + 1, rd[c] + Len(bytes))
             /\ \E text \in Seq(Byte) :
                  /\ (\A k \in 1 .. Len(bytes) : bytes[k] # Nul) => text = UpperText(bytes)
                  /\ Consume(c, Len(bytes), text)
<1> DEFINE c == conn[table[i].fd]
           bytes == Chunk(c, BufSize)
           text == UpperText(IF prog.name = "Makanin" THEN bytes ELSE CString(bytes))
<1>1. i \in 1 .. n /\ pc # "overrun" /\ Unread(c) > 0 /\ Consume(c, Len(bytes), text)
  BY ProgramFacts DEF ReadData, AtReported
<1>2. c \in Clients
  BY <1>1, TableFacts
<1>3. /\ bytes \in Seq(Byte) /\ Len(bytes) \in Nat /\ Len(bytes) > 0 /\ Len(bytes) <= Unread(c)
      /\ bytes = SubSeq(sent[c], rd[c] + 1, rd[c] + Len(bytes))
      /\ UpperText(bytes) \in Seq(Byte) /\ UpperText(CString(bytes)) \in Seq(Byte)
  BY <1>1, <1>2, ReadFacts, CompactAssumption DEF IInv
<1> HIDE DEF c, bytes
<1>4. (\A k \in 1 .. Len(bytes) : bytes[k] # Nul) => CString(bytes) = bytes
  BY <1>3, CStringWhole
<1>5. text \in Seq(Byte)
  BY <1>3
<1>6. (\A k \in 1 .. Len(bytes) : bytes[k] # Nul) => text = UpperText(bytes)
  BY <1>4
<1> HIDE DEF text
<1>7. QED
  BY <1>1, <1>2, <1>3, <1>5, <1>6 DEF c, bytes

\* A read empties no stream but the one of its entry.
LEMMA ReadDataInv ==
  ASSUME IInv, ReadData
  PROVE  IInv'
<1> DEFINE c == conn[table[i].fd]
           bytes == Chunk(c, BufSize)
<1>1. PICK text \in Seq(Byte) : Consume(c, Len(bytes), text)
  BY ReadIsPrinted
<1>2. i \in 1 .. n /\ c \in Clients /\ Len(bytes) \in Nat /\ Len(bytes) <= Unread(c)
  BY ReadIsPrinted
<1>3. /\ pc = "walk" /\ i' = i + 1
      /\ prog' = prog /\ table' = table /\ n' = n /\ listen' = listen
      /\ pc' = pc /\ newest' = newest
  BY DEF ReadData, AtReported
<1> HIDE DEF bytes
<1>4. SocketInv'
  BY <1>1, <1>2, ConsumeInv DEF IInv
<1>5. /\ conn' = conn /\ backlog' = backlog /\ OpenFds' = OpenFds
      /\ \A d \in Clients \ {c} : Readable(d)' = Readable(d)
  BY <1>1, <1>2, ConsumeFrame DEF IInv
<1>6. TypeOK'
  BY <1>2, <1>3, <1>4, ProgramFacts
     DEF IInv, BlindOnlyOnNewest, DenseTable, TypeOK, SocketInv, Index
<1>7. DenseTable'
  BY <1>3, <1>5, <1>6 DEF IInv, BlindOnlyOnNewest, DenseTable
<1>8. \A k \in 1 .. n : k # i => (Fresh(k)' <=> Fresh(k))
  <2> SUFFICES ASSUME NEW k \in 1 .. n, k # i PROVE Fresh(k)' <=> Fresh(k)
    OBVIOUS
  <2>1. conn[table[k].fd] \in Clients \ {c}
    BY <1>2, <1>3, TableFacts
  <2>2. QED
    BY <1>3, <1>5, <2>1 DEF Fresh
<1>9. BlindOnlyOnNewest'
  <2>1. SUFFICES ASSUME NEW k \in 1 .. n, k >= i + 1, ~Fresh(k)
                 PROVE  prog.name = "Bedareva" /\ table[k].fd = newest
    <3>1. \A k \in 1 .. n : k >= i + 1 => k # i
      BY ProgramFacts
    <3>2. QED
      BY <1>3, <1>5, <1>7, <1>8, <3>1 DEF BlindOnlyOnNewest, Fresh
  <2>2. k >= i
    BY <2>1, ProgramFacts
  <2>3. QED
    BY <1>3, <2>1, <2>2 DEF IInv, BlindOnlyOnNewest, Fresh
<1>10. LimitIsKept' /\ Announced'
  BY <1>3, <1>5 DEF IInv, LimitIsKept, Announced
<1>11. QED
  BY <1>4, <1>9, <1>10 DEF IInv

\* A client that left is replaced by the last one: the entries are again the
\* open connections, and the entries still to be walked are as poll() left them.
LEMMA ReadEofInv ==
  ASSUME IInv, ReadEof
  PROVE  IInv'
<1> DEFINE f == table[i].fd
<1>1. /\ pc = "walk" /\ i \in 1 .. n /\ n - 1 \in Nat /\ i \in Index /\ n \in Index /\ n \in 1 .. n
      /\ CloseFd(f) /\ f \in Fds /\ f \in OpenFds
  BY ProgramFacts, TableFacts DEF ReadEof, AtReported
<1>2. /\ prog' = prog /\ n' = n - 1 /\ i' = i + 1 /\ pc' = pc /\ newest' = newest
      /\ Index' = Index
      /\ listen' = [listen EXCEPT !.on = TRUE]
  BY DEF ReadEof, Index
<1>3. SocketInv' /\ OpenFds' = OpenFds \ {f}
  BY <1>1, CloseInv DEF IInv
<1>4. /\ table' \in [Index -> Entry]
      /\ \A k \in 1 .. n - 1 : table'[k] = IF k = i THEN table[n] ELSE table[k]
  <2>1. table \in [Index -> Entry]
    BY DEF IInv, BlindOnlyOnNewest, DenseTable, TypeOK
  <2>2. \A k \in 1 .. n - 1 : k \in Index /\ k # n
    BY ProgramFacts
  <2>3. PICK g \in Fds \cup {NoFd} :
          table' = [[table EXCEPT ![i] = table[n]] EXCEPT ![n].fd = g]
    <3>1. table[n].fd \in Fds \cup {NoFd}
      BY <1>1, <2>1 DEF Entry
    <3>2. [table EXCEPT ![i] = table[n]][n].fd = table[n].fd
      BY <1>1, <2>1
    <3>3. QED
      BY <3>1, <3>2 DEF ReadEof
  <2>4. QED
    BY <1>1, <2>1, <2>2, <2>3 DEF Entry
<1> HIDE DEF f
<1>5. TypeOK'
  <2>1. TypeOK
    BY DEF IInv, BlindOnlyOnNewest, DenseTable
  <2>2. n' \in 0 .. prog.max /\ i' \in 1 .. prog.max + 1
    BY <1>1, <1>2, ProgramFacts
  <2>3. listen' \in [on : BOOLEAN, in : BOOLEAN]
    BY <1>2, <2>1 DEF TypeOK
  <2>4. QED
    BY <1>1, <1>2, <1>3, <1>4, <2>1, <2>2, <2>3 DEF TypeOK, SocketInv
<1>6. 1 .. n = 1 .. n - 1 \cup {n} /\ n \notin 1 .. n - 1
  BY <1>1, ProgramFacts
<1>7. DenseTable'
  <2>1. {table[k].fd : k \in 1 .. n} = OpenFds
        /\ \A j, k \in 1 .. n : table[j].fd = table[k].fd => j = k
    BY <1>1 DEF IInv, BlindOnlyOnNewest, DenseTable
  <2>2. \A j, k \in 1 .. n' : table'[j].fd = table'[k].fd => j = k
    BY <1>1, <1>2, <1>4, <1>6, <2>1
  <2>3. ASSUME NEW k \in 1 .. n'
        PROVE  table'[k].fd \in OpenFds'
    <3>1. PICK j \in 1 .. n : table'[k].fd = table[j].fd /\ j # i
      <4>1. CASE k = i
        BY <1>1, <1>2, <1>4, <1>6, <4>1
      <4>2. CASE k # i
        BY <1>2, <1>4, <1>6, <4>2
      <4>3. QED
        BY <4>1, <4>2
    <3>2. QED
      BY <1>1, <1>3, <2>1, <3>1 DEF f
  <2>4. ASSUME NEW g \in OpenFds'
        PROVE  \E k \in 1 .. n' : table'[k].fd = g
    <3>1. PICK j \in 1 .. n : table[j].fd = g /\ j # i
      BY <1>3, <2>1 DEF f
    <3>2. CASE j = n
      <4>1. i \in 1 .. n - 1
        BY <1>1, <1>6, <3>1, <3>2
      <4>2. QED
        BY <1>2, <1>4, <3>1, <3>2, <4>1
    <3>3. CASE j # n
      BY <1>2, <1>4, <1>6, <3>1, <3>3
    <3>4. QED
      BY <3>2, <3>3
  <2>5. {table'[k].fd : k \in 1 .. n'} = OpenFds'
    BY <2>3, <2>4
  <2>6. QED
    BY <1>5, <2>2, <2>5 DEF DenseTable
<1>8. ASSUME NEW k \in 1 .. n', k >= i + 1
      PROVE  /\ k \in 1 .. n /\ k # i /\ k >= i
             /\ table'[k] = table[k]
             /\ Fresh(k) => Fresh(k)'
  <2> k \in 1 .. n - 1
    BY <1>2
  <2>1. k \in 1 .. n /\ k # i /\ k >= i
    BY <1>1, <1>8, ProgramFacts
  <2>2. table'[k] = table[k]
    BY <1>4, <2>1
  <2>3. table[k].fd \in Fds /\ table[k].fd # f /\ conn[table[k].fd] \in Clients
    BY <1>1, <2>1, TableFacts DEF f
  <2>4. /\ conn'[table[k].fd] = conn[table[k].fd]
        /\ \A d \in Clients : Readable(d)' = Readable(d)
    BY <1>1, <2>3, CloseFrame DEF IInv
  <2>5. QED
    BY <2>1, <2>2, <2>3, <2>4 DEF Fresh
<1>9. BlindOnlyOnNewest'
  <2> SUFFICES ASSUME NEW k \in 1 .. n', k >= i + 1, ~Fresh(k)'
               PROVE  prog.name = "Bedareva" /\ table'[k].fd = newest
    BY <1>2, <1>7 DEF BlindOnlyOnNewest, Fresh
  <2>1. k \in 1 .. n /\ k >= i /\ table'[k] = table[k] /\ ~Fresh(k)
    BY <1>8 DEF Fresh
  <2>2. QED
    BY <1>1, <2>1 DEF IInv, BlindOnlyOnNewest, Fresh
<1>10. listen'.on = TRUE /\ listen'.in = listen.in
  BY <1>2 DEF IInv, BlindOnlyOnNewest, DenseTable, TypeOK
<1>11. LimitIsKept'
  BY <1>1, <1>2, <1>10, ProgramFacts DEF LimitIsKept
<1>12. Announced'
  <2>1. backlog' = backlog
    BY <1>1 DEF CloseFd
  <2>2. n < prog.max => n - 1 < prog.max
    BY ProgramFacts
  <2>3. QED
    BY <1>1, <1>2, <1>10, <2>1, <2>2 DEF IInv, Announced
<1>13. QED
  BY <1>3, <1>9, <1>11, <1>12 DEF IInv

\* A client only makes more connections readable.
LEMMA ClientInv ==
  ASSUME IInv, NEW c \in Clients, Client(c)
  PROVE  IInv'
<1>1. Connect(c) \/ Hangup(c) \/ \E bytes \in Seq(Byte) : Write(c, bytes)
  BY CompactAssumption DEF Client
<1>2. /\ SocketInv' /\ conn' = conn /\ OpenFds' = OpenFds
      /\ backlog # <<>> => backlog' # <<>>
      /\ \A d \in Clients : Readable(d) => Readable(d)'
  BY <1>1, ClientFrame DEF IInv
<1>3. UNCHANGED serverVars
  BY DEF Client
<1>4. DenseTable'
  BY <1>2, <1>3
     DEF IInv, BlindOnlyOnNewest, DenseTable, TypeOK, SocketInv, Index, serverVars
<1>5. pc # "overrun" => \A k \in 1 .. n : Fresh(k) => Fresh(k)'
  BY <1>2, <1>3, TableFacts DEF Fresh, serverVars
<1>6. BlindOnlyOnNewest'
  BY <1>3, <1>4, <1>5 DEF IInv, BlindOnlyOnNewest, Fresh, serverVars
<1>7. LimitIsKept' /\ Announced'
  BY <1>2, <1>3, <1>5 DEF IInv, LimitIsKept, Announced, serverVars
<1>8. QED
  BY <1>2, <1>6, <1>7 DEF IInv

\* A step that changes nothing keeps the invariant.
LEMMA StutterInv ==
  ASSUME IInv, UNCHANGED vars
  PROVE  IInv'
<1>1. UNCHANGED socketVars /\ UNCHANGED serverVars
  BY DEF vars
<1>2. SocketInv' /\ conn' = conn /\ OpenFds' = OpenFds /\ backlog' = backlog
      /\ \A d \in Clients : Readable(d)' = Readable(d)
  BY <1>1, QuietFrame DEF IInv
<1>3. DenseTable'
  BY <1>1, <1>2
     DEF IInv, BlindOnlyOnNewest, DenseTable, TypeOK, SocketInv, Index, serverVars
<1>4. pc # "overrun" => \A k \in 1 .. n : Fresh(k)' <=> Fresh(k)
  BY <1>1, <1>2, TableFacts DEF Fresh, serverVars
<1>5. BlindOnlyOnNewest'
  BY <1>1, <1>3, <1>4 DEF IInv, BlindOnlyOnNewest, Fresh, serverVars
<1>6. LimitIsKept' /\ Announced'
  BY <1>1, <1>2, <1>4 DEF IInv, LimitIsKept, Announced, serverVars
<1>7. QED
  BY <1>2, <1>5, <1>6 DEF IInv

\* The inductive invariant holds.
THEOREM Inductive == Spec => []IInv
<1>1. Init => IInv
  BY InitInv
<1>2. IInv /\ [Next]_vars => IInv'
  BY PollInv, AcceptStepInv, PastEndInv, LoopInv, ReadDataInv, ReadEofInv, ClientInv, StutterInv
     DEF Next, Server
<1>3. QED
  BY <1>1, <1>2, PTL DEF Spec

\* Compaction loses and doubles nobody, and the server blocks in read() only in
\* the program that walks over the entry it has just added, and only there.
THEOREM BlocksOnlyOnNewest == Spec => []BlindOnlyOnNewest
<1>1. IInv => BlindOnlyOnNewest
  BY DEF IInv
<1>2. QED
  BY <1>1, Inductive, PTL

\* The program with a limit never writes past its array, and it listens exactly
\* while there is room.
THEOREM LimitKept == Spec => []LimitIsKept
<1>1. IInv => LimitIsKept
  BY DEF IInv
<1>2. QED
  BY <1>1, Inductive, PTL

\* Neither program blocks in accept().
THEOREM AcceptsAreAnnounced == Spec => []AcceptNeverBlocks
<1>1. IInv => AcceptNeverBlocks
  BY DEF IInv, Announced, AcceptNeverBlocks
<1>2. QED
  BY <1>1, Inductive, PTL

-----------------------------------------------------------------------------
(*****************************************************************************)
(* What reaches the terminal.                                                *)
(*****************************************************************************)
LEMMA DeliveryStep ==
  ASSUME IInv, NothingDropped, [Next]_vars
  PROVE  NothingDropped'
<1>1. CASE ReadData
  <2> DEFINE c == conn[table[i].fd]
             bytes == Chunk(c, BufSize)
  <2>1. /\ c \in Clients /\ bytes \in Seq(Byte) /\ Len(bytes) > 0 /\ Len(bytes) <= Unread(c)
        /\ bytes = SubSeq(sent[c], rd[c] + 1, rd[c] + Len(bytes))
    BY <1>1, ReadIsPrinted
  <2>2. PICK text \in Seq(Byte) :
          /\ (\A k \in 1 .. Len(bytes) : bytes[k] # Nul) => text = UpperText(bytes)
          /\ Consume(c, Len(bytes), text)
    BY <1>1, ReadIsPrinted
  <2> HIDE DEF c, bytes
  <2>3. QED
    BY <2>1, <2>2, ReadKeepsDelivery DEF IInv
<1>2. ASSUME NEW c \in Clients, Client(c) PROVE NothingDropped'
  <2>1. CASE \E bytes \in Seq(Byte) : Write(c, bytes)
    BY <2>1, WriteSends DEF IInv
  <2>2. CASE Connect(c) \/ Hangup(c)
    BY <2>2, QuietDelivery DEF Connect, Hangup
  <2>3. QED
    BY <1>2, <2>1, <2>2, CompactAssumption DEF Client
<1>3. CASE (Server /\ ~ReadData) \/ UNCHANGED vars
  <2>1. UNCHANGED <<sent, rd, shown>>
    BY <1>3 DEF Server, Poll, NothingToAccept, Accept, AcceptPastEnd, AcceptFails, Skip, ReadEof,
                WalkEnds, AcceptInto, CloseFd, vars, socketVars
  <2>2. QED
    BY <2>1, QuietDelivery
<1>4. QED
  BY <1>1, <1>2, <1>3 DEF Next

\* A client that sends no '\0' sees, of either program, exactly what was read
\* from it, in upper case: no compaction mixes two streams.
THEOREM StreamsAreShown == Spec => []NothingDropped
<1>1. Init => NothingDropped
  BY InitDelivery DEF Init
<1>2. IInv /\ NothingDropped /\ [Next]_vars => NothingDropped'
  BY DeliveryStep
<1>3. QED
  BY <1>1, <1>2, Inductive, PTL DEF Spec

=============================================================================
