--------------------------- MODULE PollProofs ---------------------------
(*****************************************************************************)
(* The poll() servers whose entries stay where they are, over fixed slots    *)
(* (SlotPollServer) and with two poll() calls (TwoPollServer), for every     *)
(* number of clients, entries, descriptors and bytes.                        *)
(*****************************************************************************)
EXTENDS SlotPollServer, TwoPollServer, SocketTheorems

-----------------------------------------------------------------------------
(*****************************************************************************)
(* Fixed slots: SlotPollServer.                                              *)
(*                                                                           *)
(* FreshEvents is kept by a step only because no two descriptors lead to one *)
(* client (SocketInv): a read would otherwise empty a connection that is     *)
(* reported for another slot. That a read finds bytes, and never an end of   *)
(* file, needs what the reported events were made of: DataWaits.             *)
(*****************************************************************************)
\* A slot for which poll() reported POLLIN without POLLHUP has bytes to read:
\* the branches of the walk for a read() of 0 or -1 are never taken.
DataWaits ==
  \A k \in pending : k # 0 /\ revents[k] = {"in"} => Unread(conn[slot[k]]) > 0

IInv == SocketInv /\ FreshEvents /\ DataWaits

\* What poll() can report of the three kinds of entries.
EventsAre ==
  /\ Events(Unused) = {}
  /\ Events(ServerFd) \subseteq {"in"}
  /\ "in" \in Events(ServerFd) <=> backlog # <<>>
  /\ \A f \in Fds : /\ Events(f) \subseteq Event
                    /\ "in" \in Events(f) <=> Readable(conn[f])
                    /\ "hup" \in Events(f) <=> phase[conn[f]] = "closed"

\* An entry is free, the listening socket or a connection.
LEMMA EntryKinds ==
  ServerFd # Unused /\ Unused \notin Fds /\ ServerFd \notin Fds
  BY SocketAssumption DEF Fds, Unused

\* The sets of events, spelled out.
LEMMA EventsFacts == EventsAre
<1>1. Events(Unused) = {}
  BY EntryKinds DEF Events
<1>2. Events(ServerFd) = {e \in {"in"} : backlog # <<>>}
  BY EntryKinds DEF Events
<1>3. ASSUME NEW f \in Fds
      PROVE  Events(f) = {e \in Event : \/ e = "in" /\ Readable(conn[f])
                                        \/ e = "hup" /\ phase[conn[f]] = "closed"}
  BY EntryKinds DEF Events
<1>4. QED
  BY <1>1, <1>2, <1>3 DEF Event, EventsAre

\* The same after a step.
LEMMA EventsFactsNext == EventsAre'
  BY EventsFacts, PTL

\* Slots hold the listening socket, open connections and nothing else; a
\* reported slot other than 0 is an open connection.
LEMMA SlotFacts ==
  ASSUME IInv
  PROVE  /\ 0 \in Index /\ Index \subseteq Nat
         /\ \A k \in Index : slot[k] \in Fds \cup {ServerFd, Unused}
         /\ \A k \in Index : slot[k] = ServerFd => k = 0
         /\ \A k \in Index \ {0} : slot[k] # Unused => slot[k] \in OpenFds
         /\ \A f \in OpenFds : \E k \in Index \ {0} : slot[k] = f
         /\ \A k \in pending : k \in Index /\ (k # 0 => slot[k] \in OpenFds)
         /\ 0 \in pending => backlog # <<>>
<1> USE DEF IInv, FreshEvents, SlotTable, TypeOK
<1>1. PICK n \in Sizes : slot \in [0 .. n -> Fds \cup {ServerFd, Unused}]
  OBVIOUS
<1>2. n \in Nat /\ Index = 0 .. n
  BY <1>1, SlotAssumption DEF Index
<1>3. ServerFd # Unused /\ ServerFd \notin Fds
  BY EntryKinds
<1>4. \A k \in Index : slot[k] = ServerFd => k = 0
  BY <1>2, <1>3
<1>5. \A k \in Index \ {0} : slot[k] # Unused => slot[k] \in OpenFds
  BY <1>4
<1>6. \A f \in OpenFds : \E k \in Index \ {0} : slot[k] = f
  BY <1>2, <1>3 DEF OpenFds
<1>7. \A k \in pending : k \in Index /\ slot[k] # Unused
  BY EventsFacts, EntryKinds DEF EventsAre
<1>8. 0 \in pending => backlog # <<>>
  BY EventsFacts, EntryKinds DEF EventsAre
<1>9. QED
  BY <1>1, <1>2, <1>4, <1>5, <1>6, <1>7, <1>8

\* What was reported stays true of a slot whose connection is the same and has
\* not been read from.
LEMMA ReportsKept ==
  ASSUME IInv, SlotTable', revents' = revents, pending' \subseteq pending,
         0 \in pending' => backlog' # <<>>,
         \A k \in pending' \ {0} :
           /\ slot'[k] = slot[k] /\ conn'[slot[k]] = conn[slot[k]]
           /\ \A d \in Clients : d = conn[slot[k]] =>
                /\ Unread(d)' \in Nat /\ Unread(d) <= Unread(d)'
                /\ phase[d] = "closed" => phase'[d] = "closed"
                /\ Readable(d) => Readable(d)'
  PROVE  FreshEvents' /\ DataWaits'
<1>1. ASSUME NEW k \in pending'
      PROVE  (revents[k] # {} /\ revents[k] \subseteq Events(slot[k]))'
  <2>1. k \in pending /\ revents[k] # {} /\ revents[k] \subseteq Events(slot[k])
    BY DEF IInv, FreshEvents
  <2>2. CASE k = 0
    <3>1. slot[0] = ServerFd /\ slot'[0] = ServerFd
      BY DEF IInv, FreshEvents, SlotTable
    <3>2. "in" \in Events(ServerFd)' /\ Events(ServerFd) \subseteq {"in"}
      BY <2>2, EventsFacts, EventsFactsNext DEF EventsAre
    <3>3. QED
      BY <2>1, <2>2, <3>1, <3>2
  <2>3. CASE k # 0
    <3> DEFINE f == slot[k]
               c == conn[f]
    <3>1. f \in OpenFds /\ f \in Fds /\ c \in Clients
      BY <2>1, <2>3, SlotFacts, OpenFdFacts DEF IInv
    <3>2. slot'[k] = f /\ conn'[f] = c
      BY <2>3
    <3>3. /\ phase[c] = "closed" => phase'[c] = "closed"
          /\ Readable(c) => Readable(c)'
      BY <2>3, <3>1, <3>2
    <3>4. /\ "in" \in Events(f) <=> Readable(c)
          /\ "hup" \in Events(f) <=> phase[c] = "closed"
          /\ Events(f) \subseteq Event
      BY <3>1, EventsFacts DEF EventsAre
    <3>5. /\ "in" \in Events(f)' <=> Readable(c)'
          /\ "hup" \in Events(f)' <=> phase'[c] = "closed"
      BY <3>1, <3>2, EventsFactsNext DEF EventsAre
    <3>6. revents[k] \subseteq Events(f)'
      BY <2>1, <3>3, <3>4, <3>5 DEF Event
    <3>7. QED
      BY <2>1, <3>2, <3>6
  <2>4. QED
    BY <2>2, <2>3
<1>2. ASSUME NEW k \in pending', k # 0, revents'[k] = {"in"}
      PROVE  (Unread(conn[slot[k]]) > 0)'
  <2>1. k \in pending /\ slot[k] \in OpenFds
    BY <1>2, SlotFacts
  <2>2. conn[slot[k]] \in Clients /\ Unread(conn[slot[k]]) > 0
    BY <1>2, <2>1, OpenFdFacts DEF IInv, DataWaits
  <2>3. PICK d \in Clients : d = conn[slot[k]]
    BY <2>2
  <2>4. d = conn'[slot'[k]] /\ Unread(d) > 0 /\ Unread(d)' \in Nat /\ Unread(d) <= Unread(d)'
        /\ Unread(d) \in Nat
    BY <1>2, <2>2, <2>3, OpenFdFacts DEF IInv
  <2>5. QED
    BY <2>4 DEF Unread
<1>3. QED
  BY <1>1, <1>2 DEF FreshEvents, DataWaits

\* The server starts with the listening socket in its slot.
LEMMA InitInv == Init => IInv
<1> SUFFICES ASSUME Init PROVE IInv
  OBVIOUS
<1>1. PICK n \in Sizes : slot = [k \in 0 .. n |-> IF k = 0 THEN ServerFd ELSE Unused]
  BY DEF Init
<1>2. n \in Nat \ {0} /\ Index = 0 .. n
  BY <1>1, SlotAssumption DEF Index
<1>3. SocketInv
  BY SocketInitInv DEF Init
<1>4. OpenFds = {}
  BY DEF Init, SocketInit, OpenFds
<1>5. TypeOK
  BY <1>1, <1>2, <1>3 DEF Init, TypeOK, SocketInv
<1>6. SlotTable
  BY <1>1, <1>2, <1>4, <1>5, EntryKinds DEF SlotTable
<1>7. QED
  BY <1>3, <1>6 DEF Init, IInv, FreshEvents, DataWaits

\* poll() reports what holds when it returns.
LEMMA PollInv ==
  ASSUME IInv, Poll
  PROVE  IInv'
<1> USE DEF Poll
<1>1. SocketInv'
  BY DEF IInv, SocketInv, SocketType, OpenFds, Waiting, Accepted, socketVars
<1>2. Index' = Index /\ OpenFds' = OpenFds
  BY DEF Index, OpenFds, socketVars
<1>3. \A f : Events(f)' = Events(f)
  BY DEF Events, Readable, Unread, socketVars
<1>4. \A k \in Index : Events(slot[k]) \subseteq Event
  <2>1. \A k \in Index : slot[k] \in Fds \cup {ServerFd, Unused}
    BY SlotFacts
  <2>2. QED
    BY <2>1, EventsFacts DEF EventsAre, Event
<1>5. revents' \in [Index' -> SUBSET Event] /\ pending' \subseteq Index'
  BY <1>2, <1>4
<1>6. TypeOK'
  BY <1>1, <1>5 DEF IInv, FreshEvents, SlotTable, TypeOK, SocketInv
<1>7. SlotTable'
  BY <1>2, <1>6 DEF IInv, FreshEvents, SlotTable
<1>8. \A k \in pending' : (revents[k] # {} /\ revents[k] \subseteq Events(slot[k]))'
  BY <1>3
<1>9. ASSUME NEW k \in pending', k # 0, revents'[k] = {"in"}
      PROVE  (Unread(conn[slot[k]]) > 0)'
  <2>1. k \in Index /\ Events(slot[k]) = {"in"}
    BY <1>9
  <2>2. slot[k] \in OpenFds /\ slot[k] \in Fds
    BY <1>9, <2>1, SlotFacts, EventsFacts, OpenFdFacts DEF EventsAre, IInv
  <2>3. Readable(conn[slot[k]]) /\ phase[conn[slot[k]]] # "closed"
    BY <2>1, <2>2, EventsFacts DEF EventsAre
  <2>4. QED
    BY <2>3 DEF Readable, Unread, socketVars
<1>10. QED
  BY <1>1, <1>7, <1>8, <1>9 DEF IInv, FreshEvents, DataWaits

\* What every step of the walk has in common.
LEMMA AtFacts ==
  ASSUME IInv, NEW k, At(k)
  PROVE  /\ k \in pending /\ k \in Index
         /\ revents' = revents /\ pending' = pending \ {k}
         /\ 0 \in pending' => k # 0 /\ backlog # <<>>
         /\ \A j \in pending' : j \in Index /\ j # k /\ (j # 0 => slot[j] \in OpenFds)
  BY SlotFacts DEF At

\* A hang-up frees the slot and closes its descriptor.
LEMMA CloseOnErrorInv ==
  ASSUME IInv, NEW k \in Index, CloseOnError(k)
  PROVE  IInv'
<1> DEFINE f == slot[k]
<1>1. At(k) /\ "hup" \in revents[k] /\ CloseFd(f) /\ slot' = [slot EXCEPT ![k] = Unused]
  BY DEF CloseOnError
<1>2. k # 0 /\ f \in OpenFds /\ f \in Fds
  <2>1. revents[k] \subseteq Events(f)
    BY <1>1, AtFacts DEF IInv, FreshEvents
  <2>2. f # ServerFd
    BY <1>1, <2>1, EventsFacts DEF EventsAre
  <2>3. k # 0
    BY <2>2 DEF IInv, FreshEvents, SlotTable
  <2>4. QED
    BY <1>1, <2>3, AtFacts, SlotFacts, OpenFdFacts DEF IInv
<1> HIDE DEF f
<1>3. SocketInv' /\ OpenFds' = OpenFds \ {f}
  BY <1>1, <1>2, CloseInv DEF IInv
<1>4. Index' = Index
  BY <1>1 DEF Index
<1>5. \A j \in Index : slot'[j] = IF j = k THEN Unused ELSE slot[j]
  BY <1>1 DEF Index
<1>6. TypeOK'
  <2>1. PICK n \in Sizes : slot \in [0 .. n -> Fds \cup {ServerFd, Unused}]
    BY DEF IInv, FreshEvents, SlotTable, TypeOK
  <2>2. slot' \in [0 .. n -> Fds \cup {ServerFd, Unused}]
    BY <1>1, <2>1
  <2>3. revents' \in [Index' -> SUBSET Event] /\ pending' \subseteq Index'
    BY <1>1, <1>4 DEF At, IInv, FreshEvents, SlotTable, TypeOK
  <2>4. QED
    BY <1>3, <2>2, <2>3 DEF TypeOK, SocketInv
<1>7. SlotTable'
  <2>1. slot'[0] = ServerFd
    BY <1>2, <1>5, SlotFacts DEF IInv, FreshEvents, SlotTable
  <2>2. \A i, j \in Index' : slot'[i] = slot'[j] /\ slot'[i] # Unused => i = j
    BY <1>4, <1>5 DEF IInv, FreshEvents, SlotTable
  <2>3. \A j \in Index : slot[j] = f => j = k
    BY <1>2, EntryKinds DEF IInv, FreshEvents, SlotTable, f
  <2>4. {slot'[j] : j \in Index'} \ {Unused, ServerFd} = OpenFds'
    <3>1. {slot'[j] : j \in Index} \ {Unused, ServerFd}
            = ({slot[j] : j \in Index} \ {Unused, ServerFd}) \ {f}
      BY <1>5, <2>3 DEF f
    <3>2. QED
      BY <1>3, <1>4, <3>1 DEF IInv, FreshEvents, SlotTable
  <2>5. QED
    BY <1>6, <2>1, <2>2, <2>4 DEF SlotTable
<1>8. FreshEvents' /\ DataWaits'
  <2>1. 0 \in pending' => backlog' # <<>>
    BY <1>1, <1>2, AtFacts DEF CloseFd
  <2>2. ASSUME NEW j \in pending' \ {0}
        PROVE  /\ slot'[j] = slot[j] /\ conn'[slot[j]] = conn[slot[j]]
    <3>1. j \in Index /\ j # k /\ slot[j] \in OpenFds /\ slot[j] \in Fds
      BY <1>1, AtFacts, OpenFdFacts DEF IInv
    <3>2. slot[j] # f
      BY <1>2, <3>1, EntryKinds DEF IInv, FreshEvents, SlotTable, f
    <3>3. QED
      BY <1>1, <1>2, <1>5, <3>1, <3>2, CloseFrame DEF IInv
  <2>3. \A d \in Clients : /\ Unread(d) \in Nat /\ Unread(d)' = Unread(d)
                           /\ phase'[d] = phase[d] /\ Readable(d)' = Readable(d)
    BY <1>1, <1>2, CloseFrame, OpenFdFacts DEF IInv
  <2>4. \A d \in Clients : Unread(d)' \in Nat /\ Unread(d) <= Unread(d)'
    BY <2>3
  <2>5. revents' = revents /\ pending' \subseteq pending
    BY <1>1 DEF At
  <2>6. QED
    BY <1>7, <2>1, <2>2, <2>3, <2>4, <2>5, ReportsKept
<1>9. QED
  BY <1>3, <1>8 DEF IInv

\* accept() fills the first free slot, whose events are of an earlier owner or none.
LEMMA AcceptStepInv ==
  ASSUME IInv, Accept
  PROVE  IInv'
<1>1. PICK f \in Fds, k \in Index :
        /\ FirstUnused(k) /\ AcceptInto(f) /\ slot' = [slot EXCEPT ![k] = f]
  BY DEF Accept
<1>2. At(0)
  BY DEF Accept
<1>3. SocketInv' /\ OpenFds' = OpenFds \cup {f} /\ f \notin OpenFds
  BY <1>1, AcceptInv DEF IInv
<1>4. k # 0 /\ slot[k] = Unused
  BY <1>1 DEF FirstUnused
<1>5. Index' = Index /\ \A j \in Index : slot'[j] = IF j = k THEN f ELSE slot[j]
  BY <1>1 DEF Index
<1>6. TypeOK'
  <2>1. PICK n \in Sizes : slot \in [0 .. n -> Fds \cup {ServerFd, Unused}]
    BY DEF IInv, FreshEvents, SlotTable, TypeOK
  <2>2. slot' \in [0 .. n -> Fds \cup {ServerFd, Unused}]
    BY <1>1, <2>1
  <2>3. revents' \in [Index' -> SUBSET Event] /\ pending' \subseteq Index'
    BY <1>2, <1>5 DEF At, IInv, FreshEvents, SlotTable, TypeOK
  <2>4. QED
    BY <1>3, <2>2, <2>3 DEF TypeOK, SocketInv
<1>7. SlotTable'
  <2>1. slot'[0] = ServerFd
    BY <1>4, <1>5, SlotFacts DEF IInv, FreshEvents, SlotTable
  <2>2. \A j \in Index : slot[j] # f
    BY <1>3, EntryKinds DEF IInv, FreshEvents, SlotTable
  <2>3. \A i, j \in Index' : slot'[i] = slot'[j] /\ slot'[i] # Unused => i = j
    BY <1>5, <2>2 DEF IInv, FreshEvents, SlotTable
  <2>4. {slot'[j] : j \in Index'} \ {Unused, ServerFd} = OpenFds'
    <3>1. f # Unused /\ f # ServerFd
      BY EntryKinds
    <3>2. {slot'[j] : j \in Index} \ {Unused, ServerFd}
            = ({slot[j] : j \in Index} \ {Unused, ServerFd}) \cup {f}
      BY <1>4, <1>5, <3>1
    <3>3. QED
      BY <1>3, <1>5, <3>2 DEF IInv, FreshEvents, SlotTable
  <2>5. QED
    BY <1>6, <2>1, <2>3, <2>4 DEF SlotTable
<1>8. FreshEvents' /\ DataWaits'
  <2>1. 0 \notin pending' /\ revents' = revents /\ pending' \subseteq pending
    BY <1>2 DEF At
  <2>2. ASSUME NEW j \in pending' \ {0}
        PROVE  /\ slot'[j] = slot[j] /\ conn'[slot[j]] = conn[slot[j]]
    <3>1. j \in Index /\ slot[j] \in OpenFds /\ slot[j] \in Fds
      BY <1>2, AtFacts, OpenFdFacts DEF IInv
    <3>2. slot[j] # f /\ j # k
      BY <1>3, <1>4, <3>1, EntryKinds
    <3>3. QED
      BY <1>1, <1>5, <3>1, <3>2, AcceptFrame DEF IInv
  <2>3. \A d \in Clients : /\ Unread(d) \in Nat /\ Unread(d)' = Unread(d)
                           /\ phase'[d] = phase[d] /\ Readable(d)' = Readable(d)
    BY <1>1, AcceptFrame, OpenFdFacts DEF IInv, AcceptInto
  <2>4. \A d \in Clients : Unread(d)' \in Nat /\ Unread(d) <= Unread(d)'
    BY <2>3
  <2>5. QED
    BY <1>7, <2>1, <2>2, <2>3, <2>4, ReportsKept
<1>9. QED
  BY <1>3, <1>8 DEF IInv

\* The table is untouched by a step that opens and closes nothing.
LEMMA SlotTableKept ==
  ASSUME SlotTable, SocketInv', OpenFds' = OpenFds, slot' = slot,
         revents' = revents, pending' \subseteq pending
  PROVE  SlotTable'
<1>1. Index' = Index
  BY DEF Index
<1>2. TypeOK'
  BY <1>1 DEF SlotTable, TypeOK, SocketInv
<1>3. QED
  BY <1>1, <1>2 DEF SlotTable

\* A client for whom there is no slot is accepted and closed at once.
LEMMA RefuseInv ==
  ASSUME IInv, Refuse
  PROVE  IInv'
<1>1. 0 \in pending /\ backlog # <<>>
  BY SlotFacts DEF At, Refuse
<1>2. SocketInv' /\ OpenFds' = OpenFds
  <2>1. DropHead
    BY <1>1 DEF DropHead, Refuse
  <2>2. SocketInv
    BY DEF IInv
  <2>3. QED
    BY <2>1, <2>2, DropInv
<1> USE DEF Refuse
<1>3. 0 \notin pending' /\ pending' \subseteq pending /\ revents' = revents
  BY DEF At
<1>4. SlotTable'
  BY <1>2, <1>3, SlotTableKept DEF IInv, FreshEvents
<1>5. \A d \in Clients : /\ Unread(d) \in Nat /\ Unread(d)' = Unread(d)
                         /\ Readable(d)' = Readable(d)
  BY OpenFdFacts DEF IInv, Unread, Readable
<1>6. \A d \in Clients : Unread(d)' \in Nat /\ Unread(d) <= Unread(d)'
  BY <1>5
<1>7. FreshEvents' /\ DataWaits'
  BY <1>3, <1>4, <1>5, <1>6, ReportsKept
<1>8. QED
  BY <1>2, <1>7 DEF IInv

\* accept() that fails changes the walk only.
LEMMA AcceptFailsInv ==
  ASSUME IInv, AcceptFails
  PROVE  IInv'
<1> USE DEF AcceptFails
<1>1. SocketInv' /\ OpenFds' = OpenFds
  BY QuietFrame DEF IInv
<1>2. 0 \notin pending' /\ pending' \subseteq pending /\ revents' = revents
  BY DEF At
<1>3. SlotTable'
  BY <1>1, <1>2, SlotTableKept DEF IInv, FreshEvents
<1>4. \A d \in Clients : /\ Unread(d) \in Nat /\ Unread(d)' = Unread(d)
                         /\ Readable(d)' = Readable(d)
  BY OpenFdFacts DEF IInv, Unread, Readable, socketVars
<1>5. \A d \in Clients : Unread(d)' \in Nat /\ Unread(d) <= Unread(d)'
  BY <1>4
<1>6. FreshEvents' /\ DataWaits'
  BY <1>2, <1>3, <1>4, <1>5, ReportsKept DEF socketVars
<1>7. QED
  BY <1>1, <1>6 DEF IInv

\* What a read of the walk is: at least one byte, the next ones of the stream.
LEMMA ReadIsData ==
  ASSUME IInv, NEW k \in Index, Read(k)
  PROVE  LET c == conn[slot[k]]
             bytes == Chunk(c, BufSize)
         IN  /\ slot[k] \in OpenFds /\ c \in Clients
             /\ bytes \in Seq(Byte)
             /\ Len(bytes) \in Nat /\ Len(bytes) > 0 /\ Len(bytes) <= Unread(c)
             /\ bytes = SubSeq(sent[c], rd[c] + 1, rd[c] + Len(bytes))
             /\ UpperText(bytes) \in Seq(Byte)
             /\ Consume(c, Len(bytes), UpperText(bytes))
<1>1. At(k) /\ k # 0 /\ revents[k] = {"in"}
  BY DEF Read
<1>2. k \in pending /\ slot[k] \in OpenFds
  BY <1>1, AtFacts, SlotFacts
<1>3. conn[slot[k]] \in Clients /\ Unread(conn[slot[k]]) > 0
  BY <1>1, <1>2, OpenFdFacts DEF IInv, DataWaits
<1>4. BufSize \in Nat \ {0} /\ SocketInv
  BY SlotAssumption DEF IInv
<1> DEFINE bytes == Chunk(conn[slot[k]], BufSize)
<1>5. /\ bytes \in Seq(Byte)
      /\ Len(bytes) \in Nat /\ Len(bytes) > 0 /\ Len(bytes) <= Unread(conn[slot[k]])
      /\ bytes = SubSeq(sent[conn[slot[k]]], rd[conn[slot[k]]] + 1, rd[conn[slot[k]]] + Len(bytes))
      /\ UpperText(bytes) \in Seq(Byte)
  BY <1>3, <1>4, ReadFacts
<1>6. QED
  BY <1>2, <1>3, <1>5 DEF Read

\* A read empties no stream but the one of its slot.
LEMMA ReadInv ==
  ASSUME IInv, NEW k \in Index, Read(k)
  PROVE  IInv'
<1> DEFINE c == conn[slot[k]]
           n == Len(Chunk(c, BufSize))
           text == UpperText(Chunk(c, BufSize))
<1>1. /\ slot[k] \in OpenFds /\ c \in Clients
      /\ n \in Nat /\ n <= Unread(c) /\ text \in Seq(Byte) /\ Consume(c, n, text)
  BY ReadIsData
<1>2. At(k) /\ slot' = slot
  BY DEF Read
<1> HIDE DEF n, text
<1>3. SocketInv'
  BY <1>1, ConsumeInv DEF IInv
<1>4. /\ conn' = conn /\ backlog' = backlog /\ phase' = phase /\ OpenFds' = OpenFds
      /\ \A d \in Clients \ {c} : Unread(d)' = Unread(d) /\ Readable(d)' = Readable(d)
  BY <1>1, ConsumeFrame DEF IInv
<1>5. SlotTable'
  BY <1>2, <1>3, <1>4, SlotTableKept DEF IInv, FreshEvents, At
<1>6. ASSUME NEW j \in pending' \ {0}
      PROVE  conn[slot[j]] # c
  <2>1. j # k /\ j \in Index /\ slot[j] \in OpenFds
    BY <1>2, AtFacts
  <2>2. slot[j] # slot[k]
    BY <2>1, EntryKinds, OpenFdFacts DEF IInv, FreshEvents, SlotTable
  <2>3. QED
    BY <1>1, <2>1, <2>2, OpenFdFacts DEF IInv
<1>7. \A d \in Clients : Unread(d) \in Nat
  BY OpenFdFacts DEF IInv
<1>8. revents' = revents /\ pending' \subseteq pending /\ (0 \in pending' => backlog' # <<>>)
  BY <1>2, <1>4, AtFacts
<1> HIDE DEF c
<1>9. \A d \in Clients \ {c} : Unread(d)' \in Nat /\ Unread(d) <= Unread(d)'
  BY <1>4, <1>7
<1>10. FreshEvents' /\ DataWaits'
  BY <1>2, <1>4, <1>5, <1>6, <1>8, <1>9, ReportsKept
<1>11. QED
  BY <1>3, <1>10 DEF IInv

\* A client only makes more connections readable.
LEMMA ClientInv ==
  ASSUME IInv, NEW c \in Clients, Client(c)
  PROVE  IInv'
<1>1. UNCHANGED serverVars
  BY DEF Client
<1>2. Connect(c) \/ Hangup(c) \/ \E bytes \in Seq(Byte) : Write(c, bytes)
  BY SlotAssumption DEF Client
<1>3. /\ SocketInv' /\ conn' = conn /\ OpenFds' = OpenFds
      /\ backlog # <<>> => backlog' # <<>>
      /\ \A d \in Clients : /\ Unread(d)' \in Nat /\ Unread(d) <= Unread(d)'
                            /\ phase[d] = "closed" => phase'[d] = "closed"
                            /\ Readable(d) => Readable(d)'
  BY <1>2, ClientFrame DEF IInv
<1>4. SlotTable'
  BY <1>1, <1>3, SlotTableKept DEF IInv, FreshEvents, serverVars
<1>5. 0 \in pending' => backlog' # <<>>
  BY <1>1, <1>3, SlotFacts DEF serverVars
<1>6. FreshEvents' /\ DataWaits'
  BY <1>1, <1>3, <1>4, <1>5, ReportsKept DEF serverVars
<1>7. QED
  BY <1>3, <1>6 DEF IInv

\* A step that changes nothing keeps the invariant.
LEMMA StutterInv ==
  ASSUME IInv, UNCHANGED vars
  PROVE  IInv'
<1> USE DEF vars, socketVars, serverVars
<1>1. SocketInv' /\ OpenFds' = OpenFds
  BY DEF IInv, SocketInv, SocketType, OpenFds, Waiting, Accepted
<1>2. SlotTable'
  BY <1>1, SlotTableKept DEF IInv, FreshEvents
<1>3. \A d \in Clients : /\ Unread(d) \in Nat /\ Unread(d)' = Unread(d)
                         /\ Readable(d)' = Readable(d)
  BY OpenFdFacts DEF IInv, Unread, Readable
<1>4. \A d \in Clients : Unread(d)' \in Nat /\ Unread(d) <= Unread(d)'
  BY <1>3
<1>5. 0 \in pending' => backlog' # <<>>
  BY SlotFacts
<1>6. FreshEvents' /\ DataWaits'
  BY <1>2, <1>3, <1>4, <1>5, ReportsKept
<1>7. QED
  BY <1>1, <1>6 DEF IInv

\* IInv is inductive.
LEMMA NextInv == IInv /\ [Next]_vars => IInv'
<1> SUFFICES ASSUME IInv, [Next]_vars PROVE IInv'
  OBVIOUS
<1>1. CASE Poll
  BY <1>1, PollInv
<1>2. CASE Accept
  BY <1>2, AcceptStepInv
<1>3. CASE Refuse
  BY <1>3, RefuseInv
<1>4. CASE AcceptFails
  BY <1>4, AcceptFailsInv
<1>5. ASSUME NEW k \in Index, CloseOnError(k) PROVE IInv'
  BY <1>5, CloseOnErrorInv
<1>6. ASSUME NEW k \in Index, Read(k) PROVE IInv'
  BY <1>6, ReadInv
<1>7. ASSUME NEW c \in Clients, Client(c) PROVE IInv'
  BY <1>7, ClientInv
<1>8. CASE UNCHANGED vars
  BY <1>8, StutterInv
<1>9. QED
  BY <1>1, <1>2, <1>3, <1>4, <1>5, <1>6, <1>7, <1>8 DEF Next, Server

\* Every reachable state satisfies the inductive invariant.
THEOREM Inductive == Spec => []IInv
  BY InitInv, NextInv, PTL DEF Spec

\* Slots, descriptors and reported events agree at every step of the walk: it
\* neither blocks in accept() or read() nor closes or reads another connection.
THEOREM EventsStayFresh == Spec => []FreshEvents
<1>1. IInv => FreshEvents
  BY DEF IInv
<1>2. QED
  BY <1>1, Inductive, PTL

\* The branches of the walk for an end of file and for a failed read() are dead
\* code: POLLIN without POLLHUP means that there are bytes.
THEOREM ReadsAreData == Spec => []DataWaits
<1>1. IInv => DataWaits
  BY DEF IInv
<1>2. QED
  BY <1>1, Inductive, PTL

-----------------------------------------------------------------------------
(*****************************************************************************)
(* What reaches the terminal.                                                *)
(*****************************************************************************)
ServiceStep == [Bytewise!Next]_<<sent, rd, shown>>

\* What a read prints is the upper case of what it took.
LEMMA DeliveryStep ==
  ASSUME IInv, [Next]_vars
  PROVE  ServiceStep
<1>1. ASSUME NEW k \in Index, Read(k) PROVE ServiceStep
  <2> DEFINE c == conn[slot[k]]
             bytes == Chunk(c, BufSize)
             n == rd[c] + Len(bytes)
  <2>1. /\ c \in Clients /\ Len(bytes) \in Nat /\ Len(bytes) > 0 /\ Len(bytes) <= Unread(c)
        /\ bytes = SubSeq(sent[c], rd[c] + 1, n)
        /\ Consume(c, Len(bytes), UpperText(bytes))
    BY <1>1, ReadIsData
  <2>2. rd[c] \in Nat /\ Len(sent[c]) \in Nat
    BY <2>1, LenProperties DEF IInv, SocketInv, SocketType
  <2> HIDE DEF c, bytes
  <2>3. n \in rd[c] + 1 .. Len(sent[c])
    <3>1. Len(bytes) \in Nat /\ Len(bytes) > 0 /\ Len(bytes) <= Len(sent[c]) - rd[c]
      BY <2>1 DEF Unread
    <3>2. QED
      BY <2>2, <3>1
  <2>4. Bytewise!Show(c, n)
    <3>1. rd' = [rd EXCEPT ![c] = n]
      BY <2>1 DEF Consume
    <3>2. shown' = [shown EXCEPT ![c] = @ \o UpperText(SubSeq(sent[c], rd[c] + 1, n))]
      BY <2>1 DEF Consume
    <3> HIDE DEF n
    <3>3. QED
      BY <2>1, <3>1, <3>2 DEF Bytewise!Show, Consume
  <2>5. QED
    BY <2>1, <2>3, <2>4 DEF ServiceStep, Bytewise!Next
<1>2. ASSUME NEW c \in Clients, Client(c) PROVE ServiceStep
  <2>1. CASE \E bytes \in Seq(Byte) : Write(c, bytes)
    <3>1. PICK bytes \in Seq(Byte) : Write(c, bytes)
      BY <2>1
    <3>2. Service!Send(c)
      BY <3>1, WriteSends DEF IInv
    <3>3. QED
      BY <3>2 DEF ServiceStep, Bytewise!Next, Bytewise!Send, Service!Send
  <2>2. CASE Connect(c) \/ Hangup(c)
    BY <2>2 DEF Connect, Hangup, ServiceStep
  <2>3. QED
    BY <1>2, <2>1, <2>2, SlotAssumption DEF Client
<1>3. CASE Poll \/ Accept \/ Refuse \/ AcceptFails \/ \E k \in Index : CloseOnError(k)
  BY <1>3 DEF Poll, Accept, AcceptInto, Refuse, AcceptFails, CloseOnError, CloseFd, socketVars,
              ServiceStep
<1>4. CASE UNCHANGED vars
  BY <1>4 DEF vars, socketVars, ServiceStep
<1>5. QED
  BY <1>1, <1>2, <1>3, <1>4 DEF Next, Server

\* The server implements the contract with reads printed byte by byte: nothing
\* read is lost, not even behind a '\0', and nothing is shown out of order.
THEOREM Implements == Spec => BytewiseContract
<1>1. Init => Bytewise!Init
  BY DEF Init, SocketInit, Bytewise!Init
<1>2. IInv /\ [Next]_vars => [Bytewise!Next]_<<sent, rd, shown>>
  BY DeliveryStep DEF ServiceStep
<1>3. QED
  BY <1>1, <1>2, Inductive, PTL DEF Spec, BytewiseContract, Bytewise!Spec

-----------------------------------------------------------------------------
(*****************************************************************************)
(* Two poll() calls and entries that stay: TwoPollServer.                    *)
(*****************************************************************************)
\* The clients' framing, as the stream shows it: it ends with a '\0', and
\* there is one in every StrSize bytes of it.
Terminated(c) ==
  /\ sent[c] # <<>> => sent[c][Len(sent[c])] = Nul
  /\ \A i \in Nat :
       i + StrSize <= Len(sent[c]) => \E j \in i + 1 .. i + StrSize : sent[c][j] = Nul

\* BufferHolds is about the server's buffer and rests on the clients' streams.
TwoInv ==
  /\ SocketInv
  /\ BlindOnlyOnReuse
  /\ pc \in {"listen", "poll"} => ready = {}
  /\ \A c \in Clients : Terminated(c)
  /\ BufferHolds

\* The server starts with an empty array.
LEMMA TwoInitInv == TwoInit => TwoInv
<1> SUFFICES ASSUME TwoInit PROVE TwoInv
  OBVIOUS
<1> USE DEF TwoInit
<1>1. SocketInv /\ OpenFds = {}
  BY SocketInitInv DEF SocketInit, OpenFds
<1>2. Len(<<>>) = 0 /\ <<>> \in Seq(Fds \cup {Failed})
  BY EmptySeq
<1>3. str \in [1 .. StrSize -> Byte]
  BY DEF Byte, Nul
<1>4. TwoType
  BY <1>1, <1>2, <1>3, TwoPollAssumption DEF TwoType, SocketInv
<1>5. \A c \in Clients : Terminated(c)
  BY <1>2, TwoPollAssumption DEF Terminated, SocketInit
<1>6. QED
  BY <1>1, <1>4, <1>5 DEF TwoInv, BlindOnlyOnReuse, NobodyForgotten, BufferHolds

\* What a server step keeps if it leaves sockets and entries alone.
LEMMA TwoQuietInv ==
  ASSUME TwoInv,
         NothingToAccept \/ TwoAcceptPastEnd \/ TwoWalkEnds \/ UNCHANGED twoVars
  PROVE  TwoInv'
<1>1. UNCHANGED <<socketVars, newsocket, ready, str>>
  BY DEF NothingToAccept, TwoAcceptPastEnd, TwoWalkEnds, twoVars, twoServerVars
<1>2. /\ pc' \in {"listen", "poll", "walk", "undefined"}
      /\ pc' \in {"listen", "poll"} => ready = {}
      /\ pc' = "undefined" => Len(newsocket) = Entries
  BY DEF NothingToAccept, TwoAcceptPastEnd, TwoWalkEnds, twoVars, twoServerVars, TwoInv,
     BufferHolds, BlindOnlyOnReuse, NobodyForgotten, TwoType
<1>3. /\ SocketInv' /\ OpenFds' = OpenFds /\ conn' = conn /\ sent' = sent
      /\ \A c \in Clients : Readable(c)' = Readable(c)
  BY <1>1, QuietFrame DEF TwoInv, socketVars
<1>4. TwoType'
  BY <1>1, <1>2, <1>3 DEF TwoInv, BlindOnlyOnReuse, NobodyForgotten, TwoType, SocketInv, TwoIndex
<1>5. NobodyForgotten' /\ TwoIndex' = TwoIndex
  BY <1>1, <1>3, <1>4 DEF TwoInv, BlindOnlyOnReuse, NobodyForgotten, TwoIndex
<1>6. BlindOnlyOnReuse'
  <2> SUFFICES ASSUME NEW k \in ready
               PROVE  /\ newsocket[k] \in OpenFds
                      /\ \/ Readable(conn[newsocket[k]])'
                         \/ \E j \in TwoIndex : j < k /\ newsocket[j] = newsocket[k]
    BY <1>1, <1>3, <1>5 DEF BlindOnlyOnReuse
  <2>1. /\ newsocket[k] \in OpenFds
        /\ \/ Readable(conn[newsocket[k]])
           \/ \E j \in TwoIndex : j < k /\ newsocket[j] = newsocket[k]
    BY DEF TwoInv, BlindOnlyOnReuse
  <2>2. PICK c \in Clients : c = conn[newsocket[k]]
    BY <2>1, OpenFdFacts DEF TwoInv
  <2>3. QED
    BY <1>1, <1>3, <2>1, <2>2
<1>7. \A c \in Clients : Terminated(c)'
  BY <1>3 DEF TwoInv, Terminated
<1>8. QED
  BY <1>1, <1>2, <1>3, <1>6, <1>7 DEF TwoInv, BufferHolds

\* An accept() adds an entry, also one that failed; the old ones stay.
LEMMA EntryAdded ==
  ASSUME TwoType, Len(newsocket) < Entries, NEW e \in Fds \cup {Failed},
         newsocket' = Append(newsocket, e)
  PROVE  /\ newsocket' \in Seq(Fds \cup {Failed}) /\ Len(newsocket') <= Entries
         /\ {newsocket'[k] : k \in TwoIndex'} = {newsocket[k] : k \in TwoIndex} \cup {e}
<1>1. /\ newsocket' \in Seq(Fds \cup {Failed}) /\ Len(newsocket') = Len(newsocket) + 1
      /\ \A k \in 1 .. Len(newsocket) : newsocket'[k] = newsocket[k]
      /\ newsocket'[Len(newsocket) + 1] = e
  BY AppendProperties DEF TwoType
<1>2. Len(newsocket) \in Nat
  BY LenProperties DEF TwoType
<1>3. TwoIndex' = TwoIndex \cup {Len(newsocket) + 1}
  BY <1>1, <1>2 DEF TwoIndex
<1>4. {newsocket'[k] : k \in TwoIndex'} = {newsocket[k] : k \in TwoIndex} \cup {e}
  BY <1>1, <1>3 DEF TwoIndex
<1>5. Len(newsocket') <= Entries
  BY <1>1, <1>2, TwoPollAssumption
<1>6. QED
  BY <1>1, <1>4, <1>5

\* accept() appends an entry for the connection, over whatever entries have its number already.
LEMMA TwoAcceptInv ==
  ASSUME TwoInv, TwoAccept \/ TwoAcceptFails
  PROVE  TwoInv'
<1>1. /\ pc = "listen" /\ pc' = "poll" /\ ready' = ready /\ str' = str
      /\ Len(newsocket) < Entries
  BY DEF TwoAccept, TwoAcceptFails, socketVars
<1>2. ready = {}
  BY <1>1 DEF TwoInv
<1>3. PICK e \in Fds \cup {Failed} :
        /\ newsocket' = Append(newsocket, e)
        /\ SocketInv' /\ OpenFds' \subseteq OpenFds \cup {e} /\ sent' = sent
  <2>1. CASE TwoAccept
    <3>1. PICK f \in Fds : AcceptInto(f) /\ newsocket' = Append(newsocket, f)
      BY <2>1 DEF TwoAccept
    <3>2. QED
      BY <3>1, AcceptInv DEF TwoInv, AcceptInto
  <2>2. CASE TwoAcceptFails
    BY <2>2, QuietFrame DEF TwoAcceptFails, TwoInv, socketVars
  <2>3. QED
    BY <2>1, <2>2
<1>4. TwoType /\ OpenFds \subseteq {newsocket[k] : k \in TwoIndex}
  BY DEF TwoInv, BlindOnlyOnReuse, NobodyForgotten
<1>5. /\ newsocket' \in Seq(Fds \cup {Failed}) /\ Len(newsocket') <= Entries
      /\ {newsocket'[k] : k \in TwoIndex'} = {newsocket[k] : k \in TwoIndex} \cup {e}
  BY <1>1, <1>3, <1>4, EntryAdded
<1>6. TwoType'
  BY <1>1, <1>2, <1>3, <1>4, <1>5 DEF TwoType, SocketInv
<1>7. NobodyForgotten'
  <2>1. OpenFds' \subseteq {newsocket'[k] : k \in TwoIndex'}
    BY <1>3, <1>4, <1>5
  <2>2. QED
    BY <1>6, <2>1 DEF NobodyForgotten
<1>8. \A c \in Clients : Terminated(c)'
  BY <1>3 DEF TwoInv, Terminated
<1>9. QED
  BY <1>1, <1>2, <1>3, <1>7, <1>8 DEF TwoInv, BlindOnlyOnReuse, BufferHolds

\* poll() reports entries that are readable when it returns.
LEMMA TwoPollInv ==
  ASSUME TwoInv, TwoPoll
  PROVE  TwoInv'
<1>1. /\ pc' = "walk" /\ UNCHANGED <<socketVars, newsocket, str>>
      /\ ready' = {k \in TwoIndex : newsocket[k] \in OpenFds /\ Readable(conn[newsocket[k]])}
  BY DEF TwoPoll
<1>2. /\ SocketInv' /\ OpenFds' = OpenFds /\ conn' = conn /\ sent' = sent
      /\ \A c \in Clients : Readable(c)' = Readable(c)
  BY <1>1, QuietFrame DEF TwoInv, socketVars
<1>3. TwoIndex' = TwoIndex
  BY <1>1 DEF TwoIndex
<1>4. TwoType'
  BY <1>1, <1>2, <1>3 DEF TwoInv, BlindOnlyOnReuse, NobodyForgotten, TwoType, SocketInv
<1>5. NobodyForgotten'
  BY <1>1, <1>2, <1>3, <1>4 DEF TwoInv, BlindOnlyOnReuse, NobodyForgotten
<1>6. BlindOnlyOnReuse'
  <2> SUFFICES ASSUME NEW k \in ready'
               PROVE  newsocket[k] \in OpenFds /\ Readable(conn[newsocket[k]])'
    BY <1>1, <1>2, <1>5 DEF BlindOnlyOnReuse
  <2>1. newsocket[k] \in OpenFds /\ Readable(conn[newsocket[k]])
    BY <1>1
  <2>2. PICK c \in Clients : c = conn[newsocket[k]]
    BY <2>1, OpenFdFacts DEF TwoInv
  <2>3. QED
    BY <1>1, <1>2, <2>1, <2>2
<1>7. \A c \in Clients : Terminated(c)'
  BY <1>2 DEF TwoInv, Terminated
<1>8. QED
  BY <1>1, <1>2, <1>6, <1>7 DEF TwoInv, BufferHolds

\* An end of file closes the descriptor and leaves its entries.
LEMMA TwoReadEofInv ==
  ASSUME TwoInv, NEW k \in TwoIndex, TwoReadEof(k)
  PROVE  TwoInv'
<1>1. /\ TwoAt(k) /\ CloseFd(newsocket[k]) /\ ready' = {} /\ pc' = "listen"
      /\ newsocket' = newsocket /\ str' = str
  BY DEF TwoReadEof
<1>2. newsocket[k] \in OpenFds
  BY <1>1 DEF TwoInv, BlindOnlyOnReuse, TwoAt
<1>3. PICK f \in Fds : f = newsocket[k]
  BY <1>2 DEF OpenFds
<1>4. SocketInv' /\ OpenFds' = OpenFds \ {f} /\ sent' = sent
  BY <1>1, <1>3, CloseInv, CloseFrame DEF TwoInv
<1>5. TwoType'
  BY <1>1, <1>4 DEF TwoInv, BlindOnlyOnReuse, NobodyForgotten, TwoType, SocketInv
<1>6. NobodyForgotten'
  BY <1>1, <1>4, <1>5 DEF TwoInv, BlindOnlyOnReuse, NobodyForgotten, TwoIndex
<1>7. \A c \in Clients : Terminated(c)'
  BY <1>4 DEF TwoInv, Terminated
<1>8. QED
  BY <1>1, <1>4, <1>6, <1>7 DEF TwoInv, BlindOnlyOnReuse, BufferHolds

\* What a read() leaves in the buffer, and what printf() leaves of that.
LEMMA BufferFilled ==
  ASSUME str \in [1 .. StrSize -> Byte], NEW bytes \in Seq(Byte), Len(bytes) <= StrSize
  PROVE  LET filled == bytes \o SubSeq(str, Len(bytes) + 1, StrSize)
         IN  /\ filled \in Seq(Byte) /\ Len(filled) = StrSize
             /\ \A i \in 1 .. Len(bytes) : filled[i] = bytes[i]
<1> DEFINE rest == SubSeq(str, Len(bytes) + 1, StrSize)
<1>1. Len(bytes) \in Nat /\ StrSize \in Nat
  BY LenProperties, TwoPollAssumption
<1>2. \A i \in Len(bytes) + 1 .. StrSize : str[i] \in Byte
  BY <1>1
<1>3. rest \in Seq(Byte)
      /\ Len(rest) = IF Len(bytes) + 1 <= StrSize THEN StrSize - (Len(bytes) + 1) + 1 ELSE 0
  <2>1. Len(bytes) + 1 \in Int /\ StrSize \in Int
    BY <1>1
  <2>2. QED
    BY <1>2, <2>1, SubSeqProperties
<1>4. Len(rest) = StrSize - Len(bytes)
  BY <1>1, <1>3
<1> HIDE DEF rest
<1>5. /\ bytes \o rest \in Seq(Byte)
      /\ Len(bytes \o rest) = Len(bytes) + Len(rest)
      /\ \A i \in 1 .. Len(bytes) + Len(rest) :
           (bytes \o rest)[i] = IF i <= Len(bytes) THEN bytes[i] ELSE rest[i - Len(bytes)]
  BY <1>3, ConcatProperties
<1>6. Len(bytes \o rest) = StrSize
  BY <1>1, <1>4, <1>5
<1>7. \A i \in 1 .. Len(bytes) : (bytes \o rest)[i] = bytes[i]
  BY <1>1, <1>4, <1>5
<1>8. QED
  BY <1>5, <1>6, <1>7 DEF rest

\* The string that is printed ends inside the buffer.
LEMMA BufferPrinted ==
  ASSUME NEW filled \in Seq(Byte), Len(filled) = StrSize
  PROVE  LET text == CString(filled)
         IN  /\ Len(text) = StrLen(filled) /\ UpperText(text) \in Seq(Byte)
             /\ UpperText(text) \o SubSeq(filled, Len(text) + 1, StrSize) \in [1 .. StrSize -> Byte]
<1> DEFINE n == StrLen(filled)
<1>1. n \in 0 .. StrSize /\ StrSize \in Nat /\ n \in Nat
  BY StrLenBound, TwoPollAssumption
<1>2. \A i \in 1 .. StrSize : filled[i] \in Byte
  BY ElementOfSeq
<1> HIDE DEF n
<1>3. SubSeq(filled, 1, n) \in Seq(Byte) /\ Len(SubSeq(filled, 1, n)) = n
  <2>1. \A i \in 1 .. n : filled[i] \in Byte
    BY <1>1, <1>2
  <2>2. Len(SubSeq(filled, 1, n)) = IF 1 <= n THEN n - 1 + 1 ELSE 0
    BY <1>1, <2>1, SubSeqProperties
  <2>3. SubSeq(filled, 1, n) \in Seq(Byte)
    BY <1>1, <2>1, SubSeqProperties
  <2>4. QED
    BY <1>1, <2>2, <2>3
<1> DEFINE rest == SubSeq(filled, n + 1, StrSize)
           upper == UpperText(SubSeq(filled, 1, n))
<1>4. upper \in Seq(Byte) /\ Len(upper) = n
  BY <1>3, UpperTextType
<1>5. rest \in Seq(Byte) /\ Len(rest) = StrSize - n
  <2>1. n + 1 \in Int /\ StrSize \in Int
    BY <1>1
  <2>2. \A i \in n + 1 .. StrSize : filled[i] \in Byte
    BY <1>1, <1>2
  <2>3. rest \in Seq(Byte) /\ Len(rest) = IF n + 1 <= StrSize THEN StrSize - (n + 1) + 1 ELSE 0
    BY <2>1, <2>2, SubSeqProperties
  <2> HIDE DEF rest
  <2>4. QED
    BY <1>1, <2>3
<1> HIDE DEF rest, upper
<1>6. upper \o rest \in Seq(Byte) /\ Len(upper \o rest) = StrSize
  <2>1. upper \o rest \in Seq(Byte) /\ Len(upper \o rest) = Len(upper) + Len(rest)
    BY <1>4, <1>5, ConcatProperties
  <2>2. QED
    BY <1>1, <1>4, <1>5, <2>1
<1>7. upper \o rest \in [1 .. StrSize -> Byte]
  BY <1>6, LenProperties
<1>8. CString(filled) = SubSeq(filled, 1, n)
  BY DEF CString, n
<1>9. QED
  BY <1>3, <1>4, <1>7, <1>8 DEF rest, upper, n

\* Every read() brings a '\0', whether it takes all there is or not.
LEMMA ReadIsTerminated ==
  ASSUME SocketInv, NEW c \in Clients, Terminated(c), Unread(c) > 0
  PROVE  \E i \in 1 .. Len(Chunk(c, StrSize)) : Chunk(c, StrSize)[i] = Nul
<1> DEFINE bytes == Chunk(c, StrSize)
           m == Len(bytes)
<1>1. StrSize \in Nat \ {0}
  BY TwoPollAssumption
<1>2. /\ m = IF Unread(c) <= StrSize THEN Unread(c) ELSE StrSize
      /\ m \in Nat /\ m > 0 /\ m <= Unread(c)
      /\ bytes = SubSeq(sent[c], rd[c] + 1, rd[c] + m)
  BY <1>1, ChunkLength, ChunkProperties
<1>3. /\ sent[c] \in Seq(Byte) /\ Len(sent[c]) \in Nat /\ rd[c] \in Nat
      /\ Unread(c) = Len(sent[c]) - rd[c]
  BY LenProperties DEF SocketInv, SocketType, Unread
<1> HIDE DEF m, bytes
<1>4. rd[c] + m <= Len(sent[c])
  BY <1>2, <1>3
<1>5. \A i \in 1 .. m : bytes[i] = sent[c][rd[c] + i]
  <2>1. \A i \in rd[c] + 1 .. rd[c] + m : sent[c][i] \in Byte
    BY <1>2, <1>3, <1>4, ElementOfSeq
  <2>2. rd[c] + 1 \in Int /\ rd[c] + m \in Int
    BY <1>2, <1>3
  <2>3. \A i \in 1 .. (rd[c] + m) - (rd[c] + 1) + 1 : bytes[i] = sent[c][(rd[c] + 1) + i - 1]
    BY <1>2, <2>1, <2>2, SubSeqProperties
  <2> SUFFICES ASSUME NEW i \in 1 .. m PROVE bytes[i] = sent[c][rd[c] + i]
    OBVIOUS
  <2>4. i \in 1 .. (rd[c] + m) - (rd[c] + 1) + 1 /\ (rd[c] + 1) + i - 1 = rd[c] + i
    <3>1. m \in Nat /\ rd[c] \in Nat
      BY <1>2, <1>3
    <3>2. QED
      BY <3>1
  <2>5. QED
    BY <2>3, <2>4
<1>6. CASE Unread(c) <= StrSize
  <2>1. rd[c] + m = Len(sent[c]) /\ sent[c] # <<>>
    BY <1>2, <1>3, <1>6, EmptySeq
  <2>2. sent[c][rd[c] + m] = Nul
    BY <2>1 DEF Terminated
  <2>3. m \in 1 .. m
    BY <1>2
  <2>4. QED
    BY <1>5, <2>2, <2>3 DEF m, bytes
<1>7. CASE ~(Unread(c) <= StrSize)
  <2>1. m = StrSize /\ rd[c] + StrSize <= Len(sent[c])
    BY <1>1, <1>2, <1>4, <1>7
  <2>2. PICK j \in rd[c] + 1 .. rd[c] + StrSize : sent[c][j] = Nul
    BY <1>3, <2>1 DEF Terminated
  <2>3. j - rd[c] \in 1 .. m /\ rd[c] + (j - rd[c]) = j
    BY <1>1, <1>3, <2>1
  <2>4. bytes[j - rd[c]] = Nul
    BY <1>5, <2>2, <2>3
  <2>5. QED
    BY <2>3, <2>4 DEF m, bytes
<1>8. QED
  BY <1>6, <1>7

\* A read through an older entry is what leaves a younger one blind; the C
\* string it leaves ends inside the buffer.
LEMMA TwoReadDataInv ==
  ASSUME TwoInv, NEW k \in TwoIndex, TwoReadData(k)
  PROVE  TwoInv'
<1>1. TwoAt(k) /\ ready' = ready \ {k} /\ newsocket' = newsocket
  BY DEF TwoReadData
<1>2. newsocket[k] \in OpenFds /\ newsocket[k] \in Fds
  BY <1>1 DEF TwoInv, BlindOnlyOnReuse, TwoAt, OpenFds
<1>3. PICK c \in Clients : c = conn[newsocket[k]]
  BY <1>2, OpenFdFacts DEF TwoInv
<1> DEFINE bytes == Chunk(c, StrSize)
           filled == bytes \o SubSeq(str, Len(bytes) + 1, StrSize)
           text == CString(filled)
<1>4. /\ Unread(c) > 0
      /\ Consume(c, Len(bytes), UpperText(text))
      /\ str' = UpperText(text) \o SubSeq(filled, Len(text) + 1, StrSize)
      /\ pc' = IF Len(text) = StrSize THEN "undefined" ELSE pc
  BY <1>3 DEF TwoReadData
<1>5. /\ bytes \in Seq(Byte) /\ Len(bytes) \in Nat /\ Len(bytes) <= Unread(c)
      /\ Len(bytes) = IF Unread(c) <= StrSize THEN Unread(c) ELSE StrSize
  BY ChunkProperties, ChunkLength, TwoPollAssumption DEF TwoInv
<1>6. PICK z \in 1 .. Len(bytes) : bytes[z] = Nul
  BY <1>4, ReadIsTerminated DEF TwoInv
<1>7. Len(bytes) <= StrSize
  <2>1. Unread(c) \in Nat /\ StrSize \in Nat
    BY OpenFdFacts, TwoPollAssumption DEF TwoInv
  <2>2. QED
    BY <1>5, <2>1
<1> HIDE DEF bytes
<1>8. /\ filled \in Seq(Byte) /\ Len(filled) = StrSize
      /\ \A i \in 1 .. Len(bytes) : filled[i] = bytes[i]
  BY <1>5, <1>7, BufferFilled DEF TwoInv, BlindOnlyOnReuse, NobodyForgotten, TwoType
<1> HIDE DEF filled
<1>9. StrLen(filled) < StrSize
  <2>1. z \in 1 .. Len(filled) /\ filled[z] = Nul
    BY <1>5, <1>6, <1>7, <1>8, TwoPollAssumption
  <2>2. QED
    BY <1>8, <2>1, StrLenNul
<1>10. /\ Len(text) = StrLen(filled) /\ UpperText(text) \in Seq(Byte)
       /\ UpperText(text) \o SubSeq(filled, Len(text) + 1, StrSize) \in [1 .. StrSize -> Byte]
  BY <1>8, BufferPrinted
<1>11. StrLen(filled) \in Nat
  BY <1>8, StrLenBound
<1> HIDE DEF text
<1>12. pc' = pc /\ str' \in [1 .. StrSize -> Byte]
  BY <1>4, <1>9, <1>10, <1>11, TwoPollAssumption
<1>13. SocketInv'
  BY <1>4, <1>5, <1>10, ConsumeInv DEF TwoInv
<1>14. /\ conn' = conn /\ sent' = sent /\ OpenFds' = OpenFds
       /\ \A d \in Clients \ {c} : Readable(d)' = Readable(d)
  BY <1>4, <1>5, ConsumeFrame DEF TwoInv
<1>15. TwoIndex' = TwoIndex
  BY <1>1 DEF TwoIndex
<1>16. TwoType'
  BY <1>1, <1>12, <1>13, <1>15 DEF TwoInv, BlindOnlyOnReuse, NobodyForgotten, TwoType, SocketInv
<1>17. NobodyForgotten'
  BY <1>1, <1>14, <1>15, <1>16 DEF TwoInv, BlindOnlyOnReuse, NobodyForgotten
<1>18. BlindOnlyOnReuse'
  <2> SUFFICES ASSUME NEW l \in ready, l # k
               PROVE  /\ newsocket[l] \in OpenFds
                      /\ \/ Readable(conn[newsocket[l]])'
                         \/ \E j \in TwoIndex : j < l /\ newsocket[j] = newsocket[l]
    BY <1>1, <1>14, <1>15, <1>17 DEF BlindOnlyOnReuse
  <2>1. /\ newsocket[l] \in OpenFds
        /\ \/ Readable(conn[newsocket[l]])
           \/ \E j \in TwoIndex : j < l /\ newsocket[j] = newsocket[l]
    BY DEF TwoInv, BlindOnlyOnReuse
  <2>2. CASE newsocket[l] = newsocket[k]
    <3>1. l \in TwoIndex /\ k <= l /\ l \in Nat /\ k \in Nat
      BY <1>1 DEF TwoInv, BlindOnlyOnReuse, NobodyForgotten, TwoType, TwoAt, TwoIndex
    <3>2. k < l
      BY <3>1
    <3>3. QED
      BY <2>1, <2>2, <3>2
  <2>3. CASE newsocket[l] # newsocket[k]
    <3>1. PICK d \in Clients : d = conn[newsocket[l]] /\ d # c
      BY <1>2, <1>3, <2>1, <2>3, OpenFdFacts DEF TwoInv
    <3>2. QED
      BY <1>1, <1>14, <2>1, <3>1
  <2>4. QED
    BY <2>2, <2>3
<1>19. \A d \in Clients : Terminated(d)'
  BY <1>14 DEF TwoInv, Terminated
<1>20. pc = "walk"
  BY <1>1 DEF TwoAt
<1>21. QED
  BY <1>12, <1>13, <1>18, <1>19, <1>20 DEF TwoInv, BufferHolds

\* A line that is sent with its '\0' keeps the stream terminated.
LEMMA LineKeepsTermination ==
  ASSUME SocketInv, NEW c \in Clients, Terminated(c), NEW text \in Seq(Byte),
         Len(text) < StrSize, sent'[c] = sent[c] \o NulFramed(text)
  PROVE  Terminated(c)'
<1> DEFINE old == sent[c]
           line == NulFramed(text)
           n == Len(old)
           l == Len(text)
<1>1. /\ old \in Seq(Byte) /\ n \in Nat /\ l \in Nat /\ StrSize \in Nat \ {0}
  BY LenProperties, TwoPollAssumption DEF SocketInv, SocketType
<1>2. line \in Seq(Byte) /\ Len(line) = l + 1 /\ line[l + 1] = Nul
  BY AppendProperties DEF NulFramed, Nul, Byte
<1>3. /\ Len(old \o line) = n + (l + 1)
      /\ \A i \in 1 .. n + (l + 1) :
           (old \o line)[i] = IF i <= n THEN old[i] ELSE line[i - n]
  <2>1. /\ Len(old \o line) = n + Len(line)
        /\ \A i \in 1 .. n + Len(line) :
             (old \o line)[i] = IF i <= n THEN old[i] ELSE line[i - n]
    BY <1>1, <1>2, ConcatProperties
  <2> HIDE DEF old, line, n, l
  <2>2. QED
    BY <1>2, <2>1
<1>4. n > 0 => old[n] = Nul
  BY EmptySeq DEF Terminated
<1>5. \A i \in Nat : i + StrSize <= n => \E j \in i + 1 .. i + StrSize : old[j] = Nul
  BY DEF Terminated
<1>6. sent'[c] = old \o line /\ l < StrSize
  OBVIOUS
<1> DEFINE new == old \o line
<1> HIDE DEF old, line, n, l, new
<1>7. Len(new) = n + l + 1 /\ new[n + l + 1] = Nul
  <2> DEFINE m == n + (l + 1)
  <2>1. m \in 1 .. m /\ ~(m <= n) /\ m - n = l + 1 /\ m = n + l + 1
    BY <1>1
  <2>2. Len(new) = m /\ \A i \in 1 .. m : new[i] = IF i <= n THEN old[i] ELSE line[i - n]
    BY <1>3 DEF new
  <2> HIDE DEF m
  <2>3. new[m] = line[m - n]
    BY <2>1, <2>2
  <2>4. QED
    BY <1>2, <2>1, <2>2, <2>3
<1>8. \A i \in 1 .. n : new[i] = old[i]
  BY <1>1, <1>3 DEF new
<1>9. ASSUME NEW i \in Nat, i + StrSize <= Len(new)
      PROVE  \E j \in i + 1 .. i + StrSize : new[j] = Nul
  <2>1. CASE i + StrSize <= n
    <3>1. PICK j \in i + 1 .. i + StrSize : old[j] = Nul
      BY <1>5, <2>1
    <3>2. j \in 1 .. n
      BY <1>1, <2>1
    <3>3. QED
      BY <1>8, <3>1, <3>2
  <2>2. CASE n < i + StrSize /\ i < n
    <3>1. n \in i + 1 .. i + StrSize /\ n \in 1 .. n /\ n > 0
      BY <1>1, <2>2
    <3>2. QED
      BY <1>4, <1>8, <3>1
  <2>3. CASE n <= i
    <3>1. n + l + 1 \in i + 1 .. i + StrSize
      BY <1>1, <1>6, <1>7, <1>9, <2>3
    <3>2. QED
      BY <1>7, <3>1
  <2>4. QED
    BY <1>1, <2>1, <2>2, <2>3
<1>10. sent'[c] = new
  BY <1>6 DEF new
<1>11. QED
  BY <1>7, <1>9, <1>10 DEF Terminated

\* A client only makes more connections readable.
LEMMA TwoClientInv ==
  ASSUME TwoInv, NEW c \in Clients, TwoClient(c)
  PROVE  TwoInv'
<1>1. UNCHANGED <<newsocket, ready, str, pc>>
  BY DEF TwoClient, twoServerVars
<1>4. \A d \in Clients : Terminated(d)'
  <2>1. CASE SendLine(c)
    <3>1. PICK text \in Texts : Len(text) < StrSize /\ Write(c, NulFramed(text))
      BY <2>1 DEF SendLine
    <3>2. text \in Seq(Byte)
      BY SeqMonotonic, TwoPollAssumption
    <3>3. sent' = [sent EXCEPT ![c] = sent[c] \o NulFramed(text)]
      BY <3>1 DEF Write
    <3>4. sent'[c] = sent[c] \o NulFramed(text) /\ \A d \in Clients \ {c} : sent'[d] = sent[d]
      BY <3>3 DEF TwoInv, SocketInv, SocketType
    <3>5. Terminated(c)'
      BY <3>1, <3>2, <3>4, LineKeepsTermination DEF TwoInv
    <3>6. ASSUME NEW d \in Clients \ {c} PROVE Terminated(d)'
      BY <3>4 DEF TwoInv, Terminated
    <3>7. QED
      BY <3>5, <3>6
  <2>2. CASE Connect(c) \/ Hangup(c)
    BY <2>2 DEF Connect, Hangup, TwoInv, Terminated
  <2>3. QED
    BY <2>1, <2>2 DEF TwoClient
<1>5. Connect(c) \/ Hangup(c) \/ \E bytes \in Seq(Byte) : Write(c, bytes)
  <2>1. \A text \in Texts : NulFramed(text) \in Seq(Byte)
    BY SeqMonotonic, AppendProperties, TwoPollAssumption DEF NulFramed, Nul, Byte
  <2>2. QED
    BY <2>1 DEF TwoClient, SendLine
<1>6. /\ SocketInv' /\ conn' = conn /\ OpenFds' = OpenFds
      /\ \A d \in Clients : Readable(d) => Readable(d)'
  BY <1>5, ClientFrame DEF TwoInv
<1>7. TwoIndex' = TwoIndex
  BY <1>1 DEF TwoIndex
<1>8. TwoType'
  BY <1>1, <1>6, <1>7 DEF TwoInv, BlindOnlyOnReuse, NobodyForgotten, TwoType, SocketInv
<1>9. NobodyForgotten'
  BY <1>1, <1>6, <1>7, <1>8 DEF TwoInv, BlindOnlyOnReuse, NobodyForgotten
<1>10. BlindOnlyOnReuse'
  <2> SUFFICES ASSUME NEW k \in ready
               PROVE  /\ newsocket[k] \in OpenFds
                      /\ \/ Readable(conn[newsocket[k]])'
                         \/ \E j \in TwoIndex : j < k /\ newsocket[j] = newsocket[k]
    BY <1>1, <1>6, <1>7, <1>9 DEF BlindOnlyOnReuse
  <2>1. /\ newsocket[k] \in OpenFds
        /\ \/ Readable(conn[newsocket[k]])
           \/ \E j \in TwoIndex : j < k /\ newsocket[j] = newsocket[k]
    BY DEF TwoInv, BlindOnlyOnReuse
  <2>2. PICK d \in Clients : d = conn[newsocket[k]]
    BY <2>1, OpenFdFacts DEF TwoInv
  <2>3. QED
    BY <1>1, <1>6, <2>1, <2>2
<1>11. QED
  BY <1>1, <1>4, <1>6, <1>10 DEF TwoInv, BufferHolds

\* However stale the entries become, the streams stay terminated, every open
\* connection keeps an entry, and the buffer stays a C string.
THEOREM TwoInductive == TwoSpec => []TwoInv
<1>1. TwoInit => TwoInv
  BY TwoInitInv
<1>2. TwoInv /\ [TwoNext]_twoVars => TwoInv'
  BY TwoQuietInv, TwoAcceptInv, TwoPollInv, TwoReadDataInv, TwoReadEofInv, TwoClientInv
     DEF TwoNext, TwoServer
<1>3. QED
  BY <1>1, <1>2, PTL DEF TwoSpec

\* A second read() of one event blocks only through a number that was reused.
THEOREM TwoBlindOnlyOnReuse == TwoSpec => []BlindOnlyOnReuse
<1>1. TwoInv => BlindOnlyOnReuse
  BY DEF TwoInv
<1>2. QED
  BY <1>1, TwoInductive, PTL

\* The clients' '\0' keeps strlen() inside the server's buffer, whatever is
\* read together or cut apart.
THEOREM TwoBufferHolds == TwoSpec => []BufferHolds
<1>1. TwoInv => BufferHolds
  BY DEF TwoInv
<1>2. QED
  BY <1>1, TwoInductive, PTL

=============================================================================
