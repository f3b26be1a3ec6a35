--------------------------- MODULE TwoPollServer ----------------------------
(*****************************************************************************)
(* The server of laboratory 31 that m.tsyrenov and mChelbaev both keep: one  *)
(* poll() for the listening socket, a second one for the clients, each with  *)
(* a time-out of a second. Entries are only ever added: the entry of a       *)
(* client that left keeps its descriptor number, which the next accept()     *)
(* hands out again, and a failed accept() uses up an entry as well.          *)
(*                                                                           *)
(* Every read goes into the same heap buffer of StrSize bytes, which is then *)
(* treated as a C string; nothing in the server terminates it, the clients'  *)
(* framing has to.                                                           *)
(*****************************************************************************)
EXTENDS UnixSocket

CONSTANTS
  Entries,   \* 100: length of newsocket[] and fds2[]
  StrSize,   \* 100: size of str[] on both sides
  Texts      \* the lines typed at a client

ASSUME TwoPollAssumption ==
  /\ Entries \in Nat \ {0} /\ StrSize \in Nat \ {0}
  /\ Texts \subseteq Seq(Byte \ {Nul})

VARIABLES
  newsocket, \* the descriptors accepted so far, -1 where accept() failed
  ready,     \* entries with POLLRDNORM that the walk has not reached
  str,       \* the buffer
  pc         \* "undefined" once the program wrote or read past an array

twoServerVars == <<newsocket, ready, str, pc>>
twoVars == <<socketVars, twoServerVars>>

Failed == -1
TwoIndex == 1 .. Len(newsocket)

TwoType ==
  /\ SocketType
  /\ newsocket \in Seq(Fds \cup {Failed}) /\ Len(newsocket) <= Entries
  /\ ready \subseteq TwoIndex
  /\ str \in [1 .. StrSize -> Byte]
  /\ pc \in {"listen", "poll", "walk", "undefined"}

\* malloc() leaves the buffer as it finds it: all zeros, or full of text
TwoInit ==
  /\ SocketInit
  /\ newsocket = <<>>
  /\ ready = {}
  /\ \E b \in {Nul, 120} : str = [k \in 1 .. StrSize |-> b]
  /\ pc = "listen"

(*****************************************************************************)
(* The server.                                                               *)
(*****************************************************************************)
\* the first poll() times out
NothingToAccept ==
  /\ pc = "listen" /\ backlog = <<>>
  /\ pc' = "poll"
  /\ UNCHANGED <<socketVars, newsocket, ready, str>>

TwoAccept ==
  /\ pc = "listen"
  /\ Len(newsocket) < Entries
  /\ \E f \in Fds : AcceptInto(f) /\ newsocket' = Append(newsocket, f)
  /\ pc' = "poll"
  /\ UNCHANGED <<ready, str>>

\* accept() fails with EMFILE; -1 becomes an entry, which poll() ignores
TwoAcceptFails ==
  /\ pc = "listen" /\ backlog # <<>>
  /\ DescriptorsFull /\ Len(newsocket) < Entries
  /\ newsocket' = Append(newsocket, Failed)
  /\ pc' = "poll"
  /\ UNCHANGED <<socketVars, ready, str>>

\* newsocket[100] and fds2[100] are not in the arrays
TwoAcceptPastEnd ==
  /\ pc = "listen" /\ backlog # <<>>
  /\ Len(newsocket) = Entries
  /\ pc' = "undefined"
  /\ UNCHANGED <<socketVars, newsocket, ready, str>>

\* the second poll() reports or times out. A closed descriptor gives POLLNVAL,
\* not POLLRDNORM; two entries with one descriptor are both reported.
TwoPoll ==
  /\ pc = "poll"
  /\ ready' = {k \in TwoIndex : newsocket[k] \in OpenFds /\ Readable(conn[newsocket[k]])}
  /\ pc' = "walk"
  /\ UNCHANGED <<socketVars, newsocket, str>>

\* the walk reaches entry k, whose descriptor is open
TwoAt(k) == pc = "walk" /\ k \in ready /\ \A j \in ready : k <= j

\* faulty: the entry is read again until it is empty
TwoReadDataLooping(k) ==
  /\ TwoAt(k)
  /\ LET c == conn[newsocket[k]]
         bytes == Chunk(c, StrSize)
     IN  Unread(c) > 0 /\ Consume(c, Len(bytes), UpperText(CString(bytes)))
  /\ UNCHANGED <<newsocket, ready, str, pc>>

\* read() over the front of the buffer, then toupper() and printf() of the
\* buffer up to its first '\0', wherever that comes from
TwoReadData(k) ==
  /\ TwoAt(k)
  /\ LET c == conn[newsocket[k]]
         bytes == Chunk(c, StrSize)
         filled == bytes \o SubSeq(str, Len(bytes) + 1, StrSize)
         text == CString(filled)
     IN  /\ Unread(c) > 0
         /\ Consume(c, Len(bytes), UpperText(text))
         /\ str' = UpperText(text) \o SubSeq(filled, Len(text) + 1, StrSize)
         /\ pc' = IF Len(text) = StrSize THEN "undefined" ELSE pc
  /\ ready' = ready \ {k}
  /\ UNCHANGED newsocket

\* read() returns 0: close and leave the walk; the entry stays
TwoReadEof(k) ==
  /\ TwoAt(k)
  /\ LET c == conn[newsocket[k]]
     IN  Unread(c) = 0 /\ phase[c] = "closed"
  /\ CloseFd(newsocket[k])
  /\ ready' = {}
  /\ pc' = "listen"
  /\ UNCHANGED <<newsocket, str>>

TwoWalkEnds ==
  /\ pc = "walk" /\ ready = {}
  /\ pc' = "listen"
  /\ UNCHANGED <<socketVars, newsocket, ready, str>>

TwoServer ==
  \/ NothingToAccept \/ TwoAccept \/ TwoAcceptFails \/ TwoAcceptPastEnd
  \/ TwoPoll \/ TwoWalkEnds
  \/ \E k \in TwoIndex : TwoReadData(k) \/ TwoReadEof(k)

(*****************************************************************************)
(* The clients: fgets() of at most StrSize - 1 bytes, sent with the '\0'.    *)
(*****************************************************************************)
\* faulty: strlen(str) bytes are sent
SendLineUnterminated(c) ==
  \E text \in Texts : Len(text) < StrSize /\ Write(c, Unframed(text))

SendLine(c) ==
  \E text \in Texts : Len(text) < StrSize /\ Write(c, NulFramed(text))

TwoClient(c) ==
  /\ Connect(c) \/ Hangup(c) \/ SendLine(c)
  /\ UNCHANGED twoServerVars

TwoNext == TwoServer \/ \E c \in Clients : TwoClient(c)

\* the server process keeps running; nothing is assumed of the clients
TwoSpec == TwoInit /\ [][TwoNext]_twoVars /\ WF_twoVars(TwoServer)

-----------------------------------------------------------------------------
(*****************************************************************************)
(* Properties.                                                               *)
(*****************************************************************************)
\* However stale the entries are, every open connection has one.
NobodyForgotten == TwoType /\ OpenFds \subseteq {newsocket[k] : k \in TwoIndex}

\* The walk reads a silent connection only through an older entry that has
\* the same, reused descriptor number and was reported as well.
BlindOnlyOnReuse ==
  /\ NobodyForgotten
  /\ \A k \in ready :
       /\ newsocket[k] \in OpenFds
       /\ Readable(conn[newsocket[k]]) \/ \E j \in TwoIndex : j < k /\ newsocket[j] = newsocket[k]

\* The clients' framing is what keeps strlen() inside the buffer: a read that
\* empties the queue ends with '\0', a full one contains one. The program
\* leaves its arrays only by accepting too often.
BufferHolds == pc = "undefined" => Len(newsocket) = Entries

=============================================================================
