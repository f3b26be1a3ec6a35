---------------------------- MODULE OneShotServer ----------------------------
(*****************************************************************************)
(* Laboratory 30: a server that takes one client and ends with it, and the   *)
(* name in the file system its clients find it by. A name outlives the       *)
(* server that bound it if that crashes; several servers may be started, one *)
(* after the other or at once, and use the same name.                        *)
(*****************************************************************************)
EXTENDS Integers, Sequences, FiniteSets

CONSTANTS
  OneShots,  \* the programs to look at
  Starts,    \* how often the server is started
  Connects,  \* how often the client is
  Started,   \* how often either is, together
  Backlog,   \* clients that may wait to be accepted: 1, 5 or 7
  Writes     \* texts a client writes at most

(* Processes are numbered in the order they are started.                     *)
Servers == 1 .. Starts
Clients == 1 .. Connects
Nobody == 0
First(off) == {p \in off : \A q \in off : p <= q}

(*****************************************************************************)
(* The programs.                                                             *)
(*   unlinks   whether the name is removed before bind()                     *)
(*   removes   when the server removes it: at the "end", or once a client is *)
(*             "accepted"                                                    *)
(*   sigint    whether SIGINT removes it as well                             *)
(*   stays     whether a server that cannot bind() goes on                   *)
(*   reads     "all" until read() finds no more, or until the buffer begins  *)
(*             with a '\0' ("zero"), whoever put it there; or "once"         *)
(*   eof       what the end of the input does to the client: it "ends", or   *)
(*             "repeats" the last line                                       *)
(*****************************************************************************)
Daniil30 == [unlinks |-> TRUE, removes |-> "end", sigint |-> FALSE, stays |-> FALSE,
             reads |-> "all", eof |-> "ends"]
Zelenkov30 == Daniil30
Komarevtsev30 == Daniil30
Karakulin30 == Daniil30
Bedareva30 == Daniil30
Shestakov30 == [Daniil30 EXCEPT !.eof = "repeats"]
ZaVialoV30 == [Shestakov30 EXCEPT !.reads = "zero"]
Chelbaev30 == [Daniil30 EXCEPT !.reads = "once"]
Trushkin30 == [Daniil30 EXCEPT !.unlinks = FALSE]
Tsyrenov30 == [Trushkin30 EXCEPT !.stays = TRUE]
Makanin30 == [Trushkin30 EXCEPT !.removes = "accepted", !.sigint = TRUE]
AllOneShots == {Daniil30, Zelenkov30, Komarevtsev30, Karakulin30, Bedareva30, Shestakov30,
                ZaVialoV30, Chelbaev30, Trushkin30, Tsyrenov30, Makanin30}

ASSUME OneShotAssumption ==
  /\ {Starts, Connects, Started, Backlog, Writes} \subseteq Nat
  /\ \A p \in OneShots : p.removes \in {"end", "accepted"}

VARIABLES
  oneShot,  \* which program runs
  name,     \* the server whose socket the name leads to, or Nobody
  srv,      \* where each server is: "off", "unlink", "bind", "signal", "listen",
            \* "accept", "accepted", "serve", "remove", "gone", "failed" (it could
            \* not bind and ended), "astray" (it went on) or "dead" (killed)
  alone,    \* whether no other server has run since it was started
  queue,    \* clients that connected and were not accepted
  served,   \* the client each server accepted
  cli,      \* where each client is: "off", "connect", "talks", "refused", "killed", "gone"
  peer,     \* the server each client is connected to
  wrote, taken,  \* texts each client wrote, and those that were read
  head      \* the first byte of each server's buffer: "unset", a "letter" or "zero"
oneShotVars == <<oneShot, name, srv, alone, queue, served, cli, peer, wrote, taken, head>>
clientSide == <<cli, peer, wrote>>

Running == {s \in Servers : srv[s] \notin {"off", "gone", "failed", "dead"}}
Listening == {s \in Servers : srv[s] \in {"accept", "accepted", "serve", "remove"}}

OneShotInit ==
  /\ oneShot \in OneShots /\ name = Nobody
  /\ srv = [s \in Servers |-> "off"] /\ alone = [s \in Servers |-> TRUE]
  /\ queue = [s \in Servers |-> <<>>] /\ served = [s \in Servers |-> Nobody]
  /\ cli = [c \in Clients |-> "off"] /\ peer = [c \in Clients |-> Nobody]
  /\ wrote = [c \in Clients |-> 0] /\ taken = [c \in Clients |-> 0]
  /\ head = [s \in Servers |-> "unset"]

Idle == [servers |-> {s \in Servers : srv[s] = "off"}, clients |-> {c \in Clients : cli[c] = "off"}]
MayStart == Cardinality(Idle.servers) + Cardinality(Idle.clients) > Starts + Connects - Started

(*****************************************************************************)
(* The server.                                                               *)
(*****************************************************************************)
To(s, from, to) == srv[s] = from /\ srv' = [srv EXCEPT ![s] = to]

Start(s) ==
  /\ MayStart /\ s \in First(Idle.servers)
  /\ To(s, "off", IF oneShot.unlinks THEN "unlink" ELSE "bind")
  /\ alone' = [t \in Servers |-> IF t = s THEN Running = {}
                                 ELSE alone[t] /\ t \notin Running]
  /\ UNCHANGED <<oneShot, name, queue, served, clientSide, taken, head>>

UnlinkOld(s) ==
  /\ To(s, "unlink", "bind") /\ name' = Nobody
  /\ UNCHANGED <<oneShot, alone, queue, served, clientSide, taken, head>>

Bind(s) ==
  /\ name = Nobody /\ To(s, "bind", IF oneShot.sigint THEN "signal" ELSE "listen") /\ name' = s
  /\ UNCHANGED <<oneShot, alone, queue, served, clientSide, taken, head>>

\* faulty: a failed bind() removes the other server's name
BindFailsRemoving(s) ==
  /\ name # Nobody /\ To(s, "bind", "failed") /\ name' = Nobody
  /\ UNCHANGED <<oneShot, alone, queue, served, clientSide, taken, head>>

BindFails(s) ==
  /\ name # Nobody /\ To(s, "bind", IF oneShot.stays THEN "astray" ELSE "failed")
  /\ UNCHANGED <<oneShot, name, alone, queue, served, clientSide, taken, head>>

SetHandler(s) ==
  /\ To(s, "signal", "listen")
  /\ UNCHANGED <<oneShot, name, alone, queue, served, clientSide, taken, head>>

Listen(s) ==
  /\ To(s, "listen", "accept")
  /\ UNCHANGED <<oneShot, name, alone, queue, served, clientSide, taken, head>>

Accept(s) ==
  /\ queue[s] # <<>>
  /\ To(s, "accept", IF oneShot.removes = "accepted" THEN "accepted" ELSE "serve")
  /\ served' = [served EXCEPT ![s] = Head(queue[s])]
  /\ queue' = [queue EXCEPT ![s] = Tail(@)]
  /\ UNCHANGED <<oneShot, name, alone, clientSide, taken, head>>

RemoveEarly(s) ==
  /\ To(s, "accepted", "serve") /\ name' = Nobody
  /\ UNCHANGED <<oneShot, alone, queue, served, clientSide, taken, head>>

(* Read everything there is. m.tsyrenov's server shows of several lines only *)
(* the first, as I.Trushkin's does.                                          *)
Done == IF oneShot.removes = "end" THEN "remove" ELSE "gone"
AfterText == IF oneShot.reads = "once" THEN Done ELSE "serve"
ReadText(s) ==
  LET c == served[s]
  IN /\ srv[s] = "serve" /\ taken[c] < wrote[c]
     /\ taken' = [taken EXCEPT ![c] = wrote[c]]
     /\ srv' = [srv EXCEPT ![s] = AfterText] /\ head' = [head EXCEPT ![s] = "letter"]
     /\ UNCHANGED <<oneShot, name, alone, queue, served, clientSide>>

(* read() returns 0 from now on, and leaves the buffer as it is.             *)
NothingMore(s) ==
  LET c == served[s]
  IN srv[s] = "serve" /\ taken[c] = wrote[c] /\ cli[c] \in {"gone", "killed"}

EndOfStream(s) ==
  /\ NothingMore(s) /\ (oneShot.reads = "zero" => head[s] # "letter")
  /\ srv' = [srv EXCEPT ![s] = Done]
  /\ UNCHANGED <<oneShot, name, alone, queue, served, clientSide, taken, head>>

\* faulty: no '\0' is put behind the bytes that were read, and the text shown again
StaleText(s) ==
  /\ NothingMore(s) /\ oneShot.reads = "zero" /\ head[s] # "zero"
  /\ UNCHANGED oneShotVars

(* S.ZaVialoV's server does not look at how much was read. It puts a '\0'    *)
(* behind no byte and shows an empty text; this '\0' then ends it. If there  *)
(* was no text at all, what the buffer begins with is anything.              *)
EmptyText(s) ==
  /\ NothingMore(s) /\ oneShot.reads = "zero" /\ head[s] # "zero"
  /\ head' = [head EXCEPT ![s] = "zero"]
  /\ UNCHANGED <<oneShot, name, srv, alone, queue, served, clientSide, taken>>

\* faulty: the name is not removed
RemoveNot(s) ==
  /\ To(s, "remove", "gone")
  /\ UNCHANGED <<oneShot, name, alone, queue, served, clientSide, taken, head>>

RemoveName(s) ==
  /\ To(s, "remove", "gone") /\ name' = Nobody
  /\ UNCHANGED <<oneShot, alone, queue, served, clientSide, taken, head>>

(* A crash, or SIGINT where nothing handles it.                              *)
Crash(s) ==
  /\ s \in Running /\ srv' = [srv EXCEPT ![s] = "dead"]
  /\ UNCHANGED <<oneShot, name, alone, queue, served, clientSide, taken, head>>

(* k.makanin's handler, from the line behind bind() on.                      *)
Interrupt(s) ==
  /\ oneShot.sigint /\ srv[s] \in {"listen", "accept", "accepted", "serve"}
  /\ srv' = [srv EXCEPT ![s] = "gone"] /\ name' = Nobody
  /\ UNCHANGED <<oneShot, alone, queue, served, clientSide, taken, head>>

(*****************************************************************************)
(* The client.                                                               *)
(*****************************************************************************)
Connect(c) ==
  /\ MayStart /\ c \in First(Idle.clients)
  /\ \/ /\ name \in Listening /\ Len(queue[name]) < Backlog
        /\ cli' = [cli EXCEPT ![c] = "talks"] /\ peer' = [peer EXCEPT ![c] = name]
        /\ queue' = [queue EXCEPT ![name] = Append(@, c)]
     \/ /\ name \notin Listening
        /\ cli' = [cli EXCEPT ![c] = "refused"] /\ UNCHANGED <<peer, queue>>
  /\ UNCHANGED <<oneShot, name, srv, alone, served, wrote, taken, head>>

(* A text can be written while the server has it accepted or may accept it.  *)
Open(c) == peer[c] \in Running
Write(c) ==
  /\ cli[c] = "talks"
  /\ IF Open(c) THEN wrote[c] < Writes /\ wrote' = [wrote EXCEPT ![c] = @ + 1] /\ UNCHANGED cli
     ELSE cli' = [cli EXCEPT ![c] = "killed"] /\ UNCHANGED wrote
  /\ UNCHANGED <<oneShot, name, srv, alone, queue, served, peer, taken, head>>

(* The user ends the text with the line that means so, or ends the input;    *)
(* N.Shestakov's and S.ZaVialoV's clients then write for ever.               *)
Leave(c) ==
  /\ cli[c] = "talks" /\ cli' = [cli EXCEPT ![c] = "gone"]
  /\ UNCHANGED <<oneShot, name, srv, alone, queue, served, peer, wrote, taken, head>>

EndOfInput(c) ==
  /\ cli[c] = "talks"
  /\ cli' = [cli EXCEPT ![c] = IF oneShot.eof = "ends" THEN "gone" ELSE "repeats"]
  /\ UNCHANGED <<oneShot, name, srv, alone, queue, served, peer, wrote, taken, head>>

Repeat(c) ==
  /\ cli[c] = "repeats"
  /\ IF Open(c) THEN wrote[c] < Writes /\ wrote' = [wrote EXCEPT ![c] = @ + 1] /\ UNCHANGED cli
     ELSE cli' = [cli EXCEPT ![c] = "killed"] /\ UNCHANGED wrote
  /\ UNCHANGED <<oneShot, name, srv, alone, queue, served, peer, taken, head>>

ServerStep(s) ==
  \/ UnlinkOld(s) \/ Bind(s) \/ BindFails(s) \/ SetHandler(s) \/ Listen(s) \/ Accept(s)
  \/ RemoveEarly(s) \/ ReadText(s) \/ EmptyText(s) \/ EndOfStream(s) \/ RemoveName(s)

OneShotNext ==
  \/ \E s \in Servers : Start(s) \/ ServerStep(s) \/ Crash(s) \/ Interrupt(s)
  \/ \E c \in Clients : Connect(c) \/ Write(c) \/ Leave(c) \/ EndOfInput(c) \/ Repeat(c)

OneShotSpec == OneShotInit /\ [][OneShotNext]_oneShotVars /\ \A s \in Servers : WF_oneShotVars(ServerStep(s))

(*****************************************************************************)
(* What servers and name should do.                                          *)
(*****************************************************************************)
(* A server that waits for its client is found by the name. Another server   *)
(* that runs may take the name away: one that was started and removes the    *)
(* old name first, one that ends, or k.makanin's when it is interrupted. A   *)
(* server that does neither never loses it.                                  *)
FoundByName ==
  \A s \in Servers : srv[s] = "accept" =>
    name = s \/ (~alone[s] /\ (oneShot.unlinks \/ oneShot.sigint))

(* A server can be started again after any other ended, however it did. Not  *)
(* so the three that leave an old name where it is, after a crash.           *)
RestartBinds ==
  [][\A s \in Servers : srv[s] = "bind" /\ srv'[s] \in {"failed", "astray"} =>
       ~alone[s] \/ (~oneShot.unlinks /\ srv[name] = "dead")]_oneShotVars

(* A server ends once its client has left, and the name no longer leads to   *)
(* it. (m.tsyrenov's that could not bind never gets a client, nor an end.)   *)
EndsWithClient ==
  \A s \in Servers :
    [](served[s] # Nobody /\ cli[served[s]] \in {"gone", "killed"} =>
         <>(srv[s] \in {"gone", "dead"} /\ (name # s \/ srv[s] = "dead")))
=============================================================================
