---------------------------- MODULE ProcessProofs ----------------------------
(****************************************************************************)
(* The programs beside the socket servers of laboratories 31 and 32: a      *)
(* server and the name its clients find it by (30), for every number of     *)
(* starts, crashes and clients; a writer, a pipe and a reader (25); a       *)
(* program and the command it runs (9, 10); a counter of signals (21); a    *)
(* line editor and the row on its screen (17).                              *)
(****************************************************************************)
EXTENDS ChildProcess, PipeTransfer, OneShotServer, LineEditor, SignalCounter,
        SequenceTheorems, FiniteSetTheorems, WellFoundedInduction, TLAPS

-----------------------------------------------------------------------------
(****************************************************************************)
(* One server, one client: OneShotServer.                                   *)
(****************************************************************************)
OneShotType ==
  /\ oneShot \in OneShots
  /\ name \in Servers \cup {Nobody}
  /\ srv \in [Servers -> {"off", "unlink", "bind", "signal", "listen", "accept", "accepted",
                          "serve", "remove", "gone", "failed", "astray", "dead"}]
  /\ alone \in [Servers -> BOOLEAN]

\* From bind() to the removal of the name, wherever the program has that.
Named(s) ==
  \/ srv[s] \in {"signal", "listen", "accept", "accepted"}
  \/ srv[s] \in {"serve", "remove"} /\ oneShot.removes = "end"

\* A server gets where only its program goes.
OnItsWay(s) ==
  /\ srv[s] = "unlink" => oneShot.unlinks
  /\ srv[s] = "accepted" => oneShot.removes = "accepted"
  /\ srv[s] = "remove" => oneShot.removes = "end"

\* FoundByName looks at a server that waits for its client. It is a fact of
\* the whole life of the name, which rests on three others: a server that was
\* alone is the only one that runs, it has the name to itself once the old one
\* is removed, and a name leads to a server that has it or was killed.
OneShotInv ==
  /\ OneShotType
  /\ \A s \in Servers :
       /\ OnItsWay(s)
       /\ Named(s) => name = s \/ (~alone[s] /\ (oneShot.unlinks \/ oneShot.sigint))
       /\ alone[s] => \A t \in Running : s \in Running => t = s
       /\ srv[s] = "bind" /\ alone[s] /\ oneShot.unlinks => name = Nobody
  /\ name # Nobody => Named(name) \/ srv[name] = "dead"

\* The mark of a name that leads nowhere is no server.
LEMMA NobodyIsNoServer == Nobody \notin Servers
  BY DEF Nobody, Servers

\* Where a server is: running, and with one number.
LEMMA ServerFacts ==
  ASSUME OneShotInv, NEW s \in Servers
  PROVE  /\ s # Nobody
         /\ Named(s) => s \in Running
         /\ s \in Running <=> srv[s] \notin {"off", "gone", "failed", "dead"}
         /\ alone[s] \in BOOLEAN
         /\ \A t \in Servers : s # t /\ s \in Running /\ t \in Running => ~alone[t]
  BY NobodyIsNoServer DEF Running, Named, OneShotInv, OneShotType

\* At first there is no server, and at most the remains of an older one.
LEMMA OneShotInitInv == OneShotInit => OneShotInv
<1> SUFFICES ASSUME OneShotInit PROVE OneShotInv
  OBVIOUS
<1>1. OneShotType
  BY DEF OneShotInit, OneShotType
<1>2. \A s \in Servers : srv[s] = "off" /\ s \notin Running /\ ~Named(s)
  BY DEF OneShotInit, Running, Named
<1>3. QED
  BY <1>1, <1>2 DEF OneShotInit, OneShotInv, OnItsWay

\* The steps of a server that leave the name as it is: from where to where.
LEMMA QuietServerInv ==
  ASSUME OneShotInv, NEW s \in Servers,
         NEW to \in {"signal", "listen", "accept", "accepted", "serve", "remove",
                     "gone", "failed", "astray", "dead"},
         srv' = [srv EXCEPT ![s] = to],
         UNCHANGED <<oneShot, name, alone>>,
         s \in Running,
         to = "accepted" => oneShot.removes = "accepted",
         to = "remove" => oneShot.removes = "end",
         Named(s)' => Named(s),
         Named(s) => Named(s)' \/ to = "dead"
  PROVE  OneShotInv'
<1>1. /\ srv'[s] = to /\ \A t \in Servers : t # s => srv'[t] = srv[t]
      /\ OneShotType'
  BY DEF OneShotInv, OneShotType
<1>2. Running' \subseteq Running
  BY <1>1 DEF Running
<1>3. \A t \in Servers : t # s => (Named(t)' <=> Named(t)) /\ (OnItsWay(t)' <=> OnItsWay(t))
  BY <1>1 DEF Named, OnItsWay
<1>4. OnItsWay(s)'
  BY <1>1 DEF OnItsWay
<1>5. ASSUME NEW t \in Servers
      PROVE  /\ OnItsWay(t)'
             /\ Named(t)' => name' = t \/ (~alone'[t] /\ (oneShot'.unlinks \/ oneShot'.sigint))
             /\ alone'[t] => \A u \in Running' : t \in Running' => u = t
             /\ srv'[t] = "bind" /\ alone'[t] /\ oneShot'.unlinks => name' = Nobody
  <2>1. OnItsWay(t)'
    BY <1>3, <1>4 DEF OneShotInv
  <2>2. Named(t)' => name' = t \/ (~alone'[t] /\ (oneShot'.unlinks \/ oneShot'.sigint))
    BY <1>3 DEF OneShotInv
  <2>3. alone'[t] => \A u \in Running' : t \in Running' => u = t
    BY <1>2 DEF OneShotInv
  <2>4. srv'[t] = "bind" /\ alone'[t] /\ oneShot'.unlinks => name' = Nobody
    BY <1>1 DEF OneShotInv
  <2>5. QED
    BY <2>1, <2>2, <2>3, <2>4
<1>6. name' # Nobody => Named(name)' \/ srv'[name'] = "dead"
  <2> SUFFICES ASSUME name # Nobody PROVE Named(name)' \/ srv'[name'] = "dead"
    OBVIOUS
  <2>1. PICK t \in Servers : t = name
    BY DEF OneShotInv, OneShotType
  <2>2. Named(t) \/ srv[t] = "dead"
    BY <2>1 DEF OneShotInv
  <2>3. Named(t)' \/ srv'[t] = "dead"
    BY <1>1, <1>3, <2>2, ServerFacts
  <2>4. QED
    BY <2>1, <2>3
<1>7. QED
  BY <1>1, <1>5, <1>6 DEF OneShotInv

\* The steps after which the name leads nowhere. Whoever else had it was not
\* alone, and its program removes names it does not have.
LEMMA RemovalInv ==
  ASSUME OneShotInv, NEW s \in Servers, NEW to \in {"bind", "serve", "gone"},
         srv' = [srv EXCEPT ![s] = to], name' = Nobody,
         UNCHANGED <<oneShot, alone>>,
         s \in Running, ~Named(s)',
         Named(s) \/ oneShot.unlinks \/ oneShot.sigint
  PROVE  OneShotInv'
<1>1. /\ srv'[s] = to /\ \A t \in Servers : t # s => srv'[t] = srv[t]
      /\ OneShotType'
  BY DEF OneShotInv, OneShotType
<1>2. Running' \subseteq Running
  BY <1>1 DEF Running
<1>3. \A t \in Servers : t # s => (Named(t)' <=> Named(t)) /\ (OnItsWay(t)' <=> OnItsWay(t))
  BY <1>1 DEF Named, OnItsWay
<1>4. OnItsWay(s)'
  BY <1>1 DEF OnItsWay
<1>5. ASSUME NEW t \in Servers, Named(t)'
      PROVE  ~alone'[t] /\ (oneShot'.unlinks \/ oneShot'.sigint)
  <2>1. t # s /\ Named(t)
    BY <1>3, <1>5
  <2>2. ~alone[t]
    BY <2>1, ServerFacts
  <2>3. oneShot.unlinks \/ oneShot.sigint
    BY <2>1 DEF OneShotInv
  <2>4. QED
    BY <2>2, <2>3
<1>6. ASSUME NEW t \in Servers
      PROVE  /\ OnItsWay(t)'
             /\ alone'[t] => \A u \in Running' : t \in Running' => u = t
  <2>1. OnItsWay(t)'
    BY <1>3, <1>4 DEF OneShotInv
  <2>2. alone'[t] => \A u \in Running' : t \in Running' => u = t
    BY <1>2 DEF OneShotInv
  <2>3. QED
    BY <2>1, <2>2
<1>7. QED
  BY <1>1, <1>5, <1>6 DEF OneShotInv

\* A server is started: those that run are not alone any more.
LEMMA StartInv ==
  ASSUME OneShotInv, NEW s \in Servers, Start(s)
  PROVE  OneShotInv'
<1> DEFINE to == IF oneShot.unlinks THEN "unlink" ELSE "bind"
<1>1. /\ srv[s] = "off" /\ srv' = [srv EXCEPT ![s] = to] /\ UNCHANGED <<oneShot, name>>
      /\ alone' = [t \in Servers |-> IF t = s THEN Running = {} ELSE alone[t] /\ t \notin Running]
  BY DEF Start, To
<1>2. /\ srv'[s] = to /\ \A t \in Servers : t # s => srv'[t] = srv[t]
      /\ srv' \in [Servers -> {"off", "unlink", "bind", "signal", "listen", "accept", "accepted",
                          "serve", "remove", "gone", "failed", "astray", "dead"}]
  BY <1>1 DEF OneShotInv, OneShotType
<1>3. /\ \A t \in Servers : alone'[t] <=> IF t = s THEN Running = {} ELSE alone[t] /\ t \notin Running
      /\ alone' \in [Servers -> BOOLEAN]
  BY <1>1 DEF OneShotInv, OneShotType
<1>4. Running' = Running \cup {s} /\ s \notin Running
  BY <1>1, <1>2 DEF Running
<1>5. /\ \A t \in Servers : t # s => (Named(t)' <=> Named(t)) /\ (OnItsWay(t)' <=> OnItsWay(t))
      /\ ~Named(s)' /\ OnItsWay(s)' /\ ~Named(s)
  BY <1>1, <1>2 DEF Named, OnItsWay
<1>6. ASSUME NEW t \in Servers
      PROVE  /\ OnItsWay(t)'
             /\ Named(t)' => name' = t \/ (~alone'[t] /\ (oneShot'.unlinks \/ oneShot'.sigint))
             /\ alone'[t] => \A u \in Running' : t \in Running' => u = t
             /\ srv'[t] = "bind" /\ alone'[t] /\ oneShot'.unlinks => name' = Nobody
  <2>1. OnItsWay(t)'
    BY <1>5 DEF OneShotInv
  <2>2. Named(t)' => name' = t \/ (~alone'[t] /\ (oneShot'.unlinks \/ oneShot'.sigint))
    BY <1>1, <1>3, <1>5 DEF OneShotInv
  <2>3. alone'[t] => \A u \in Running' : t \in Running' => u = t
    BY <1>3, <1>4 DEF OneShotInv
  <2>4. srv'[t] = "bind" /\ alone'[t] /\ oneShot'.unlinks => name' = Nobody
    BY <1>1, <1>2, <1>3 DEF OneShotInv
  <2>5. QED
    BY <2>1, <2>2, <2>3, <2>4
<1>7. name' # Nobody => Named(name)' \/ srv'[name'] = "dead"
  <2> SUFFICES ASSUME name # Nobody PROVE Named(name)' \/ srv'[name'] = "dead"
    BY <1>1
  <2>1. PICK t \in Servers : t = name
    BY DEF OneShotInv, OneShotType
  <2>2. Named(t) \/ srv[t] = "dead"
    BY <2>1 DEF OneShotInv
  <2>3. t # s
    BY <1>1, <1>5, <2>2
  <2>4. Named(t)' \/ srv'[t] = "dead"
    BY <1>2, <1>5, <2>2, <2>3
  <2>5. QED
    BY <1>1, <2>1, <2>4
<1>8. OneShotType'
  BY <1>1, <1>2, <1>3 DEF OneShotInv, OneShotType
<1>9. QED
  BY <1>6, <1>7, <1>8 DEF OneShotInv

\* bind() takes a free name, or fails and ends the server.
LEMMA BindInv ==
  ASSUME OneShotInv, NEW s \in Servers, Bind(s)
  PROVE  OneShotInv'
<1> DEFINE to == IF oneShot.sigint THEN "signal" ELSE "listen"
<1>1. /\ name = Nobody /\ name' = s /\ srv[s] = "bind" /\ srv' = [srv EXCEPT ![s] = to]
      /\ UNCHANGED <<oneShot, alone>>
  BY DEF Bind, To
<1>2. /\ srv'[s] = to /\ \A t \in Servers : t # s => srv'[t] = srv[t]
      /\ OneShotType'
  BY <1>1 DEF OneShotInv, OneShotType
<1>3. Running' = Running /\ s \in Running
  BY <1>1, <1>2 DEF Running
<1>4. /\ \A t \in Servers : t # s => (Named(t)' <=> Named(t)) /\ (OnItsWay(t)' <=> OnItsWay(t))
      /\ Named(s)' /\ OnItsWay(s)'
  BY <1>1, <1>2 DEF Named, OnItsWay
<1>5. ASSUME NEW t \in Servers
      PROVE  /\ OnItsWay(t)'
             /\ Named(t)' => name' = t \/ (~alone'[t] /\ (oneShot'.unlinks \/ oneShot'.sigint))
             /\ alone'[t] => \A u \in Running' : t \in Running' => u = t
             /\ srv'[t] = "bind" /\ alone'[t] /\ oneShot'.unlinks => name' = Nobody
  <2>1. OnItsWay(t)'
    BY <1>4 DEF OneShotInv
  <2>2. Named(t)' => name' = t \/ (~alone'[t] /\ (oneShot'.unlinks \/ oneShot'.sigint))
    BY <1>1, <1>4, NobodyIsNoServer DEF OneShotInv
  <2>3. alone'[t] => \A u \in Running' : t \in Running' => u = t
    BY <1>1, <1>3 DEF OneShotInv
  <2>4. ~(srv'[t] = "bind" /\ alone'[t])
    BY <1>1, <1>2, <1>3, ServerFacts DEF Running
  <2>5. QED
    BY <2>1, <2>2, <2>3, <2>4
<1>6. QED
  BY <1>1, <1>2, <1>4, <1>5 DEF OneShotInv

\* Clients neither bind nor remove names, nor does a server that shows a text.
LEMMA OneShotQuietInv ==
  ASSUME OneShotInv, UNCHANGED <<oneShot, name, srv, alone>>
  PROVE  OneShotInv'
  BY DEF OneShotInv, OneShotType, OnItsWay, Named, Running

\* Which of these each step of a server is.
LEMMA ServerStepInv ==
  ASSUME OneShotInv, NEW s \in Servers, ServerStep(s) \/ Crash(s) \/ Interrupt(s)
  PROVE  OneShotInv'
<1>1. /\ srv \in [Servers -> {"off", "unlink", "bind", "signal", "listen", "accept", "accepted",
                          "serve", "remove", "gone", "failed", "astray", "dead"}]
      /\ OnItsWay(s)
  BY DEF OneShotInv, OneShotType
<1>2. CASE UnlinkOld(s)
  <2>1. srv[s] = "unlink" /\ srv' = [srv EXCEPT ![s] = "bind"] /\ srv'[s] = "bind"
        /\ name' = Nobody /\ UNCHANGED <<oneShot, alone>>
    BY <1>1, <1>2 DEF UnlinkOld, To
  <2>2. s \in Running /\ ~Named(s)' /\ oneShot.unlinks
    BY <1>1, <2>1 DEF Running, Named, OnItsWay
  <2>3. QED
    BY <2>1, <2>2, RemovalInv
<1>3. CASE Bind(s)
  BY <1>3, BindInv
<1>4. CASE BindFails(s)
  <2>1. PICK to \in {"astray", "failed"} : srv' = [srv EXCEPT ![s] = to] /\ srv'[s] = to
    BY <1>1, <1>4 DEF BindFails, To
  <2>2. srv[s] = "bind" /\ UNCHANGED <<oneShot, name, alone>>
    BY <1>4 DEF BindFails, To
  <2>3. s \in Running /\ ~Named(s)' /\ ~Named(s)
    BY <2>1, <2>2 DEF Running, Named
  <2>4. QED
    BY <2>1, <2>2, <2>3, QuietServerInv
<1>5. CASE SetHandler(s)
  <2>1. /\ srv[s] = "signal" /\ srv' = [srv EXCEPT ![s] = "listen"] /\ srv'[s] = "listen"
        /\ UNCHANGED <<oneShot, name, alone>>
    BY <1>1, <1>5 DEF SetHandler, To
  <2>2. s \in Running /\ Named(s)' /\ Named(s)
    BY <2>1 DEF Running, Named
  <2>3. QED
    BY <2>1, <2>2, QuietServerInv
<1>6. CASE Listen(s)
  <2>1. /\ srv[s] = "listen" /\ srv' = [srv EXCEPT ![s] = "accept"] /\ srv'[s] = "accept"
        /\ UNCHANGED <<oneShot, name, alone>>
    BY <1>1, <1>6 DEF Listen, To
  <2>2. s \in Running /\ Named(s)' /\ Named(s)
    BY <2>1 DEF Running, Named
  <2>3. QED
    BY <2>1, <2>2, QuietServerInv
<1>7. CASE Accept(s)
  <2>1. PICK to \in {"accepted", "serve"} :
          /\ srv' = [srv EXCEPT ![s] = to] /\ srv'[s] = to
          /\ to = "accepted" <=> oneShot.removes = "accepted"
    BY <1>1, <1>7 DEF Accept, To
  <2>2. srv[s] = "accept" /\ UNCHANGED <<oneShot, name, alone>>
    BY <1>7 DEF Accept, To
  <2>3. s \in Running /\ Named(s)
    BY <2>2 DEF Running, Named
  <2>4. CASE to = "accepted" \/ oneShot.removes = "end"
    <3>1. Named(s)'
      BY <2>1, <2>2, <2>4 DEF Named
    <3>2. QED
      BY <2>1, <2>2, <2>3, <3>1, QuietServerInv
  <2>5. oneShot.removes \in {"end", "accepted"}
    BY OneShotAssumption DEF OneShotInv, OneShotType
  <2>6. QED
    BY <2>1, <2>4, <2>5
<1>8. CASE RemoveEarly(s)
  <2>1. srv[s] = "accepted" /\ srv' = [srv EXCEPT ![s] = "serve"] /\ srv'[s] = "serve"
        /\ name' = Nobody /\ UNCHANGED <<oneShot, alone>>
    BY <1>1, <1>8 DEF RemoveEarly, To
  <2>2. s \in Running /\ ~Named(s)' /\ Named(s)
    BY <1>1, <2>1 DEF Running, Named, OnItsWay
  <2>3. QED
    BY <2>1, <2>2, RemovalInv
<1>9. CASE EmptyText(s)
  BY <1>9, OneShotQuietInv DEF EmptyText
<1>10. CASE ReadText(s) \/ EndOfStream(s)
  <2>1. PICK to \in {"serve", "remove", "gone"} :
          /\ srv' = [srv EXCEPT ![s] = to] /\ srv'[s] = to
          /\ to = "remove" => oneShot.removes = "end"
          /\ to = "gone" => oneShot.removes # "end"
    BY <1>1, <1>10 DEF ReadText, EndOfStream, NothingMore, AfterText, Done
  <2>2. srv[s] = "serve" /\ UNCHANGED <<oneShot, name, alone>>
    BY <1>10 DEF ReadText, EndOfStream, NothingMore
  <2>3. s \in Running /\ (Named(s)' <=> Named(s))
    BY <2>1, <2>2 DEF Running, Named
  <2>4. QED
    BY <2>1, <2>2, <2>3, QuietServerInv
<1>11. CASE RemoveName(s)
  <2>1. srv[s] = "remove" /\ srv' = [srv EXCEPT ![s] = "gone"] /\ srv'[s] = "gone"
        /\ name' = Nobody /\ UNCHANGED <<oneShot, alone>>
    BY <1>1, <1>11 DEF RemoveName, To
  <2>2. s \in Running /\ ~Named(s)' /\ Named(s)
    BY <1>1, <2>1 DEF Running, Named, OnItsWay
  <2>3. QED
    BY <2>1, <2>2, RemovalInv
<1>12. CASE Crash(s)
  <2>1. /\ s \in Running /\ srv' = [srv EXCEPT ![s] = "dead"] /\ srv'[s] = "dead"
        /\ UNCHANGED <<oneShot, name, alone>>
    BY <1>1, <1>12 DEF Crash
  <2>2. ~Named(s)'
    BY <2>1 DEF Named
  <2>3. QED
    BY <2>1, <2>2, QuietServerInv
<1>13. CASE Interrupt(s)
  <2>1. /\ oneShot.sigint /\ srv[s] \in {"listen", "accept", "accepted", "serve"}
        /\ srv' = [srv EXCEPT ![s] = "gone"] /\ srv'[s] = "gone"
        /\ name' = Nobody /\ UNCHANGED <<oneShot, alone>>
    BY <1>1, <1>13 DEF Interrupt
  <2>2. s \in Running /\ ~Named(s)'
    BY <2>1 DEF Running, Named
  <2>3. QED
    BY <2>1, <2>2, RemovalInv
<1>14. QED
  BY <1>2, <1>3, <1>4, <1>5, <1>6, <1>7, <1>8, <1>9, <1>10, <1>11, <1>12, <1>13 DEF ServerStep

\* Servers, clients and the directory keep the invariant, through crashes and interrupts.
THEOREM OneShotInductive == OneShotSpec => []OneShotInv
<1>1. OneShotInit => OneShotInv
  BY OneShotInitInv
<1>2. OneShotInv /\ [OneShotNext]_oneShotVars => OneShotInv'
  <2> SUFFICES ASSUME OneShotInv, [OneShotNext]_oneShotVars PROVE OneShotInv'
    OBVIOUS
  <2>1. ASSUME NEW s \in Servers, Start(s) \/ ServerStep(s) \/ Crash(s) \/ Interrupt(s)
        PROVE  OneShotInv'
    BY <2>1, StartInv, ServerStepInv
  <2>2. ASSUME NEW c,
               Connect(c) \/ Write(c) \/ Leave(c) \/ EndOfInput(c) \/ Repeat(c)
        PROVE  OneShotInv'
    BY <2>2, OneShotQuietInv DEF Connect, Write, Leave, EndOfInput, Repeat
  <2>3. CASE UNCHANGED oneShotVars
    BY <2>3, OneShotQuietInv DEF oneShotVars
  <2>4. QED
    BY <2>1, <2>2, <2>3 DEF OneShotNext
<1>3. QED
  BY <1>1, <1>2, PTL DEF OneShotSpec

\* A server that waits for its client is found by its name, however many are
\* started, killed and interrupted, unless another one that ran with it
\* removes names it does not have.
THEOREM NameLeadsToServer == OneShotSpec => []FoundByName
<1>1. OneShotInv => FoundByName
  BY DEF OneShotInv, FoundByName, Named
<1>2. QED
  BY <1>1, OneShotInductive, PTL

\* bind() fails for a server that was alone only where its program leaves the
\* old name, and only after a crash.
THEOREM BindsAfterRestart == OneShotSpec => RestartBinds
<1> DEFINE Fails(s) == srv[s] = "bind" /\ srv'[s] \in {"failed", "astray"}
           Excused(s) == ~alone[s] \/ (~oneShot.unlinks /\ srv[name] = "dead")
<1>1. OneShotInv /\ [OneShotNext]_oneShotVars => [\A s \in Servers : Fails(s) => Excused(s)]_oneShotVars
  <2> SUFFICES ASSUME OneShotInv, [OneShotNext]_oneShotVars, NEW s \in Servers, Fails(s),
                      alone[s]
               PROVE  ~oneShot.unlinks /\ srv[name] = "dead"
    OBVIOUS
  <2>1. srv \in [Servers -> {"off", "unlink", "bind", "signal", "listen", "accept", "accepted",
                             "serve", "remove", "gone", "failed", "astray", "dead"}]
    BY DEF OneShotInv, OneShotType
  <2>2. name # Nobody
    <3>1. ASSUME NEW t \in Servers, Start(t) \/ ServerStep(t) \/ Crash(t) \/ Interrupt(t)
          PROVE  name # Nobody
      <4>1. t = s
        BY <2>1, <3>1 DEF Start, ServerStep, Crash, Interrupt, To, UnlinkOld, Bind, BindFails,
          SetHandler, Listen, Accept, RemoveEarly, ReadText, NothingMore, EmptyText, EndOfStream,
          RemoveName
      <4>2. BindFails(s)
        BY <2>1, <3>1, <4>1 DEF Start, ServerStep, Crash, Interrupt, To, UnlinkOld, Bind, BindFails,
          SetHandler, Listen, Accept, RemoveEarly, ReadText, NothingMore, EmptyText, EndOfStream,
          RemoveName
      <4>3. QED
        BY <4>2 DEF BindFails
    <3>2. ASSUME srv' = srv PROVE FALSE
      BY <3>2
    <3>3. QED
      BY <3>1, <3>2 DEF OneShotNext, Connect, Write, Leave, EndOfInput, Repeat, oneShotVars
  <2>3. PICK t \in Servers : t = name
    BY <2>2 DEF OneShotInv, OneShotType
  <2>4. s \in Running /\ ~Named(s) /\ srv[s] # "dead"
    BY DEF Running, Named
  <2>5. Named(t) \/ srv[t] = "dead"
    BY <2>2, <2>3 DEF OneShotInv
  <2>6. t # s
    BY <2>4, <2>5
  <2>7. srv[t] = "dead"
    BY <2>4, <2>5, <2>6, ServerFacts
  <2>8. ~oneShot.unlinks
    BY <2>2 DEF OneShotInv
  <2>9. QED
    BY <2>3, <2>7, <2>8
<1>2. QED
  BY <1>1, OneShotInductive, PTL DEF RestartBinds, OneShotSpec

-----------------------------------------------------------------------------
(****************************************************************************)
(* Writer and reader of a pipe: PipeTransfer. (Its lemmas about C strings   *)
(* are SocketTheorems' too; the two modules have no names to share.)        *)
(****************************************************************************)
\* strlen() never runs past the buffer.
LEMMA StrLenBound ==
  ASSUME NEW s \in Seq(Byte)
  PROVE  StrLen(s) \in 0 .. Len(s)
<1> DEFINE I == 1 .. Len(s)
<1> DEFINE P == {k \in I : \A j \in 1 .. k : s[j] # Nul}
<1>1. Len(s) \in Nat
  BY LenProperties
<1>2. IsFiniteSet(I) /\ Cardinality(I) = Len(s)
  <2>1. /\ IsFiniteSet(1 .. Len(s))
        /\ Cardinality(1 .. Len(s)) = IF 1 > Len(s) THEN 0 ELSE Len(s) - 1 + 1
    BY <1>1, FS_Interval
  <2>2. QED
    BY <1>1, <2>1
<1>3. P \in SUBSET I
  OBVIOUS
<1> HIDE DEF I
<1>4. IsFiniteSet(P) /\ Cardinality(P) <= Cardinality(I)
  BY <1>2, <1>3, FS_Subset
<1>5. Cardinality(P) \in Nat
  BY <1>4, FS_CardinalityType
<1>6. Cardinality(P) \in 0 .. Len(s)
  BY <1>1, <1>2, <1>4, <1>5
<1>7. QED
  BY <1>6 DEF StrLen, I

\* The numbers up to n are n.
LEMMA IntervalCount ==
  ASSUME NEW n \in Nat
  PROVE  IsFiniteSet(1 .. n) /\ Cardinality(1 .. n) = n
<1>1. IsFiniteSet(1 .. n) /\ Cardinality(1 .. n) = IF 1 > n THEN 0 ELSE n - 1 + 1
  BY FS_Interval
<1>2. QED
  BY <1>1

\* toupper() keeps the length and works byte by byte.
LEMMA UpperTextType ==
  ASSUME NEW s \in Seq(Byte)
  PROVE  /\ UpperText(s) \in Seq(Byte)
         /\ Len(UpperText(s)) = Len(s)
         /\ \A k \in 1 .. Len(s) : UpperText(s)[k] = Upper(s[k])
<1>1. Len(s) \in Nat /\ \A k \in 1 .. Len(s) : s[k] \in Byte
  BY LenProperties, ElementOfSeq
<1>2. \A b \in Byte : Upper(b) \in Byte
  BY DEF Byte, Upper
<1>3. UpperText(s) \in [1 .. Len(s) -> Byte]
  BY <1>1, <1>2 DEF UpperText
<1>4. QED
  BY <1>1, <1>3 DEF UpperText

\* strlen() stops at the first '\0', and there is none before it.
LEMMA StrLenFirst ==
  ASSUME NEW s \in Seq(Byte)
  PROVE  /\ StrLen(s) \in 0 .. Len(s)
         /\ \A k \in 1 .. StrLen(s) : s[k] # Nul
         /\ StrLen(s) < Len(s) => s[StrLen(s) + 1] = Nul
<1> DEFINE n == Len(s)
           P == {k \in 1 .. n : \A j \in 1 .. k : s[j] # Nul}
           m == StrLen(s)
<1>1. n \in Nat /\ m = Cardinality(P) /\ m \in 0 .. n
  BY LenProperties, StrLenBound DEF StrLen
<1>2. IsFiniteSet(P)
  <2>1. P \in SUBSET (1 .. n)
    OBVIOUS
  <2> HIDE DEF P, n
  <2>2. QED
    BY <1>1, <2>1, IntervalCount, FS_Subset
<1>3. \A k \in 1 .. m : k \in P
  <2> SUFFICES ASSUME NEW k \in 1 .. m, k \notin P PROVE FALSE
    OBVIOUS
  <2>1. k \in Nat /\ k - 1 \in Nat /\ k \in 1 .. n
    BY <1>1
  <2>2. P \subseteq 1 .. k - 1
    BY <1>1, <2>1
  <2> HIDE DEF P, n, m
  <2>3. Cardinality(P) <= Cardinality(1 .. k - 1)
    BY <2>1, <2>2, IntervalCount, FS_Subset
  <2>4. m <= k - 1
    BY <1>1, <2>1, <2>3, IntervalCount
  <2>5. QED
    BY <1>1, <2>1, <2>4
<1>4. \A k \in 1 .. m : s[k] # Nul
  BY <1>1, <1>3
<1>5. m < n => s[m + 1] = Nul
  <2> SUFFICES ASSUME m < n, s[m + 1] # Nul PROVE FALSE
    OBVIOUS
  <2>1. m + 1 \in Nat /\ m + 1 \in 1 .. n
    BY <1>1
  <2>2. 1 .. m + 1 \subseteq P
    <3> SUFFICES ASSUME NEW k \in 1 .. m + 1 PROVE k \in P
      OBVIOUS
    <3>1. k \in 1 .. n
      BY <1>1, <2>1
    <3>2. \A j \in 1 .. k : j \in 1 .. m \/ j = m + 1
      BY <1>1
    <3>3. \A j \in 1 .. k : s[j] # Nul
      BY <1>4, <3>2
    <3>4. QED
      BY <3>1, <3>3
  <2> HIDE DEF P, n, m
  <2>3. Cardinality(1 .. m + 1) <= Cardinality(P)
    BY <1>2, <2>2, FS_Subset
  <2>4. QED
    BY <1>1, <2>1, <2>3, IntervalCount
<1>6. QED
  BY <1>1, <1>4, <1>5

\* A C string is the part of the buffer before the first '\0'.
LEMMA CStringParts ==
  ASSUME NEW s \in Seq(Byte)
  PROVE  /\ UpperText(CString(s)) \in Seq(Byte)
         /\ Len(UpperText(CString(s))) = StrLen(s)
         /\ \A k \in 1 .. StrLen(s) : UpperText(CString(s))[k] = Upper(s[k])
<1> DEFINE m == StrLen(s)
<1>1. m \in 0 .. Len(s) /\ Len(s) \in Nat
  BY StrLenBound, LenProperties
<1>2. \A i \in 1 .. m : s[i] \in Byte
  BY <1>1, ElementOfSeq
<1> HIDE DEF m
<1>3. /\ SubSeq(s, 1, m) \in Seq(Byte)
      /\ Len(SubSeq(s, 1, m)) = IF 1 <= m THEN m - 1 + 1 ELSE 0
      /\ \A k \in 1 .. m - 1 + 1 : SubSeq(s, 1, m)[k] = s[1 + k - 1]
  BY <1>1, <1>2, SubSeqProperties
<1>4. Len(SubSeq(s, 1, m)) = m /\ \A k \in 1 .. m : SubSeq(s, 1, m)[k] = s[k]
  BY <1>1, <1>3
<1>5. /\ UpperText(SubSeq(s, 1, m)) \in Seq(Byte)
      /\ Len(UpperText(SubSeq(s, 1, m))) = Len(SubSeq(s, 1, m))
      /\ \A k \in 1 .. Len(SubSeq(s, 1, m)) :
           UpperText(SubSeq(s, 1, m))[k] = Upper(SubSeq(s, 1, m)[k])
  BY <1>3, UpperTextType
<1>6. QED
  BY <1>4, <1>5 DEF CString, m

\* Of what is appended to a stream, the part that is shown takes the next
\* places on the screen.
LEMMA PlacesGoOn ==
  ASSUME NEW n \in Nat, NEW m \in Nat, NEW kept \in SUBSET (1 .. n)
  PROVE  LET more == kept \cup (n + 1 .. n + m)
         IN  /\ Cardinality(kept) \in Nat
             /\ Cardinality(more) = Cardinality(kept) + m
             /\ \A k \in kept : Place(more, k) = Place(kept, k)
             /\ \A k \in kept : Place(kept, k) \in 1 .. Cardinality(kept)
             /\ \A i \in 1 .. m : Place(more, n + i) = Cardinality(kept) + i
<1> DEFINE new(i) == n + 1 .. n + i
           more == kept \cup new(m)
<1>1. IsFiniteSet(kept) /\ Cardinality(kept) \in Nat
  BY IntervalCount, FS_Subset, FS_CardinalityType
<1>2. \A i \in 0 .. m : /\ IsFiniteSet(kept \cup new(i))
                        /\ Cardinality(kept \cup new(i)) = Cardinality(kept) + i
  <2> TAKE i \in 0 .. m
  <2>1. IsFiniteSet(new(i)) /\ Cardinality(new(i)) = i
    <3>1. /\ IsFiniteSet(n + 1 .. n + i)
          /\ Cardinality(n + 1 .. n + i) = IF n + 1 > n + i THEN 0 ELSE (n + i) - (n + 1) + 1
      BY FS_Interval
    <3>2. QED
      BY <3>1
  <2>2. kept \cap new(i) = {}
    OBVIOUS
  <2> HIDE DEF new
  <2>3. /\ IsFiniteSet(kept \cup new(i))
        /\ Cardinality(kept \cup new(i)) = Cardinality(kept) + Cardinality(new(i)) - Cardinality({})
    BY <1>1, <2>1, <2>2, FS_Union
  <2>4. Cardinality({}) = 0
    BY FS_EmptySet
  <2>5. QED
    BY <1>1, <2>1, <2>3, <2>4
<1>3. \A k \in kept : Place(more, k) = Place(kept, k)
  <2> TAKE k \in kept
  <2>1. {j \in more : j <= k} = {j \in kept : j <= k}
    OBVIOUS
  <2>2. QED
    BY <2>1 DEF Place
<1>4. \A i \in 1 .. m : Place(more, n + i) = Cardinality(kept) + i
  <2> TAKE i \in 1 .. m
  <2>1. /\ \A j \in kept : j <= n + i
        /\ \A j \in new(m) : j <= n + i <=> j \in new(i)
        /\ new(i) \subseteq new(m)
    OBVIOUS
  <2> HIDE DEF new
  <2>2. {j \in more : j <= n + i} = kept \cup new(i)
    BY <2>1
  <2>3. QED
    BY <1>2, <2>2 DEF Place
<1>5. \A k \in kept : Place(kept, k) \in 1 .. Cardinality(kept)
  <2> TAKE k \in kept
  <2> DEFINE upto == {j \in kept : j <= k}
  <2>1. k \in upto /\ upto \in SUBSET kept
    OBVIOUS
  <2> HIDE DEF upto
  <2>2. IsFiniteSet(upto) /\ Cardinality(upto) <= Cardinality(kept)
    BY <1>1, <2>1, FS_Subset
  <2>3. Cardinality(upto) \in Nat /\ Cardinality(upto) # 0
    BY <2>1, <2>2, FS_CardinalityType, FS_EmptySet
  <2>4. Place(kept, k) = Cardinality(upto)
    BY DEF Place, upto
  <2>5. QED
    BY <1>1, <2>2, <2>3, <2>4
<1>6. Cardinality(more) = Cardinality(kept) + m
  BY <1>2
<1>7. QED
  BY <1>1, <1>3, <1>4, <1>5, <1>6

\* One more read() that is printed as a C string keeps the promise.
LEMMA ShownOnceMore ==
  ASSUME NEW text \in Seq(Byte), NEW stream \in Seq(Byte), NEW bytes \in Seq(Byte),
         NEW most \in Nat, Len(bytes) <= most, ShownOnce(text, stream, most)
  PROVE  ShownOnce(text \o UpperText(CString(bytes)), stream \o bytes, most)
<1> DEFINE n == Len(stream)
           m == StrLen(bytes)
           shows == UpperText(CString(bytes))
           t == text \o shows
           s == stream \o bytes
<1>1. PICK kept \in SUBSET (1 .. n) :
        /\ (1 .. n) \ kept \subseteq Losable(stream, most)
        /\ Len(text) = Cardinality(kept)
        /\ \A k \in kept : stream[k] # Nul /\ text[Place(kept, k)] = Upper(stream[k])
  BY DEF ShownOnce
<1>2. /\ m \in 0 .. Len(bytes) /\ Len(bytes) \in Nat /\ n \in Nat
      /\ \A k \in 1 .. m : bytes[k] # Nul
      /\ m < Len(bytes) => bytes[m + 1] = Nul
  BY StrLenFirst, LenProperties
<1>3. shows \in Seq(Byte) /\ Len(shows) = m /\ \A k \in 1 .. m : shows[k] = Upper(bytes[k])
  BY CStringParts
<1> HIDE DEF m, shows
<1>4. Len(s) = n + Len(bytes) /\ \A i \in 1 .. n + Len(bytes) :
                                   s[i] = IF i <= n THEN stream[i] ELSE bytes[i - n]
  BY ConcatProperties
<1>5. Len(t) = Len(text) + Len(shows) /\ \A i \in 1 .. Len(text) + Len(shows) :
                                   t[i] = IF i <= Len(text) THEN text[i] ELSE shows[i - Len(text)]
  BY <1>3, ConcatProperties
<1> HIDE DEF n, s, t
<1> DEFINE more == kept \cup (n + 1 .. n + m)
<1>6. /\ Cardinality(kept) \in Nat
      /\ Cardinality(more) = Cardinality(kept) + m
      /\ \A k \in kept : Place(more, k) = Place(kept, k)
      /\ \A k \in kept : Place(kept, k) \in 1 .. Cardinality(kept)
      /\ \A i \in 1 .. m : Place(more, n + i) = Cardinality(kept) + i
  <2>1. n \in Nat /\ m \in Nat
    BY <1>2
  <2>2. QED
    BY <2>1, PlacesGoOn
<1>7. more \in SUBSET (1 .. Len(s))
  <2>1. m \in Nat /\ n \in Nat /\ Len(s) \in Nat /\ n + m <= Len(s) /\ n <= Len(s)
    BY <1>2, <1>4
  <2>2. \A k \in more : k \in 1 .. n \/ k \in n + 1 .. n + m
    BY <1>1
  <2> HIDE DEF more
  <2>3. \A k \in more : k \in 1 .. Len(s)
    BY <2>1, <2>2
  <2>4. QED
    BY <2>3
<1>8. (1 .. Len(s)) \ more \subseteq Losable(s, most)
  <2> SUFFICES ASSUME NEW k \in 1 .. Len(s), k \notin more PROVE k \in Losable(s, most)
    OBVIOUS
  <2>1. CASE k <= n
    <3>1. k \in 1 .. n /\ k \in Losable(stream, most)
      BY <1>1, <1>2, <1>4, <2>1
    <3>2. PICK j \in 1 .. k : stream[j] = Nul /\ k - j < most
      BY <3>1 DEF Losable
    <3>3. s[j] = Nul
      BY <1>2, <1>4, <3>1, <3>2
    <3>4. QED
      BY <3>2, <3>3 DEF Losable
  <2>2. CASE ~(k <= n)
    <3> DEFINE j == n + m + 1
    <3>1. k > n + m /\ k <= n + Len(bytes)
      BY <1>2, <1>4, <2>2
    <3>2. m < Len(bytes) /\ j \in 1 .. k /\ k - j < most
      BY <1>2, <3>1
    <3>3. s[j] = bytes[m + 1]
      <4>1. j \in 1 .. n + Len(bytes) /\ ~(j <= n) /\ j - n = m + 1
        BY <1>2, <3>1
      <4>2. QED
        BY <1>4, <4>1
    <3>4. s[j] = Nul
      BY <1>2, <3>2, <3>3
    <3>5. QED
      BY <3>2, <3>4 DEF Losable
  <2>3. QED
    BY <2>1, <2>2
<1>9. Len(t) = Cardinality(more)
  BY <1>1, <1>3, <1>5, <1>6
<1>10. ASSUME NEW k \in more PROVE s[k] # Nul /\ t[Place(more, k)] = Upper(s[k])
  <2>1. CASE k \in kept
    <3>1. Place(more, k) \in 1 .. Len(text) /\ Place(more, k) = Place(kept, k)
      BY <1>1, <1>6, <2>1
    <3>2. t[Place(more, k)] = text[Place(kept, k)]
      BY <1>2, <1>3, <1>5, <3>1
    <3>3. s[k] = stream[k]
      <4>1. k \in 1 .. n
        BY <2>1
      <4>2. k \in 1 .. n + Len(bytes) /\ k <= n
        BY <1>2, <4>1
      <4>3. QED
        BY <1>4, <4>2
    <3>4. QED
      BY <1>1, <2>1, <3>2, <3>3
  <2>2. CASE k \notin kept
    <3>1. PICK i \in 1 .. m : k = n + i
      <4>1. k \in n + 1 .. n + m
        BY <2>2
      <4>2. k - n \in 1 .. m /\ k = n + (k - n)
        BY <1>2, <4>1
      <4>3. QED
        BY <4>2
    <3>2. Place(more, k) = Len(text) + i
      BY <1>1, <1>6, <3>1
    <3>3. t[Place(more, k)] = shows[i]
      <4>1. /\ Len(text) + i \in 1 .. Len(text) + Len(shows)
            /\ ~(Len(text) + i <= Len(text)) /\ (Len(text) + i) - Len(text) = i
        BY <1>1, <1>2, <1>3, <1>6
      <4>2. QED
        BY <1>5, <3>2, <4>1
    <3>4. s[k] = bytes[i]
      <4>1. n + i \in 1 .. n + Len(bytes) /\ ~(n + i <= n) /\ (n + i) - n = i
        BY <1>2
      <4>2. QED
        BY <1>4, <3>1, <4>1
    <3>5. QED
      BY <1>2, <1>3, <3>3, <3>4
  <2>3. QED
    BY <2>1, <2>2
<1>11. ShownOnce(t, s, most)
  BY <1>7, <1>8, <1>9, <1>10 DEF ShownOnce
<1>12. QED
  BY <1>11 DEF t, s, shows

\* A promise about nothing is kept.
LEMMA ShownNothing == \A most : ShownOnce(<<>>, <<>>, most)
<1>1. Len(<<>>) = 0 /\ 1 .. 0 = {} /\ Cardinality({}) = 0
  BY FS_EmptySet, EmptySeq
<1>2. QED
  BY <1>1 DEF ShownOnce

\* What a C string shows of a buffer are bytes, and no '\0' is among them.
LEMMA CStringClean ==
  ASSUME NEW s \in Seq(Byte)
  PROVE  /\ CString(s) \in Seq(Byte)
         /\ \A k \in 1 .. Len(CString(s)) : CString(s)[k] # Nul
<1> DEFINE m == StrLen(s)
<1>1. /\ m \in Nat /\ m <= Len(s) /\ Len(s) \in Nat
      /\ \A k \in 1 .. m : s[k] # Nul
  BY StrLenFirst, LenProperties
<1>2. \A k \in 1 .. m : s[k] \in Byte
  BY <1>1, ElementOfSeq
<1> HIDE DEF m
<1>3. /\ SubSeq(s, 1, m) \in Seq(Byte)
      /\ Len(SubSeq(s, 1, m)) = IF 1 <= m THEN m - 1 + 1 ELSE 0
      /\ \A k \in 1 .. m - 1 + 1 : SubSeq(s, 1, m)[k] = s[1 + k - 1]
  BY <1>1, <1>2, SubSeqProperties
<1>4. Len(SubSeq(s, 1, m)) = m /\ \A k \in 1 .. m : SubSeq(s, 1, m)[k] = s[k]
  BY <1>1, <1>3
<1>5. QED
  BY <1>1, <1>3, <1>4 DEF CString, m

\* What the programs have in common.
LEMMA TransferFacts ==
  ASSUME transfer \in Transfers
  PROVE  /\ transfer.child \in {"reader", "writer"}
         /\ transfer.child = "writer" => transfer.waits # "last" /\ transfer.until # "one"
         /\ transfer.child = "reader" => transfer.waits \in {"last", "never"}
         /\ transfer.waits = "last" => transfer.until = "end"
         /\ transfer.until = "one" => transfer.waits = "never"
         /\ transfer.until = "zero" =>
              /\ transfer.waits = "first" /\ transfer.child = "writer" /\ ~transfer.many
              /\ transfer.text = "typed" /\ transfer.frame = "newline"
              /\ transfer.size = "byte"
         /\ transfer.size \in {"buffer", "less", "byte"}
         /\ transfer.eof \in {"ends", "repeats", "unset"}
         /\ transfer.text = "constant" => transfer.until # "zero"
         /\ transfer.ends \in {"read", "piece", "buffer", "char"}
         /\ transfer.ends = "char" => transfer.frame = "zero" /\ transfer.size = "buffer"
<1>1. transfer \in AllTransfers
  BY TransferAssumption
<1> USE DEF Daniil25, Trushkin25, Shestakov25, Komarevtsev25, Karakulin25, Makanin25, Tsyrenov25,
            ZaVialoV25, Bedareva25
<1>2. CASE transfer = Daniil25
  BY <1>2
<1>3. CASE transfer = Trushkin25
  BY <1>3
<1>4. CASE transfer = Shestakov25
  BY <1>4
<1>5. CASE transfer = Komarevtsev25
  BY <1>5
<1>6. CASE transfer = Karakulin25
  BY <1>6
<1>7. CASE transfer = Makanin25
  BY <1>7
<1>8. CASE transfer = Tsyrenov25
  BY <1>8
<1>9. CASE transfer = ZaVialoV25
  BY <1>9
<1>10. CASE transfer = Bedareva25
  BY <1>10
<1>11. QED
  BY <1>1, <1>2, <1>3, <1>4, <1>5, <1>6, <1>7, <1>8, <1>9, <1>10
     DEF AllTransfers, Zelenkov25, Chelbaev25

TransferType ==
  /\ transfer \in Transfers
  /\ toType \in Seq(Seq(Byte)) /\ line \in Seq(Byte) /\ sent \in Seq(Byte)
  /\ rd \in Nat /\ rd <= Len(sent)
  /\ writer \in {"ask", "write", "close", "wait", "gone"}
  /\ reader \in {"wait", "close", "read", "gone", "astray"}
  /\ holders \subseteq {"writer", "reader"}

\* ParentEndsLast is about the end. What leads there: the writer holds the pipe
\* as long as it may write; a reader that stops at a '\0' starts when all is
\* written, and the only '\0' is the last byte; a reader that is gone has read
\* everything there will be, unless it reads once.
TransferInv ==
  /\ TransferType
  /\ writer \in {"ask", "write", "close"} => "writer" \in holders
  /\ writer = "wait" => transfer.child = "reader" /\ transfer.waits = "last"
  /\ writer = "gone" /\ transfer.child = "reader" /\ transfer.waits = "last" => reader = "gone"
  /\ transfer.waits = "first" /\ reader # "wait" => writer = "gone"
  /\ transfer.until = "zero" =>
       /\ writer \in {"ask", "write"} => sent = <<>>
       /\ \A k \in 1 .. Len(sent) : sent[k] = Nul => k = Len(sent)
  /\ reader = "gone" => \/ transfer.until = "one"
                        \/ rd = Len(sent) /\ writer \in {"wait", "gone"}

\* The pipe starts empty, with both of its ends open.
LEMMA TransferInitInv == TransferInit => TransferInv
<1> SUFFICES ASSUME TransferInit PROVE TransferInv
  OBVIOUS
<1>1. /\ <<>> \in Seq(Byte) /\ Len(<<>>) = 0 /\ <<Nul>> \in Seq(Byte)
  BY EmptySeq DEF Nul, Byte
<1>2. TransferType
  BY <1>1, TransferAssumption DEF TransferInit, TransferType
<1>3. QED
  BY <1>1, <1>2 DEF TransferInit, TransferInv

\* What is written of a line.
LEMMA FramedFacts ==
  ASSUME TransferInv
  PROVE  /\ Framed \in Seq(Byte)
         /\ transfer.until = "zero" =>
              \A k \in 1 .. Len(Framed) : Framed[k] = Nul => k = Len(Framed)
         /\ transfer.frame = "zero" => Len(Framed) \in Nat \ {0} /\ Framed[Len(Framed)] = Nul
<1>1. Constant \in Seq(Byte) /\ <<Nul>> \in Seq(Byte) /\ <<>> \in Seq(Byte) /\ Nul \in Byte /\ Newline \in Byte
  BY DEF Constant, Byte, Nul, Newline
<1>2. Text \in Seq(Byte)
  BY <1>1 DEF Text, TransferInv, TransferType
<1>3. /\ CString(Text) \in Seq(Byte) /\ Append(Text, Newline) \in Seq(Byte)
      /\ Append(CString(Text), Nul) \in Seq(Byte)
      /\ LET zero == Append(CString(Text), Nul) IN Len(zero) \in Nat \ {0} /\ zero[Len(zero)] = Nul
  <2>1. CString(Text) \in Seq(Byte) /\ Append(Text, Newline) \in Seq(Byte)
    BY <1>1, <1>2, CStringClean, AppendProperties
  <2>2. /\ Append(CString(Text), Nul) \in Seq(Byte)
        /\ Len(Append(CString(Text), Nul)) = Len(CString(Text)) + 1
        /\ Append(CString(Text), Nul)[Len(CString(Text)) + 1] = Nul
        /\ Len(CString(Text)) \in Nat
    BY <1>1, <2>1, AppendProperties, LenProperties
  <2>3. QED
    BY <2>1, <2>2
<1> DEFINE framed == CASE transfer.frame = "bare" -> CString(Unframed(Text))
                       [] transfer.frame = "zero" -> NulFramed(CString(Text))
                       [] OTHER                   -> CString(NewlineFramed(Text))
           end == IF transfer.until = "zero" THEN <<Nul>> ELSE <<>>
<1>4. framed \in Seq(Byte) /\ end \in Seq(Byte)
  BY <1>1, <1>2, <1>3, CStringClean DEF Unframed, NulFramed, NewlineFramed
<1>5. Framed = framed \o end
  BY DEF Framed
<1>6. ASSUME transfer.until = "zero"
      PROVE  end = <<Nul>> /\ \A k \in 1 .. Len(framed) : framed[k] # Nul
  <2>1. transfer.frame = "newline"
    BY <1>6, TransferFacts DEF TransferInv, TransferType
  <2>2. framed = CString(Append(Text, Newline))
    BY <2>1 DEF NewlineFramed
  <2>3. QED
    BY <1>3, <1>6, <2>2, CStringClean
<1>9. ASSUME transfer.frame = "zero"
      PROVE  Len(Framed) \in Nat \ {0} /\ Framed[Len(Framed)] = Nul
  <2>1. transfer.until # "zero"
    BY <1>9, TransferFacts DEF TransferInv, TransferType
  <2>2. end = <<>> /\ framed = Append(CString(Text), Nul)
    BY <1>9, <2>1 DEF NulFramed
  <2>3. Framed = Append(CString(Text), Nul)
    BY <1>3, <1>5, <2>2, ConcatEmptySeq
  <2>4. QED
    BY <1>3, <2>3
<1> HIDE DEF framed, end
<1>7. Framed \in Seq(Byte)
  BY <1>4, <1>5, ConcatProperties
<1>8. ASSUME transfer.until = "zero", NEW k \in 1 .. Len(Framed), Framed[k] = Nul
      PROVE  k = Len(Framed)
  <2>1. /\ Len(framed) \in Nat /\ Len(Framed) = Len(framed) + 1
        /\ \A h \in 1 .. Len(framed) : Framed[h] = framed[h]
    <3>1. end = <<Nul>> /\ Len(end) = 1 /\ end \in Seq(Byte) /\ Len(framed) \in Nat
      BY <1>4, <1>6, <1>8, LenProperties
    <3>2. /\ Len(Framed) = Len(framed) + Len(end)
          /\ \A h \in 1 .. Len(framed) + Len(end) :
               Framed[h] = IF h <= Len(framed) THEN framed[h] ELSE end[h - Len(framed)]
      BY <1>4, <1>5, ConcatProperties
    <3>3. QED
      BY <3>1, <3>2
  <2>2. k \notin 1 .. Len(framed)
    BY <1>6, <1>8, <2>1
  <2>3. QED
    BY <1>8, <2>1, <2>2
<1>10. QED
  BY <1>7, <1>8, <1>9

\* A typed line is in the buffer, with the end its program gives it.
LEMMA AskLineInv ==
  ASSUME TransferInv, AskLine
  PROVE  TransferInv'
<1>1. /\ writer = "ask" /\ writer' \in {"ask", "write", "close"}
      /\ UNCHANGED <<transfer, reader, holders, sent, rd>>
  BY TransferFacts DEF AskLine, AtEndOfInput, TransferInv, TransferType
<1>2. toType' \in Seq(Seq(Byte)) /\ line' \in Seq(Byte)
  <2>1. toType # <<>> => Head(toType) \in Seq(Byte) /\ Tail(toType) \in Seq(Seq(Byte))
    BY HeadTailProperties DEF TransferInv, TransferType
  <2>2. transfer.eof \in {"ends", "repeats", "unset"}
    BY TransferFacts DEF TransferInv, TransferType
  <2>3. QED
    BY <2>1, <2>2, TransferAssumption DEF AskLine, AtEndOfInput, TransferInv, TransferType
<1>3. TransferType'
  BY <1>1, <1>2 DEF TransferInv, TransferType
<1>4. QED
  BY <1>1, <1>3 DEF TransferInv

\* write() appends the framed line to the pipe.
LEMMA WriteLineInv ==
  ASSUME TransferInv, WriteLine
  PROVE  TransferInv'
<1>1. /\ writer = "write" /\ writer' \in {"ask", "close"} /\ sent' = sent \o Framed
      /\ ~transfer.many => writer' = "close"
      /\ UNCHANGED <<transfer, toType, line, reader, holders, rd>>
  BY DEF WriteLine
<1>2. /\ sent' \in Seq(Byte) /\ Len(sent') = Len(sent) + Len(Framed)
      /\ Len(sent) \in Nat /\ Len(Framed) \in Nat
  BY <1>1, FramedFacts, ConcatProperties, LenProperties DEF TransferInv, TransferType
<1>3. TransferType'
  BY <1>1, <1>2 DEF TransferInv, TransferType
<1>4. ASSUME transfer.until = "zero"
      PROVE  writer' = "close" /\ \A k \in 1 .. Len(sent') : sent'[k] = Nul => k = Len(sent')
  <2>1. sent = <<>> /\ ~transfer.many
    BY <1>1, <1>4, TransferFacts DEF TransferInv, TransferType
  <2>2. sent' = Framed
    BY <1>1, <2>1, FramedFacts, ConcatEmptySeq
  <2>3. QED
    BY <1>1, <1>4, <2>1, <2>2, FramedFacts
<1>5. reader = "gone" => transfer.until = "one"
  BY <1>1 DEF TransferInv
<1>6. QED
  BY <1>1, <1>3, <1>4, <1>5 DEF TransferInv

\* The writer closes its end once.
LEMMA WriterEndsInv ==
  ASSUME TransferInv, CloseAfterLast \/ WaitForReader
  PROVE  TransferInv'
<1>1. CASE CloseAfterLast
  <2>1. /\ writer = "close" /\ holders' = holders \ {"writer"} /\ writer' \in {"wait", "gone"}
        /\ writer' = "wait" <=> transfer.child = "reader" /\ transfer.waits = "last"
        /\ UNCHANGED <<transfer, toType, line, reader, sent, rd>>
    BY <1>1 DEF CloseAfterLast
  <2>2. TransferType'
    BY <2>1 DEF TransferInv, TransferType
  <2>3. QED
    BY <2>1, <2>2 DEF TransferInv
<1>2. CASE WaitForReader
  <2>1. /\ writer = "wait" /\ reader = "gone" /\ writer' = "gone"
        /\ UNCHANGED <<transfer, toType, line, reader, holders, sent, rd>>
    BY <1>2 DEF WaitForReader
  <2>2. TransferType'
    BY <2>1 DEF TransferInv, TransferType
  <2>3. QED
    BY <2>1, <2>2 DEF TransferInv
<1>3. QED
  BY <1>1, <1>2

\* Waiting, closing and the end of file take nothing from the pipe.
LEMMA ReaderQuietInv ==
  ASSUME TransferInv, WaitForWriter \/ CloseOwn \/ ReadEnd
  PROVE  TransferInv'
<1>1. UNCHANGED <<transfer, toType, line, writer, sent, rd>>
  BY DEF WaitForWriter, CloseOwn, ReadEnd
<1>2. /\ holders' \subseteq holders /\ ("writer" \in holders => "writer" \in holders')
      /\ reader' \in {"close", "read", "gone"} /\ reader \in {"wait", "close", "read"}
      /\ reader = "wait" => writer = "gone"
      /\ reader' = "gone" => rd = Len(sent) /\ holders = {}
  BY DEF WaitForWriter, CloseOwn, ReadEnd
<1>3. TransferType'
  BY <1>1, <1>2 DEF TransferInv, TransferType
<1>4. QED
  BY <1>1, <1>2, <1>3 DEF TransferInv, TransferType

\* What a read() of the pipe takes: at least a byte, at most what is there.
LEMMA PieceFacts ==
  ASSUME TransferInv, ReadPiece
  PROVE  LET n == Min({Most, Len(sent) - rd})
         IN  /\ n \in Nat /\ n > 0 /\ rd + n <= Len(sent) /\ rd' = rd + n
             /\ transfer.size = "byte" => n = 1
             /\ n <= Most /\ Most \in Nat /\ (n = Most \/ n = Len(sent) - rd)
             /\ reader = "read" /\ reader' \in {"astray", AfterPiece(n)}
             /\ shown' = shown \o Shows(SubSeq(sent, rd + 1, rd + n))
             /\ UNCHANGED <<transfer, toType, line, writer, holders, sent>>
<1> DEFINE n == Min({Most, Len(sent) - rd})
<1>1. Most \in Nat \ {0} /\ (transfer.size = "byte" => Most = 1)
  BY TransferFacts, TransferAssumption DEF Most, TransferInv, TransferType
<1>2. Len(sent) \in Nat /\ rd \in Nat /\ rd <= Len(sent) /\ Len(sent) - rd \in Nat
  BY LenProperties DEF TransferInv, TransferType
<1>3. n \in Nat /\ n <= Most /\ n <= Len(sent) - rd /\ (n = Most \/ n = Len(sent) - rd)
  <2>1. \A a, b \in Nat : Min({a, b}) = a \/ Min({a, b}) = b
    BY DEF Min
  <2>2. \A a, b \in Nat : Min({a, b}) <= a /\ Min({a, b}) <= b
    BY DEF Min
  <2>3. Most \in Nat /\ Len(sent) - rd \in Nat
    BY <1>1, <1>2
  <2> HIDE DEF n
  <2>4. n = Min({Most, Len(sent) - rd})
    BY DEF n
  <2>5. (n = Most \/ n = Len(sent) - rd) /\ n <= Most /\ n <= Len(sent) - rd
    BY <2>1, <2>2, <2>3, <2>4
  <2>6. QED
    BY <2>3, <2>5
<1>4. /\ reader = "read" /\ n > 0 /\ rd' = rd + n /\ reader' \in {"astray", AfterPiece(n)}
      /\ shown' = shown \o Shows(SubSeq(sent, rd + 1, rd + n))
      /\ UNCHANGED <<transfer, toType, line, writer, holders, sent>>
  BY DEF ReadPiece
<1> HIDE DEF n
<1>5. /\ rd + n <= Len(sent)
      /\ transfer.size = "byte" => n = 1
  BY <1>1, <1>2, <1>3, <1>4
<1>6. QED
  BY <1>1, <1>3, <1>4, <1>5 DEF n

\* A piece is the next bytes of the pipe, and shows what its program makes of them.
LEMMA ReadPieceInv ==
  ASSUME TransferInv, ReadPiece
  PROVE  TransferInv'
<1> DEFINE n == Min({Most, Len(sent) - rd})
<1>1. /\ n \in Nat /\ n > 0 /\ rd + n <= Len(sent) /\ rd' = rd + n
      /\ transfer.size = "byte" => n = 1
      /\ reader = "read" /\ reader' \in {"astray", AfterPiece(n)}
      /\ UNCHANGED <<transfer, toType, line, writer, holders, sent>>
  BY PieceFacts
<1> HIDE DEF n
<1>2. Len(sent) \in Nat /\ rd \in Nat /\ rd + n \in 1 .. Len(sent)
  BY <1>1, LenProperties DEF TransferInv, TransferType
<1>3. reader' \in {"astray", "gone", "read"}
  BY <1>1 DEF AfterPiece
<1>4. TransferType'
  BY <1>1, <1>2, <1>3 DEF TransferInv, TransferType
<1>5. ASSUME reader' = "gone", transfer.until # "one"
      PROVE  rd' = Len(sent) /\ writer = "gone"
  <2>1. transfer.until = "zero" /\ sent[rd + n] = Nul
    BY <1>1, <1>5 DEF AfterPiece
  <2>2. rd + n = Len(sent)
    BY <1>2, <2>1 DEF TransferInv
  <2>3. transfer.waits = "first"
    BY <2>1, TransferFacts DEF TransferInv, TransferType
  <2>4. QED
    BY <1>1, <2>2, <2>3 DEF TransferInv
<1>6. transfer.child = "reader" /\ transfer.waits = "last" => writer # "gone"
  BY <1>1 DEF TransferInv
<1>7. QED
  BY <1>1, <1>3, <1>4, <1>5, <1>6 DEF TransferInv

\* Writer and reader keep the invariant, whichever is the parent.
THEOREM TransferInductive == TransferSpec => []TransferInv
<1>1. TransferInit => TransferInv
  BY TransferInitInv
<1>2. TransferInv /\ [TransferNext]_pipeVars => TransferInv'
  <2>1. ASSUME TransferInv, UNCHANGED pipeVars PROVE TransferInv'
    BY <2>1 DEF pipeVars, TransferInv, TransferType
  <2>2. QED
    BY <2>1, AskLineInv, WriteLineInv, WriterEndsInv, ReaderQuietInv, ReadPieceInv
       DEF TransferNext, WriterStep, ReaderStep
<1>3. QED
  BY <1>1, <1>2, PTL DEF TransferSpec

\* When the parent is gone, all that was written has been read, of any lines,
\* through a pipe and a buffer of any size.
THEOREM ParentIsLast == TransferSpec => []ParentEndsLast
<1>1. TransferInv => ParentEndsLast
  <2> SUFFICES ASSUME TransferInv PROVE ParentEndsLast
    OBVIOUS
  <2>1. CASE transfer.child = "reader"
    BY <2>1, TransferFacts DEF TransferInv, TransferType, ParentEndsLast, Parent
  <2>2. CASE transfer.child = "writer"
    BY <2>2, TransferFacts DEF TransferInv, TransferType, ParentEndsLast, Parent
  <2>3. QED
    BY <2>1, <2>2, TransferFacts DEF TransferInv, TransferType
<1>2. QED
  BY <1>1, TransferInductive, PTL

\* What is left behind the memory that nobody wrote to, and what makes sure that
\* it is behind the first piece: the other reader that puts no '\0' anywhere is
\* sent lines that end with one.
PipeInv ==
  /\ shown \in Seq(Byte)
  /\ rd = 0 => strays = {} /\ shown = <<>>
  /\ transfer.frame = "zero" /\ sent # <<>> => sent[Len(sent)] = Nul
  /\ Transferred

\* What was read and what was shown stay what they are when a line is written.
LEMMA WriteLinePipe ==
  ASSUME TransferInv, PipeInv, WriteLine
  PROVE  PipeInv'
<1>1. /\ sent' = sent \o Framed /\ UNCHANGED <<transfer, rd, shown, strays>>
      /\ sent \in Seq(Byte) /\ Framed \in Seq(Byte) /\ rd \in Nat /\ rd <= Len(sent)
      /\ Len(sent) \in Nat /\ Len(Framed) \in Nat
  BY FramedFacts, LenProperties DEF WriteLine, TransferInv, TransferType
<1>2. SubSeq(sent', 1, rd) = SubSeq(sent, 1, rd)
  <2>1. CASE rd = 0
    BY <2>1, SubSeqEmpty
  <2>2. CASE rd # 0
    <3>1. 1 \in 1 .. Len(sent) /\ rd \in 1 .. Len(sent)
      BY <1>1, <2>2
    <3>2. QED
      BY <1>1, <3>1, SubSeqOfConcat1
  <2>3. QED
    BY <2>1, <2>2
<1>3. transfer.frame = "zero" => sent'[Len(sent')] = Nul
  <2> SUFFICES ASSUME transfer.frame = "zero" PROVE sent'[Len(sent')] = Nul
    OBVIOUS
  <2>1. Len(Framed) \in Nat \ {0} /\ Framed[Len(Framed)] = Nul
    BY FramedFacts
  <2>2. /\ Len(sent \o Framed) = Len(sent) + Len(Framed)
        /\ \A i \in 1 .. Len(sent) + Len(Framed) :
             (sent \o Framed)[i] = IF i <= Len(sent) THEN sent[i] ELSE Framed[i - Len(sent)]
    BY <1>1, ConcatProperties
  <2>3. /\ Len(sent) + Len(Framed) \in 1 .. Len(sent) + Len(Framed)
        /\ ~(Len(sent) + Len(Framed) <= Len(sent))
        /\ (Len(sent) + Len(Framed)) - Len(sent) = Len(Framed)
    BY <1>1, <2>1
  <2>4. QED
    BY <1>1, <2>1, <2>2, <2>3
<1>4. Most' = Most
  BY <1>1 DEF Most
<1>5. Transferred'
  BY <1>1, <1>2, <1>4 DEF PipeInv, Transferred
<1>6. QED
  BY <1>1, <1>3, <1>5 DEF PipeInv

\* A piece without a '\0' is shown to its last byte.
LEMMA WholePiece ==
  ASSUME NEW s \in Seq(Byte), Nul \notin {s[k] : k \in 1 .. Len(s)}
  PROVE  Len(Shows(s)) = Len(s)
<1>1. StrLen(s) \in 0 .. Len(s) /\ Len(s) \in Nat /\ (StrLen(s) < Len(s) => s[StrLen(s) + 1] = Nul)
  BY StrLenFirst, LenProperties
<1>2. StrLen(s) = Len(s)
  BY <1>1
<1>3. QED
  BY <1>2, CStringParts DEF Shows

\* One more piece keeps the promise, and only the first shows memory behind it.
LEMMA ReadPiecePipe ==
  ASSUME TransferInv, PipeInv, ReadPiece
  PROVE  PipeInv'
<1> DEFINE n == Min({Most, Len(sent) - rd})
           piece == SubSeq(sent, rd + 1, rd + n)
           read == SubSeq(sent, 1, rd)
<1>1. /\ n \in Nat /\ n > 0 /\ rd + n <= Len(sent) /\ rd' = rd + n
      /\ n <= Most /\ Most \in Nat /\ (n = Most \/ n = Len(sent) - rd)
      /\ shown' = shown \o Shows(piece)
      /\ UNCHANGED <<transfer, sent>>
  BY PieceFacts
<1>2. PICK behind \in Behind(piece) :
        strays' = strays \cup (IF behind = "memory" THEN {Len(shown')} ELSE {})
  BY DEF ReadPiece
<1> HIDE DEF n
<1>3. sent \in Seq(Byte) /\ Len(sent) \in Nat /\ rd \in Nat /\ rd <= Len(sent)
  BY LenProperties DEF TransferInv, TransferType
<1>4. /\ piece \in Seq(Byte) /\ Len(piece) = n
      /\ \A i \in 1 .. n : piece[i] = sent[rd + i]
  <2>1. /\ rd + 1 \in Int /\ rd + n \in Int /\ rd + 1 <= rd + n
        /\ (rd + n) - (rd + 1) + 1 = n
        /\ \A i \in 1 .. n : (rd + 1) + i - 1 = rd + i
    BY <1>1, <1>3
  <2>2. \A i \in rd + 1 .. rd + n : sent[i] \in Byte
    <3> TAKE i \in rd + 1 .. rd + n
    <3>1. i \in 1 .. Len(sent)
      BY <1>1, <1>3
    <3>2. QED
      BY <1>3, <3>1, ElementOfSeq
  <2>3. /\ piece \in Seq(Byte)
        /\ Len(piece) = IF rd + 1 <= rd + n THEN (rd + n) - (rd + 1) + 1 ELSE 0
        /\ \A i \in 1 .. (rd + n) - (rd + 1) + 1 : piece[i] = sent[(rd + 1) + i - 1]
    BY <2>1, <2>2, SubSeqProperties
  <2>4. QED
    BY <2>1, <2>3
<1>5. read \in Seq(Byte) /\ SubSeq(sent, 1, rd + n) = read \o piece
  <2>1. \A i \in 1 .. rd : sent[i] \in Byte
    BY <1>3, ElementOfSeq
  <2>2. 1 \in Int /\ rd \in Int
    BY <1>3
  <2>3. read \in Seq(Byte)
    BY <2>1, <2>2, SubSeqProperties
  <2>4. 1 \in 1 .. Len(sent) + 1 /\ rd \in 1 - 1 .. Len(sent) /\ rd + n \in rd .. Len(sent)
    BY <1>1, <1>3
  <2>5. QED
    BY <1>3, <2>3, <2>4, ConcatAdjacentSubSeq
<1> HIDE DEF piece, read
<1>6. Shows(piece) \in Seq(Byte) /\ Len(Shows(piece)) \in Nat
  BY <1>4, CStringParts, LenProperties DEF Shows
<1>7. shown \in Seq(Byte) /\ shown' \in Seq(Byte)
  BY <1>1, <1>6, ConcatProperties DEF PipeInv
<1>8. ShownOnce(shown', SubSeq(sent, 1, rd'), Most)
  <2>1. ShownOnce(shown, read, Most)
    BY DEF PipeInv, Transferred, read
  <2>2. ShownOnce(shown \o UpperText(CString(piece)), read \o piece, Most)
    BY <1>1, <1>4, <1>5, <1>7, <2>1, ShownOnceMore
  <2>3. QED
    BY <1>1, <1>5, <2>2 DEF Shows
<1>9. behind = "memory" => transfer.ends = "buffer" /\ rd = 0 /\ Nul \notin {piece[k] : k \in 1 .. n}
  <2> SUFFICES ASSUME behind = "memory"
               PROVE  transfer.ends = "buffer" /\ rd = 0 /\ Nul \notin {piece[k] : k \in 1 .. n}
    OBVIOUS
  <2>1. /\ ~RunsOver(n) /\ Nul \notin {piece[k] : k \in 1 .. n}
        /\ transfer.ends = "char" \/ (transfer.ends = "buffer" /\ rd = 0)
    BY <1>2, <1>4 DEF Behind
  <2>2. ASSUME transfer.ends = "char" PROVE FALSE
    <3>1. transfer.frame = "zero" /\ transfer.size = "buffer"
      BY <2>2, TransferFacts DEF TransferInv, TransferType
    <3>2. n # Most
      BY <2>1, <2>2, <3>1 DEF RunsOver, Most
    <3>3. rd + n = Len(sent) /\ sent # <<>>
      BY <1>1, <1>3, <3>2, EmptySeq
    <3>4. sent[rd + n] = Nul
      BY <3>1, <3>3 DEF PipeInv
    <3>5. piece[n] = Nul /\ n \in 1 .. n
      BY <1>1, <1>4, <3>4
    <3>6. QED
      BY <2>1, <3>5
  <2>3. QED
    BY <2>1, <2>2
<1>10. strays' = {} \/ (transfer.ends = "buffer" /\ \E k \in 1 .. Most : strays' = {k})
  <2>1. CASE behind = "memory"
    <3>1. strays = {} /\ shown = <<>>
      BY <1>9, <2>1 DEF PipeInv
    <3>2. shown' = Shows(piece)
      BY <1>1, <1>6, <3>1, ConcatEmptySeq
    <3>3. Len(Shows(piece)) = n
      BY <1>4, <1>9, <2>1, WholePiece
    <3>4. n \in 1 .. Most
      BY <1>1
    <3>5. strays' = {n}
      BY <1>2, <2>1, <3>1, <3>2, <3>3
    <3>6. QED
      BY <1>9, <2>1, <3>4, <3>5
  <2>2. CASE behind # "memory"
    BY <1>2, <2>2 DEF PipeInv, Transferred
  <2>3. QED
    BY <2>1, <2>2
<1>11. Most' = Most
  BY <1>1 DEF Most
<1>12. Transferred'
  BY <1>1, <1>8, <1>10, <1>11 DEF Transferred
<1>13. rd' # 0
  BY <1>1, <1>3
<1>14. QED
  BY <1>1, <1>7, <1>12, <1>13 DEF PipeInv

\* Whatever the lines, the pieces and the pipe: each byte that was written and
\* read is shown once, in order and in upper case, a byte is missing only behind
\* a '\0' that the same read() took, and what nobody wrote is shown behind the
\* first piece of one program only.
THEOREM PipeIsService == TransferSpec => []Transferred
<1>1. TransferInit => PipeInv
  <2> SUFFICES ASSUME TransferInit PROVE PipeInv
    OBVIOUS
  <2>1. sent = <<>> /\ rd = 0 /\ shown = <<>> /\ strays = {} /\ <<>> \in Seq(Byte)
    BY EmptySeq DEF TransferInit
  <2>2. SubSeq(sent, 1, rd) = <<>>
    BY <2>1, SubSeqEmpty
  <2>3. Transferred
    BY <2>1, <2>2, ShownNothing DEF Transferred
  <2>4. QED
    BY <2>1, <2>3 DEF PipeInv
<1>2. TransferInv /\ PipeInv /\ [TransferNext]_pipeVars => PipeInv'
  <2> SUFFICES ASSUME TransferInv, PipeInv, [TransferNext]_pipeVars
               PROVE  PipeInv'
    OBVIOUS
  <2>1. CASE WriteLine
    BY <2>1, WriteLinePipe
  <2>2. CASE ReadPiece
    BY <2>2, ReadPiecePipe
  <2>3. CASE UNCHANGED <<transfer, sent, rd, shown, strays>>
    BY <2>3 DEF PipeInv, Transferred, Most
  <2>4. QED
    BY <2>1, <2>2, <2>3 DEF TransferNext, WriterStep, ReaderStep, AskLine, CloseAfterLast,
       WaitForReader, WaitForWriter, CloseOwn, ReadEnd, pipeVars
<1>3. PipeInv => Transferred
  BY DEF PipeInv
<1>4. QED
  BY <1>1, <1>2, <1>3, TransferInductive, PTL DEF TransferSpec

-----------------------------------------------------------------------------
(****************************************************************************)
(* Parent, child and command: ChildProcess.                                 *)
(****************************************************************************)
\* What the programs have in common.
LEMMA LauncherFacts ==
  ASSUME launcher \in Launchers
  PROVE  /\ launcher.report \in
              {"after", "ended", "checked", "exited", "code", "status", "unset"}
         /\ launcher.forkless \in {"exits", "on", "notices"}
         /\ launcher.forkless = "on" => launcher.report = "ended"
         /\ launcher.shell => launcher.report \in {"after", "code"} /\ launcher.says = {}
         /\ launcher.fails = Falls => launcher.report = "status"
         /\ launcher.report = "status" => ~launcher.shell /\ launcher.fails = Falls
<1>1. launcher \in AllLaunchers
  BY LauncherAssumption
<1> USE DEF Falls, Daniil9
<1>2. CASE launcher = Daniil9
  BY <1>2
<1>3. CASE launcher = Trushkin9
  BY <1>3 DEF Trushkin9
<1>4. CASE launcher = Shestakov9
  BY <1>4 DEF Shestakov9
<1>5. CASE launcher = ZaVialoV9
  BY <1>5 DEF ZaVialoV9
<1>6. CASE launcher = Komarevtsev9
  BY <1>6 DEF Komarevtsev9, Trushkin9
<1>7. CASE launcher = Makanin9
  BY <1>7 DEF Makanin9
<1>8. CASE launcher = Tsyrenov9
  BY <1>8 DEF Tsyrenov9
<1>9. CASE launcher = Chelbaev9
  BY <1>9 DEF Chelbaev9, Komarevtsev9, Trushkin9
<1>10. CASE launcher = Bedareva9
  BY <1>10 DEF Bedareva9, Shestakov9
<1>11. CASE launcher = Daniil10
  BY <1>11 DEF Daniil10
<1>12. CASE launcher = Trushkin10
  BY <1>12 DEF Trushkin10, Trushkin9
<1>13. CASE launcher = ZaVialoV10
  BY <1>13 DEF ZaVialoV10, ZaVialoV9
<1>14. CASE launcher = Karakulin10
  BY <1>14 DEF Karakulin10
<1>15. CASE launcher = Makanin10
  BY <1>15 DEF Makanin10, Makanin9
<1>16. CASE launcher = Tsyrenov10
  BY <1>16 DEF Tsyrenov10
<1>17. CASE launcher = Bedareva10
  BY <1>17 DEF Bedareva10, Bedareva9, Shestakov9
<1>19. CASE launcher = Komarevtsev10
  BY <1>19 DEF Komarevtsev10
<1>18. QED
  BY <1>1, <1>2, <1>3, <1>4, <1>5, <1>6, <1>7, <1>8, <1>9, <1>10, <1>11,
     <1>12, <1>13, <1>14, <1>15, <1>16, <1>17, <1>19
     DEF AllLaunchers, Zelenkov9, Karakulin9, Zelenkov10, Shestakov10, Chelbaev10

NoCommand == [Nothing EXCEPT !.by = "no command"]
NoChild == [Nothing EXCEPT !.by = "no child"]

\* What the child's status says of how the command ended, through the child's
\* own exit() or through a shell's.
Settled ==
  \/ /\ ending = NoCommand /\ ~launcher.shell
     /\ status = Exited(IF launcher.fails = Falls THEN 0 ELSE launcher.fails)
  \/ /\ ending \in {Exited(c) : c \in Codes} \cup {Killed(n) : n \in Signals}
     /\ IF launcher.shell THEN status = Exited(0) \/ ending.by = "signal" ELSE status = ending

\* The parent's end: without a last message if it noticed that there was no
\* child, with an empty one if its program says nothing of a signal.
HasTold ==
  /\ child \in {"none", "reaped"}
  /\ IF told = Nothing
     THEN child = "none" /\ ending = NoChild /\ launcher.forkless \in {"exits", "notices"}
     ELSE /\ ending.by = "no child" => launcher.forkless = "on"
          /\ told.by # "nothing"
          /\ told.by = "silent" <=> launcher.report = "exited" /\ ending.by = "signal"

\* ReportsTheCode is about the last message. It rests on what the status is
\* from the child's end on, and on who goes on without a child.
LauncherInv ==
  /\ launcher \in Launchers
  /\ parent \in {"start", "fork", "meanwhile", "wait", "report", "gone"}
  /\ child \in {"none", "start", "exec", "command", "last", "exit", "zombie", "reaped"}
  /\ parent \in {"start", "fork"} => child = "none"
  /\ child = "none" => ending \in {Nothing, NoChild}
  /\ parent \in {"start", "fork"} \/ child \in {"start", "exec", "command"} => ending = Nothing
  /\ child = "none" /\ parent \in {"meanwhile", "wait"} =>
       ending = NoChild /\ launcher.forkless # "exits"
  /\ child = "last" => ending = NoCommand /\ launcher.fails = Falls /\ ~launcher.shell
  /\ child \in {"exit", "zombie", "reaped"} => Settled
  /\ parent = "report" => \/ child = "reaped"
                          \/ child = "none" /\ ending = NoChild /\ launcher.forkless = "on"
  /\ IF parent = "gone" THEN HasTold ELSE told = Nothing
  /\ ReportsTheCode

\* Nothing is told before the first step.
LEMMA LauncherInitInv == LauncherInit => LauncherInv
  BY DEF LauncherInit, LauncherInv, ReportsTheCode

\* As long as nothing is told, there is nothing to be wrong about.
LEMMA QuietReport ==
  ASSUME LauncherInv, parent # "gone" \/ child \notin {"none", "reaped"}, told' = told
  PROVE  told' = Nothing /\ ReportsTheCode' /\ parent # "gone"
  BY DEF LauncherInv, HasTold, ReportsTheCode

\* The parent tells nothing before it has waited.
LEMMA ParentQuietInv ==
  ASSUME LauncherInv, SayBefore \/ Fork \/ ForkFails \/ SayMeanwhile
  PROVE  LauncherInv'
<1>1. told' = told /\ launcher' = launcher /\ status' = status /\ parent # "gone" /\ child' \in {child, "start"}
  BY DEF SayBefore, Fork, ForkFails, SayMeanwhile
<1>2. told' = Nothing /\ ReportsTheCode'
  BY <1>1, QuietReport
<1>3. CASE SayBefore \/ SayMeanwhile
  <2>1. /\ ending' = ending /\ child' = child
        /\ \/ parent = "start" /\ parent' = "fork"
           \/ parent = "meanwhile" /\ parent' = "wait"
    BY <1>3 DEF SayBefore, SayMeanwhile
  <2>2. QED
    BY <1>1, <1>2, <2>1 DEF LauncherInv, Settled
<1>4. CASE Fork
  <2>1. ending' = ending /\ parent' = "meanwhile" /\ child' = "start" /\ parent = "fork"
    BY <1>4 DEF Fork
  <2>2. QED
    BY <1>1, <1>2, <2>1 DEF LauncherInv
<1>5. CASE ForkFails
  <2>1. /\ ending' = NoChild /\ parent = "fork" /\ child' = child
        /\ parent' = IF launcher.forkless = "exits" THEN "gone" ELSE "meanwhile"
    BY <1>5 DEF ForkFails, NoChild
  <2>2. child = "none"
    BY <2>1 DEF LauncherInv
  <2>3. QED
    BY <1>1, <1>2, <2>1, <2>2 DEF LauncherInv, HasTold
<1>6. QED
  BY <1>3, <1>4, <1>5

\* The child ends one way, which its status keeps.
LEMMA ChildInv ==
  ASSUME LauncherInv, ChildStep
  PROVE  LauncherInv'
<1>1. /\ told' = told /\ launcher' = launcher /\ parent' = parent
      /\ child \in {"start", "exec", "command", "last", "exit"}
      /\ child' \in {"exec", "command", "last", "exit", "zombie"}
  BY DEF ChildStep, SayAsChild, Exec, ExecFails, FallThrough, Command, ChildExits
<1>2. told' = Nothing /\ ReportsTheCode' /\ parent # "gone"
  BY <1>1, QuietReport
<1>6. child' \in {"exec", "command"} => ending' = ending /\ child \in {"start", "exec"}
  BY DEF ChildStep, SayAsChild, Exec, ExecFails, FallThrough, Command, ChildExits
<1>3. child' = "last" => ending' = NoCommand /\ launcher.fails = Falls /\ ~launcher.shell
  BY DEF ChildStep, SayAsChild, Exec, ExecFails, FallThrough, Command, ChildExits, NoCommand
<1>4. child' \in {"exit", "zombie"} => Settled'
  <2>1. CASE ExecFails
    BY <1>1, <2>1 DEF ExecFails, Settled, NoCommand
  <2>2. CASE FallThrough
    BY <1>1, <2>2 DEF FallThrough, Settled, LauncherInv
  <2>3. CASE Command
    <3>1. PICK e \in {Exited(c) : c \in Codes} \cup {Killed(n) : n \in Signals} : ending' = e
      BY <2>3 DEF Command
    <3>2. IF launcher.shell THEN status' = Exited(0) \/ ending'.by = "signal" ELSE status' = ending'
      BY <2>3 DEF Command
    <3>3. QED
      BY <1>1, <3>1, <3>2 DEF Settled
  <2>4. CASE ChildExits
    BY <1>1, <2>4 DEF ChildExits, Settled, LauncherInv
  <2>5. CASE SayAsChild \/ Exec
    BY <2>5 DEF SayAsChild, Exec
  <2>6. QED
    BY <2>1, <2>2, <2>3, <2>4, <2>5 DEF ChildStep
<1>5. QED
  BY <1>1, <1>2, <1>3, <1>4, <1>6 DEF LauncherInv

\* wait() returns when the child has ended, with its status.
LEMMA WaitInv ==
  ASSUME LauncherInv, Wait \/ WaitFails
  PROVE  LauncherInv'
<1>1. told' = told /\ launcher' = launcher /\ ending' = ending /\ parent = "wait"
  BY DEF Wait, WaitFails
<1>2. told' = Nothing /\ ReportsTheCode'
  BY <1>1, QuietReport
<1>3. CASE Wait
  <2>1. /\ child = "zombie" /\ child' = "reaped" /\ parent' = "report" /\ status' = status
    BY <1>3 DEF Wait
  <2>2. QED
    BY <1>1, <1>2, <2>1 DEF LauncherInv, Settled
<1>4. CASE WaitFails
  <2>1. /\ child = "none" /\ child' = child
        /\ parent' = IF launcher.forkless = "notices" THEN "gone" ELSE "report"
    BY <1>4 DEF WaitFails
  <2>2. launcher.forkless \in {"exits", "on", "notices"}
    BY LauncherFacts DEF LauncherInv
  <2>3. QED
    BY <1>1, <1>2, <2>1, <2>2 DEF LauncherInv, HasTold
<1>5. QED
  BY <1>3, <1>4

\* How the command ended, read off the ending.
LEMMA SettledFacts ==
  ASSUME Settled
  PROVE  \/ /\ ending.by = "no command" /\ ~launcher.shell
            /\ status = Exited(IF launcher.fails = Falls THEN 0 ELSE launcher.fails)
         \/ /\ ending.by \in {"exit", "signal"}
            /\ ending.by = "exit" => ending = Exited(ending.n)
            /\ launcher.shell => status = Exited(0) \/ ending.by = "signal"
            /\ ~launcher.shell => status = ending
<1>1. CASE ending = NoCommand
  BY <1>1 DEF Settled, NoCommand, Nothing, Exited, Killed
<1>2. CASE ending # NoCommand
  <2>1. \/ \E c \in Codes : ending = Exited(c)
        \/ \E n \in Signals : ending = Killed(n)
    BY <1>2 DEF Settled
  <2>2. /\ ending.by \in {"exit", "signal"}
        /\ ending.by = "exit" => ending = Exited(ending.n)
    BY <2>1 DEF Exited, Killed
  <2>3. IF launcher.shell THEN status = Exited(0) \/ ending.by = "signal" ELSE status = ending
    BY <1>2 DEF Settled
  <2>4. QED
    BY <2>2, <2>3
<1>3. QED
  BY <1>1, <1>2

\* The message itself.
LEMMA TellsTheCode ==
  ASSUME LauncherInv, Report
  PROVE  ReportsTheCode'
<1>1. /\ parent = "report" /\ Tell /\ UNCHANGED <<launcher, ending, status>>
  BY DEF Report
<1>2. /\ launcher.report \in
           {"after", "ended", "checked", "exited", "code", "status", "unset"}
      /\ launcher.shell => launcher.report \in {"after", "code"}
      /\ launcher.fails = Falls => launcher.report = "status"
      /\ launcher.report = "status" => ~launcher.shell /\ launcher.fails = Falls
      /\ launcher.forkless = "on" => launcher.report = "ended"
  BY LauncherFacts DEF LauncherInv
<1>3. \/ child = "reaped" /\ Settled
      \/ ending = NoChild /\ launcher.report = "ended"
  BY <1>1, <1>2 DEF LauncherInv
<1> DEFINE exit == IF launcher.fails = Falls THEN 0 ELSE launcher.fails
<1>4. \/ /\ ending.by = "no command" /\ ~launcher.shell /\ status = Exited(exit)
      \/ /\ ending.by \in {"exit", "signal"}
         /\ ending.by = "exit" => ending = Exited(ending.n)
         /\ launcher.shell => status = Exited(0) \/ ending.by = "signal"
         /\ ~launcher.shell => status = ending
      \/ ending.by = "no child" /\ launcher.report = "ended"
  <2>1. CASE Settled
    BY <2>1, SettledFacts
  <2>2. CASE ending = NoChild /\ launcher.report = "ended"
    BY <2>2 DEF NoChild, Nothing
  <2>3. QED
    BY <1>3, <2>1, <2>2
<1>12. IF launcher.fails = Falls THEN exit = 0 ELSE exit = launcher.fails
  OBVIOUS
<1> HIDE DEF exit
<1> USE DEF Nothing, Exited
<1>5. CASE launcher.report = "after"
  <2>1. told'.n = 0 /\ ending.by # "no child"
    BY <1>1, <1>5, <1>4 DEF Tell
  <2>2. QED
    BY <1>1, <1>5, <2>1 DEF ReportsTheCode
<1>6. CASE launcher.report = "unset"
  BY <1>1, <1>2, <1>6 DEF Tell, ReportsTheCode
<1>7. CASE launcher.report = "ended"
  <2>1. /\ ending.by \in {"exit", "no command"} => status.by = "exit"
        /\ ending.by = "signal" => status.by = "signal"
    <3>1. ~launcher.shell
      BY <1>2, <1>7
    <3>2. CASE ending.by = "no command"
      <4>1. status = Exited(exit)
        BY <1>4, <3>2
      <4>2. status.by = "exit"
        BY <4>1
      <4>3. QED
        BY <3>2, <4>2
    <3>3. CASE ending.by \in {"exit", "signal"}
      BY <1>4, <3>1, <3>3
    <3>4. QED
      BY <3>2, <3>3
  <2>2. /\ status.by = "exit" => told'.by = "done"
        /\ status.by = "signal" => told'.by = "abnormal"
    BY <1>1, <1>7 DEF Tell
  <2>3. QED
    BY <1>1, <1>2, <1>7, <2>1, <2>2 DEF ReportsTheCode
<1>8. CASE launcher.report = "status"
  <2>1. told' = Exited(RawStatus(status))
    BY <1>1, <1>8 DEF Tell
  <2>2. IF ending.by = "no command" THEN status = Exited(0) ELSE status = ending
    BY <1>2, <1>8, <1>4, <1>12
  <2>3. RawStatus(Exited(0)) = 0
    BY DEF RawStatus
  <2>4. told'.n = RawStatus(status)
    BY <2>1
  <2>5. QED
    BY <1>1, <1>2, <1>8, <2>2, <2>3, <2>4 DEF ReportsTheCode
<1>9. CASE launcher.report \in {"checked", "exited", "code"} /\ launcher.shell
  <2>1. told' = Exited(ExitStatus(status)) /\ (status = Exited(0) \/ ending.by = "signal")
    BY <1>1, <1>2, <1>9, <1>4 DEF Tell
  <2>2. ExitStatus(Exited(0)) = 0
    BY DEF ExitStatus
  <2>3. told'.n = ExitStatus(status)
    BY <2>1
  <2>4. QED
    BY <1>1, <1>9, <2>1, <2>2, <2>3 DEF ReportsTheCode
<1>10. CASE launcher.report \in {"checked", "exited", "code"} /\ ~launcher.shell
  <2>1. \/ ending.by = "no command" /\ status = Exited(launcher.fails)
        \/ ending.by \in {"exit", "signal"} /\ status = ending
           /\ (ending.by = "exit" => ending = Exited(ending.n))
    BY <1>2, <1>10, <1>4, <1>12
  <2>2. /\ launcher.report = "code" =>
             /\ status.by = "exit" => told' = Exited(status.n)
             /\ status.by # "exit" => told' = Exited(0)
        /\ launcher.report = "checked" =>
             IF status.by = "exit" THEN told' = status
             ELSE told' = [Nothing EXCEPT !.by = "abnormal"]
        /\ launcher.report = "exited" =>
             IF status.by = "exit" THEN told' = status
             ELSE told' = [Nothing EXCEPT !.by = "silent"]
    BY <1>1, <1>10 DEF Tell, ExitStatus
  <2>3. CASE ending.by = "no command"
    <3>1. status = Exited(launcher.fails)
      BY <2>1, <2>3
    <3>2. status.by = "exit" /\ status.n = launcher.fails
      BY <3>1
    <3>3. told' = Exited(launcher.fails)
      BY <1>10, <2>2, <3>1, <3>2
    <3>4. QED
      BY <1>1, <1>10, <2>3, <3>3 DEF ReportsTheCode
  <2>4. CASE ending.by = "exit"
    BY <1>1, <1>10, <2>1, <2>2, <2>4 DEF ReportsTheCode
  <2>5. CASE ending.by = "signal"
    <3>1. told' = Signalled(launcher.report)
      BY <1>10, <2>1, <2>2, <2>5 DEF Signalled
    <3>2. QED
      BY <1>1, <1>10, <2>5, <3>1 DEF ReportsTheCode
  <2>6. QED
    BY <2>1, <2>3, <2>4, <2>5
<1>11. QED
  BY <1>2, <1>5, <1>6, <1>7, <1>8, <1>9, <1>10

\* Only Y.komarevtsev's program says nothing, and only of a signal.
LEMMA TellsSomething ==
  ASSUME LauncherInv, Report
  PROVE  HasTold' /\ told'.by # "nothing"
<1>1. /\ parent = "report" /\ Tell /\ UNCHANGED <<launcher, child, ending, status>>
  BY DEF Report
<1>2. /\ launcher.report \in
           {"after", "ended", "checked", "exited", "code", "status", "unset"}
      /\ launcher.shell => launcher.report \in {"after", "code"}
      /\ launcher.fails = Falls => launcher.report = "status"
      /\ launcher.forkless = "on" => launcher.report = "ended"
  BY LauncherFacts DEF LauncherInv
<1>3. \/ child = "reaped" /\ Settled
      \/ child = "none" /\ ending = NoChild /\ launcher.forkless = "on"
  BY <1>1, <1>2 DEF LauncherInv
<1>4. \/ ending.by = "no child" /\ launcher.forkless = "on"
      \/ ending.by = "no command" /\ status.by = "exit"
      \/ /\ ending.by \in {"exit", "signal"}
         /\ ~launcher.shell => status = ending
  <2>1. CASE Settled
    <3>1. Exited(IF launcher.fails = Falls THEN 0 ELSE launcher.fails).by = "exit"
      BY DEF Exited
    <3>2. QED
      BY <2>1, <3>1, SettledFacts
  <2>2. CASE ending = NoChild /\ launcher.forkless = "on"
    BY <2>2 DEF NoChild, Nothing
  <2>3. QED
    BY <1>3, <2>1, <2>2
<1>5. Nothing.by = "nothing" /\ Unset.by = "unset" /\ \A c : Exited(c).by = "exit"
  BY DEF Nothing, Unset, Exited
<1>6. CASE launcher.report = "exited"
  <2>1. /\ status.by = "exit" => told' = status
        /\ status.by # "exit" => told'.by = "silent"
    BY <1>1, <1>6 DEF Tell, Nothing
  <2>2. ~launcher.shell /\ launcher.forkless # "on"
    BY <1>2, <1>6
  <2>3. told'.by = (IF ending.by = "signal" THEN "silent" ELSE "exit") /\ ending.by # "no child"
    BY <1>4, <2>1, <2>2
  <2>4. told' # Nothing /\ told'.by # "nothing"
    BY <1>5, <2>3
  <2>5. QED
    BY <1>1, <1>3, <1>6, <2>3, <2>4 DEF HasTold
<1>7. CASE launcher.report # "exited"
  <2>1. told'.by \in {"done", "abnormal", "exit", "unset"}
    <3>1. CASE launcher.report \in {"after", "ended"}
      BY <1>1, <3>1 DEF Tell, Nothing
    <3>2. CASE launcher.report = "checked"
      BY <1>1, <3>2 DEF Tell, Nothing
    <3>3. CASE launcher.report \in {"code", "status", "unset"}
      BY <1>1, <1>5, <3>3 DEF Tell
    <3>4. QED
      BY <1>2, <1>7, <3>1, <3>2, <3>3
  <2>2. told' # Nothing /\ told'.by \notin {"nothing", "silent"}
    BY <1>5, <2>1
  <2>3. ending.by = "no child" => launcher.forkless = "on"
    BY <1>4
  <2>4. QED
    BY <1>1, <1>3, <1>7, <2>2, <2>3 DEF HasTold
<1>8. QED
  BY <1>6, <1>7

\* The report is made of the status, as each program decodes it.
LEMMA ReportInv ==
  ASSUME LauncherInv, Report
  PROVE  LauncherInv'
<1>1. /\ parent = "report" /\ parent' = "gone" /\ UNCHANGED <<launcher, child, ending, status>>
  BY DEF Report
<1>2. QED
  BY <1>1, TellsTheCode, TellsSomething DEF LauncherInv, Settled

\* Parent and child keep the invariant, in every order of the two.
THEOREM LauncherInductive == LauncherSpec => []LauncherInv
<1>1. LauncherInit => LauncherInv
  BY LauncherInitInv
<1>2. LauncherInv /\ [LauncherNext]_childVars => LauncherInv'
  <2>1. ASSUME LauncherInv, UNCHANGED childVars PROVE LauncherInv'
    <3>1. /\ launcher' = launcher /\ parent' = parent /\ child' = child
          /\ ending' = ending /\ status' = status /\ told' = told
      BY <2>1 DEF childVars
    <3>2. ReportsTheCode'
      BY <2>1, <3>1, Zenon DEF LauncherInv, ReportsTheCode
    <3>3. Settled => Settled'
      BY <3>1, Zenon DEF Settled
    <3>5. HasTold => HasTold'
      BY <3>1, Zenon DEF HasTold
    <3>4. QED
      BY <2>1, <3>1, <3>2, <3>3, <3>5, Zenon DEF LauncherInv
  <2>2. QED
    BY <2>1, ParentQuietInv, ChildInv, WaitInv, ReportInv DEF LauncherNext, ParentStep
<1>3. QED
  BY <1>1, <1>2, PTL DEF LauncherSpec

\* What a program says of its command is how the command ended, for every exit
\* code and every signal, with the exceptions the property names.
THEOREM CodeIsReported == LauncherSpec => []ReportsTheCode
<1>1. LauncherInv => ReportsTheCode
  BY DEF LauncherInv
<1>2. QED
  BY <1>1, LauncherInductive, PTL


(****************************************************************************)
(* What is said is counted: in the output, and in what stdio holds for each *)
(* of the two processes.                                                    *)
(****************************************************************************)
Words == {"before", "child", "meanwhile", "text", "last"}
Count(s, w) == Cardinality({i \in DOMAIN s : s[i] = w})
Is(x, w) == IF x = w THEN 1 ELSE 0
Wanted(w) == IF w \in launcher.says THEN 1 ELSE 0

\* Indices of a finite sequence are finitely many.
LEMMA IndicesAreFinite ==
  ASSUME NEW n \in Nat
  PROVE  IsFiniteSet(1 .. n)
  BY FS_Interval

\* A sequence that is one longer has one more, or none.
LEMMA CountAppend ==
  ASSUME NEW s \in Seq(Words), NEW x \in Words, NEW w
  PROVE  Count(Append(s, x), w) = Count(s, w) + Is(x, w)
<1> DEFINE n == Len(s)
           S == {i \in DOMAIN s : s[i] = w}
           T == {i \in DOMAIN Append(s, x) : Append(s, x)[i] = w}
<1>1. /\ n \in Nat /\ DOMAIN s = 1 .. n /\ DOMAIN Append(s, x) = 1 .. n + 1
      /\ \A i \in 1 .. n : Append(s, x)[i] = s[i]
      /\ Append(s, x)[n + 1] = x
  OBVIOUS
<1>2. IsFiniteSet(S) /\ n + 1 \notin S
  <2>1. IsFiniteSet(1 .. n)
    BY <1>1, IndicesAreFinite
  <2>2. S \subseteq 1 .. n
    BY <1>1
  <2>3. QED
    BY <1>1, <2>1, <2>2, FS_Subset
<1>3. x = w => T = S \cup {n + 1}
  BY <1>1
<1>4. x # w => T = S
  BY <1>1
<1>5. x = w => Cardinality(T) = Cardinality(S) + 1
  BY <1>2, <1>3, FS_AddElement
<1>6. Cardinality(S) \in Nat
  BY <1>2, FS_CardinalityType
<1>7. Count(s, w) = Cardinality(S) /\ Count(Append(s, x), w) = Cardinality(T)
  BY DEF Count
<1> HIDE DEF S, T
<1>8. QED
  BY <1>4, <1>5, <1>6, <1>7 DEF Is

\* Counting one text behind another.
LEMMA CountJoined ==
  ASSUME NEW s \in Seq(Words), NEW t \in Seq(Words), NEW w
  PROVE  Count(s \o t, w) = Count(s, w) + Count(t, w)
<1> DEFINE n == Len(s)
           m == Len(t)
           S == {i \in DOMAIN s : s[i] = w}
           T == {i \in DOMAIN t : t[i] = w}
           U == {i \in DOMAIN (s \o t) : (s \o t)[i] = w}
           V == {i \in n + 1 .. n + m : t[i - n] = w}
<1>1. /\ n \in Nat /\ m \in Nat /\ DOMAIN s = 1 .. n /\ DOMAIN t = 1 .. m
      /\ DOMAIN (s \o t) = 1 .. n + m
      /\ \A i \in 1 .. n + m : (s \o t)[i] = IF i <= n THEN s[i] ELSE t[i - n]
  OBVIOUS
<1>2. IsFiniteSet(S) /\ IsFiniteSet(T)
  <2>1. IsFiniteSet(1 .. n) /\ IsFiniteSet(1 .. m) /\ S \subseteq 1 .. n /\ T \subseteq 1 .. m
    BY <1>1, IndicesAreFinite
  <2>2. QED
    BY <2>1, FS_Subset
<1>3. U = S \cup V /\ S \cap V = {}
  <2>1. \A i : i \in U <=> i \in S \cup V
    BY <1>1
  <2>2. \A i : ~(i \in S /\ i \in V)
    BY <1>1
  <2>3. QED
    BY <2>1, <2>2
<1>4. Cardinality(V) = Cardinality(T) /\ IsFiniteSet(V)
  <2> DEFINE f == [i \in T |-> i + n]
  <2>1. f \in Bijection(T, V)
    <3>1. \A i \in T : i \in 1 .. m /\ i + n \in V /\ f[i] = i + n
      BY <1>1
    <3>2. \A j \in V : j - n \in T /\ f[j - n] = j
      BY <1>1
    <3>3. \A i, j \in T : f[i] = f[j] => i = j
      BY <1>1, <3>1
    <3>4. f \in [T -> V]
      BY <3>1
    <3>5. QED
      BY <3>2, <3>3, <3>4 DEF Bijection, Injection, Surjection, IsInjective
  <2>2. ExistsBijection(T, V)
    BY <2>1 DEF ExistsBijection
  <2>3. QED
    BY <1>2, <2>2, FS_Bijection
<1>5. Cardinality(U) = Cardinality(S) + Cardinality(V)
  <2>1. S \cap V = {} /\ Cardinality({}) = 0
    BY <1>3, FS_EmptySet
  <2>2. Cardinality(S \cup V) = Cardinality(S) + Cardinality(V) - Cardinality(S \cap V)
    BY <1>2, <1>4, FS_Union
  <2>3. Cardinality(S) \in Nat /\ Cardinality(V) \in Nat
    BY <1>2, <1>4, FS_CardinalityType
  <2> HIDE DEF S, U, V
  <2>4. Cardinality(U) = Cardinality(S \cup V) /\ Cardinality(S \cap V) = 0
    BY <1>3, <2>1, Zenon
  <2>5. QED
    BY <2>2, <2>3, <2>4
<1>6. QED
  BY <1>4, <1>5 DEF Count

\* Counting a word in texts that are empty, longer by a word, or joined.
LEMMA CountFacts ==
  ASSUME NEW w
  PROVE  /\ Count(<<>>, w) = 0
         /\ \A s \in Seq(Words) : Count(s, w) \in Nat
<1>1. {i \in DOMAIN <<>> : <<>>[i] = w} = {}
  OBVIOUS
<1>2. Count(<<>>, w) = 0
  BY <1>1, FS_EmptySet DEF Count
<1>3. ASSUME NEW s \in Seq(Words) PROVE Count(s, w) \in Nat
  <2>1. IsFiniteSet(1 .. Len(s)) /\ {i \in DOMAIN s : s[i] = w} \subseteq 1 .. Len(s)
    BY IndicesAreFinite
  <2>2. QED
    BY <2>1, FS_Subset, FS_CardinalityType DEF Count
<1>4. QED
  BY <1>2, <1>3

SentOut(w) == Count(output, w)
Held(p, w) == Count(unsaid[p], w)

SaidType ==
  /\ toFile \in BOOLEAN
  /\ output \in Seq(Words)
  /\ unsaid \in [{"parent", "child"} -> Seq(Words)]

\* A child that did not become the command still holds what it said, and what
\* its parent had said before fork().
Keeps == child \in {"start", "exec", "last"} \/ (child = "exit" /\ ending.by = "no command")
Flushed == child \in {"zombie", "reaped"} /\ ending.by = "no command"

\* Where every message is at any time, on its way to a file.
OnTheWay ==
  /\ Held("parent", "before") = IF parent \in {"start", "gone"} THEN 0 ELSE Wanted("before")
  /\ Held("parent", "child") = 0
  /\ child # "none" =>
       /\ Held("child", "before") = IF Keeps THEN Wanted("before") ELSE 0
       /\ Held("child", "child") = IF Keeps /\ child # "start" THEN Wanted("child") ELSE 0
  /\ SentOut("before") = (IF parent = "gone" THEN Wanted("before") ELSE 0)
                         + (IF Flushed THEN Wanted("before") ELSE 0)
  /\ SentOut("child") = IF Flushed THEN Wanted("child") ELSE 0

AtOnce ==
  /\ unsaid["parent"] = <<>> /\ unsaid["child"] = <<>>
  /\ SentOut("before") = IF parent = "start" THEN 0 ELSE Wanted("before")
  /\ SentOut("child") = IF child \in {"none", "start"} THEN 0 ELSE Wanted("child")

\* The parent's "meanwhile" comes after fork(), so the child has no copy of it.
\* It is not said if the parent leaves because fork() failed.
Meanwhile ==
  /\ SentOut("meanwhile") + Held("parent", "meanwhile")
       = IF parent \in {"start", "fork", "meanwhile"} \/ Childless("exits")
         THEN 0 ELSE Wanted("meanwhile")
  /\ parent = "gone" => Held("parent", "meanwhile") = 0
  /\ Held("child", "meanwhile") = 0

\* The command writes its text itself, without stdio's buffers.
CommandText ==
  /\ SentOut("text") = IF ending.by \in {"exit", "signal"} THEN 1 ELSE 0
  /\ Held("parent", "text") = 0 /\ Held("child", "text") = 0

\* The last message is the parent's, when it leaves, and that of a child which
\* goes on as the parent does.
ChildTells == launcher.fails = Falls /\ ending.by = "no command"
LastWord ==
  /\ SentOut("last") =
       (IF told.by \in {"nothing", "silent"} THEN 0 ELSE 1)
       + (IF ChildTells /\ (child \in {"zombie", "reaped"} \/ (child = "exit" /\ ~toFile))
          THEN 1 ELSE 0)
  /\ Held("parent", "last") = 0
  /\ Held("child", "last") = IF ChildTells /\ child = "exit" /\ toFile THEN 1 ELSE 0

SaidInv ==
  /\ LauncherInv /\ SaidType /\ Meanwhile /\ CommandText /\ LastWord
  /\ toFile => OnTheWay
  /\ ~toFile => AtOnce

\* A message is wanted once or not at all.
LEMMA WantedFacts == \A w : Wanted(w) \in {0, 1}
  BY DEF Wanted

\* Counts are natural numbers.
LEMMA CountsAreNat ==
  ASSUME SaidType, NEW w
  PROVE  SentOut(w) \in Nat /\ \A p \in {"parent", "child"} : Held(p, w) \in Nat
  BY CountFacts DEF SaidType, SentOut, Held

\* Saying something puts it on the screen or into the process's buffer.
LEMMA SayCounts ==
  ASSUME SaidType, NEW p \in {"parent", "child"}, NEW x \in Words, Say(p, x),
         UNCHANGED <<launcher, toFile>>
  PROVE  /\ SaidType'
         /\ ~toFile => unsaid' = unsaid
         /\ \A q \in {"parent", "child"} \ {p} : unsaid'[q] = unsaid[q]
         /\ \A w : /\ SentOut(w)' = SentOut(w) + (IF toFile THEN 0 ELSE Is(x, w))
                   /\ Held(p, w)' = Held(p, w) + (IF toFile THEN Is(x, w) ELSE 0)
<1>1. CASE toFile
  <2>1. unsaid' = [unsaid EXCEPT ![p] = Append(@, x)] /\ output' = output
    BY <1>1 DEF Say
  <2>2. /\ unsaid'[p] = Append(unsaid[p], x) /\ unsaid[p] \in Seq(Words)
        /\ unsaid' \in [{"parent", "child"} -> Seq(Words)]
        /\ \A q \in {"parent", "child"} \ {p} : unsaid'[q] = unsaid[q]
    BY <2>1 DEF SaidType
  <2>3. SaidType'
    BY <2>1, <2>2 DEF SaidType
  <2>4. ASSUME NEW w
        PROVE  SentOut(w)' = SentOut(w) + 0 /\ Held(p, w)' = Held(p, w) + Is(x, w)
    BY <2>1, <2>2, CountAppend, CountsAreNat DEF SentOut, Held
  <2>5. QED
    BY <1>1, <2>2, <2>3, <2>4
<1>2. CASE ~toFile
  <2>1. output' = Append(output, x) /\ unsaid' = unsaid
    BY <1>2 DEF Say
  <2>2. SaidType'
    BY <2>1 DEF SaidType
  <2>3. ASSUME NEW w
        PROVE  SentOut(w)' = SentOut(w) + Is(x, w) /\ Held(p, w)' = Held(p, w) + 0
    BY <2>1, CountAppend, CountsAreNat DEF SentOut, Held, SaidType
  <2>4. QED
    BY <1>2, <2>1, <2>2, <2>3
<1>3. QED
  BY <1>1, <1>2 DEF SaidType

\* A message that is said under a condition counts once if it holds.
LEMMA SayIfCounts ==
  ASSUME SaidType, NEW p \in {"parent", "child"}, NEW x \in Words, SayIf(p, x),
         UNCHANGED <<launcher, toFile>>
  PROVE  /\ SaidType'
         /\ ~toFile => unsaid' = unsaid
         /\ \A q \in {"parent", "child"} \ {p} : unsaid'[q] = unsaid[q]
         /\ \A w : /\ SentOut(w)' = SentOut(w) + (IF ~toFile /\ x = w THEN Wanted(w) ELSE 0)
                   /\ Held(p, w)' = Held(p, w) + (IF toFile /\ x = w THEN Wanted(w) ELSE 0)
<1>1. CASE x \in launcher.says
  <2>1. Say(p, x)
    BY <1>1 DEF SayIf
  <2>2. \A w : Is(x, w) = IF x = w THEN Wanted(w) ELSE 0
    BY <1>1 DEF Is, Wanted
  <2>3. QED
    BY <2>1, <2>2, SayCounts
<1>2. CASE x \notin launcher.says
  <2>1. UNCHANGED <<unsaid, output, toFile>>
    BY <1>2 DEF SayIf
  <2>2. Wanted(x) = 0
    BY <1>2 DEF Wanted
  <2>3. \A w : SentOut(w)' = SentOut(w) /\ Held(p, w)' = Held(p, w)
    BY <2>1 DEF SentOut, Held
  <2>4. QED
    BY <2>1, <2>2, <2>3, CountsAreNat DEF SaidType
<1>3. QED
  BY <1>1, <1>2

\* A process that exits gives its buffer to the file.
LEMMA FlushCounts ==
  ASSUME SaidType, NEW p \in {"parent", "child"}, Flush(p), UNCHANGED toFile
  PROVE  /\ SaidType'
         /\ unsaid'[p] = <<>>
         /\ \A q \in {"parent", "child"} \ {p} : unsaid'[q] = unsaid[q]
         /\ \A w : SentOut(w)' = SentOut(w) + Held(p, w) /\ Held(p, w)' = 0
<1>1. /\ output' = output \o unsaid[p] /\ unsaid' = [unsaid EXCEPT ![p] = <<>>]
      /\ unsaid[p] \in Seq(Words) /\ output \in Seq(Words)
  BY DEF Flush, SaidType
<1>2. /\ SaidType' /\ unsaid'[p] = <<>>
      /\ \A q \in {"parent", "child"} \ {p} : unsaid'[q] = unsaid[q]
  BY <1>1 DEF SaidType
<1>3. ASSUME NEW w
      PROVE  SentOut(w)' = SentOut(w) + Held(p, w) /\ Held(p, w)' = 0
  BY <1>1, <1>2, CountJoined, CountFacts DEF SentOut, Held
<1>4. QED
  BY <1>2, <1>3

\* What the parent says before and while the child runs is counted once.
LEMMA ParentSays ==
  ASSUME SaidInv, SayBefore \/ SayMeanwhile
  PROVE  /\ SaidType' /\ Meanwhile' /\ CommandText' /\ LastWord'
         /\ (toFile' => OnTheWay') /\ (~toFile' => AtOnce')
<1>1. /\ UNCHANGED <<launcher, toFile, child, ending>>
      /\ \/ parent = "start" /\ parent' = "fork" /\ SayIf("parent", "before")
         \/ parent = "meanwhile" /\ parent' = "wait" /\ SayIf("parent", "meanwhile")
  BY DEF SayBefore, SayMeanwhile
<1> DEFINE x == IF parent = "start" THEN "before" ELSE "meanwhile"
<1>2. /\ SaidType'
      /\ ~toFile => unsaid' = unsaid
      /\ unsaid'["child"] = unsaid["child"]
      /\ \A w : /\ SentOut(w)' = SentOut(w) + (IF ~toFile /\ x = w THEN Wanted(w) ELSE 0)
                /\ Held("parent", w)' = Held("parent", w) + (IF toFile /\ x = w THEN Wanted(w) ELSE 0)
  <2>1. x \in Words /\ SayIf("parent", x)
    BY <1>1 DEF Words
  <2> HIDE DEF x
  <2>2. QED
    BY <1>1, <2>1, SayIfCounts DEF SaidInv
<1>3. \A w : Held("child", w)' = Held("child", w) /\ Wanted(w)' = Wanted(w)
  BY <1>1, <1>2 DEF Held, Wanted
<1>4. \A w : SentOut(w) \in Nat /\ Held("parent", w) \in Nat /\ Wanted(w) \in {0, 1}
  BY CountsAreNat, WantedFacts DEF SaidInv
<1>5. child # "none" => parent # "start"
  BY DEF SaidInv, LauncherInv
<1>6. \/ /\ parent = "start" /\ parent' = "fork" /\ x = "before"
      \/ /\ parent = "meanwhile" /\ parent' = "wait" /\ x = "meanwhile"
  BY <1>1
<1> HIDE DEF x
<1>12. /\ told' = told /\ (ChildTells' <=> ChildTells)
       /\ \A then : Childless(then)' <=> Childless(then)
  BY <1>1 DEF SayBefore, SayMeanwhile, ChildTells, Childless
<1>13. ~Childless("exits")
  <2>1. \/ ending = Nothing
        \/ ending = NoChild /\ launcher.forkless # "exits"
        \/ child \notin {"none", "start", "exec", "command"}
    BY <1>6 DEF SaidInv, LauncherInv
  <2>2. child \in {"last", "exit", "zombie", "reaped"} => ending.by # "no child"
    <3>1. NoCommand.by # "no child"
      BY DEF NoCommand, Nothing
    <3>2. QED
      BY <3>1, SettledFacts DEF SaidInv, LauncherInv
  <2>3. Nothing.by # "no child"
    BY DEF Nothing
  <2>4. QED
    BY <2>1, <2>2, <2>3 DEF SaidInv, LauncherInv, Childless
<1>7. Meanwhile'
  <2>1. /\ SentOut("meanwhile")' + Held("parent", "meanwhile")'
             = (SentOut("meanwhile") + Held("parent", "meanwhile"))
               + (IF x = "meanwhile" THEN Wanted("meanwhile") ELSE 0)
        /\ Held("child", "meanwhile")' = Held("child", "meanwhile")
    BY <1>2, <1>3, <1>4
  <2>2. SentOut("meanwhile") + Held("parent", "meanwhile") = 0 /\ Held("child", "meanwhile") = 0
    BY <1>6 DEF SaidInv, Meanwhile
  <2>3. QED
    BY <1>3, <1>4, <1>6, <1>12, <1>13, <2>1, <2>2 DEF Meanwhile
<1>14. CommandText' /\ LastWord'
  <2>1. \A w \in {"text", "last"} : /\ SentOut(w)' = SentOut(w)
                                   /\ Held("parent", w)' = Held("parent", w)
                                   /\ Held("child", w)' = Held("child", w)
    BY <1>2, <1>3, <1>4, <1>6
  <2>2. QED
    BY <1>1, <1>12, <2>1 DEF SaidInv, CommandText, LastWord
<1>8. (Keeps' <=> Keeps) /\ (Flushed' <=> Flushed)
  BY <1>1 DEF Keeps, Flushed
<1>9. ASSUME toFile PROVE OnTheWay'
  <2>1. /\ SentOut("before")' = SentOut("before") /\ SentOut("child")' = SentOut("child")
        /\ Held("parent", "child")' = Held("parent", "child")
        /\ Held("parent", "before")' = Held("parent", "before")
                                       + (IF x = "before" THEN Wanted("before") ELSE 0)
    BY <1>2, <1>4, <1>6, <1>9
  <2>2. OnTheWay
    BY <1>9 DEF SaidInv
  <2>3. QED
    BY <1>1, <1>3, <1>4, <1>6, <1>8, <2>1, <2>2 DEF OnTheWay
<1>10. ASSUME ~toFile PROVE AtOnce'
  <2>1. /\ unsaid' = unsaid /\ SentOut("child")' = SentOut("child")
        /\ SentOut("before")' = SentOut("before") + (IF x = "before" THEN Wanted("before") ELSE 0)
    BY <1>2, <1>4, <1>6, <1>10
  <2>2. AtOnce
    BY <1>10 DEF SaidInv
  <2>3. QED
    BY <1>1, <1>3, <1>4, <1>5, <1>6, <2>1, <2>2 DEF AtOnce
<1>11. QED
  BY <1>1, <1>2, <1>7, <1>9, <1>10, <1>14

\* fork() copies what is not flushed, which counts twice unless the child drops it.
LEMMA Forks ==
  ASSUME SaidInv, Fork
  PROVE  /\ SaidType' /\ Meanwhile' /\ CommandText' /\ LastWord'
         /\ (toFile' => OnTheWay') /\ (~toFile' => AtOnce')
<1>1. /\ UNCHANGED <<launcher, toFile, output, ending>>
      /\ parent = "fork" /\ parent' = "meanwhile" /\ child' = "start" /\ child = "none"
      /\ unsaid' = [unsaid EXCEPT !["child"] = unsaid["parent"]]
  BY DEF Fork, SaidInv, LauncherInv
<1>2. /\ SaidType' /\ unsaid'["child"] = unsaid["parent"] /\ unsaid'["parent"] = unsaid["parent"]
  BY <1>1 DEF SaidInv, SaidType
<1>3. \A w : /\ Held("child", w)' = Held("parent", w) /\ Held("parent", w)' = Held("parent", w)
             /\ SentOut(w)' = SentOut(w) /\ Wanted(w)' = Wanted(w)
  BY <1>1, <1>2 DEF Held, Wanted, SentOut
<1>4. \A w : SentOut(w) \in Nat /\ Held("parent", w) \in Nat /\ Wanted(w) \in {0, 1}
  BY CountsAreNat, WantedFacts DEF SaidInv
<1>9. /\ told' = told /\ (ChildTells' <=> ChildTells)
      /\ \A then : Childless(then)' <=> Childless(then)
  BY <1>1 DEF Fork, ChildTells, Childless
<1>5. Meanwhile'
  BY <1>1, <1>3, <1>4, <1>9 DEF SaidInv, Meanwhile
<1>10. CommandText' /\ LastWord'
  BY <1>1, <1>3, <1>9 DEF SaidInv, CommandText, LastWord
<1>6. toFile => OnTheWay'
  BY <1>1, <1>3, <1>4 DEF SaidInv, OnTheWay, Keeps, Flushed
<1>7. ~toFile => AtOnce'
  BY <1>1, <1>2, <1>3, <1>4 DEF SaidInv, AtOnce
<1>8. QED
  BY <1>1, <1>2, <1>5, <1>6, <1>7, <1>10

\* The parent's end, with or without a child: what it held is in the file.
LEMMA ParentLeaves ==
  ASSUME SaidInv, parent # "gone", parent # "start", parent' = "gone", Flush("parent"),
         UNCHANGED <<launcher, toFile, child, told>>, Flushed' <=> Flushed, Keeps' <=> Keeps,
         \/ parent = "fork" /\ child = "none" /\ ending' = NoChild /\ launcher.forkless = "exits"
         \/ parent = "wait" /\ UNCHANGED ending
  PROVE  /\ SaidType' /\ Meanwhile' /\ CommandText' /\ LastWord'
         /\ (toFile' => OnTheWay') /\ (~toFile' => AtOnce')
<1>1. /\ SaidType' /\ unsaid'["parent"] = <<>> /\ unsaid'["child"] = unsaid["child"]
      /\ \A w : SentOut(w)' = SentOut(w) + Held("parent", w) /\ Held("parent", w)' = 0
  BY FlushCounts DEF SaidInv
<1>2. \A w : Held("child", w)' = Held("child", w) /\ Wanted(w)' = Wanted(w)
  BY <1>1 DEF Held, Wanted
<1>3. \A w : SentOut(w) \in Nat /\ Held("parent", w) \in Nat /\ Wanted(w) \in {0, 1}
  BY CountsAreNat, WantedFacts DEF SaidInv
<1>8. /\ Childless("exits")' <=> parent = "fork" \/ Childless("exits")
      /\ ChildTells' <=> ChildTells
      /\ ending'.by \in {"exit", "signal"} <=> ending.by \in {"exit", "signal"}
  <2>1. NoChild.by = "no child" /\ Nothing.by = "nothing"
    BY DEF NoChild, Nothing
  <2>2. parent = "fork" => ending = Nothing
    BY DEF SaidInv, LauncherInv
  <2>3. QED
    BY <2>1, <2>2 DEF Childless, ChildTells
<1>4. Meanwhile'
  <2>1. /\ SentOut("meanwhile")' = SentOut("meanwhile") + Held("parent", "meanwhile")
        /\ Held("parent", "meanwhile")' = 0 /\ Held("child", "meanwhile")' = 0
    BY <1>1, <1>2 DEF SaidInv, Meanwhile
  <2>2. QED
    BY <1>2, <1>3, <1>8, <2>1 DEF SaidInv, Meanwhile
<1>9. CommandText' /\ LastWord'
  <2>1. \A w \in {"text", "last"} : Held("parent", w) = 0
    BY DEF SaidInv, CommandText, LastWord
  <2>2. \A w \in {"text", "last"} : /\ SentOut(w)' = SentOut(w) /\ Held("parent", w)' = 0
                                   /\ Held("child", w)' = Held("child", w)
    BY <1>1, <1>2, <1>3, <2>1
  <2>3. QED
    BY <1>8, <2>2 DEF SaidInv, CommandText, LastWord
<1>5. toFile => OnTheWay'
  <2>1. SUFFICES ASSUME toFile PROVE OnTheWay'
    OBVIOUS
  <2>2. OnTheWay
    BY <2>1 DEF SaidInv
  <2>3. /\ SentOut("before")' = SentOut("before") + Wanted("before")
        /\ SentOut("child")' = SentOut("child")
    BY <1>1, <1>3, <2>2 DEF OnTheWay
  <2>4. /\ SentOut("before")' = Wanted("before") + (IF Flushed THEN Wanted("before") ELSE 0)
        /\ SentOut("child")' = IF Flushed THEN Wanted("child") ELSE 0
    BY <1>3, <2>2, <2>3 DEF OnTheWay
  <2>5. Held("parent", "before")' = 0 /\ Held("parent", "child")' = 0
    BY <1>1
  <2>6. child' # "none" =>
          /\ Held("child", "before")' = IF Keeps THEN Wanted("before") ELSE 0
          /\ Held("child", "child")' = IF Keeps /\ child # "start" THEN Wanted("child") ELSE 0
    BY <1>2, <2>2 DEF OnTheWay
  <2>7. QED
    BY <1>2, <2>4, <2>5, <2>6 DEF OnTheWay
<1>6. ~toFile => AtOnce'
  <2>1. ~toFile => \A w : Held("parent", w) = 0
    BY CountFacts DEF SaidInv, AtOnce, Held
  <2>2. QED
    BY <1>1, <1>2, <1>3, <2>1 DEF SaidInv, AtOnce
<1>7. QED
  BY <1>1, <1>4, <1>5, <1>6, <1>9

\* A fork() that fails copies nothing.
LEMMA ForkFailsSaid ==
  ASSUME SaidInv, ForkFails
  PROVE  /\ SaidType' /\ Meanwhile' /\ CommandText' /\ LastWord'
         /\ (toFile' => OnTheWay') /\ (~toFile' => AtOnce')
<1>1. /\ UNCHANGED <<launcher, toFile, child, told>> /\ parent = "fork" /\ child = "none"
      /\ ending' = NoChild /\ ending = Nothing
      /\ \/ parent' = "gone" /\ Flush("parent") /\ launcher.forkless = "exits"
         \/ /\ parent' = "meanwhile" /\ UNCHANGED <<unsaid, output>>
            /\ launcher.forkless # "exits"
  BY DEF ForkFails, SaidInv, LauncherInv, NoChild
<1>2. (Flushed' <=> Flushed) /\ (Keeps' <=> Keeps)
  BY <1>1 DEF Flushed, Keeps
<1>3. CASE parent' = "gone"
  BY <1>1, <1>2, <1>3, ParentLeaves
<1>4. CASE parent' = "meanwhile"
  <2>1. UNCHANGED <<unsaid, output>>
    BY <1>1, <1>4
  <2>2. \A w : /\ SentOut(w)' = SentOut(w) /\ Wanted(w)' = Wanted(w)
               /\ \A p \in {"parent", "child"} : Held(p, w)' = Held(p, w)
    BY <1>1, <2>1 DEF SentOut, Held, Wanted
  <2>4. /\ NoChild.by = "no child" /\ Nothing.by = "nothing" /\ launcher.forkless # "exits"
    BY <1>1, <1>4 DEF NoChild, Nothing
  <2>5. Meanwhile' /\ CommandText'
    BY <1>1, <1>4, <2>2, <2>4 DEF SaidInv, Meanwhile, CommandText, Childless
  <2>6. LastWord'
    BY <1>1, <2>2, <2>4 DEF SaidInv, LastWord, ChildTells
  <2>3. QED
    BY <1>1, <1>2, <1>4, <2>1, <2>2, <2>5, <2>6
       DEF SaidInv, SaidType, OnTheWay, AtOnce
<1>5. QED
  BY <1>1, <1>3, <1>4

\* Waiting says nothing.
LEMMA WaitSaid ==
  ASSUME SaidInv, Wait \/ WaitFails
  PROVE  /\ SaidType' /\ Meanwhile' /\ CommandText' /\ LastWord'
         /\ (toFile' => OnTheWay') /\ (~toFile' => AtOnce')
<1>1. /\ UNCHANGED <<launcher, toFile, ending, told>> /\ parent = "wait"
      /\ \/ child = "none" /\ child' = "none"
         \/ child = "zombie" /\ child' = "reaped"
      /\ \/ parent' = "gone" /\ Flush("parent") /\ child' = child
         \/ parent' = "report" /\ UNCHANGED <<unsaid, output>>
  BY DEF Wait, WaitFails
<1>2. (Flushed' <=> Flushed) /\ (Keeps' <=> Keeps)
  BY <1>1 DEF Flushed, Keeps
<1>3. CASE parent' = "gone"
  <2>1. Flush("parent") /\ child' = child
    BY <1>1, <1>3
  <2>2. QED
    BY <1>1, <1>2, <1>3, <2>1, ParentLeaves
<1>4. CASE parent' = "report"
  <2>1. UNCHANGED <<unsaid, output>>
    BY <1>1, <1>4
  <2>2. \A w : /\ SentOut(w)' = SentOut(w) /\ Wanted(w)' = Wanted(w)
               /\ \A p \in {"parent", "child"} : Held(p, w)' = Held(p, w)
    BY <1>1, <2>1 DEF SentOut, Held, Wanted
  <2>7. (ChildTells' <=> ChildTells) /\ \A then : Childless(then)' <=> Childless(then)
    BY <1>1 DEF ChildTells, Childless
  <2>3. SaidType' /\ Meanwhile'
    BY <1>1, <1>4, <2>1, <2>2, <2>7 DEF SaidInv, SaidType, Meanwhile
  <2>8. CommandText' /\ LastWord'
    BY <1>1, <1>4, <2>2, <2>7 DEF SaidInv, CommandText, LastWord
  <2>4. toFile => OnTheWay'
    BY <1>1, <1>2, <1>4, <2>2 DEF SaidInv, OnTheWay
  <2>5. ~toFile => AtOnce'
    BY <1>1, <1>4, <2>1, <2>2 DEF SaidInv, AtOnce
  <2>6. QED
    BY <1>1, <2>3, <2>4, <2>5, <2>8
<1>5. QED
  BY <1>1, <1>3, <1>4

\* The child speaks before it becomes the command, or (m.tsyrenov) instead.
LEMMA ChildSays ==
  ASSUME SaidInv, SayAsChild \/ FallThrough
  PROVE  /\ SaidType' /\ Meanwhile' /\ CommandText' /\ LastWord'
         /\ (toFile' => OnTheWay') /\ (~toFile' => AtOnce')
<1>1. /\ UNCHANGED <<launcher, toFile, parent, ending, told>>
      /\ \/ child = "start" /\ child' = "exec" /\ SayIf("child", "child")
         \/ child = "last" /\ child' = "exit" /\ Say("child", "last")
  BY DEF SayAsChild, FallThrough
<1>2. /\ parent # "start"
      /\ child = "last" => ending.by = "no command" /\ ChildTells
      /\ child = "start" => ~ChildTells
  <2>1. NoCommand.by = "no command" /\ Nothing.by = "nothing"
    BY DEF NoCommand, Nothing
  <2>2. child = "start" => ending = Nothing
    BY DEF SaidInv, LauncherInv
  <2>3. child = "last" => ending = NoCommand /\ launcher.fails = Falls
    BY DEF SaidInv, LauncherInv
  <2>4. parent # "start"
    BY <1>1 DEF SaidInv, LauncherInv
  <2>5. QED
    BY <2>1, <2>2, <2>3, <2>4 DEF ChildTells
<1>3. Keeps /\ Keeps' /\ ~Flushed /\ ~Flushed'
  BY <1>1, <1>2 DEF Keeps, Flushed
<1>4. \A w : /\ SentOut(w) \in Nat /\ Held("parent", w) \in Nat /\ Held("child", w) \in Nat
             /\ Wanted(w) \in {0, 1} /\ Wanted(w)' = Wanted(w)
  BY <1>1, CountsAreNat, WantedFacts DEF SaidInv, Wanted
<1> DEFINE more(w) == CASE child = "start" /\ w = "child" -> Wanted(w)
                        [] child = "last" /\ w = "last"   -> 1
                        [] OTHER                           -> 0
<1>5. /\ SaidType' /\ unsaid'["parent"] = unsaid["parent"]
      /\ ~toFile => unsaid' = unsaid
      /\ \A w \in Words :
           /\ SentOut(w)' = SentOut(w) + (IF toFile THEN 0 ELSE more(w))
           /\ Held("child", w)' = Held("child", w) + (IF toFile THEN more(w) ELSE 0)
  <2>1. CASE child = "start"
    BY <1>1, <2>1, SayIfCounts DEF SaidInv, Words
  <2>2. CASE child = "last"
    <3>1. \A w \in Words : Is("last", w) = more(w)
      BY <2>2 DEF Is
    <3>2. Say("child", "last")
      BY <1>1, <2>2
    <3>3. QED
      BY <1>1, <2>2, <3>1, <3>2, SayCounts DEF SaidInv, Words
  <2>3. QED
    BY <1>1, <2>1, <2>2
<1>6. \A w : Held("parent", w)' = Held("parent", w)
  BY <1>5 DEF Held
<1>11. /\ more("before") = 0 /\ more("meanwhile") = 0 /\ more("text") = 0
       /\ more("child") = IF child = "start" THEN Wanted("child") ELSE 0
       /\ more("last") = IF child = "last" THEN 1 ELSE 0
  OBVIOUS
<1>12. (ChildTells' <=> ChildTells) /\ \A then : Childless(then)' <=> Childless(then)
  BY <1>1 DEF ChildTells, Childless
<1> HIDE DEF more
<1>13. \A w \in {"text", "meanwhile"} : /\ SentOut(w)' = SentOut(w)
                                       /\ Held("child", w)' = Held("child", w)
  BY <1>4, <1>5, <1>11 DEF Words
<1>7. Meanwhile'
  BY <1>1, <1>4, <1>6, <1>12, <1>13 DEF SaidInv, Meanwhile
<1>14. CommandText'
  BY <1>1, <1>6, <1>13 DEF SaidInv, CommandText
<1>15. LastWord'
  <2>1. /\ SentOut("last")' = SentOut("last") + (IF toFile THEN 0 ELSE more("last"))
        /\ Held("child", "last")' = Held("child", "last") + (IF toFile THEN more("last") ELSE 0)
    BY <1>5 DEF Words
  <2>2. LastWord
    BY DEF SaidInv
  <2>3. CASE child = "start"
    BY <1>1, <1>2, <1>4, <1>6, <1>11, <1>12, <2>1, <2>2, <2>3 DEF LastWord
  <2>4. CASE child = "last"
    <3>1. /\ SentOut("last") = IF told.by \in {"nothing", "silent"} THEN 0 ELSE 1
          /\ Held("child", "last") = 0
      BY <2>2, <2>4 DEF LastWord
    <3>2. SentOut("last") \in Nat /\ ChildTells' /\ child' = "exit" /\ more("last") = 1
      BY <1>1, <1>2, <1>4, <1>11, <1>12, <2>4
    <3>3. /\ SentOut("last")' = (IF told.by \in {"nothing", "silent"} THEN 0 ELSE 1)
                               + (IF toFile THEN 0 ELSE 1)
          /\ Held("child", "last")' = IF toFile THEN 1 ELSE 0
      BY <2>1, <3>1, <3>2
    <3>4. Held("parent", "last")' = 0
      BY <1>6, <2>2 DEF LastWord
    <3>5. told' = told /\ toFile' = toFile
      BY <1>1
    <3>6. QED
      BY <3>2, <3>3, <3>4, <3>5 DEF LastWord
  <2>5. QED
    BY <1>1, <2>3, <2>4
<1>8. ASSUME toFile PROVE OnTheWay'
  <2>1. /\ SentOut("before")' = SentOut("before") /\ SentOut("child")' = SentOut("child")
        /\ Held("child", "before")' = Held("child", "before")
        /\ Held("child", "child")' = Held("child", "child") + more("child")
    BY <1>4, <1>5, <1>8, <1>11 DEF Words
  <2>2. OnTheWay
    BY <1>8 DEF SaidInv
  <2>3. QED
    BY <1>1, <1>3, <1>4, <1>6, <1>11, <2>1, <2>2 DEF OnTheWay
<1>9. ASSUME ~toFile PROVE AtOnce'
  <2>1. /\ unsaid' = unsaid /\ SentOut("before")' = SentOut("before")
        /\ SentOut("child")' = SentOut("child") + more("child")
    BY <1>4, <1>5, <1>9, <1>11 DEF Words
  <2>2. AtOnce
    BY <1>9 DEF SaidInv
  <2>3. /\ parent' # "start" /\ child' \notin {"none", "start"} /\ child \in {"start", "last"}
        /\ Wanted("before")' = Wanted("before") /\ Wanted("child")' = Wanted("child")
        /\ Wanted("child") \in {0, 1}
    BY <1>1, <1>2, <1>4
  <2>4. SentOut("before")' = Wanted("before") /\ SentOut("child")' = Wanted("child")
    <3>1. SentOut("before") = Wanted("before")
      BY <1>2, <2>2 DEF AtOnce
    <3>2. SentOut("child") = IF child = "start" THEN 0 ELSE Wanted("child")
      BY <2>2, <2>3 DEF AtOnce
    <3>3. more("child") = IF child = "start" THEN Wanted("child") ELSE 0
      BY <1>11
    <3>4. QED
      BY <2>1, <2>3, <3>1, <3>2, <3>3
  <2>5. QED
    BY <2>1, <2>2, <2>3, <2>4 DEF AtOnce
<1>10. QED
  BY <1>1, <1>5, <1>7, <1>8, <1>9, <1>14, <1>15

\* exec() drops what the child held; a shell has nothing to drop.
LEMMA ChildBecomes ==
  ASSUME SaidInv, Exec \/ ExecFails \/ Command
  PROVE  /\ SaidType' /\ Meanwhile' /\ CommandText' /\ LastWord'
         /\ (toFile' => OnTheWay') /\ (~toFile' => AtOnce')
<1> DEFINE drops == child = "exec" /\ child' = "command" /\ ~launcher.shell
<1>1. /\ UNCHANGED <<launcher, toFile, parent, told>>
      /\ child \in {"exec", "command"} /\ child' \in {"command", "last", "exit", "zombie"}
      /\ unsaid' = IF drops THEN [unsaid EXCEPT !["child"] = <<>>] ELSE unsaid
      /\ output' = IF child = "command" THEN Append(output, "text") ELSE output
      /\ child = "exec" /\ child' = "command" => ending' = ending
      /\ child' = "last" => launcher.fails = Falls
      /\ child = "exec" /\ child' = "exit" => launcher.fails # Falls
      /\ child = "command" => ending'.by \in {"exit", "signal"}
      /\ child = "exec" /\ child' # "command" => ending'.by = "no command" /\ child' # "zombie"
      /\ child = "command" => ending'.by # "no command" /\ (child' = "exit" => launcher.shell)
                              /\ child' \in {"zombie", "exit"}
  <2>1. CASE Exec
    BY <2>1 DEF Exec
  <2>2. CASE ExecFails
    BY <2>2 DEF ExecFails, Nothing
  <2>3. CASE Command
    <3>1. PICK e \in {Exited(c) : c \in Codes} \cup {Killed(n) : n \in Signals} : ending' = e
      BY <2>3 DEF Command
    <3>2. e.by \in {"exit", "signal"}
      BY DEF Exited, Killed
    <3>3. /\ UNCHANGED <<launcher, toFile, parent, unsaid, told>> /\ child = "command"
          /\ output' = Append(output, "text")
          /\ IF launcher.shell THEN child' = "exit" ELSE child' = "zombie"
      BY <2>3 DEF Command
    <3>4. QED
      BY <3>1, <3>2, <3>3
  <2>4. QED
    BY <2>1, <2>2, <2>3
<1>2. parent # "start"
  BY <1>1 DEF SaidInv, LauncherInv
<1>3. launcher.shell => \A w : Wanted(w) = 0
  BY LauncherFacts DEF SaidInv, LauncherInv, Wanted
<1>4. \A w : Wanted(w) \in {0, 1} /\ Wanted(w)' = Wanted(w)
  BY <1>1, WantedFacts DEF Wanted
<1>5. SaidType'
  <2>1. SaidType /\ "text" \in Words
    BY DEF SaidInv, Words
  <2>2. output' \in Seq(Words)
    <3>1. output \in Seq(Words) /\ Append(output, "text") \in Seq(Words)
      BY <2>1 DEF SaidType
    <3>2. QED
      BY <1>1, <3>1
  <2>3. unsaid' \in [{"parent", "child"} -> Seq(Words)]
    <3>1. /\ unsaid \in [{"parent", "child"} -> Seq(Words)]
          /\ [unsaid EXCEPT !["child"] = <<>>] \in [{"parent", "child"} -> Seq(Words)]
      BY <2>1 DEF SaidType
    <3>2. QED
      BY <1>1, <3>1
  <2>4. QED
    BY <1>1, <2>1, <2>2, <2>3 DEF SaidType
<1>6. \A w \in Words :
        /\ SentOut(w)' = SentOut(w) + (IF child = "command" THEN Is("text", w) ELSE 0)
        /\ Held("parent", w)' = Held("parent", w)
        /\ Held("child", w)' = IF drops THEN 0 ELSE Held("child", w)
  <2>1. ASSUME NEW w \in Words
        PROVE  SentOut(w)' = SentOut(w) + (IF child = "command" THEN Is("text", w) ELSE 0)
    <3>1. "text" \in Words /\ output \in Seq(Words) /\ Count(output, w) \in Nat
      BY CountFacts DEF Words, SaidInv, SaidType
    <3>2. Count(Append(output, "text"), w) = Count(output, w) + Is("text", w)
      BY <3>1, CountAppend
    <3>3. /\ child = "command" => output' = Append(output, "text")
          /\ child # "command" => output' = output
      BY <1>1
    <3>4. SentOut(w)' = Count(output', w) /\ SentOut(w) = Count(output, w)
      BY DEF SentOut
    <3>5. CASE child = "command"
      <4>1. SentOut(w)' = SentOut(w) + Is("text", w)
        BY <3>2, <3>3, <3>4, <3>5, Zenon
      <4>2. QED
        BY <3>5, <4>1, Zenon
    <3>6. CASE child # "command"
      <4>1. SentOut(w)' = SentOut(w) /\ SentOut(w) + 0 = SentOut(w)
        BY <3>1, <3>3, <3>4, <3>6
      <4>2. QED
        BY <3>6, <4>1, Zenon
    <3>7. QED
      BY <3>5, <3>6
  <2>2. /\ unsaid'["parent"] = unsaid["parent"]
        /\ unsaid'["child"] = IF drops THEN <<>> ELSE unsaid["child"]
    BY <1>1 DEF SaidInv, SaidType
  <2>3. ASSUME NEW w
        PROVE  /\ Held("parent", w)' = Held("parent", w)
               /\ Held("child", w)' = IF drops THEN 0 ELSE Held("child", w)
    BY <2>2, CountFacts DEF Held
  <2>4. QED
    BY <2>1, <2>3
<1>7. ~Flushed /\ ~Flushed' /\ (child = "command" => ~Keeps)
      /\ (Keeps' <=> child' \in {"last", "exit"} /\ child = "exec")
  BY <1>1 DEF Flushed, Keeps
<1>12. /\ \A w \in Words : Is("text", w) = IF w = "text" THEN 1 ELSE 0
       /\ Words = {"before", "child", "meanwhile", "text", "last"}
       /\ \A w \in Words : SentOut(w) \in Nat
  BY CountsAreNat DEF Is, Words, SaidInv
<1>13. \A w \in {"before", "child", "meanwhile", "last"} : SentOut(w)' = SentOut(w)
  BY <1>6, <1>12
<1>14. /\ ending = Nothing /\ Nothing.by = "nothing" /\ ~Childless("exits") /\ ~ChildTells
       /\ ~Childless("exits")' /\ (ChildTells' <=> child' = "last")
  <2>1. ending = Nothing
    BY <1>1 DEF SaidInv, LauncherInv
  <2>2. Nothing.by = "nothing"
    BY DEF Nothing
  <2>3. CASE child' = "command" /\ child = "exec"
    BY <1>1, <2>1, <2>2, <2>3 DEF Childless, ChildTells
  <2>4. CASE child = "exec" /\ child' # "command"
    BY <1>1, <2>1, <2>2, <2>4 DEF Childless, ChildTells
  <2>5. CASE child = "command"
    BY <1>1, <2>1, <2>2, <2>5 DEF Childless, ChildTells
  <2>6. QED
    BY <1>1, <2>3, <2>4, <2>5
<1>8. Meanwhile'
  BY <1>1, <1>4, <1>6, <1>12, <1>13, <1>14 DEF SaidInv, Meanwhile
<1>15. CommandText'
  <2>1. CommandText
    BY DEF SaidInv
  <2>2. SentOut("text") = 0 /\ Held("parent", "text") = 0 /\ Held("child", "text") = 0
    BY <1>14, <2>1 DEF CommandText
  <2>3. /\ SentOut("text")' = IF child = "command" THEN 1 ELSE 0
        /\ Held("parent", "text")' = 0 /\ Held("child", "text")' = 0
    BY <1>6, <1>12, <2>2
  <2>4. ending'.by \in {"exit", "signal"} <=> child = "command"
    BY <1>1, <1>14
  <2>5. QED
    BY <2>3, <2>4 DEF CommandText
<1>16. LastWord'
  BY <1>1, <1>6, <1>12, <1>13, <1>14 DEF SaidInv, LastWord
<1>9. ASSUME toFile PROVE OnTheWay'
  <2>1. OnTheWay
    BY <1>9 DEF SaidInv
  <2>2. CASE child = "command"
    <3>1. Held("child", "before")' = 0 /\ Held("child", "child")' = 0
      BY <1>1, <1>6, <1>7, <1>12, <2>1, <2>2 DEF OnTheWay
    <3>2. QED
      BY <1>1, <1>4, <1>6, <1>7, <1>12, <1>13, <2>1, <2>2, <3>1 DEF OnTheWay
  <2>3. CASE child = "exec"
    <3>1. Keeps
      BY <2>3 DEF Keeps
    <3>2. /\ Held("child", "before") = Wanted("before") /\ Held("child", "child") = Wanted("child")
      BY <2>1, <2>3, <3>1 DEF OnTheWay
    <3>3. /\ Held("child", "before")' = IF drops THEN 0 ELSE Wanted("before")
          /\ Held("child", "child")' = IF drops THEN 0 ELSE Wanted("child")
      BY <1>6, <1>12, <3>2
    <3>4. /\ Held("child", "before")' = IF Keeps' THEN Wanted("before") ELSE 0
          /\ Held("child", "child")' = IF Keeps' THEN Wanted("child") ELSE 0
      <4>1. CASE child' = "command"
        <5>1. ~Keeps' /\ (drops \/ (Wanted("before") = 0 /\ Wanted("child") = 0))
          BY <1>1, <1>3, <1>7, <2>3, <4>1
        <5>2. QED
          BY <3>3, <5>1
      <4>2. CASE child' # "command"
        <5>1. Keeps' /\ ~drops
          BY <1>1, <1>7, <2>3, <4>2
        <5>2. QED
          BY <3>3, <5>1
      <4>3. QED
        BY <4>1, <4>2
    <3>5. QED
      BY <1>1, <1>4, <1>6, <1>7, <1>12, <1>13, <2>1, <2>3, <3>4 DEF OnTheWay
  <2>4. QED
    BY <1>1, <2>2, <2>3
<1>10. ASSUME ~toFile PROVE AtOnce'
  <2>1. AtOnce
    BY <1>10 DEF SaidInv
  <2>2. unsaid'["parent"] = <<>> /\ unsaid'["child"] = <<>>
    BY <1>1, <2>1 DEF AtOnce, SaidInv, SaidType
  <2>3. QED
    BY <1>1, <1>2, <1>4, <1>13, <2>1, <2>2 DEF AtOnce
<1>11. QED
  BY <1>1, <1>5, <1>8, <1>9, <1>10, <1>15, <1>16

\* A child that exits without having become the command gives what it held,
\* its copy of the parent's words included, to the file.
LEMMA ChildLeaves ==
  ASSUME SaidInv, ChildExits
  PROVE  /\ SaidType' /\ Meanwhile' /\ CommandText' /\ LastWord'
         /\ (toFile' => OnTheWay') /\ (~toFile' => AtOnce')
<1>1. /\ UNCHANGED <<launcher, toFile, parent, ending, told>>
      /\ child = "exit" /\ child' = "zombie" /\ Flush("child")
  BY DEF ChildExits
<1>2. /\ SaidType' /\ unsaid'["child"] = <<>> /\ unsaid'["parent"] = unsaid["parent"]
      /\ \A w : SentOut(w)' = SentOut(w) + Held("child", w) /\ Held("child", w)' = 0
  BY <1>1, FlushCounts DEF SaidInv
<1>3. \A w : Held("parent", w)' = Held("parent", w) /\ Wanted(w)' = Wanted(w)
  BY <1>1, <1>2 DEF Held, Wanted
<1>4. \A w : SentOut(w) \in Nat /\ Held("child", w) \in Nat /\ Wanted(w) \in {0, 1}
  BY CountsAreNat, WantedFacts DEF SaidInv
<1>5. ~Flushed /\ ~Keeps' /\ (Flushed' <=> Keeps) /\ parent # "start"
  BY <1>1 DEF Flushed, Keeps, SaidInv, LauncherInv
<1>10. (ChildTells' <=> ChildTells) /\ \A then : Childless(then)' <=> Childless(then)
  BY <1>1 DEF ChildTells, Childless
<1>6. Meanwhile'
  BY <1>1, <1>2, <1>3, <1>4, <1>10 DEF SaidInv, Meanwhile
<1>11. CommandText' /\ LastWord'
  <2>1. Held("child", "text") = 0 /\ CommandText /\ LastWord
    BY DEF SaidInv, CommandText
  <2>2. CommandText'
    BY <1>1, <1>2, <1>3, <1>4, <2>1 DEF CommandText
  <2>3. LastWord'
    BY <1>1, <1>2, <1>3, <1>4, <1>10, <2>1 DEF LastWord
  <2>4. QED
    BY <2>2, <2>3
<1>7. ASSUME toFile PROVE OnTheWay'
  <2>1. OnTheWay
    BY <1>7 DEF SaidInv
  <2>2. /\ Held("child", "before") = IF Keeps THEN Wanted("before") ELSE 0
        /\ Held("child", "child") = IF Keeps THEN Wanted("child") ELSE 0
    BY <1>1, <2>1 DEF OnTheWay
  <2>3. /\ SentOut("before") = (IF parent = "gone" THEN Wanted("before") ELSE 0) + 0
        /\ SentOut("child") = 0
    BY <1>5, <2>1 DEF OnTheWay
  <2>4. /\ Wanted("before")' = Wanted("before") /\ Wanted("child")' = Wanted("child")
        /\ Wanted("before") \in {0, 1} /\ Wanted("child") \in {0, 1}
        /\ SentOut("before")' = SentOut("before") + Held("child", "before")
        /\ SentOut("child")' = SentOut("child") + Held("child", "child")
        /\ Held("child", "before")' = 0 /\ Held("child", "child")' = 0
        /\ Held("parent", "before")' = Held("parent", "before")
        /\ Held("parent", "child")' = Held("parent", "child")
    BY <1>2, <1>3, <1>4
  <2>5. QED
    BY <1>1, <1>5, <2>1, <2>2, <2>3, <2>4 DEF OnTheWay
<1>8. ASSUME ~toFile PROVE AtOnce'
  <2>1. AtOnce /\ Held("child", "before") = 0 /\ Held("child", "child") = 0
    BY <1>8, CountFacts DEF SaidInv, AtOnce, Held
  <2>2. QED
    BY <1>1, <1>2, <1>3, <1>4, <1>5, <2>1 DEF AtOnce
<1>9. QED
  BY <1>1, <1>2, <1>6, <1>7, <1>8, <1>11

\* The report is said once, and the parent leaves.
LEMMA ReportSaid ==
  ASSUME SaidInv, Report
  PROVE  /\ SaidType' /\ Meanwhile' /\ CommandText' /\ LastWord'
         /\ (toFile' => OnTheWay') /\ (~toFile' => AtOnce')
<1>1. /\ UNCHANGED <<launcher, toFile, child, ending>>
      /\ parent = "report" /\ parent' = "gone"
      /\ output' = output \o unsaid["parent"]
                   \o (IF told'.by = "silent" THEN <<>> ELSE <<"last">>)
      /\ unsaid' = [unsaid EXCEPT !["parent"] = <<>>]
  BY DEF Report
<1>2. /\ output \in Seq(Words) /\ unsaid["parent"] \in Seq(Words) /\ "last" \in Words
      /\ output \o unsaid["parent"] \in Seq(Words)
      /\ output' = IF told'.by = "silent" THEN output \o unsaid["parent"]
                   ELSE Append(output \o unsaid["parent"], "last")
  <2>1. /\ output \in Seq(Words) /\ unsaid["parent"] \in Seq(Words) /\ "last" \in Words
    BY DEF SaidInv, SaidType, Words
  <2>2. output \o unsaid["parent"] \in Seq(Words)
    BY <2>1
  <2>3. /\ output \o unsaid["parent"] \o <<>> = output \o unsaid["parent"]
        /\ output \o unsaid["parent"] \o <<"last">> = Append(output \o unsaid["parent"], "last")
    BY <2>2
  <2> DEFINE flushed == output \o unsaid["parent"]
  <2> HIDE DEF flushed
  <2>4. output' = flushed \o (IF told'.by = "silent" THEN <<>> ELSE <<"last">>)
    BY <1>1 DEF flushed
  <2>5. output' = IF told'.by = "silent" THEN flushed ELSE Append(flushed, "last")
    BY <2>3, <2>4 DEF flushed
  <2>6. QED
    BY <2>1, <2>2, <2>5 DEF flushed
<1>3. SaidType' /\ unsaid'["parent"] = <<>> /\ unsaid'["child"] = unsaid["child"]
  BY <1>1, <1>2 DEF SaidInv, SaidType
<1>4. \A w : /\ SentOut(w) \in Nat /\ Held("parent", w) \in Nat
             /\ Wanted(w) \in {0, 1} /\ Wanted(w)' = Wanted(w)
  BY <1>1, CountsAreNat, WantedFacts DEF SaidInv, Wanted
<1> DEFINE more(w) == IF told'.by = "silent" THEN 0 ELSE Is("last", w)
<1>5. ASSUME NEW w \in Words
      PROVE  /\ SentOut(w)' = SentOut(w) + Held("parent", w) + more(w)
             /\ Held("parent", w)' = 0 /\ Held("child", w)' = Held("child", w)
  <2>2. Count(output', w) = Count(output \o unsaid["parent"], w) + more(w)
    <3> DEFINE flushed == output \o unsaid["parent"]
    <3>1. flushed \in Seq(Words) /\ "last" \in Words
          /\ output' = IF told'.by = "silent" THEN flushed ELSE Append(flushed, "last")
      BY <1>2
    <3> HIDE DEF flushed
    <3>2. CASE told'.by = "silent"
      <4>1. output' = flushed /\ more(w) = 0 /\ Count(flushed, w) \in Nat
        BY <3>1, <3>2, CountFacts
      <4>2. Count(output', w) = Count(flushed, w) + more(w)
        BY <4>1
      <4>3. QED
        BY <4>2 DEF flushed
    <3>3. CASE told'.by # "silent"
      <4>1. output' = Append(flushed, "last") /\ more(w) = Is("last", w)
        BY <3>1, <3>3
      <4>2. Count(Append(flushed, "last"), w) = Count(flushed, w) + Is("last", w)
        BY <3>1, CountAppend
      <4>3. Count(output', w) = Count(flushed, w) + more(w)
        BY <4>1, <4>2, Zenon
      <4>4. QED
        BY <4>3 DEF flushed
    <3>4. QED
      BY <3>2, <3>3
  <2>3. Count(output \o unsaid["parent"], w) = Count(output, w) + Count(unsaid["parent"], w)
    BY <1>2, CountJoined
  <2>4. QED
    BY <1>3, <1>4, <2>2, <2>3, CountFacts DEF SentOut, Held
<1>11. /\ \A w \in {"before", "child", "meanwhile", "text"} : more(w) = 0 /\ w \in Words
       /\ more("last") = (IF told'.by = "silent" THEN 0 ELSE 1) /\ "last" \in Words
  BY DEF Is, Words
<1> HIDE DEF more
<1>12. \A w \in {"before", "child", "meanwhile", "text"} :
         /\ SentOut(w)' = SentOut(w) + Held("parent", w)
         /\ Held("parent", w)' = 0 /\ Held("child", w)' = Held("child", w)
  BY <1>4, <1>5, <1>11
<1>13. (ChildTells' <=> ChildTells) /\ \A then : Childless(then)' <=> Childless(then)
  BY <1>1 DEF ChildTells, Childless
<1>6. (Flushed' <=> Flushed) /\ (Keeps' <=> Keeps)
  BY <1>1 DEF Flushed, Keeps
<1>7. Meanwhile'
  BY <1>1, <1>4, <1>12, <1>13 DEF SaidInv, Meanwhile
<1>14. CommandText'
  BY <1>1, <1>4, <1>12 DEF SaidInv, CommandText
<1>15. LastWord'
  <2>1. told = Nothing /\ Nothing.by = "nothing" /\ LastWord
    BY <1>1 DEF SaidInv, LauncherInv, Nothing
  <2>2. told'.by # "nothing"
    BY TellsSomething DEF SaidInv
  <2>3. /\ SentOut("last")' = SentOut("last") + (IF told'.by = "silent" THEN 0 ELSE 1)
        /\ Held("parent", "last")' = 0 /\ Held("child", "last")' = Held("child", "last")
    BY <1>4, <1>5, <1>11, <2>1 DEF LastWord
  <2>4. QED
    BY <1>1, <1>4, <1>13, <2>1, <2>2, <2>3 DEF LastWord
<1>8. ASSUME toFile PROVE OnTheWay'
  <2>1. OnTheWay
    BY <1>8 DEF SaidInv
  <2>2. /\ Wanted("before")' = Wanted("before") /\ Wanted("child")' = Wanted("child")
        /\ Wanted("before") \in {0, 1} /\ Wanted("child") \in {0, 1}
        /\ SentOut("before")' = SentOut("before") + Held("parent", "before")
        /\ SentOut("child")' = SentOut("child") + Held("parent", "child")
        /\ Held("parent", "before")' = 0 /\ Held("parent", "child")' = 0
        /\ Held("child", "before")' = Held("child", "before")
        /\ Held("child", "child")' = Held("child", "child")
    BY <1>4, <1>12
  <2>3. QED
    BY <1>1, <1>6, <2>1, <2>2 DEF OnTheWay
<1>9. ASSUME ~toFile PROVE AtOnce'
  <2>1. AtOnce /\ Held("parent", "before") = 0 /\ Held("parent", "child") = 0
    BY <1>9, CountFacts DEF SaidInv, AtOnce, Held
  <2>2. QED
    BY <1>1, <1>3, <1>4, <1>12, <2>1 DEF AtOnce
<1>10. QED
  BY <1>1, <1>3, <1>7, <1>8, <1>9, <1>14, <1>15

\* What is said, and how often, for every program, with the output on a
\* terminal and in a file, whatever fails.
THEOREM EachIsSaidOnce == LauncherSpec => []SaidOnce
<1>1. LauncherInit => SaidInv
  <2>1. ASSUME LauncherInit PROVE SaidType /\ unsaid["parent"] = <<>> /\ unsaid["child"] = <<>>
    BY <2>1 DEF LauncherInit, SaidType
  <2>2. ASSUME LauncherInit, NEW w PROVE SentOut(w) = 0 /\ Held("parent", w) = 0
    BY <2>1, <2>2, CountFacts DEF LauncherInit, SentOut, Held
  <2>3. ASSUME LauncherInit PROVE Meanwhile /\ CommandText /\ LastWord /\ OnTheWay /\ AtOnce
    <3>1. parent = "start" /\ child = "none" /\ ~Flushed
      BY <2>3 DEF LauncherInit, Flushed
    <3>2. Held("child", "meanwhile") = 0 /\ Held("child", "text") = 0 /\ Held("child", "last") = 0
      BY <2>1, <2>3, CountFacts DEF Held
    <3>3. ending.by = "nothing" /\ told.by = "nothing"
      BY <2>3 DEF LauncherInit, Nothing
    <3>4. QED
      BY <2>1, <2>2, <2>3, <3>1, <3>2, <3>3
         DEF Meanwhile, CommandText, LastWord, ChildTells, OnTheWay, AtOnce
  <2>4. QED
    BY <2>1, <2>3, LauncherInitInv DEF SaidInv
<1>2. SaidInv /\ LauncherInv' /\ [LauncherNext]_childVars => SaidInv'
  <2>1. ASSUME SaidInv, UNCHANGED childVars
        PROVE  /\ SaidType' /\ Meanwhile' /\ CommandText' /\ LastWord'
               /\ (toFile' => OnTheWay') /\ (~toFile' => AtOnce')
    BY <2>1 DEF childVars, SaidInv, SaidType, Meanwhile, CommandText, LastWord, OnTheWay, AtOnce,
       SentOut, Held, Wanted, Keeps, Flushed, Childless, ChildTells
  <2>2. QED
    BY <2>1, ParentSays, Forks, ForkFailsSaid, WaitSaid, ChildSays, ChildBecomes, ChildLeaves,
       ReportSaid DEF SaidInv, LauncherNext, ParentStep, ChildStep
<1>3. SaidInv => SaidOnce
  <2>1. SUFFICES ASSUME SaidInv, parent = "gone", child \in {"none", "reaped"}
                 PROVE  SaidOnce
    BY DEF SaidOnce
  <2>2. \A w : Times(w) = SentOut(w)
    BY DEF Times, SentOut, Count
  <2>3. \A w : SentOut(w) \in Nat /\ Held("parent", w) \in Nat
    BY <2>1, CountsAreNat DEF SaidInv
  <2>4. Times("meanwhile") = (IF "meanwhile" \notin launcher.says \/ Childless("exits")
                              THEN 0 ELSE 1)
    <3>1. SentOut("meanwhile") + 0 = IF Childless("exits") THEN 0 ELSE Wanted("meanwhile")
      BY <2>1 DEF SaidInv, Meanwhile
    <3>2. QED
      BY <2>2, <2>3, <3>1 DEF Wanted
  <2>8. Times("text") = (IF ending.by \in {"exit", "signal"} THEN 1 ELSE 0)
    BY <2>1, <2>2 DEF SaidInv, CommandText
  <2>9. Times("last") = (IF Childless("exits") \/ Childless("notices") THEN 0
                         ELSE IF launcher.fails = Falls /\ ending.by = "no command" THEN 2
                         ELSE IF launcher.report = "exited" /\ ending.by = "signal" THEN 0 ELSE 1)
    <3>1. LastWord /\ HasTold /\ launcher \in Launchers
      BY <2>1 DEF SaidInv, LauncherInv
    <3>2. launcher.fails = Falls => launcher.report = "status"
      BY <3>1, LauncherFacts
    <3>3. NoChild.by = "no child" /\ Nothing.by = "nothing"
      BY DEF NoChild, Nothing
    <3>4. /\ Childless("exits") <=> ending.by = "no child" /\ launcher.forkless = "exits"
          /\ Childless("notices") <=> ending.by = "no child" /\ launcher.forkless = "notices"
      BY DEF Childless
    <3>5. child = "reaped" \/ ~ChildTells
      <4>1. child = "none" => ending \in {Nothing, NoChild}
        BY <2>1 DEF SaidInv, LauncherInv
      <4>2. QED
        BY <2>1, <3>3, <4>1 DEF ChildTells
    <3>6. Times("last") = (IF told.by \in {"nothing", "silent"} THEN 0 ELSE 1)
                          + (IF ChildTells THEN 1 ELSE 0)
      BY <2>1, <2>2, <3>1, <3>5 DEF LastWord
    <3>7. CASE told = Nothing
      <4>1. (Childless("exits") \/ Childless("notices")) /\ ~ChildTells
        BY <3>1, <3>3, <3>4, <3>7 DEF HasTold, ChildTells
      <4>2. told.by = "nothing"
        BY <3>3, <3>7
      <4>3. Times("last") = 0
        BY <3>6, <4>1, <4>2
      <4>4. QED
        BY <4>1, <4>3, Zenon
    <3>8. CASE told # Nothing
      <4>1. /\ ~Childless("exits") /\ ~Childless("notices") /\ told.by # "nothing"
            /\ told.by = "silent" <=> launcher.report = "exited" /\ ending.by = "signal"
        BY <3>1, <3>4, <3>8 DEF HasTold
      <4>2. CASE ChildTells
        <5>1. told.by # "silent"
          BY <3>2, <4>1, <4>2 DEF ChildTells
        <5>2. Times("last") = 2
          BY <3>6, <4>1, <4>2, <5>1
        <5>3. launcher.fails = Falls /\ ending.by = "no command"
          BY <4>2 DEF ChildTells
        <5>4. QED
          BY <4>1, <5>2, <5>3, Zenon
      <4>3. CASE ~ChildTells
        <5>1. Times("last") = IF told.by = "silent" THEN 0 ELSE 1
          BY <3>6, <4>1, <4>3
        <5>2. ~(launcher.fails = Falls /\ ending.by = "no command")
          BY <4>3 DEF ChildTells
        <5>3. QED
          BY <4>1, <5>1, <5>2, Zenon
      <4>4. QED
        BY <4>2, <4>3
    <3>9. QED
      BY <3>7, <3>8
  <2>5. CASE toFile
    <3>1. OnTheWay
      BY <2>1, <2>5 DEF SaidInv
    <3>2. Flushed <=> child = "reaped" /\ ending.by = "no command"
      BY <2>1 DEF Flushed
    <3>3. /\ Times("before") = Wanted("before") + (IF Flushed THEN Wanted("before") ELSE 0)
          /\ Times("child") = IF Flushed THEN Wanted("child") ELSE 0
      BY <2>1, <2>2, <3>1 DEF OnTheWay
    <3>4. Times("before") = (IF "before" \notin launcher.says THEN 0
                             ELSE IF ending.by = "no command" THEN 2 ELSE 1)
      <4>1. child = "none" => ending.by # "no command"
        <5>1. Nothing.by # "no command" /\ NoChild.by # "no command"
          BY DEF Nothing, NoChild
        <5>2. child = "none" => ending = Nothing \/ ending = NoChild
          BY <2>1 DEF SaidInv, LauncherInv
        <5>3. QED
          BY <5>1, <5>2
      <4>2. CASE "before" \notin launcher.says
        <5>1. Wanted("before") = 0
          BY <4>2 DEF Wanted
        <5>2. QED
          BY <3>3, <4>2, <5>1
      <4>3. CASE "before" \in launcher.says
        <5>1. Wanted("before") = 1
          BY <4>3 DEF Wanted
        <5>2. Flushed <=> ending.by = "no command"
          BY <2>1, <3>2, <4>1
        <5>3. CASE Flushed
          <6>1. Times("before") = 2
            BY <3>3, <5>1, <5>3
          <6>2. ending.by = "no command"
            BY <5>2, <5>3
          <6>3. QED
            BY <4>3, <6>1, <6>2
        <5>4. CASE ~Flushed
          <6>1. Times("before") = 1
            BY <3>3, <5>1, <5>4
          <6>2. ending.by # "no command"
            BY <5>2, <5>4
          <6>3. QED
            BY <4>3, <6>1, <6>2
        <5>5. QED
          BY <5>3, <5>4
      <4>4. QED
        BY <4>2, <4>3
    <3>5. Times("child") = (IF "child" \notin launcher.says \/ child = "none" THEN 0
                            ELSE IF ending.by # "no command" THEN 0 ELSE 1)
      BY <2>1, <3>2, <3>3 DEF Wanted
    <3>6. QED
      BY <2>4, <2>5, <2>8, <2>9, <3>4, <3>5 DEF SaidOnce
  <2>6. CASE ~toFile
    <3>1. /\ Times("before") = IF "before" \in launcher.says THEN 1 ELSE 0
          /\ Times("child") = IF child = "none" \/ "child" \notin launcher.says THEN 0 ELSE 1
      BY <2>1, <2>2, <2>6 DEF SaidInv, AtOnce, Wanted
    <3>2. QED
      BY <2>4, <2>6, <2>8, <2>9, <3>1 DEF SaidOnce
  <2>7. QED
    BY <2>5, <2>6
<1>4. QED
  BY <1>1, <1>2, <1>3, LauncherInductive, PTL DEF LauncherSpec

-----------------------------------------------------------------------------
(****************************************************************************)
(* Two signals and their handlers: SignalCounter.                           *)
(****************************************************************************)
HandlerSteps == {"count", "bell", "hold", "install", "report", "exit", "set"}
Frame == [sig : Signal, left : Seq(HandlerSteps)]

\* A handler of SIGINT that will install itself again.
Installs(f) == f.sig = INT /\ Contains(f.left, "install")

\* A program loses a handler only when signals go back to their default, and
\* then it has a frame of that signal that either installs the handler or ends
\* the program. So a frame may not return with its last steps undone.
KeysInv ==
  /\ counter \in Counters
  /\ frames \in Seq(Frame)
  /\ state = "runs" =>
       /\ ~counter.flag => \A i \in DOMAIN frames : frames[i].sig = QUIT =>
            frames[i].left \in {<<"report", "exit">>, <<"exit">>}
       /\ (main # "int" \/ ready) /\ INT \notin installed =>
            /\ handling.reset
            /\ Contains(counter.rings, "install") => \E i \in DOMAIN frames : Installs(frames[i])
       /\ ready /\ QUIT \notin installed =>
            handling.reset /\ (counter.flag \/ \E i \in DOMAIN frames : frames[i].sig = QUIT)

\* What the eleven counters have in common.
LEMMA CounterFacts ==
  ASSUME counter \in Counters
  PROVE  counter.rings \in Seq(HandlerSteps)
<1>1. counter \in AllCounters
  BY CounterAssumption
<1>2. /\ Karakulin21.rings \in Seq(HandlerSteps) /\ Daniil21.rings \in Seq(HandlerSteps)
      /\ Trushkin21.rings \in Seq(HandlerSteps) /\ Tsyrenov21.rings \in Seq(HandlerSteps)
      /\ ZaVialoV21.rings \in Seq(HandlerSteps) /\ Bedareva21.rings \in Seq(HandlerSteps)
  BY DEF Karakulin21, Daniil21, Trushkin21, Tsyrenov21, ZaVialoV21, Bedareva21, HandlerSteps
<1>3. /\ Zelenkov21.rings \in Seq(HandlerSteps) /\ Komarevtsev21.rings \in Seq(HandlerSteps)
      /\ Chelbaev21.rings \in Seq(HandlerSteps) /\ Shestakov21.rings \in Seq(HandlerSteps)
      /\ Makanin21.rings \in Seq(HandlerSteps)
  BY DEF Zelenkov21, Daniil21, Karakulin21, Komarevtsev21, Chelbaev21, Shestakov21, Makanin21,
     HandlerSteps
<1>4. QED
  BY <1>1, <1>2, <1>3 DEF AllCounters

\* A signal that is delivered pushes its handler, or ends the program in a window.
LEMMA DeliverInv ==
  ASSUME KeysInv, NEW s \in Signal, Deliver(s)
  PROVE  KeysInv'
<1>1. /\ UNCHANGED <<counter, handling, main, tally, ready>> /\ state = "runs"
  BY DEF Deliver
<1>2. CASE s \notin installed
  BY <1>1, <1>2 DEF Deliver, KeysInv
<1>3. CASE s \in installed
  <2> DEFINE f == [sig |-> s, left |-> Steps(s)]
             n == Len(frames)
  <2>1. /\ frames' = Append(frames, f) /\ state' = state
        /\ installed' = (IF handling.reset THEN installed \ {s} ELSE installed)
    BY <1>3 DEF Deliver
  <2>2. /\ Steps(s) \in Seq(HandlerSteps)
        /\ s = INT => Steps(s) = counter.rings
        /\ s = QUIT /\ ~counter.flag => Steps(s) = <<"report", "exit">>
    <3>1. counter.rings \in Seq(HandlerSteps)
      BY CounterFacts DEF KeysInv
    <3>2. <<"set">> \in Seq(HandlerSteps) /\ <<"report", "exit">> \in Seq(HandlerSteps)
      BY DEF HandlerSteps
    <3>3. QED
      BY <3>1, <3>2 DEF Steps, INT, QUIT
  <2>3. f \in Frame /\ f.sig = s /\ f.left = Steps(s)
    BY <2>2 DEF Frame
  <2> HIDE DEF f
  <2>4. /\ n \in Nat /\ frames \in Seq(Frame) /\ frames' \in Seq(Frame)
        /\ DOMAIN frames = 1 .. n /\ DOMAIN frames' = 1 .. n + 1
        /\ frames'[n + 1] = f /\ \A i \in 1 .. n : frames'[i] = frames[i]
    BY <2>1, <2>3 DEF KeysInv
  <2> HIDE DEF n
  <2>5. ASSUME ~counter.flag, NEW i \in DOMAIN frames', frames'[i].sig = QUIT
        PROVE  frames'[i].left \in {<<"report", "exit">>, <<"exit">>}
    BY <1>1, <2>2, <2>3, <2>4, <2>5 DEF KeysInv
  <2>6. ASSUME main # "int" \/ ready, INT \notin installed'
        PROVE  /\ handling.reset
               /\ Contains(counter.rings, "install") => \E i \in DOMAIN frames' : Installs(frames'[i])
    <3>1. CASE INT \notin installed
      BY <1>1, <2>4, <2>6, <3>1 DEF KeysInv
    <3>2. CASE INT \in installed
      <4>1. handling.reset /\ s = INT
        BY <2>1, <2>6, <3>2
      <4>2. Contains(counter.rings, "install") => Installs(frames'[n + 1])
        BY <2>2, <2>3, <2>4, <4>1 DEF Installs
      <4>3. QED
        BY <2>4, <4>1, <4>2
    <3>3. QED
      BY <3>1, <3>2
  <2>7. ASSUME ready, QUIT \notin installed'
        PROVE  handling.reset /\ (counter.flag \/ \E i \in DOMAIN frames' : frames'[i].sig = QUIT)
    <3>1. CASE QUIT \notin installed
      BY <1>1, <2>4, <2>7, <3>1 DEF KeysInv
    <3>2. CASE QUIT \in installed
      BY <2>1, <2>3, <2>4, <2>7, <3>2
    <3>3. QED
      BY <3>1, <3>2
  <2>8. QED
    BY <1>1, <2>1, <2>4, <2>5, <2>6, <2>7 DEF KeysInv
<1>4. QED
  BY <1>2, <1>3

\* A step of a handler is the next of its program.
LEMMA HandlerStepInv ==
  ASSUME KeysInv, HandlerStep
  PROVE  KeysInv'
<1> DEFINE n == Len(frames)
           f == frames[n]
<1>1. /\ UNCHANGED <<counter, handling, main, pending, ready>> /\ state = "runs"
      /\ frames # <<>> /\ f.left # <<>>
      /\ frames' = [frames EXCEPT ![n].left = Tail(@)]
      /\ installed' = (IF Head(f.left) = "install" THEN installed \union {INT} ELSE installed)
      /\ state' = (IF Head(f.left) = "exit" THEN "reported" ELSE state)
  BY DEF HandlerStep, Last
<1>2. /\ n \in Nat \ {0} /\ frames \in Seq(Frame) /\ DOMAIN frames = 1 .. n /\ n \in DOMAIN frames
  BY <1>1 DEF KeysInv
<1>3. f \in Frame /\ f.left \in Seq(HandlerSteps) /\ Tail(f.left) \in Seq(HandlerSteps)
  <2>1. f \in Frame
    BY <1>2
  <2>2. f.left \in Seq(HandlerSteps) /\ f.left # <<>>
    BY <1>1, <2>1 DEF Frame
  <2> HIDE DEF f
  <2>3. QED
    BY <2>1, <2>2
<1>4. /\ DOMAIN frames' = 1 .. n /\ frames' \in Seq(Frame)
      /\ frames'[n].sig = f.sig /\ frames'[n].left = Tail(f.left)
      /\ \A i \in 1 .. n : i # n => frames'[i] = frames[i]
  <2>1. PICK g : g = [f EXCEPT !.left = Tail(f.left)]
    OBVIOUS
  <2>2. g \in Frame /\ g.sig = f.sig /\ g.left = Tail(f.left)
    BY <1>3, <2>1 DEF Frame
  <2>3. frames' = [frames EXCEPT ![n] = g]
    BY <1>1, <2>1
  <2> HIDE DEF n, f
  <2>4. QED
    BY <1>2, <2>2, <2>3
<1>5. \A i \in 1 .. n : frames'[i].sig = frames[i].sig
  BY <1>2, <1>4
<1>6. ASSUME NEW i \in 1 .. n, Installs(frames[i])
      PROVE  Installs(frames'[i]) \/ Head(f.left) = "install"
  <2>1. CASE i = n
    <3>1. PICK j \in 1 .. Len(f.left) : f.left[j] = "install"
      BY <1>6, <2>1 DEF Installs, Contains
    <3>2. CASE j = 1
      BY <1>1, <1>3, <3>1, <3>2
    <3>3. CASE j # 1
      <4>1. j - 1 \in 1 .. Len(Tail(f.left)) /\ Tail(f.left)[j - 1] = "install"
        BY <1>1, <1>3, <3>1, <3>3
      <4>2. Contains(Tail(f.left), "install")
        BY <4>1 DEF Contains
      <4>3. QED
        BY <1>4, <1>6, <2>1, <4>2 DEF Installs
    <3>4. QED
      BY <3>2, <3>3
  <2>2. CASE i # n
    BY <1>4, <1>6, <2>2
  <2>3. QED
    BY <2>1, <2>2
<1> HIDE DEF n, f
<1>7. CASE Head(f.left) = "exit"
  BY <1>1, <1>4, <1>7 DEF KeysInv
<1>8. CASE Head(f.left) # "exit"
  <2>1. ASSUME ~counter.flag, NEW i \in 1 .. n, frames'[i].sig = QUIT
        PROVE  frames'[i].left \in {<<"report", "exit">>, <<"exit">>}
    <3>1. frames[i].left \in {<<"report", "exit">>, <<"exit">>}
      BY <1>1, <1>2, <1>5, <2>1 DEF KeysInv
    <3>2. CASE i = n
      <4>1. f.left = <<"report", "exit">>
        BY <1>8, <3>1, <3>2 DEF f
      <4>2. Tail(f.left) = <<"exit">>
        BY <4>1
      <4>3. QED
        BY <1>4, <3>2, <4>2
    <3>3. CASE i # n
      BY <1>4, <3>1, <3>3
    <3>4. QED
      BY <3>2, <3>3
  <2>2. ASSUME main # "int" \/ ready, INT \notin installed'
        PROVE  /\ handling.reset
               /\ Contains(counter.rings, "install") => \E i \in 1 .. n : Installs(frames'[i])
    <3>1. INT \notin installed /\ Head(f.left) # "install"
      BY <1>1, <2>2
    <3>2. /\ handling.reset
          /\ Contains(counter.rings, "install") => \E i \in 1 .. n : Installs(frames[i])
      BY <1>1, <1>2, <2>2, <3>1 DEF KeysInv
    <3>3. QED
      BY <1>6, <3>1, <3>2
  <2>3. ASSUME ready, QUIT \notin installed'
        PROVE  handling.reset /\ (counter.flag \/ \E i \in 1 .. n : frames'[i].sig = QUIT)
    <3>1. QUIT \notin installed
      BY <1>1, <2>3
    <3>2. QED
      BY <1>1, <1>2, <1>5, <2>3, <3>1 DEF KeysInv
  <2>4. QED
    BY <1>1, <1>4, <2>1, <2>2, <2>3 DEF KeysInv
<1>9. QED
  BY <1>7, <1>8

\* The innermost handler returns with nothing left to do.
LEMMA HandlerReturnsInv ==
  ASSUME KeysInv, HandlerReturns
  PROVE  KeysInv'
<1> DEFINE n == Len(frames)
<1>1. /\ UNCHANGED <<counter, handling, pending, installed, state, ready>> /\ state = "runs"
      /\ frames # <<>> /\ frames[n].left = <<>>
      /\ frames' = SubSeq(frames, 1, n - 1)
      /\ main' # "int" \/ ready' => main # "int" \/ ready
  BY DEF HandlerReturns, Last, Front
<1>2. /\ n \in Nat \ {0} /\ frames \in Seq(Frame) /\ DOMAIN frames = 1 .. n
  BY <1>1 DEF KeysInv
<1>3. /\ frames' \in Seq(Frame) /\ DOMAIN frames' = 1 .. n - 1
      /\ \A i \in 1 .. n - 1 : frames'[i] = frames[i]
  BY <1>1, <1>2
<1>4. ~Installs(frames[n])
  BY <1>1 DEF Installs, Contains
<1>5. ~counter.flag => frames[n].sig # QUIT
  <2>1. ASSUME ~counter.flag, frames[n].sig = QUIT
        PROVE  frames[n].left \in {<<"report", "exit">>, <<"exit">>}
    <3>1. n \in DOMAIN frames
      BY <1>2
    <3>2. \A i \in DOMAIN frames : frames[i].sig = QUIT =>
            frames[i].left \in {<<"report", "exit">>, <<"exit">>}
      BY <1>1, <2>1 DEF KeysInv
    <3> HIDE DEF n
    <3>3. QED
      BY <2>1, <3>1, <3>2
  <2>2. <<"report", "exit">> # <<>> /\ <<"exit">> # <<>>
    OBVIOUS
  <2>3. QED
    BY <1>1, <2>1, <2>2
<1> HIDE DEF n
<1>6. \A i \in 1 .. n : Installs(frames[i]) => i \in 1 .. n - 1
  BY <1>2, <1>4
<1>7. ~counter.flag => \A i \in 1 .. n : frames[i].sig = QUIT => i \in 1 .. n - 1
  BY <1>2, <1>5
<1>8. ASSUME ~counter.flag, NEW i \in 1 .. n - 1, frames'[i].sig = QUIT
      PROVE  frames'[i].left \in {<<"report", "exit">>, <<"exit">>}
  BY <1>1, <1>2, <1>3, <1>8 DEF KeysInv
<1>9. ASSUME main' # "int" \/ ready', INT \notin installed'
      PROVE  /\ handling.reset
             /\ Contains(counter.rings, "install") => \E i \in 1 .. n - 1 : Installs(frames'[i])
  <2>1. /\ handling.reset
        /\ Contains(counter.rings, "install") => \E i \in 1 .. n : Installs(frames[i])
    BY <1>1, <1>2, <1>9 DEF KeysInv
  <2>2. QED
    BY <1>3, <1>6, <2>1
<1>10. ASSUME ready', QUIT \notin installed'
       PROVE  handling.reset /\ (counter.flag \/ \E i \in 1 .. n - 1 : frames'[i].sig = QUIT)
  <2>1. handling.reset /\ (counter.flag \/ \E i \in 1 .. n : frames[i].sig = QUIT)
    BY <1>1, <1>2, <1>10 DEF KeysInv
  <2>2. QED
    BY <1>3, <1>7, <2>1
<1>11. QED
  BY <1>1, <1>3, <1>8, <1>9, <1>10 DEF KeysInv

\* Keys, handlers and main() keep the invariant, however deep handlers are nested.
THEOREM KeysInductive == CounterSpec => []KeysInv
<1>1. CounterInit => KeysInv
  BY DEF CounterInit, KeysInv
<1>2. KeysInv /\ [CounterNext]_counterVars => KeysInv'
  <2>1. ASSUME KeysInv, Install PROVE KeysInv'
    BY <2>1 DEF Install, KeysInv, INT, QUIT
  <2>2. ASSUME KeysInv, QuitSeen PROVE KeysInv'
    BY <2>2 DEF QuitSeen, KeysInv
  <2>3. ASSUME KeysInv, NEW s \in Signal, Press(s) PROVE KeysInv'
    BY <2>3 DEF Press, KeysInv
  <2>4. ASSUME KeysInv, UNCHANGED counterVars PROVE KeysInv'
    BY <2>4 DEF counterVars, KeysInv
  <2>5. QED
    BY <2>1, <2>2, <2>3, <2>4, DeliverInv, HandlerStepInv, HandlerReturnsInv
       DEF CounterNext, CounterStep
<1>3. QED
  BY <1>1, <1>2, PTL DEF CounterSpec

\* No key kills a program that waits, outside the windows the property names,
\* for every number of signals and every nesting of their handlers.
THEOREM KeysDoNotKill == CounterSpec => KilledOnlyInWindow
<1> DEFINE A == state' = "killed" =>
                  \/ ~ready
                  \/ handling.reset /\ \E s \in Signal :
                       /\ s \in pending \ installed
                       /\ \/ \E i \in DOMAIN frames : frames[i].sig = s
                          \/ s = INT /\ ~Contains(counter.rings, "install")
                          \/ counter.flag
<1>1. KeysInv /\ [CounterNext]_counterVars => [A]_counterVars
  <2>1. SUFFICES ASSUME KeysInv, CounterNext, state' = "killed", ready
                 PROVE  \/ UNCHANGED counterVars
                        \/ handling.reset /\ \E s \in Signal :
                             /\ s \in pending \ installed
                             /\ \/ \E i \in DOMAIN frames : frames[i].sig = s
                                \/ s = INT /\ ~Contains(counter.rings, "install")
                                \/ counter.flag
    OBVIOUS
  <2>2. PICK s \in Signal : Deliver(s) /\ s \notin installed
    BY <2>1 DEF CounterNext, CounterStep, HandlerStep, HandlerReturns, Install, QuitSeen, Deliver, Press
  <2>3. state = "runs" /\ s \in pending
    BY <2>2 DEF Deliver
  <2>4. CASE s = INT
    BY <2>1, <2>2, <2>3, <2>4 DEF KeysInv, Installs
  <2>5. CASE s = QUIT
    BY <2>1, <2>2, <2>3, <2>5 DEF KeysInv
  <2>6. QED
    BY <2>4, <2>5 DEF Signal
<1>2. QED
  BY <1>1, KeysInductive, PTL DEF CounterSpec, KilledOnlyInWindow

(****************************************************************************)
(* What is reported, and what was heard.                                    *)
(****************************************************************************)
\* A handler has one of the steps still to do; it does one of them once.
Owes(left, S) == \E j \in DOMAIN left : left[j] \in S
Once(left, S) == \A j, k \in DOMAIN left : left[j] \in S /\ left[k] \in S => j = k
OwingIn(fr, S) == {i \in DOMAIN fr : Owes(fr[i].left, S)}

\* Between the report and the bells stand the handlers that have done one of
\* the two: what was heard or is held in stdio's buffer exceeds the count by the
\* handlers that have still to count, less those that have still to ring.
Tally == [counted : Int, heard : Int, held : Int, pressed : Int, quit : BOOLEAN, said : Int]
BellsInv ==
  /\ tally \in Tally
  /\ \A i \in DOMAIN frames : /\ Once(frames[i].left, {"count"})
                              /\ Once(frames[i].left, Ringing)
  /\ Owes(counter.rings, Ringing) =>
       tally.heard + tally.held - tally.counted
         = Cardinality(OwingIn(frames, {"count"})) - Cardinality(OwingIn(frames, Ringing))

\* What each program rings with, of the steps of a handler.
LEMMA RingsFacts ==
  ASSUME counter \in Counters
  PROVE  /\ Once(counter.rings, {"count"}) /\ Once(counter.rings, Ringing)
         /\ Owes(counter.rings, {"count"})
<1> DEFINE Rings == {<<"count", "bell">>, <<"count", "bell", "install">>,
                     <<"count", "hold", "install">>, <<"bell", "count", "install">>,
                     <<"count">>, <<"count", "hold">>, <<"bell", "count">>}
<1>1. counter \in AllCounters
  BY CounterAssumption
<1>2. counter.rings \in Rings
  <2>1. /\ Karakulin21.rings = <<"count", "bell">> /\ Daniil21.rings = <<"count", "bell">>
        /\ Trushkin21.rings = <<"count", "bell", "install">>
        /\ Tsyrenov21.rings = <<"count", "hold", "install">>
        /\ ZaVialoV21.rings = <<"bell", "count", "install">>
        /\ Bedareva21.rings = <<"count">>
    BY DEF Karakulin21, Daniil21, Trushkin21, Tsyrenov21, ZaVialoV21, Bedareva21
  <2>2. /\ Zelenkov21.rings = <<"count", "bell">> /\ Komarevtsev21.rings = <<"count", "bell">>
        /\ Chelbaev21.rings = <<"count", "bell">> /\ Shestakov21.rings = <<"count", "hold">>
        /\ Makanin21.rings = <<"bell", "count">>
    BY DEF Zelenkov21, Daniil21, Karakulin21, Komarevtsev21, Chelbaev21, Shestakov21, Makanin21
  <2>3. QED
    BY <1>1, <2>1, <2>2 DEF AllCounters
<1>3. ASSUME NEW r \in Rings
      PROVE  Once(r, {"count"}) /\ Once(r, Ringing) /\ Owes(r, {"count"})
  <2>1. CASE r = <<"count", "bell">>
    BY <2>1 DEF Once, Owes, Ringing
  <2>2. CASE r = <<"count", "bell", "install">>
    BY <2>2 DEF Once, Owes, Ringing
  <2>3. CASE r = <<"count", "hold", "install">>
    BY <2>3 DEF Once, Owes, Ringing
  <2>4. CASE r = <<"bell", "count", "install">>
    BY <2>4 DEF Once, Owes, Ringing
  <2>5. CASE r = <<"count">>
    BY <2>5 DEF Once, Owes, Ringing
  <2>6. CASE r = <<"count", "hold">>
    BY <2>6 DEF Once, Owes, Ringing
  <2>7. CASE r = <<"bell", "count">>
    BY <2>7 DEF Once, Owes, Ringing
  <2>8. QED
    BY <2>1, <2>2, <2>3, <2>4, <2>5, <2>6, <2>7
<1>4. QED
  BY <1>2, <1>3

\* The frames that owe a step are finitely many.
LEMMA OwingSize ==
  ASSUME NEW fr \in Seq(Frame), NEW S
  PROVE  /\ OwingIn(fr, S) \subseteq 1 .. Len(fr) /\ IsFiniteSet(OwingIn(fr, S))
         /\ Cardinality(OwingIn(fr, S)) \in Nat
<1>1. OwingIn(fr, S) \subseteq 1 .. Len(fr) /\ Len(fr) \in Nat
  BY DEF OwingIn
<1>2. IsFiniteSet(1 .. Len(fr))
  BY <1>1, FS_Interval
<1>3. IsFiniteSet(OwingIn(fr, S))
  BY <1>1, <1>2, FS_Subset
<1>4. QED
  BY <1>1, <1>3, FS_CardinalityType

\* A new frame adds one if it owes the step.
LEMMA OwingAppended ==
  ASSUME NEW fr \in Seq(Frame), NEW f \in Frame, NEW S
  PROVE  Cardinality(OwingIn(Append(fr, f), S))
           = Cardinality(OwingIn(fr, S)) + (IF Owes(f.left, S) THEN 1 ELSE 0)
<1> DEFINE n == Len(fr)
           gr == Append(fr, f)
<1>1. n \in Nat /\ DOMAIN fr = 1 .. n /\ DOMAIN gr = 1 .. n + 1
  OBVIOUS
<1>2. gr[n + 1] = f /\ \A i \in 1 .. n : gr[i] = fr[i]
  OBVIOUS
<1>3. /\ OwingIn(fr, S) \subseteq 1 .. n /\ IsFiniteSet(OwingIn(fr, S))
      /\ Cardinality(OwingIn(fr, S)) \in Nat
  BY OwingSize
<1> HIDE DEF n, gr
<1>4. CASE Owes(f.left, S)
  <2>1. OwingIn(gr, S) = OwingIn(fr, S) \union {n + 1}
    BY <1>1, <1>2, <1>4 DEF OwingIn
  <2>2. n + 1 \notin OwingIn(fr, S)
    BY <1>1, <1>3
  <2>3. Cardinality(OwingIn(fr, S) \union {n + 1}) = Cardinality(OwingIn(fr, S)) + 1
    BY <1>3, <2>2, FS_AddElement
  <2>4. QED
    BY <1>4, <2>1, <2>3 DEF gr
<1>5. CASE ~Owes(f.left, S)
  <2>1. OwingIn(gr, S) = OwingIn(fr, S)
    BY <1>1, <1>2, <1>5 DEF OwingIn
  <2>2. QED
    BY <1>3, <1>5, <2>1 DEF gr
<1>6. QED
  BY <1>4, <1>5

\* One step of a handler.
LEMMA TailOwes ==
  ASSUME NEW left \in Seq(HandlerSteps), left # <<>>, NEW S, Once(left, S)
  PROVE  /\ Once(Tail(left), S)
         /\ Head(left) \in S => Owes(left, S) /\ ~Owes(Tail(left), S)
         /\ Head(left) \notin S => (Owes(Tail(left), S) <=> Owes(left, S))
<1> DEFINE n == Len(left)
           t == Tail(left)
<1>1. n \in Nat \ {0} /\ DOMAIN left = 1 .. n /\ Head(left) = left[1]
  OBVIOUS
<1>2. DOMAIN t = 1 .. n - 1 /\ \A j \in 1 .. n - 1 : t[j] = left[j + 1]
  OBVIOUS
<1> HIDE DEF n, t
<1>3. ASSUME NEW j \in 1 .. n - 1
      PROVE  j + 1 \in 1 .. n /\ j + 1 # 1 /\ t[j] = left[j + 1]
  BY <1>1, <1>2
<1>4. Once(t, S)
  <2>1. ASSUME NEW j \in 1 .. n - 1, NEW k \in 1 .. n - 1, t[j] \in S, t[k] \in S
        PROVE  j = k
    <3>1. j + 1 = k + 1
      BY <1>1, <1>3, <2>1 DEF Once
    <3>2. QED
      BY <3>1
  <2>2. QED
    BY <1>2, <2>1 DEF Once
<1>5. 1 \in 1 .. n
  BY <1>1
<1>6. ASSUME left[1] \in S PROVE Owes(left, S) /\ ~Owes(t, S)
  <2>1. ASSUME NEW j \in 1 .. n - 1 PROVE t[j] \notin S
    BY <1>1, <1>3, <1>5, <1>6, <2>1 DEF Once
  <2>2. QED
    BY <1>1, <1>2, <1>5, <1>6, <2>1 DEF Owes
<1>7. ASSUME left[1] \notin S PROVE Owes(t, S) <=> Owes(left, S)
  <2>1. ASSUME NEW j \in 1 .. n, left[j] \in S PROVE j - 1 \in 1 .. n - 1 /\ t[j - 1] = left[j]
    <3>1. j # 1
      BY <1>7, <2>1
    <3>2. j - 1 \in 1 .. n - 1 /\ (j - 1) + 1 = j
      BY <1>1, <3>1
    <3>3. QED
      BY <1>3, <3>2
  <2>2. QED
    BY <1>1, <1>2, <1>3, <2>1 DEF Owes
<1>8. QED
  BY <1>1, <1>4, <1>6, <1>7 DEF t

\* A frame that takes the step owes it no more, the others are as before.
LEMMA OwingDone ==
  ASSUME NEW fr \in Seq(Frame), NEW gr \in Seq(Frame), NEW n \in Nat \ {0}, NEW S,
         Len(fr) = n, Len(gr) = n, \A i \in 1 .. n : i # n => gr[i] = fr[i],
         fr[n].left \in Seq(HandlerSteps), fr[n].left # <<>>,
         gr[n].left = Tail(fr[n].left), Once(fr[n].left, S)
  PROVE  /\ Cardinality(OwingIn(gr, S))
              = Cardinality(OwingIn(fr, S)) - (IF Head(fr[n].left) \in S THEN 1 ELSE 0)
         /\ Once(gr[n].left, S)
<1>1. DOMAIN fr = 1 .. n /\ DOMAIN gr = 1 .. n /\ n \in 1 .. n
  OBVIOUS
<1>2. /\ Once(gr[n].left, S)
      /\ Head(fr[n].left) \in S => Owes(fr[n].left, S) /\ ~Owes(gr[n].left, S)
      /\ Head(fr[n].left) \notin S => (Owes(gr[n].left, S) <=> Owes(fr[n].left, S))
  BY TailOwes
<1>3. IsFiniteSet(OwingIn(fr, S)) /\ Cardinality(OwingIn(fr, S)) \in Nat
  BY OwingSize
<1>4. CASE Head(fr[n].left) \in S
  <2>1. OwingIn(gr, S) = OwingIn(fr, S) \ {n}
    BY <1>1, <1>2, <1>4 DEF OwingIn
  <2>2. n \in OwingIn(fr, S)
    BY <1>1, <1>2, <1>4 DEF OwingIn
  <2>3. Cardinality(OwingIn(fr, S) \ {n}) = Cardinality(OwingIn(fr, S)) - 1
    BY <1>3, <2>2, FS_RemoveElement
  <2>4. QED
    BY <1>2, <1>4, <2>1, <2>3
<1>5. CASE Head(fr[n].left) \notin S
  <2>1. OwingIn(gr, S) = OwingIn(fr, S)
    BY <1>1, <1>2, <1>5 DEF OwingIn
  <2>2. QED
    BY <1>2, <1>3, <1>5, <2>1
<1>6. QED
  BY <1>4, <1>5

\* What each step changes in the tally.
LEMMA TallyFacts ==
  ASSUME NEW t \in Tally
  PROVE  /\ Reported(t) \in Tally
         /\ Reported(t).counted = t.counted /\ Reported(t).said = t.counted
         /\ Reported(t).heard = t.heard + t.held /\ Reported(t).held = 0
         /\ t.counted \in Int /\ t.heard \in Int /\ t.held \in Int
<1>1. PICK r : r = Reported(t)
  OBVIOUS
<1>2. r = [t EXCEPT !.said = t.counted, !.heard = t.heard + t.held, !.held = 0]
  BY <1>1 DEF Reported
<1>3. t.counted \in Int /\ t.heard \in Int /\ t.held \in Int /\ t.heard + t.held \in Int
  BY DEF Tally
<1>4. r = [counted |-> t.counted, heard |-> t.heard + t.held, held |-> 0,
           pressed |-> t.pressed, quit |-> t.quit, said |-> t.counted]
  BY <1>2 DEF Tally
<1>5. r \in Tally
  BY <1>3, <1>4 DEF Tally
<1>6. QED
  BY <1>1, <1>3, <1>4, <1>5

\* A step of a handler adds one to what it counts, and nothing else.
LEMMA DoneFacts ==
  ASSUME tally \in Tally, NEW step, DoneBy(step)
  PROVE  /\ tally' \in Tally
         /\ tally'.counted = tally.counted + (IF step \in {"count"} THEN 1 ELSE 0)
         /\ tally'.heard + tally'.held
              = tally.heard + tally.held + (IF step \in Ringing THEN 1 ELSE 0)
         /\ tally'.said # tally.said =>
              tally'.heard - tally'.said = tally.heard + tally.held - tally.counted
<1>1. tally.counted \in Int /\ tally.heard \in Int /\ tally.held \in Int
  BY DEF Tally
<1>2. CASE step = "count"
  <2>1. tally' = [tally EXCEPT !.counted = tally.counted + 1]
    BY <1>2 DEF DoneBy
  <2>2. tally' \in Tally
    BY <2>1 DEF Tally
  <2>3. /\ tally'.counted = tally.counted + 1 /\ tally'.heard = tally.heard
        /\ tally'.held = tally.held /\ tally'.said = tally.said
    BY <2>1 DEF Tally
  <2>4. step \in {"count"} /\ step \notin Ringing
    BY <1>2 DEF Ringing
  <2>5. QED
    BY <1>1, <2>2, <2>3, <2>4
<1>3. CASE step = "bell"
  <2>1. tally' = [tally EXCEPT !.heard = tally.heard + 1]
    BY <1>3 DEF DoneBy
  <2>2. tally' \in Tally
    BY <2>1 DEF Tally
  <2>3. /\ tally'.counted = tally.counted /\ tally'.heard = tally.heard + 1
        /\ tally'.held = tally.held /\ tally'.said = tally.said
    BY <2>1 DEF Tally
  <2>4. step \notin {"count"} /\ step \in Ringing
    BY <1>3 DEF Ringing
  <2>5. QED
    BY <1>1, <2>2, <2>3, <2>4
<1>4. CASE step = "hold"
  <2>1. tally' = [tally EXCEPT !.held = tally.held + 1]
    BY <1>4 DEF DoneBy
  <2>2. tally' \in Tally
    BY <2>1 DEF Tally
  <2>3. /\ tally'.counted = tally.counted /\ tally'.heard = tally.heard
        /\ tally'.held = tally.held + 1 /\ tally'.said = tally.said
    BY <2>1 DEF Tally
  <2>4. step \notin {"count"} /\ step \in Ringing
    BY <1>4 DEF Ringing
  <2>5. QED
    BY <1>1, <2>2, <2>3, <2>4
<1>5. CASE step = "report"
  <2>1. tally' = Reported(tally)
    BY <1>5 DEF DoneBy
  <2>2. step \notin {"count"} /\ step \notin Ringing
    BY <1>5 DEF Ringing
  <2>3. /\ tally' \in Tally /\ tally'.counted = tally.counted /\ tally'.said = tally.counted
        /\ tally'.heard = tally.heard + tally.held /\ tally'.held = 0
    BY <2>1, TallyFacts
  <2>4. QED
    BY <1>1, <2>2, <2>3
<1>6. CASE step \notin {"count", "bell", "hold", "report"}
  <2>1. step \notin {"count"} /\ step \notin Ringing
    BY <1>6 DEF Ringing
  <2>2. tally' = (IF step = "set" THEN [tally EXCEPT !.quit = TRUE] ELSE tally)
    BY <1>6 DEF DoneBy
  <2>3. CASE step = "set"
    <3>1. tally' = [tally EXCEPT !.quit = TRUE]
      BY <2>2, <2>3
    <3>2. tally' \in Tally
      BY <3>1 DEF Tally
    <3>3. /\ tally'.counted = tally.counted /\ tally'.heard = tally.heard
          /\ tally'.held = tally.held /\ tally'.said = tally.said
      BY <3>1 DEF Tally
    <3>4. QED
      BY <1>1, <2>1, <3>2, <3>3
  <2>4. CASE step # "set"
    BY <1>1, <2>1, <2>2, <2>4
  <2>5. QED
    BY <2>3, <2>4
<1>7. QED
  BY <1>2, <1>3, <1>4, <1>5, <1>6

\* A delivered signal owes a count and a bell together.
LEMMA DeliverBells ==
  ASSUME KeysInv, BellsInv, NEW s \in Signal, Deliver(s)
  PROVE  BellsInv'
<1>1. /\ UNCHANGED <<counter, tally>>
      /\ s \notin installed => UNCHANGED frames
  BY DEF Deliver
<1>2. CASE s \notin installed
  BY <1>1, <1>2 DEF BellsInv
<1>3. CASE s \in installed
  <2> DEFINE f == [sig |-> s, left |-> Steps(s)]
             n == Len(frames)
             C(fr) == Cardinality(OwingIn(fr, {"count"}))
             R(fr) == Cardinality(OwingIn(fr, Ringing))
  <2>1. frames' = Append(frames, f)
    BY <1>3 DEF Deliver
  <2>2. /\ counter.rings \in Seq(HandlerSteps) /\ Once(counter.rings, {"count"})
        /\ Once(counter.rings, Ringing) /\ Owes(counter.rings, {"count"})
    BY CounterFacts, RingsFacts DEF KeysInv
  <2>3. /\ Steps(s) \in Seq(HandlerSteps)
        /\ Once(Steps(s), {"count"}) /\ Once(Steps(s), Ringing)
        /\ Owes(counter.rings, Ringing) =>
             (Owes(Steps(s), {"count"}) <=> Owes(Steps(s), Ringing))
    <3>1. CASE s = INT
      BY <2>2, <3>1 DEF Steps
    <3>2. CASE s # INT
      <4>1. Steps(s) = <<"set">> \/ Steps(s) = <<"report", "exit">>
        BY <3>2 DEF Steps
      <4>2. /\ <<"set">> \in Seq(HandlerSteps) /\ <<"report", "exit">> \in Seq(HandlerSteps)
        BY DEF HandlerSteps
      <4>3. ASSUME NEW r \in {<<"set">>, <<"report", "exit">>}
            PROVE  ~Owes(r, {"count"}) /\ ~Owes(r, Ringing)
        BY <4>3 DEF Owes, Ringing
      <4>4. ASSUME NEW r \in {<<"set">>, <<"report", "exit">>}
            PROVE  Once(r, {"count"}) /\ Once(r, Ringing)
        BY <4>3, <4>4 DEF Once, Owes
      <4>5. QED
        BY <4>1, <4>2, <4>3, <4>4
    <3>3. QED
      BY <3>1, <3>2
  <2>4. f \in Frame /\ f.left = Steps(s)
    BY <2>3 DEF Frame
  <2> HIDE DEF f
  <2>5. frames \in Seq(Frame)
    BY DEF KeysInv
  <2>6. /\ C(frames') = C(frames) + (IF Owes(f.left, {"count"}) THEN 1 ELSE 0)
        /\ R(frames') = R(frames) + (IF Owes(f.left, Ringing) THEN 1 ELSE 0)
    BY <2>1, <2>4, <2>5, OwingAppended
  <2>7. C(frames) \in Nat /\ R(frames) \in Nat
    BY <2>5, OwingSize
  <2>8. ASSUME NEW i \in DOMAIN frames'
        PROVE  Once(frames'[i].left, {"count"}) /\ Once(frames'[i].left, Ringing)
    <3>1. n \in Nat /\ DOMAIN frames = 1 .. n /\ DOMAIN frames' = 1 .. n + 1
      BY <2>1, <2>4, <2>5
    <3>2. frames'[n + 1] = f /\ \A j \in 1 .. n : frames'[j] = frames[j]
      BY <2>1, <2>4, <2>5
    <3> HIDE DEF n
    <3>3. CASE i = n + 1
      BY <2>3, <2>4, <3>2, <3>3
    <3>4. CASE i # n + 1
      <4>1. i \in DOMAIN frames /\ frames'[i] = frames[i]
        BY <3>1, <3>2, <3>4
      <4>2. QED
        BY <4>1 DEF BellsInv
    <3>5. QED
      BY <3>3, <3>4
  <2>9. Owes(counter'.rings, Ringing) =>
          tally'.heard + tally'.held - tally'.counted = C(frames') - R(frames')
    <3>1. SUFFICES ASSUME Owes(counter.rings, Ringing)
                   PROVE  tally.heard + tally.held - tally.counted = C(frames') - R(frames')
      BY <1>1
    <3>2. tally.heard + tally.held - tally.counted = C(frames) - R(frames)
      BY <3>1 DEF BellsInv
    <3>3. Owes(f.left, {"count"}) <=> Owes(f.left, Ringing)
      BY <2>3, <2>4, <3>1
    <3> HIDE DEF C, R
    <3>4. C(frames') - R(frames') = C(frames) - R(frames)
      <4>1. CASE Owes(f.left, Ringing)
        BY <2>6, <2>7, <3>3, <4>1
      <4>2. CASE ~Owes(f.left, Ringing)
        BY <2>6, <2>7, <3>3, <4>2
      <4>3. QED
        BY <4>1, <4>2
    <3>5. QED
      BY <3>2, <3>4
  <2>10. QED
    BY <1>1, <2>8, <2>9 DEF BellsInv
<1>4. QED
  BY <1>2, <1>3

\* A step of a handler keeps the balance of counts, bells and what is owed.
LEMMA HandlerStepBells ==
  ASSUME KeysInv, BellsInv, HandlerStep
  PROVE  /\ BellsInv'
         /\ tally'.said # tally.said =>
              tally'.heard - tally'.said = tally.heard + tally.held - tally.counted
<1> DEFINE n == Len(frames)
           f == frames[n]
           step == Head(f.left)
           C(fr) == Cardinality(OwingIn(fr, {"count"}))
           R(fr) == Cardinality(OwingIn(fr, Ringing))
<1>1. /\ UNCHANGED counter /\ frames # <<>> /\ f.left # <<>> /\ DoneBy(step)
      /\ frames' = [frames EXCEPT ![n].left = Tail(@)]
  BY DEF HandlerStep, Last
<1>2. /\ n \in Nat \ {0} /\ frames \in Seq(Frame) /\ DOMAIN frames = 1 .. n /\ n \in DOMAIN frames
  BY <1>1 DEF KeysInv
<1>3. f \in Frame /\ f.left \in Seq(HandlerSteps) /\ Tail(f.left) \in Seq(HandlerSteps)
  <2>1. f \in Frame
    BY <1>2
  <2>2. f.left \in Seq(HandlerSteps) /\ f.left # <<>>
    BY <1>1, <2>1 DEF Frame
  <2> HIDE DEF f
  <2>3. QED
    BY <2>1, <2>2
<1>4. /\ frames' \in Seq(Frame) /\ DOMAIN frames' = 1 .. n /\ Len(frames') = n
      /\ frames'[n].left = Tail(f.left)
      /\ \A i \in 1 .. n : i # n => frames'[i] = frames[i]
  <2>1. PICK g : g = [f EXCEPT !.left = Tail(f.left)]
    OBVIOUS
  <2>2. g \in Frame /\ g.left = Tail(f.left)
    BY <1>3, <2>1 DEF Frame
  <2>3. frames' = [frames EXCEPT ![n] = g]
    BY <1>1, <2>1
  <2> HIDE DEF n, f
  <2>4. QED
    BY <1>2, <2>2, <2>3
<1>5. Once(f.left, {"count"}) /\ Once(f.left, Ringing)
  BY <1>2 DEF BellsInv
<1>6. /\ tally' \in Tally
      /\ tally'.counted = tally.counted + (IF step \in {"count"} THEN 1 ELSE 0)
      /\ tally'.heard + tally'.held
           = tally.heard + tally.held + (IF step \in Ringing THEN 1 ELSE 0)
      /\ tally'.said # tally.said =>
           tally'.heard - tally'.said = tally.heard + tally.held - tally.counted
  BY <1>1, DoneFacts DEF BellsInv
<1>7. ASSUME NEW S, Once(f.left, S)
      PROVE  /\ Cardinality(OwingIn(frames', S))
                   = Cardinality(OwingIn(frames, S)) - (IF step \in S THEN 1 ELSE 0)
             /\ Once(frames'[n].left, S)
  <2>1. Len(frames) = n /\ frames[n] = f /\ step = Head(f.left)
    OBVIOUS
  <2> HIDE DEF n, f, step
  <2>2. /\ frames[n].left \in Seq(HandlerSteps) /\ frames[n].left # <<>>
        /\ frames'[n].left = Tail(frames[n].left) /\ Once(frames[n].left, S)
    BY <1>1, <1>3, <1>4, <1>7, <2>1
  <2>3. /\ Cardinality(OwingIn(frames', S))
              = Cardinality(OwingIn(frames, S)) - (IF Head(frames[n].left) \in S THEN 1 ELSE 0)
        /\ Once(frames'[n].left, S)
    BY <1>2, <1>4, <2>1, <2>2, OwingDone
  <2>4. QED
    BY <2>1, <2>3
<1>8. /\ C(frames') = C(frames) - (IF step \in {"count"} THEN 1 ELSE 0)
      /\ R(frames') = R(frames) - (IF step \in Ringing THEN 1 ELSE 0)
      /\ Once(frames'[n].left, {"count"}) /\ Once(frames'[n].left, Ringing)
  BY <1>5, <1>7
<1>9. C(frames) \in Nat /\ R(frames) \in Nat
  BY <1>2, OwingSize
<1>10. /\ tally.counted \in Int /\ tally.heard \in Int /\ tally.held \in Int
       /\ tally'.heard \in Int /\ tally'.held \in Int
  BY <1>6, TallyFacts DEF BellsInv
<1> HIDE DEF n, f, step, C, R
<1>11. ASSUME NEW i \in DOMAIN frames'
       PROVE  Once(frames'[i].left, {"count"}) /\ Once(frames'[i].left, Ringing)
  <2>1. CASE i = n
    BY <1>8, <2>1
  <2>2. CASE i # n
    <3>1. i \in DOMAIN frames /\ frames'[i] = frames[i]
      BY <1>2, <1>4, <2>2
    <3>2. QED
      BY <3>1 DEF BellsInv
  <2>3. QED
    BY <2>1, <2>2
<1>12. ASSUME Owes(counter'.rings, Ringing)
       PROVE  tally'.heard + tally'.held - tally'.counted = C(frames') - R(frames')
  <2>1. tally.heard + tally.held - tally.counted = C(frames) - R(frames)
    BY <1>1, <1>12 DEF BellsInv, C, R
  <2>2. PICK h \in Int, c \in Int, a \in Int, b \in Int :
               /\ h = tally.heard + tally.held /\ c = tally.counted
               /\ a = C(frames) /\ b = R(frames)
    BY <1>9, <1>10
  <2>3. h - c = a - b
    BY <1>10, <2>1, <2>2
  <2>4. PICK k \in Int, r \in Int :
               /\ k = IF step \in {"count"} THEN 1 ELSE 0
               /\ r = IF step \in Ringing THEN 1 ELSE 0
    <3>1. (IF step \in {"count"} THEN 1 ELSE 0) \in Int /\ (IF step \in Ringing THEN 1 ELSE 0) \in Int
      OBVIOUS
    <3>2. QED
      BY <3>1
  <2>5. tally'.counted = c + k /\ tally'.heard + tally'.held = h + r
    BY <1>6, <2>2, <2>4
  <2>6. C(frames') = a - k /\ R(frames') = b - r
    BY <1>8, <2>2, <2>4
  <2>7. (h + r) - (c + k) = (a - k) - (b - r)
    BY <2>3
  <2>8. tally'.heard + tally'.held - tally'.counted = (tally'.heard + tally'.held) - tally'.counted
    BY <1>10, <2>5
  <2>9. QED
    BY <2>5, <2>6, <2>7, <2>8
<1>13. BellsInv'
  BY <1>6, <1>11, <1>12 DEF BellsInv, C, R
<1>14. QED
  BY <1>6, <1>13

\* A handler that returns owes nothing.
LEMMA HandlerReturnsBells ==
  ASSUME KeysInv, BellsInv, HandlerReturns
  PROVE  BellsInv'
<1> DEFINE n == Len(frames)
<1>1. /\ UNCHANGED <<counter, tally>> /\ frames # <<>> /\ frames[n].left = <<>>
      /\ frames' = SubSeq(frames, 1, n - 1)
  BY DEF HandlerReturns, Last, Front
<1>2. /\ n \in Nat \ {0} /\ frames \in Seq(Frame) /\ DOMAIN frames = 1 .. n
  BY <1>1 DEF KeysInv
<1>3. /\ frames' \in Seq(Frame) /\ DOMAIN frames' = 1 .. n - 1
      /\ \A i \in 1 .. n - 1 : frames'[i] = frames[i]
  BY <1>1, <1>2
<1> HIDE DEF n
<1>4. ASSUME NEW S PROVE OwingIn(frames', S) = OwingIn(frames, S)
  <2>1. ~Owes(frames[n].left, S)
    BY <1>1 DEF Owes
  <2>2. ASSUME NEW i \in 1 .. n, i # n PROVE i \in 1 .. n - 1
    BY <1>2, <2>2
  <2>3. 1 .. n - 1 \subseteq 1 .. n
    BY <1>2
  <2>4. QED
    BY <1>2, <1>3, <2>1, <2>2, <2>3 DEF OwingIn
<1>5. ASSUME NEW i \in DOMAIN frames'
      PROVE  Once(frames'[i].left, {"count"}) /\ Once(frames'[i].left, Ringing)
  <2>1. i \in DOMAIN frames /\ frames'[i] = frames[i]
    BY <1>2, <1>3
  <2>2. QED
    BY <2>1 DEF BellsInv
<1>6. QED
  BY <1>1, <1>4, <1>5 DEF BellsInv

\* The number reported is the number of bells, but for the handlers that the
\* report interrupted, for every number of signals and every nesting.
THEOREM BellsAreReported == CounterSpec => ReportIsBells
<1> DEFINE A == tally'.said # tally.said /\ ToSet(counter.rings) \intersect Ringing # {} =>
                  tally'.heard - tally'.said
                    = Cardinality(Owing({"count"})) - Cardinality(Owing(Ringing))
<1>1. CounterInit => BellsInv
  <2> SUFFICES ASSUME CounterInit PROVE BellsInv
    OBVIOUS
  <2>1. tally = NoTally /\ frames = <<>>
    BY DEF CounterInit
  <2>2. NoTally \in Tally /\ NoTally.heard = 0 /\ NoTally.held = 0 /\ NoTally.counted = 0
    BY DEF NoTally, Tally
  <2>3. ASSUME NEW S PROVE OwingIn(<<>>, S) = {}
    BY DEF OwingIn
  <2>4. Cardinality({}) = 0
    BY FS_EmptySet
  <2>5. Cardinality(OwingIn(frames, {"count"})) = 0 /\ Cardinality(OwingIn(frames, Ringing)) = 0
    BY <2>1, <2>3, <2>4
  <2>6. tally.heard + tally.held - tally.counted = 0
    BY <2>1, <2>2
  <2>7. QED
    BY <2>1, <2>2, <2>5, <2>6 DEF BellsInv
<1>2. ASSUME KeysInv, BellsInv, QuitSeen
      PROVE  /\ BellsInv'
             /\ tally'.heard - tally'.said = tally.heard + tally.held - tally.counted
  <2>1. tally' = Reported(tally) /\ UNCHANGED <<counter, frames>>
    BY <1>2 DEF QuitSeen
  <2>2. /\ tally' \in Tally /\ tally'.counted = tally.counted /\ tally'.said = tally.counted
        /\ tally'.heard = tally.heard + tally.held /\ tally'.held = 0
        /\ tally.counted \in Int /\ tally.heard \in Int /\ tally.held \in Int
    BY <1>2, <2>1, TallyFacts DEF BellsInv
  <2>3. tally'.heard + tally'.held - tally'.counted = tally.heard + tally.held - tally.counted
    BY <2>2
  <2>4. QED
    BY <1>2, <2>1, <2>2, <2>3 DEF BellsInv
<1>3. ASSUME BellsInv, NEW s \in Signal, Press(s)
      PROVE  BellsInv' /\ tally'.said = tally.said
  <2>1. tally' = [tally EXCEPT !.pressed = tally.pressed + 1] /\ UNCHANGED <<counter, frames>>
    BY <1>3 DEF Press
  <2>2. tally \in Tally
    BY <1>3 DEF BellsInv
  <2>3. tally' \in Tally
    BY <2>1, <2>2 DEF Tally
  <2>4. /\ tally'.counted = tally.counted /\ tally'.heard = tally.heard
        /\ tally'.held = tally.held /\ tally'.said = tally.said
    BY <2>1, <2>2 DEF Tally
  <2>5. QED
    BY <1>3, <2>1, <2>3, <2>4 DEF BellsInv
<1>4. ASSUME BellsInv, Install \/ UNCHANGED counterVars
      PROVE  BellsInv' /\ UNCHANGED tally
  BY <1>4 DEF BellsInv, Install, counterVars
<1>5. ASSUME KeysInv, BellsInv, [CounterNext]_counterVars
      PROVE  /\ BellsInv'
             /\ tally'.said # tally.said =>
                  tally'.heard - tally'.said = tally.heard + tally.held - tally.counted
  <2>1. CASE HandlerStep
    BY <1>5, <2>1, HandlerStepBells
  <2>2. CASE HandlerReturns
    <3>1. tally' = tally
      BY <2>2 DEF HandlerReturns
    <3>2. QED
      BY <1>5, <2>2, <3>1, HandlerReturnsBells
  <2>3. CASE \E s \in Signal : Deliver(s)
    <3>1. PICK s \in Signal : Deliver(s)
      BY <2>3
    <3>2. tally' = tally
      BY <3>1 DEF Deliver
    <3>3. QED
      BY <1>5, <3>1, <3>2, DeliverBells
  <2>4. CASE \E s \in Signal : Press(s)
    BY <1>3, <1>5, <2>4
  <2>5. QED
    BY <1>2, <1>4, <1>5, <2>1, <2>2, <2>3, <2>4 DEF CounterNext, CounterStep
<1>6. KeysInv /\ BellsInv /\ [CounterNext]_counterVars => [A]_counterVars
  <2>1. SUFFICES ASSUME KeysInv, BellsInv, [CounterNext]_counterVars, tally'.said # tally.said,
                        ToSet(counter.rings) \intersect Ringing # {}
                 PROVE  tally'.heard - tally'.said
                          = Cardinality(Owing({"count"})) - Cardinality(Owing(Ringing))
    OBVIOUS
  <2>2. tally'.heard - tally'.said = tally.heard + tally.held - tally.counted
    BY <1>5, <2>1
  <2>3. Owes(counter.rings, Ringing)
    BY <2>1 DEF Owes, ToSet
  <2>4. ASSUME NEW S PROVE Owing(S) = OwingIn(frames, S)
    BY DEF Owing, OwingIn, Owes, ToSet
  <2>5. QED
    BY <2>1, <2>2, <2>3, <2>4 DEF BellsInv
<1>7. KeysInv /\ BellsInv /\ [CounterNext]_counterVars => BellsInv'
  BY <1>5
<1>8. QED
  BY <1>1, <1>6, <1>7, KeysInductive, PTL DEF CounterSpec, ReportIsBells

-----------------------------------------------------------------------------
(****************************************************************************)
(* The line, and the row that shows it: LineEditor.                         *)
(****************************************************************************)
Cells == Printable \union {Unwritten}
EditorState == [line : [Bytes -> Cells], pos : Int, row : [Glyphs -> Cells], col : Nat,
                rows : Nat, wrapped : BOOLEAN, over : BOOLEAN, on : BOOLEAN]

\* The row holds the line, and nothing else.
RowShows(e) ==
  /\ e.col = IF e.pos > 0 THEN e.pos ELSE 0
  /\ \A i \in Glyphs : e.row[i] = IF i < e.pos THEN e.line[i] ELSE Blank

\* Nothing has happened yet that the program shows otherwise than it holds it.
Honest(p, e) == /\ ~(e.wrapped /\ p.full \in {"screen", "next"})
                /\ ~(p.newline = "count" /\ e.rows > 0)

Top(p) == IF p.full = "word" THEN Room ELSE Width

Excused(p, e) == \/ p.full = "next" /\ (e.pos < 0 \/ e.rows = Rows)
                 \/ p.full = "word" /\ e.pos = Room /\ e.line[Room - 1] = Blank

\* After each key, before I.Trushkin's program looks at the length.
Sound(p, e) ==
  /\ e \in EditorState
  /\ e.pos <= Top(p) /\ (e.pos < 0 => p.full = "next")
  /\ e.rows > 0 => p.full = "next"
  /\ e.over => ~e.on /\ Excused(p, e)
  /\ Honest(p, e) => RowShows(e)

\* Behind the columns of a line I.Trushkin's program holds blanks only, except
\* the character just read.
BlanksBelow(e, n) == \A i \in Width .. n - 1 : e.line[i] = Blank

EditorInv ==
  /\ editor \in Editors
  /\ ahead \in Seq(Key)
  /\ Sound(editor, ed)
  /\ editor.full = "word" => BlanksBelow(ed, ed.pos)

\* What the nine editors have in common.
LEMMA EditorFacts ==
  ASSUME NEW p \in Editors
  PROVE  /\ p.full \in {"break", "word", "screen", "next"}
         /\ p.word \in {"blanks", "word"}
         /\ p.empty = "below" <=> p.full = "next"
         /\ p.newline = "count" <=> p.full = "next"
<1>1. p \in AllEditors
  BY EditorsAssumption
<1> USE DEF Daniil17
<1>2. CASE p = Daniil17
  BY <1>2
<1>3. CASE p = Karakulin17
  BY <1>3 DEF Karakulin17
<1>4. CASE p = Makanin17
  BY <1>4 DEF Makanin17
<1>5. CASE p = Trushkin17
  BY <1>5 DEF Trushkin17
<1>6. CASE p = Komarevtsev17
  BY <1>6 DEF Komarevtsev17
<1>7. CASE p = Tsyrenov17
  BY <1>7 DEF Tsyrenov17
<1>8. QED
  BY <1>1, <1>2, <1>3, <1>4, <1>5, <1>6, <1>7 DEF AllEditors, Zelenkov17, ZaVialoV17, Chelbaev17

\* The sizes of line, array and row.
LEMMA SizeFacts ==
  /\ Width \in Nat \ {0} /\ Room \in Nat \ {0} /\ Rows \in Nat \ {0} /\ Columns \in Nat \ {0}
  /\ Room > Width /\ Columns > Room
  /\ Bytes = 0 .. Room - 1 /\ Glyphs = 0 .. Columns - 1
  BY EditorAssumption DEF Bytes, Glyphs

(****************************************************************************)
(* The least and the greatest element of a set.                             *)
(****************************************************************************)
Less == {pair \in Nat \X Nat : pair[1] < pair[2]}

\* There is no endless descent among natural numbers,
LEMMA LessIsWellFounded == IsWellFoundedOn(Less, Nat)
  BY NatLessThanWellFounded DEF OpToRel, Less

\* so a set of them that is not empty has a least element.
LEMMA LeastElement ==
  ASSUME NEW S \in SUBSET Nat, S # {}
  PROVE  Min(S) \in S /\ \A y \in S : Min(S) <= y
<1>1. PICK x \in S : \A y \in S : <<y, x>> \notin Less
  BY LessIsWellFounded, WFMin
<1>2. ASSUME NEW y \in S PROVE x <= y
  <2>1. x \in Nat /\ y \in Nat /\ <<y, x>> \notin Less
    BY <1>1
  <2>2. <<y, x>> \in Nat \X Nat /\ ~(y < x)
    BY <2>1 DEF Less
  <2>3. QED
    BY <2>1, <2>2
<1>3. QED
  BY <1>2 DEF Min

\* The greater of a number and zero.
LEMMA NotBelowZero ==
  ASSUME NEW n \in Int
  PROVE  Max({0, n}) = IF n > 0 THEN n ELSE 0
<1> DEFINE m == IF n > 0 THEN n ELSE 0
<1>1. m \in {0, n} /\ \A y \in {0, n} : m >= y
  OBVIOUS
<1>2. QED
  BY <1>1 DEF Max

\* A loop backwards stops between the beginning and where it starts, behind
\* the last byte that is not of its kind.
LEMMA BackFacts ==
  ASSUME NEW e, NEW n \in Nat, NEW kind
  PROVE  /\ Back(e, n, kind) \in 0 .. n
         /\ \A i \in Back(e, n, kind) .. n - 1 : e.line[i] \in kind
<1> DEFINE S == {m \in 0 .. n : \A i \in m .. n - 1 : e.line[i] \in kind}
<1>1. S \in SUBSET Nat /\ n \in S
  OBVIOUS
<1>2. Min(S) \in S
  BY <1>1, LeastElement
<1>3. QED
  BY <1>2 DEF Back

\* The last word is a piece of the line.
LEMMA WordFacts ==
  ASSUME NEW e \in EditorState, e.pos \in 0 .. Room
  PROVE  LET b == Back(e, e.pos, NotBlank)
         IN  /\ b \in 0 .. e.pos
             /\ Word(e) \in Seq(Cells) /\ Len(Word(e)) = e.pos - b
             /\ \A i \in 0 .. e.pos - b - 1 : Word(e)[i + 1] = e.line[b + i]
<1> DEFINE b == Back(e, e.pos, NotBlank)
           n == e.pos - b
<1>1. b \in 0 .. e.pos /\ n \in Nat
  <2>1. e.pos \in Nat
    BY SizeFacts
  <2>2. b \in 0 .. e.pos
    BY <2>1, BackFacts
  <2> HIDE DEF b
  <2>3. QED
    BY <2>1, <2>2
<1>2. e.line \in [Bytes -> Cells]
  BY DEF EditorState
<1>3. Word(e) = [i \in 1 .. n |-> e.line[b + i - 1]]
  BY DEF Word
<1> HIDE DEF b
<1>4. ASSUME NEW i \in 1 .. n PROVE e.line[b + i - 1] \in Cells
  <2>1. b + i - 1 \in Bytes
    BY <1>1, SizeFacts
  <2>2. QED
    BY <1>2, <2>1
<1> HIDE DEF n
<1>5. Word(e) \in Seq(Cells) /\ Len(Word(e)) = n
  BY <1>1, <1>3, <1>4
<1>6. \A i \in 0 .. n - 1 : Word(e)[i + 1] = e.line[b + i]
  <2>1. ASSUME NEW i \in 0 .. n - 1 PROVE Word(e)[i + 1] = e.line[b + i]
    <3>1. i + 1 \in 1 .. n /\ b + (i + 1) - 1 = b + i
      BY <1>1
    <3>2. QED
      BY <1>3, <3>1
  <2>2. QED
    BY <2>1
<1>7. QED
  BY <1>1, <1>5, <1>6 DEF b, n

(****************************************************************************)
(* What the pieces of the screen and of the array do.                       *)
(****************************************************************************)
LEMMA StoredFacts ==
  ASSUME NEW e \in EditorState, NEW c \in Cells
  PROVE  LET f == Stored(e, c)
         IN  /\ f \in EditorState
             /\ f.pos = e.pos + 1 /\ f.col = e.col + 1
             /\ f.line = [e.line EXCEPT ![e.pos] = c] /\ f.row = [e.row EXCEPT ![e.col] = c]
             /\ f.rows = e.rows /\ f.wrapped = e.wrapped /\ f.over = e.over /\ f.on = e.on
<1>1. PICK row : row = [e.row EXCEPT ![e.col] = c]
  OBVIOUS
<1>2. PICK text : text = [e.line EXCEPT ![e.pos] = c]
  OBVIOUS
<1>3. /\ e.line \in [Bytes -> Cells] /\ e.row \in [Glyphs -> Cells]
      /\ e.pos \in Int /\ e.col \in Nat
  BY DEF EditorState
<1>4. row \in [Glyphs -> Cells] /\ text \in [Bytes -> Cells]
  BY <1>1, <1>2, <1>3
<1> DEFINE f == Stored(e, c)
<1>5. f = [e EXCEPT !.row = row, !.col = e.col + 1, !.line = text, !.pos = e.pos + 1]
  BY <1>1, <1>2 DEF Stored, Put, EditorState
<1> HIDE DEF f
<1>6. /\ f.pos = e.pos + 1 /\ f.col = e.col + 1 /\ f.line = text /\ f.row = row
      /\ f.rows = e.rows /\ f.wrapped = e.wrapped /\ f.over = e.over /\ f.on = e.on
  BY <1>5 DEF EditorState
<1>7. f = [line |-> text, pos |-> e.pos + 1, row |-> row, col |-> e.col + 1,
           rows |-> e.rows, wrapped |-> e.wrapped, over |-> e.over, on |-> e.on]
  BY <1>5 DEF EditorState
<1>8. /\ e.rows \in Nat /\ e.wrapped \in BOOLEAN /\ e.over \in BOOLEAN /\ e.on \in BOOLEAN
      /\ e.pos + 1 \in Int /\ e.col + 1 \in Nat
  BY DEF EditorState
<1>9. f \in EditorState
  BY <1>4, <1>7, <1>8 DEF EditorState
<1>10. QED
  BY <1>1, <1>2, <1>6, <1>9 DEF f

\* A stored character is the one the terminal echoes.
LEMMA StoredShows ==
  ASSUME NEW e \in EditorState, NEW c \in Cells, e.pos \in 0 .. Room - 1, RowShows(e)
  PROVE  RowShows(Stored(e, c))
<1> DEFINE f == Stored(e, c)
<1>1. /\ f.pos = e.pos + 1 /\ f.col = e.col + 1
      /\ f.line = [e.line EXCEPT ![e.pos] = c] /\ f.row = [e.row EXCEPT ![e.col] = c]
  BY StoredFacts
<1>2. e.line \in [Bytes -> Cells] /\ e.row \in [Glyphs -> Cells] /\ e.col = e.pos
  BY DEF EditorState, RowShows
<1> HIDE DEF f
<1>3. ASSUME NEW i \in Glyphs
      PROVE  f.row[i] = IF i < f.pos THEN f.line[i] ELSE Blank
  <2>1. e.row[i] = IF i < e.pos THEN e.line[i] ELSE Blank
    BY DEF RowShows
  <2>2. i \in Nat /\ (i <= e.pos => i \in Bytes)
    BY SizeFacts
  <2>3. CASE i = e.pos
    BY <1>1, <1>2, <2>2, <2>3
  <2>4. CASE i # e.pos
    BY <1>1, <1>2, <2>1, <2>2, <2>4
  <2>5. QED
    BY <2>3, <2>4
<1>4. QED
  BY <1>1, <1>2, <1>3 DEF RowShows, f

(****************************************************************************)
(* Every operation makes an editor state out of eight fields.               *)
(****************************************************************************)
Made(text, pos, row, col, rows, wrapped, over, on) ==
  [line |-> text, pos |-> pos, row |-> row, col |-> col,
   rows |-> rows, wrapped |-> wrapped, over |-> over, on |-> on]

\* A state of the editor is made of its eight parts.
LEMMA StateIsMade ==
  ASSUME NEW e \in EditorState
  PROVE  /\ e = Made(e.line, e.pos, e.row, e.col, e.rows, e.wrapped, e.over, e.on)
         /\ e.line \in [Bytes -> Cells] /\ e.pos \in Int
         /\ e.row \in [Glyphs -> Cells] /\ e.col \in Nat /\ e.rows \in Nat
         /\ e.wrapped \in BOOLEAN /\ e.over \in BOOLEAN /\ e.on \in BOOLEAN
  BY DEF Made, EditorState

BlankRow == [i \in Glyphs |-> Blank]
FreshLine == [i \in Bytes |-> Unwritten]

\* The blank, the empty row and the fresh line.
LEMMA BlankFacts ==
  /\ Blank \in Cells /\ Unwritten \in Cells /\ Blank \notin NotBlank
  /\ BlankRow \in [Glyphs -> Cells] /\ FreshLine \in [Bytes -> Cells]
  /\ EmptyEditor = Made(FreshLine, 0, BlankRow, 0, 0, FALSE, FALSE, TRUE)
<1>1. Blank \in Cells /\ Unwritten \in Cells
  BY DEF Cells, Printable
<1>2. Blank \notin NotBlank
  BY LettersAssumption, Zenon DEF NotBlank, Blank, Unwritten
<1>3. BlankRow \in [Glyphs -> Cells] /\ FreshLine \in [Bytes -> Cells]
  BY <1>1 DEF BlankRow, FreshLine
<1>4. EmptyEditor = Made(FreshLine, 0, BlankRow, 0, 0, FALSE, FALSE, TRUE)
  BY DEF EmptyEditor, Made, FreshLine, BlankRow
<1>5. QED
  BY <1>1, <1>2, <1>3, <1>4

\* What an update of some of the fields makes.
LEMMA StoppedFacts ==
  ASSUME NEW e \in EditorState
  PROVE  [e EXCEPT !.over = TRUE, !.on = FALSE]
           = Made(e.line, e.pos, e.row, e.col, e.rows, e.wrapped, TRUE, FALSE)
<1>1. PICK f : f = [e EXCEPT !.over = TRUE, !.on = FALSE]
  OBVIOUS
<1>2. f = Made(e.line, e.pos, e.row, e.col, e.rows, e.wrapped, TRUE, FALSE)
  BY <1>1 DEF EditorState, Made
<1>3. QED
  BY <1>1, <1>2

\* An assignment to the row leaves the other parts as they are.
LEMMA RowFacts ==
  ASSUME NEW e \in EditorState, NEW r, NEW c
  PROVE  [e EXCEPT !.row = r, !.col = c]
           = Made(e.line, e.pos, r, c, e.rows, e.wrapped, e.over, e.on)
<1>1. PICK f : f = [e EXCEPT !.row = r, !.col = c]
  OBVIOUS
<1>2. f = Made(e.line, e.pos, r, c, e.rows, e.wrapped, e.over, e.on)
  BY <1>1 DEF EditorState, Made
<1>3. QED
  BY <1>1, <1>2

\* So does one to the line.
LEMMA LineFacts ==
  ASSUME NEW e \in EditorState, NEW t, NEW n
  PROVE  [e EXCEPT !.pos = n, !.wrapped = TRUE, !.line = t]
           = Made(t, n, e.row, e.col, e.rows, TRUE, e.over, e.on)
<1>1. PICK f : f = [e EXCEPT !.pos = n, !.wrapped = TRUE, !.line = t]
  OBVIOUS
<1>2. f = Made(t, n, e.row, e.col, e.rows, TRUE, e.over, e.on)
  BY <1>1 DEF EditorState, Made
<1>3. QED
  BY <1>1, <1>2

\* A line that goes on in the next row starts from an empty one.
LEMMA NextRowFacts ==
  ASSUME NEW e \in EditorState
  PROVE  /\ [NextRow(e) EXCEPT !.pos = 0]
              = Made(e.line, 0, BlankRow, 0, e.rows, e.wrapped, e.over, e.on)
         /\ [NextRow(e) EXCEPT !.pos = 0, !.wrapped = TRUE]
              = Made(e.line, 0, BlankRow, 0, e.rows, TRUE, e.over, e.on)
<1>1. PICK f : f = NextRow(e)
  OBVIOUS
<1>2. f = Made(e.line, e.pos, BlankRow, 0, e.rows, e.wrapped, e.over, e.on)
  <2>1. NextRow(e) = [e EXCEPT !.row = BlankRow, !.col = 0]
    BY DEF NextRow, BlankRow
  <2>2. QED
    BY <1>1, <2>1, RowFacts
<1>3. /\ f \in EditorState /\ f.line = e.line /\ f.row = BlankRow /\ f.col = 0
      /\ f.rows = e.rows /\ f.wrapped = e.wrapped /\ f.over = e.over /\ f.on = e.on
  <2>1. /\ e.line \in [Bytes -> Cells] /\ e.pos \in Int /\ e.rows \in Nat
        /\ e.wrapped \in BOOLEAN /\ e.over \in BOOLEAN /\ e.on \in BOOLEAN
    BY StateIsMade
  <2>2. f \in EditorState
    BY <1>2, <2>1, BlankFacts DEF Made, EditorState
  <2>3. QED
    BY <1>2, <2>2 DEF Made
<1>4. QED
  <2>1. PICK g : g = [f EXCEPT !.pos = 0]
    OBVIOUS
  <2>2. PICK h : h = [f EXCEPT !.pos = 0, !.wrapped = TRUE]
    OBVIOUS
  <2>3. /\ g = Made(e.line, 0, BlankRow, 0, e.rows, e.wrapped, e.over, e.on)
        /\ h = Made(e.line, 0, BlankRow, 0, e.rows, TRUE, e.over, e.on)
    BY <1>3, <2>1, <2>2 DEF EditorState, Made
  <2>4. QED
    BY <1>1, <2>1, <2>2, <2>3

\* The glyphs wiped before the cursor, never beyond the beginning of the row.
LEMMA WipedFacts ==
  ASSUME NEW e \in EditorState, NEW n \in Nat
  PROVE  LET c == IF e.col - n > 0 THEN e.col - n ELSE 0
             row == [i \in Glyphs |-> IF i \in c .. e.col - 1 THEN Blank ELSE e.row[i]]
         IN  /\ c \in Nat /\ row \in [Glyphs -> Cells]
             /\ Wiped(e, n)
                  = Made(e.line, e.pos, row, c, e.rows, e.wrapped, e.over, e.on)
<1> DEFINE c == IF e.col - n > 0 THEN e.col - n ELSE 0
           row == [i \in Glyphs |-> IF i \in c .. e.col - 1 THEN Blank ELSE e.row[i]]
<1>1. e.col \in Nat /\ e.row \in [Glyphs -> Cells]
  BY DEF EditorState
<1>2. Max({0, e.col - n}) = c /\ c \in Nat
  BY <1>1, NotBelowZero
<1> HIDE DEF c
<1>3. row \in [Glyphs -> Cells]
  BY <1>1, BlankFacts
<1>4. Wiped(e, n) = [e EXCEPT !.row = row, !.col = c]
  BY <1>2 DEF Wiped
<1> HIDE DEF row
<1>5. Wiped(e, n) = Made(e.line, e.pos, row, c, e.rows, e.wrapped, e.over, e.on)
  BY <1>4, RowFacts
<1>6. QED
  BY <1>2, <1>3, <1>5 DEF c, row

\* A shortened line keeps what stands before its new end.
LEMMA ShortenedFacts ==
  ASSUME NEW e \in EditorState, NEW n \in 0 .. e.pos
  PROVE  LET f == Shortened(e, n)
         IN  /\ f \in EditorState
             /\ f.pos = n /\ f.line = e.line /\ f.rows = e.rows
             /\ f.col = IF e.col - (e.pos - n) > 0 THEN e.col - (e.pos - n) ELSE 0
             /\ f.wrapped = e.wrapped /\ f.over = e.over /\ f.on = e.on
             /\ RowShows(e) => RowShows(f)
<1>1. e.pos \in Int /\ n \in Nat /\ n <= e.pos /\ e.pos - n \in Nat
  BY DEF EditorState
<1> DEFINE c == IF e.col - (e.pos - n) > 0 THEN e.col - (e.pos - n) ELSE 0
           row == [i \in Glyphs |-> IF i \in c .. e.col - 1 THEN Blank ELSE e.row[i]]
           f == Shortened(e, n)
<1>2. /\ c \in Nat /\ row \in [Glyphs -> Cells]
      /\ Wiped(e, e.pos - n)
           = Made(e.line, e.pos, row, c, e.rows, e.wrapped, e.over, e.on)
  BY <1>1, WipedFacts
<1>3. f = Made(e.line, n, row, c, e.rows, e.wrapped, e.over, e.on)
  <2>1. PICK g : g = Wiped(e, e.pos - n)
    OBVIOUS
  <2>2. f = [g EXCEPT !.pos = n]
    BY <2>1 DEF Shortened
  <2> HIDE DEF f, row, c
  <2>3. /\ g \in EditorState /\ g.line = e.line /\ g.row = row /\ g.col = c
        /\ g.rows = e.rows /\ g.wrapped = e.wrapped /\ g.over = e.over /\ g.on = e.on
    <3>1. /\ e.line \in [Bytes -> Cells] /\ e.pos \in Int /\ e.rows \in Nat
          /\ e.wrapped \in BOOLEAN /\ e.over \in BOOLEAN /\ e.on \in BOOLEAN
      BY StateIsMade
    <3>2. g \in EditorState
      BY <1>2, <2>1, <3>1 DEF Made, EditorState
    <3>3. QED
      BY <1>2, <2>1, <3>2 DEF Made
  <2>4. QED
    BY <2>2, <2>3 DEF EditorState, Made
<1>4. ASSUME NEW i \in Glyphs
      PROVE  row[i] = IF i \in c .. e.col - 1 THEN Blank ELSE e.row[i]
  OBVIOUS
<1> HIDE DEF f, row
<1>5. /\ f \in EditorState /\ f.line = e.line /\ f.pos = n /\ f.row = row /\ f.col = c
      /\ f.rows = e.rows /\ f.wrapped = e.wrapped /\ f.over = e.over /\ f.on = e.on
  <2>1. /\ e.line \in [Bytes -> Cells] /\ e.rows \in Nat
        /\ e.wrapped \in BOOLEAN /\ e.over \in BOOLEAN /\ e.on \in BOOLEAN
    BY StateIsMade
  <2>2. f \in EditorState
    BY <1>1, <1>2, <1>3, <2>1 DEF Made, EditorState
  <2>3. QED
    BY <1>3, <2>2 DEF Made
<1>6. ASSUME RowShows(e) PROVE RowShows(f)
  <2>1. e.col = e.pos /\ c = n
    BY <1>1, <1>6 DEF RowShows
  <2>2. ASSUME NEW i \in Glyphs PROVE f.row[i] = IF i < n THEN f.line[i] ELSE Blank
    <3>1. e.row[i] = IF i < e.pos THEN e.line[i] ELSE Blank
      BY <1>6 DEF RowShows
    <3>2. i \in Nat
      BY SizeFacts
    <3>3. row[i] = IF i \in n .. e.pos - 1 THEN Blank ELSE e.row[i]
      BY <1>4, <2>1
    <3>4. QED
      BY <1>1, <1>5, <3>1, <3>2, <3>3
  <2>3. f.col = IF f.pos > 0 THEN f.pos ELSE 0
    BY <1>1, <1>5, <2>1
  <2>4. QED
    BY <1>5, <2>2, <2>3 DEF RowShows
<1>7. QED
  BY <1>5, <1>6 DEF f, c

\* What is written from the first column is all the row then shows.
LEMMA WrittenFacts ==
  ASSUME NEW e \in EditorState, NEW s \in Seq(Cells)
  PROVE  LET row == [i \in Glyphs |-> IF i < Len(s) THEN s[i + 1] ELSE Blank]
         IN  /\ row \in [Glyphs -> Cells]
             /\ Written(e, s)
                  = Made(e.line, e.pos, row, Len(s), e.rows, e.wrapped, e.over, e.on)
<1> DEFINE row == [i \in Glyphs |-> IF i < Len(s) THEN s[i + 1] ELSE Blank]
<1>1. ASSUME NEW i \in Glyphs
      PROVE  (IF i < Len(s) THEN s[i + 1] ELSE Blank) \in Cells
  <2>1. i \in Nat /\ Len(s) \in Nat /\ Blank \in Cells
    BY SizeFacts, BlankFacts
  <2>2. CASE i < Len(s)
    <3>1. i + 1 \in 1 .. Len(s)
      BY <2>1, <2>2
    <3>2. s[i + 1] \in Cells
      BY <3>1
    <3>3. QED
      BY <2>2, <3>2
  <2>3. CASE ~(i < Len(s))
    BY <2>1, <2>3
  <2>4. QED
    BY <2>2, <2>3
<1>2. row \in [Glyphs -> Cells]
  BY <1>1
<1>3. Written(e, s) = [e EXCEPT !.row = row, !.col = Len(s)]
  BY DEF Written
<1> HIDE DEF row
<1>4. Written(e, s) = Made(e.line, e.pos, row, Len(s), e.rows, e.wrapped, e.over, e.on)
  BY <1>3, RowFacts
<1>5. QED
  BY <1>2, <1>4 DEF row

\* The bytes behind the line do not matter.
LEMMA ForgottenFacts ==
  ASSUME NEW e \in EditorState, e.pos <= Room
  PROVE  LET g == Forgotten(e)
         IN  /\ g \in EditorState
             /\ g.pos = e.pos /\ g.rows = e.rows /\ g.row = e.row /\ g.col = e.col
             /\ g.wrapped = e.wrapped /\ g.over = e.over /\ g.on = e.on
             /\ \A i \in Bytes : i < e.pos => g.line[i] = e.line[i]
             /\ RowShows(e) => RowShows(g)
<1>1. PICK text : text = [i \in Bytes |-> IF i < e.pos THEN e.line[i] ELSE Unwritten]
  OBVIOUS
<1>2. /\ e.line \in [Bytes -> Cells] /\ e.pos \in Int /\ e.row \in [Glyphs -> Cells]
      /\ e.col \in Nat /\ e.rows \in Nat
      /\ e.wrapped \in BOOLEAN /\ e.over \in BOOLEAN /\ e.on \in BOOLEAN
  BY StateIsMade
<1>3. text \in [Bytes -> Cells]
  BY <1>1, <1>2, BlankFacts
<1> DEFINE g == Forgotten(e)
<1>4. g = [e EXCEPT !.line = text]
  BY <1>1 DEF Forgotten
<1> HIDE DEF g
<1>5. g = Made(text, e.pos, e.row, e.col, e.rows, e.wrapped, e.over, e.on)
  BY <1>4 DEF EditorState, Made
<1>6. g \in EditorState
  BY <1>2, <1>3, <1>5 DEF EditorState, Made
<1>7. /\ g.pos = e.pos /\ g.rows = e.rows /\ g.line = text /\ g.row = e.row /\ g.col = e.col
      /\ g.wrapped = e.wrapped /\ g.over = e.over /\ g.on = e.on
  BY <1>5 DEF Made
<1>8. \A i \in Bytes : i < e.pos => text[i] = e.line[i]
  BY <1>1
<1>9. ASSUME RowShows(e) PROVE RowShows(g)
  <2>1. ASSUME NEW i \in Glyphs PROVE g.row[i] = IF i < g.pos THEN g.line[i] ELSE Blank
    <3>1. e.row[i] = IF i < e.pos THEN e.line[i] ELSE Blank
      BY <1>9 DEF RowShows
    <3>2. i < e.pos => i \in Bytes
      BY <1>2, SizeFacts
    <3>3. QED
      BY <1>7, <1>8, <3>1, <3>2
  <2>2. QED
    BY <1>7, <1>9, <2>1 DEF RowShows
<1>10. QED
  BY <1>6, <1>7, <1>8, <1>9 DEF g

\* A letter is the last of the row and of the line.
RowEndsIn(e, k) == e.col > 0 /\ e.row[e.col - 1] = k
LineEndsIn(e, k) == e.pos > 0 /\ e.line[e.pos - 1] = k

\* A backward loop goes on over a byte of its kind.
LEMMA BackGoesOn ==
  ASSUME NEW e, NEW n \in Nat, n > 0, NEW kind, e.line[n - 1] \in kind
  PROVE  Back(e, n, kind) <= n - 1
<1> DEFINE S == {m \in 0 .. n : \A i \in m .. n - 1 : e.line[i] \in kind}
<1>1. S \in SUBSET Nat /\ n - 1 \in S
  OBVIOUS
<1>2. Min(S) <= n - 1
  <2>1. S # {}
    BY <1>1
  <2> HIDE DEF S
  <2>2. QED
    BY <1>1, <2>1, LeastElement
<1>3. QED
  BY <1>2 DEF Back

\* The last word of a line that ends in a letter ends in it.
LEMMA WordEndsIn ==
  ASSUME NEW e \in EditorState, e.pos \in 1 .. Room, NEW k \in Letters, e.line[e.pos - 1] = k
  PROVE  /\ Word(e) \in Seq(Cells) /\ Len(Word(e)) \in 1 .. e.pos
         /\ Word(e)[Len(Word(e))] = k
<1>1. PICK b : b = Back(e, e.pos, NotBlank)
  OBVIOUS
<1>2. e.pos \in Nat /\ e.pos > 0 /\ e.pos \in 0 .. Room
  BY SizeFacts
<1>3. b \in 0 .. e.pos /\ Word(e) \in Seq(Cells) /\ Len(Word(e)) = e.pos - b
      /\ \A i \in 0 .. e.pos - b - 1 : Word(e)[i + 1] = e.line[b + i]
  BY <1>1, <1>2, WordFacts
<1>4. b <= e.pos - 1
  BY <1>1, <1>2, BackGoesOn DEF NotBlank
<1>5. Len(Word(e)) \in 1 .. e.pos
  BY <1>2, <1>3, <1>4
<1>6. Word(e)[Len(Word(e))] = k
  <2>1. PICK i : i = e.pos - b - 1
    OBVIOUS
  <2>2. i \in 0 .. e.pos - b - 1 /\ i + 1 = Len(Word(e)) /\ b + i = e.pos - 1
    BY <1>2, <1>3, <1>4, <2>1
  <2>3. Word(e)[i + 1] = e.line[b + i]
    BY <1>3, <2>2
  <2>4. QED
    BY <2>2, <2>3
<1>7. QED
  BY <1>3, <1>5, <1>6

\* What is written from the first column ends in its last character.
LEMMA WrittenHolds ==
  ASSUME NEW s \in Seq(Cells), Len(s) \in 1 .. Columns, NEW k, s[Len(s)] = k, NEW e,
         e.col = Len(s), e.row = [i \in Glyphs |-> IF i < Len(s) THEN s[i + 1] ELSE Blank]
  PROVE  RowEndsIn(e, k)
<1>1. PICK i : i = Len(s) - 1
  OBVIOUS
<1>2. i \in Glyphs /\ i < Len(s) /\ i + 1 = Len(s) /\ Len(s) > 0
  BY <1>1, SizeFacts
<1>3. e.row[i] = s[i + 1]
  BY <1>2
<1>4. QED
  BY <1>1, <1>2, <1>3 DEF RowEndsIn

\* Y.komarevtsev's and mChelbaev's full line: the row is the last word.
LEMMA OnScreenFacts ==
  ASSUME NEW e \in EditorState, e.pos = Width, NEW c
  PROVE  LET f == OnScreen(e, c)
         IN  /\ f \in EditorState
             /\ f.pos \in 0 .. Width /\ f.col = f.pos /\ f.rows = e.rows
             /\ f.wrapped = TRUE /\ f.over = e.over
<1>1. Width \in Nat /\ e.pos \in 0 .. Room /\ ~(e.pos < Width)
  BY SizeFacts
<1>2. PICK s : s = Word(e)
  OBVIOUS
<1>3. s \in Seq(Cells) /\ Len(s) \in 0 .. Width
  <2>1. PICK b : b = Back(e, e.pos, NotBlank)
    OBVIOUS
  <2>2. b \in 0 .. e.pos /\ s \in Seq(Cells) /\ Len(s) = e.pos - b
    BY <1>1, <1>2, <2>1, WordFacts
  <2>3. QED
    BY <1>1, <2>2
<1>4. PICK row : /\ row \in [Glyphs -> Cells]
                 /\ Written(e, s)
                      = Made(e.line, e.pos, row, Len(s), e.rows, e.wrapped, e.over, e.on)
  BY <1>3, WrittenFacts
<1>5. PICK h : h = Written(e, s)
  OBVIOUS
<1>6. PICK f : f = [h EXCEPT !.pos = Len(s), !.wrapped = TRUE]
  OBVIOUS
<1>7. f = Made(e.line, Len(s), row, Len(s), e.rows, TRUE, e.over, e.on)
  <2>1. h = Made(e.line, e.pos, row, Len(s), e.rows, e.wrapped, e.over, e.on)
    BY <1>4, <1>5
  <2>2. QED
    BY <1>6, <2>1 DEF Made
<1>8. OnScreen(e, c) = f
  BY <1>1, <1>2, <1>5, <1>6 DEF OnScreen
<1>9. /\ f.pos = Len(s) /\ f.col = Len(s) /\ f.rows = e.rows
      /\ f.wrapped = TRUE /\ f.over = e.over
  BY <1>7 DEF Made
<1>10. f \in EditorState
  <2>1. /\ e.line \in [Bytes -> Cells] /\ e.rows \in Nat
        /\ e.over \in BOOLEAN /\ e.on \in BOOLEAN
    BY StateIsMade
  <2>2. Len(s) \in Nat
    BY <1>3
  <2>3. QED
    BY <1>4, <1>7, <2>1, <2>2 DEF Made, EditorState
<1>11. QED
  BY <1>3, <1>8, <1>9, <1>10

\* m.tsyrenov's: the next line is begun with the last word, or with the
\* character; the blank is written and not counted.
LEMMA NextLineFacts ==
  ASSUME NEW e \in EditorState, e.pos = Width, NEW c \in Printable
  PROVE  LET f == NextLine(e, c)
         IN  /\ f \in EditorState
             /\ f.col \in Nat /\ f.col <= f.rows * Width /\ f.pos \in 0 .. Width
             /\ f.rows = e.rows + 1 /\ f.wrapped = TRUE /\ f.over = e.over
             /\ c \in Letters => RowEndsIn(f, c) /\ f.pos > 0
<1>1. PICK f : f = Stored(e, c)
  OBVIOUS
<1>2. PICK w : w = IF Back(f, f.pos, NotBlank) > 0 THEN Word(f) ELSE <<c>>
  OBVIOUS
<1>3. PICK s : s = IF c = Blank THEN <<Blank>> ELSE w
  OBVIOUS
<1>4. PICK n : n = IF c = Blank THEN 0 ELSE Len(w)
  OBVIOUS
<1>5. /\ c \in Cells /\ Blank \in Cells /\ Width \in Nat /\ Width > 0 /\ Room > Width
      /\ Room \in Nat /\ Columns \in Nat /\ Columns > Room
  BY BlankFacts, SizeFacts DEF Cells
<1>6. /\ f \in EditorState /\ f.pos = Width + 1 /\ f.rows = e.rows /\ f.over = e.over
      /\ f.line = [e.line EXCEPT ![e.pos] = c]
  BY <1>1, <1>5, StoredFacts
<1>7. f.pos \in 1 .. Room /\ f.line[f.pos - 1] = c
  <2>1. e.pos \in Bytes /\ e.line \in [Bytes -> Cells]
    BY <1>5, SizeFacts, StateIsMade
  <2>2. f.line[e.pos] = c
    BY <1>6, <2>1
  <2>3. f.pos - 1 = e.pos /\ f.pos \in 1 .. Room
    BY <1>5, <1>6
  <2>4. QED
    BY <2>2, <2>3
<1>8. w \in Seq(Cells) /\ Len(w) \in Nat /\ Len(w) <= Width
  <2>1. PICK b : b = Back(f, f.pos, NotBlank)
    OBVIOUS
  <2>2. f.pos \in 0 .. Room
    BY <1>7
  <2>3. b \in 0 .. f.pos /\ Word(f) \in Seq(Cells) /\ Len(Word(f)) = f.pos - b
    BY <1>6, <2>1, <2>2, WordFacts
  <2>4. CASE b > 0
    BY <1>2, <1>5, <1>6, <2>1, <2>3, <2>4
  <2>5. CASE ~(b > 0)
    <3>1. w = <<c>>
      BY <1>2, <2>1, <2>5
    <3>2. QED
      BY <1>5, <3>1
  <2>6. QED
    BY <2>4, <2>5
<1>9. s \in Seq(Cells) /\ Len(s) \in Nat /\ Len(s) <= Width /\ n \in 0 .. Width
  BY <1>3, <1>4, <1>5, <1>8
<1>10. PICK row : row = [i \in Glyphs |-> IF i < Len(s) THEN s[i + 1] ELSE Blank]
  OBVIOUS
<1>11. /\ row \in [Glyphs -> Cells]
       /\ Written(f, s) = Made(f.line, f.pos, row, Len(s), f.rows, f.wrapped, f.over, f.on)
  BY <1>6, <1>9, <1>10, WrittenFacts
<1>12. PICK h : h = Written(f, s)
  OBVIOUS
<1>13. PICK text : text = EmptyEditor.line
  OBVIOUS
<1>14. PICK g : g = [h EXCEPT !.pos = n, !.line = text, !.rows = @ + 1, !.wrapped = TRUE]
  OBVIOUS
<1>15. g = Made(text, n, row, Len(s), f.rows + 1, TRUE, f.over, f.on)
  <2>1. h = Made(f.line, f.pos, row, Len(s), f.rows, f.wrapped, f.over, f.on)
    BY <1>11, <1>12
  <2>2. QED
    BY <1>14, <2>1 DEF Made
<1>16. NextLine(e, c) = g
  <2>1. ~(e.pos < 0) /\ ~(e.pos < Width)
    BY <1>5
  <2>2. QED
    BY <1>1, <1>2, <1>3, <1>4, <1>12, <1>13, <1>14, <2>1 DEF NextLine
<1>17. /\ g.pos = n /\ g.col = Len(s) /\ g.row = row /\ g.rows = e.rows + 1
       /\ g.wrapped = TRUE /\ g.over = e.over
  BY <1>6, <1>15 DEF Made
<1>18. g \in EditorState
  <2>1. text \in [Bytes -> Cells]
    BY <1>13, BlankFacts DEF Made
  <2>2. f.rows + 1 \in Nat /\ f.over \in BOOLEAN /\ f.on \in BOOLEAN
    BY <1>6, StateIsMade
  <2>3. n \in Int /\ Len(s) \in Nat
    BY <1>5, <1>9
  <2>4. QED
    BY <1>11, <1>15, <2>1, <2>2, <2>3 DEF Made, EditorState
<1>19. Len(s) <= (e.rows + 1) * Width
  <2>1. PICK r \in Nat : r = e.rows
    BY StateIsMade
  <2>2. (r + 1) * Width = r * Width + Width /\ r * Width >= 0
    BY <1>5
  <2>3. r * Width \in Nat
    BY <1>5
  <2>4. QED
    BY <1>5, <1>9, <2>1, <2>2, <2>3
<1>20. ASSUME c \in Letters PROVE RowEndsIn(g, c) /\ g.pos > 0
  <2>1. c # Blank
    BY <1>20, LettersAssumption
  <2>2. s = w /\ n = Len(w)
    BY <1>3, <1>4, <2>1
  <2>3. Len(w) > 0 /\ w[Len(w)] = c
    <3>1. Len(Word(f)) \in 1 .. f.pos /\ Word(f)[Len(Word(f))] = c
      BY <1>6, <1>7, <1>20, WordEndsIn
    <3>2. CASE w = Word(f)
      BY <1>6, <1>7, <3>1, <3>2
    <3>3. CASE w = <<c>>
      BY <3>3
    <3>4. QED
      BY <1>2, <3>2, <3>3
  <2>4. Len(s) \in 1 .. Columns /\ s[Len(s)] = c
    BY <1>5, <1>9, <2>2, <2>3
  <2>5. RowEndsIn(g, c)
    BY <1>9, <1>10, <1>17, <2>4, WrittenHolds
  <2>6. QED
    BY <1>17, <2>2, <2>3, <2>5
<1>21. QED
  <2>1. g.col \in Nat /\ g.col <= g.rows * Width /\ g.pos \in 0 .. Width
    BY <1>9, <1>17, <1>19
  <2>2. QED
    BY <1>16, <1>17, <1>18, <1>20, <2>1

\* A row and a line that begin with a word, and the word that is moved.
RowOf(w) == [i \in Glyphs |-> IF i < Len(w) THEN w[i + 1] ELSE Blank]
LineOf(w, text) == [i \in Bytes |-> IF i < Len(w) THEN w[i + 1] ELSE text[i]]
Moved(e) == IF Back(e, e.pos, NotBlank) > 0 THEN Word(e) ELSE <<>>

\* I.Trushkin's full line: row and line are the last word, if anything stands
\* before it.
LEMMA WordMovedMade ==
  ASSUME NEW e \in EditorState, e.pos \in Width .. Room, NEW k, k # Blank
  PROVE  /\ WordMoved(e, k) \in EditorState
         /\ WordMoved(e, k) = Made(LineOf(Moved(e), e.line), Len(Moved(e)), RowOf(Moved(e)),
                                   Len(Moved(e)), e.rows, TRUE, e.over, e.on)
<1> DEFINE w == Moved(e)
           row == RowOf(w)
           text == LineOf(w, e.line)
<1>1. /\ e.pos \in Nat /\ ~(e.pos < Width) /\ Width \in Nat /\ Room \in Nat
      /\ Bytes = 0 .. Room - 1 /\ e.pos \in 0 .. Room
  BY SizeFacts
<1>2. PICK b : b = Back(e, e.pos, NotBlank)
  OBVIOUS
<1>3. w = IF b > 0 THEN Word(e) ELSE <<>>
  BY <1>2 DEF Moved
<1> HIDE DEF w
<1>4. w \in Seq(Cells) /\ Len(w) \in 0 .. e.pos
  <2>1. b \in 0 .. e.pos /\ Word(e) \in Seq(Cells) /\ Len(Word(e)) = e.pos - b
    BY <1>1, <1>2, WordFacts
  <2>2. QED
    BY <1>1, <1>3, <2>1
<1>5. /\ row \in [Glyphs -> Cells]
      /\ Written(e, w) = Made(e.line, e.pos, row, Len(w), e.rows, e.wrapped, e.over, e.on)
  BY <1>4, WrittenFacts DEF RowOf
<1>6. text \in [Bytes -> Cells]
  <2>1. ASSUME NEW i \in Bytes
        PROVE  (IF i < Len(w) THEN w[i + 1] ELSE e.line[i]) \in Cells
    <3>1. i \in Nat /\ e.line \in [Bytes -> Cells]
      BY SizeFacts, StateIsMade
    <3>2. CASE i < Len(w)
      <4>1. i + 1 \in 1 .. Len(w)
        BY <1>4, <3>1, <3>2
      <4>2. w[i + 1] \in Cells
        BY <1>4, <4>1
      <4>3. QED
        BY <3>2, <4>2
    <3>3. CASE ~(i < Len(w))
      BY <3>1, <3>3
    <3>4. QED
      BY <3>2, <3>3
  <2>2. QED
    BY <2>1 DEF LineOf
<1> HIDE DEF row
<1>7. PICK h : h = Written(e, w)
  OBVIOUS
<1>8. h = Made(e.line, e.pos, row, Len(w), e.rows, e.wrapped, e.over, e.on)
  BY <1>5, <1>7
<1>9. h.line = e.line
  BY <1>8 DEF Made
<1>10. PICK f : f = [h EXCEPT !.pos = Len(w), !.wrapped = TRUE, !.line = text]
  OBVIOUS
<1>11. WordMoved(e, k) = f
  BY <1>1, <1>2, <1>3, <1>7, <1>9, <1>10 DEF WordMoved, LineOf
<1> HIDE DEF text
<1>12. f = Made(text, Len(w), row, Len(w), e.rows, TRUE, e.over, e.on)
  BY <1>8, <1>10 DEF Made
<1>13. f \in EditorState
  <2>1. e.rows \in Nat /\ e.over \in BOOLEAN /\ e.on \in BOOLEAN /\ Len(w) \in Nat
    BY <1>1, <1>4, StateIsMade
  <2>2. QED
    BY <1>5, <1>6, <1>12, <2>1 DEF EditorState, Made
<1>14. QED
  BY <1>11, <1>12, <1>13 DEF w, row, text

(****************************************************************************)
(* What each key leaves.                                                    *)
(****************************************************************************)
Ready(p, e) == /\ Sound(p, e) /\ e.on
               /\ p.full = "word" => BlanksBelow(e, e.pos)

After(p, k, g) ==
  /\ Sound(p, g)
  /\ p.full = "word" => /\ BlanksBelow(g, g.pos - 1)
                        /\ k = Blank \/ ~g.on => BlanksBelow(g, g.pos)

\* A key that changes nothing is sound,
LEMMA SameAfter ==
  ASSUME NEW p \in Editors, NEW e, Ready(p, e), NEW k
  PROVE  After(p, k, e)
<1>1. Sound(p, e) /\ e.pos \in Int
  BY DEF Ready, Sound, EditorState
<1>2. ASSUME BlanksBelow(e, e.pos) PROVE BlanksBelow(e, e.pos - 1)
  <2>1. ASSUME NEW i \in Width .. (e.pos - 1) - 1 PROVE e.line[i] = Blank
    <3>1. i \in Width .. e.pos - 1
      BY <1>1, SizeFacts
    <3>2. QED
      BY <1>2, <3>1 DEF BlanksBelow
  <2>2. QED
    BY <2>1 DEF BlanksBelow
<1>3. QED
  BY <1>1, <1>2 DEF Ready, After

\* as is one that shortens line and row alike,
LEMMA ShortenedAfter ==
  ASSUME NEW p \in Editors, NEW e, Ready(p, e), NEW k, NEW n \in 0 .. e.pos
  PROVE  After(p, k, Shortened(e, n))
<1>1. /\ e \in EditorState /\ e.pos <= Top(p) /\ (e.rows > 0 => p.full = "next")
      /\ (e.over => ~e.on) /\ e.on /\ (Honest(p, e) => RowShows(e))
      /\ (p.full = "word" => BlanksBelow(e, e.pos))
  BY DEF Ready, Sound
<1>2. e.pos \in Int /\ Width \in Int /\ Top(p) \in Int /\ n \in Int /\ n <= e.pos /\ n >= 0
  BY <1>1, SizeFacts DEF EditorState, Top
<1>3. PICK f : f = Shortened(e, n)
  OBVIOUS
<1>4. /\ f \in EditorState
      /\ f.pos = n /\ f.line = e.line /\ f.rows = e.rows
      /\ f.wrapped = e.wrapped /\ f.over = e.over /\ f.on = e.on
      /\ RowShows(e) => RowShows(f)
  BY <1>1, <1>3, ShortenedFacts
<1>5. Honest(p, f) <=> Honest(p, e)
  BY <1>4 DEF Honest
<1>6. Sound(p, f)
  BY <1>1, <1>2, <1>4, <1>5 DEF Sound
<1>7. ASSUME NEW m \in Int, m <= n, BlanksBelow(e, e.pos) PROVE BlanksBelow(f, m)
  <2>1. ASSUME NEW i \in Width .. m - 1 PROVE f.line[i] = Blank
    <3>1. i \in Width .. e.pos - 1
      BY <1>2, <1>7
    <3>2. QED
      BY <1>4, <1>7, <3>1 DEF BlanksBelow
  <2>2. QED
    BY <2>1 DEF BlanksBelow
<1>8. p.full = "word" => BlanksBelow(f, f.pos) /\ BlanksBelow(f, f.pos - 1)
  BY <1>1, <1>2, <1>4, <1>7
<1>9. QED
  BY <1>3, <1>6, <1>8 DEF After

\* one that stores and shows a character,
LEMMA StoredAfter ==
  ASSUME NEW p \in Editors, NEW e, Ready(p, e), NEW c \in Printable,
         e.pos >= 0, e.pos < Top(p)
  PROVE  After(p, c, Stored(e, c))
<1>1. /\ e \in EditorState /\ (e.rows > 0 => p.full = "next")
      /\ (e.over => ~e.on) /\ e.on /\ (Honest(p, e) => RowShows(e))
      /\ (p.full = "word" => BlanksBelow(e, e.pos))
  BY DEF Ready, Sound
<1>2. /\ e.pos \in 0 .. Room - 1 /\ Width \in Int /\ Top(p) \in Int /\ c \in Cells
      /\ e.line \in [Bytes -> Cells]
  BY <1>1, SizeFacts DEF EditorState, Top, Cells
<1>3. PICK f : f = Stored(e, c)
  OBVIOUS
<1>4. /\ f \in EditorState
      /\ f.pos = e.pos + 1 /\ f.line = [e.line EXCEPT ![e.pos] = c]
      /\ f.rows = e.rows /\ f.wrapped = e.wrapped /\ f.over = e.over /\ f.on = e.on
  BY <1>1, <1>2, <1>3, StoredFacts
<1>5. RowShows(e) => RowShows(f)
  BY <1>1, <1>2, <1>3, StoredShows
<1>6. Honest(p, f) <=> Honest(p, e)
  BY <1>4 DEF Honest
<1>7. Sound(p, f)
  BY <1>1, <1>2, <1>4, <1>5, <1>6 DEF Sound
<1>8. ASSUME p.full = "word" PROVE BlanksBelow(f, e.pos) /\ (c = Blank => BlanksBelow(f, e.pos + 1))
  <2>1. ASSUME NEW i \in Width .. e.pos - 1 PROVE f.line[i] = Blank
    <3>1. e.line[i] = Blank
      BY <1>1, <1>8 DEF BlanksBelow
    <3>2. i \in Bytes /\ i # e.pos
      BY <1>2, SizeFacts
    <3>3. QED
      BY <1>2, <1>4, <3>1, <3>2
  <2>2. ASSUME c = Blank, NEW i \in Width .. (e.pos + 1) - 1 PROVE f.line[i] = Blank
    <3>1. CASE i = e.pos
      <4>1. e.pos \in Bytes
        BY <1>2, SizeFacts
      <4>2. QED
        BY <1>2, <1>4, <2>2, <3>1, <4>1
    <3>2. CASE i # e.pos
      <4>1. i \in Width .. e.pos - 1
        BY <1>2, <3>2
      <4>2. QED
        BY <2>1, <4>1
    <3>3. QED
      BY <3>1, <3>2
  <2>3. QED
    BY <2>1, <2>2 DEF BlanksBelow
<1>9. (e.pos + 1) - 1 = e.pos
  BY <1>2
<1>10. QED
  BY <1>1, <1>3, <1>4, <1>7, <1>8, <1>9 DEF After

\* one that writes outside the array for a known reason,
LEMMA StoppedAfter ==
  ASSUME NEW p \in Editors, NEW e, Ready(p, e), NEW k, Excused(p, e)
  PROVE  After(p, k, [e EXCEPT !.over = TRUE, !.on = FALSE])
<1>1. PICK f : f = [e EXCEPT !.over = TRUE, !.on = FALSE]
  OBVIOUS
<1>2. /\ e \in EditorState /\ e.pos <= Top(p) /\ (e.pos < 0 => p.full = "next")
      /\ (e.rows > 0 => p.full = "next") /\ (Honest(p, e) => RowShows(e))
      /\ (p.full = "word" => BlanksBelow(e, e.pos))
  BY DEF Ready, Sound
<1>3. f = Made(e.line, e.pos, e.row, e.col, e.rows, e.wrapped, TRUE, FALSE)
  BY <1>1, <1>2, StoppedFacts
<1>4. /\ e.line \in [Bytes -> Cells] /\ e.pos \in Int /\ e.row \in [Glyphs -> Cells]
      /\ e.col \in Nat /\ e.rows \in Nat /\ e.wrapped \in BOOLEAN
  BY <1>2, StateIsMade
<1>5. f \in EditorState
  BY <1>3, <1>4 DEF Made, EditorState
<1>6. /\ f.line = e.line /\ f.pos = e.pos /\ f.row = e.row /\ f.col = e.col
      /\ f.rows = e.rows /\ f.wrapped = e.wrapped /\ f.over = TRUE /\ f.on = FALSE
  BY <1>3 DEF Made
<1>7. (Honest(p, f) <=> Honest(p, e)) /\ (RowShows(f) <=> RowShows(e)) /\ Excused(p, f)
  BY <1>6 DEF Honest, RowShows, Excused
<1>8. Sound(p, f)
  BY <1>2, <1>5, <1>6, <1>7 DEF Sound
<1>9. After(p, k, e)
  BY SameAfter
<1>10. p.full = "word" => BlanksBelow(f, f.pos) /\ BlanksBelow(f, f.pos - 1)
  BY <1>2, <1>6, <1>9 DEF BlanksBelow, After
<1>11. QED
  BY <1>1, <1>8, <1>10 DEF After

\* (what a state must have for that),
LEMMA ReadyFacts ==
  ASSUME NEW p \in Editors, NEW e, Ready(p, e)
  PROVE  /\ e \in EditorState /\ e.pos \in Int /\ e.pos <= Top(p)
         /\ Top(p) \in Nat /\ Width <= Top(p) /\ Top(p) <= Room
         /\ (e.pos < 0 => p.full = "next") /\ (e.rows > 0 => p.full = "next")
         /\ e.on = TRUE /\ e.over = FALSE /\ (Honest(p, e) => RowShows(e))
<1>1. /\ e \in EditorState /\ e.pos <= Top(p) /\ (e.over => ~e.on) /\ e.on
      /\ (e.pos < 0 => p.full = "next") /\ (e.rows > 0 => p.full = "next")
      /\ (Honest(p, e) => RowShows(e))
  BY DEF Ready, Sound
<1>2. e.over \in BOOLEAN /\ e.on \in BOOLEAN /\ e.pos \in Int
  BY <1>1 DEF EditorState
<1>3. Top(p) \in Nat /\ Width <= Top(p) /\ Top(p) <= Room
  BY SizeFacts DEF Top
<1>4. e.on = TRUE /\ e.over = FALSE
  BY <1>1, <1>2
<1>5. QED
  BY <1>1, <1>2, <1>3, <1>4

\* The two ways to begin a row.
LEMMA NextRowReady ==
  ASSUME NEW p \in Editors, NEW e, Ready(p, e)
  PROVE  /\ Ready(p, [NextRow(e) EXCEPT !.pos = 0])
         /\ Ready(p, [NextRow(e) EXCEPT !.pos = 0, !.wrapped = TRUE])
<1>1. /\ e \in EditorState /\ Top(p) \in Nat /\ (e.rows > 0 => p.full = "next")
      /\ e.on = TRUE /\ e.over = FALSE
  BY ReadyFacts
<1>2. /\ e.line \in [Bytes -> Cells] /\ e.rows \in Nat /\ e.wrapped \in BOOLEAN
  BY <1>1, StateIsMade
<1>3. ASSUME NEW w \in BOOLEAN, NEW f,
             f = Made(e.line, 0, BlankRow, 0, e.rows, w, e.over, e.on)
      PROVE  Ready(p, f)
  <2>1. f \in EditorState
    BY <1>1, <1>2, <1>3, BlankFacts DEF Made, EditorState
  <2>2. /\ f.pos = 0 /\ f.row = BlankRow /\ f.col = 0 /\ f.rows = e.rows
        /\ f.over = FALSE /\ f.on = TRUE
    BY <1>1, <1>3 DEF Made
  <2>3. RowShows(f)
    <3>1. \A i \in Glyphs : i \in Nat /\ ~(i < 0)
      BY SizeFacts
    <3>2. QED
      BY <2>2, <3>1 DEF RowShows, BlankRow
  <2>4. Sound(p, f)
    BY <1>1, <2>1, <2>2, <2>3 DEF Sound
  <2>5. BlanksBelow(f, f.pos)
    <3>1. Width .. 0 - 1 = {}
      BY SizeFacts
    <3>2. QED
      BY <2>2, <3>1 DEF BlanksBelow
  <2>6. QED
    BY <2>2, <2>4, <2>5 DEF Ready
<1>4. QED
  <2>1. PICK f : f = [NextRow(e) EXCEPT !.pos = 0]
    OBVIOUS
  <2>2. PICK g : g = [NextRow(e) EXCEPT !.pos = 0, !.wrapped = TRUE]
    OBVIOUS
  <2>3. /\ f = Made(e.line, 0, BlankRow, 0, e.rows, e.wrapped, e.over, e.on)
        /\ g = Made(e.line, 0, BlankRow, 0, e.rows, TRUE, e.over, e.on)
    BY <1>1, <2>1, <2>2, NextRowFacts
  <2>4. Ready(p, f) /\ Ready(p, g)
    BY <1>2, <1>3, <2>3
  <2>5. QED
    BY <2>1, <2>2, <2>4

\* one that breaks a full line and goes on in the next row,
LEMMA BrokenAfter ==
  ASSUME NEW p \in Editors, NEW e, Ready(p, e), NEW c \in Printable, p.full = "break"
  PROVE  After(p, c, Broken(e, c))
<1>1. e.pos \in Int /\ e.pos >= 0 /\ Top(p) = Width /\ Width \in Nat /\ Width > 0
  <2>1. Top(p) = Width
    BY DEF Top
  <2>2. Width \in Nat /\ Width > 0
    BY SizeFacts
  <2>3. e.pos \in Int /\ ~(e.pos < 0)
    BY ReadyFacts
  <2>4. QED
    BY <2>1, <2>2, <2>3
<1>2. CASE e.pos < Width
  <2>1. Broken(e, c) = Stored(e, c)
    BY <1>2 DEF Broken
  <2>2. QED
    BY <1>1, <1>2, <2>1, StoredAfter
<1>3. CASE ~(e.pos < Width)
  <2>1. PICK f : f = [NextRow(e) EXCEPT !.pos = 0, !.wrapped = TRUE]
    OBVIOUS
  <2>2. f.pos = 0
    <3>1. e \in EditorState
      BY ReadyFacts
    <3>2. QED
      BY <2>1, <3>1, NextRowFacts DEF Made
  <2>3. Ready(p, f)
    BY <2>1, NextRowReady
  <2>4. Broken(e, c) = Stored(f, c)
    BY <1>3, <2>1 DEF Broken
  <2>5. QED
    BY <1>1, <2>2, <2>3, <2>4, StoredAfter
<1>4. QED
  BY <1>2, <1>3

\* A state that need not show its line.
LEMMA DishonestAfter ==
  ASSUME NEW p \in Editors, NEW k, NEW f \in EditorState,
         p.full \in {"screen", "next"}, f.pos <= Width, f.pos >= 0,
         f.rows > 0 => p.full = "next", f.over = FALSE,
         f.wrapped \/ f.rows > 0
  PROVE  After(p, k, f)
<1>1. ~Honest(p, f)
  BY EditorFacts DEF Honest
<1>2. Top(p) = Width
  BY DEF Top
<1>3. f.pos \in Int /\ ~(f.pos < 0) /\ ~f.over
  BY DEF EditorState
<1>4. Sound(p, f)
  BY <1>1, <1>2, <1>3 DEF Sound
<1>5. QED
  BY <1>4 DEF After

\* one that moves a word on the screen only,
LEMMA OnScreenAfter ==
  ASSUME NEW p \in Editors, NEW e, Ready(p, e), NEW c \in Printable, p.full = "screen"
  PROVE  After(p, c, OnScreen(e, c))
<1>1. /\ e \in EditorState /\ e.pos \in Int /\ e.pos >= 0 /\ e.pos <= Width
      /\ Top(p) = Width /\ Width \in Nat /\ (e.rows > 0 => p.full = "next") /\ e.over = FALSE
  <2>1. Top(p) = Width
    BY DEF Top
  <2>2. Width \in Nat
    BY SizeFacts
  <2>3. /\ e \in EditorState /\ e.pos \in Int /\ ~(e.pos < 0) /\ e.pos <= Top(p)
        /\ (e.rows > 0 => p.full = "next") /\ e.over = FALSE
    BY ReadyFacts
  <2>4. QED
    BY <2>1, <2>2, <2>3
<1>2. CASE e.pos < Width
  <2>1. OnScreen(e, c) = Stored(e, c)
    BY <1>2 DEF OnScreen
  <2>2. QED
    BY <1>1, <1>2, <2>1, StoredAfter
<1>3. CASE ~(e.pos < Width)
  <2>1. PICK f : f = OnScreen(e, c)
    OBVIOUS
  <2>2. e.pos = Width
    BY <1>1, <1>3
  <2>3. /\ f \in EditorState /\ f.pos \in 0 .. Width /\ f.rows = e.rows
        /\ f.wrapped = TRUE /\ f.over = FALSE
    BY <1>1, <2>1, <2>2, OnScreenFacts
  <2>4. f.pos <= Width /\ f.pos >= 0 /\ (f.rows > 0 => p.full = "next")
    BY <1>1, <2>3
  <2>5. After(p, c, f)
    BY <2>3, <2>4, DishonestAfter
  <2>6. QED
    BY <2>1, <2>5
<1>4. QED
  BY <1>2, <1>3

\* and one that takes the last word to a fresh line.
LEMMA NextLineAfter ==
  ASSUME NEW p \in Editors, NEW e, Ready(p, e), NEW c \in Printable, p.full = "next"
  PROVE  After(p, c, NextLine(e, c))
<1>1. /\ e \in EditorState /\ e.pos \in Int /\ e.pos <= Width /\ Top(p) = Width
      /\ Width \in Nat /\ Width > 0 /\ Room > Width /\ Room \in Nat /\ e.over = FALSE
  <2>1. Top(p) = Width
    BY DEF Top
  <2>2. Width \in Nat /\ Width > 0 /\ Room > Width /\ Room \in Nat
    BY SizeFacts
  <2>3. e \in EditorState /\ e.pos \in Int /\ e.pos <= Top(p) /\ e.over = FALSE
    BY ReadyFacts
  <2>4. QED
    BY <2>1, <2>2, <2>3
<1>2. CASE e.pos < 0
  <2>1. Excused(p, e)
    BY <1>2 DEF Excused
  <2>2. NextLine(e, c) = [e EXCEPT !.over = TRUE, !.on = FALSE]
    BY <1>2 DEF NextLine
  <2>3. After(p, c, [e EXCEPT !.over = TRUE, !.on = FALSE])
    BY <2>1, StoppedAfter
  <2>4. QED
    BY <2>2, <2>3, Zenon
<1>3. CASE e.pos >= 0 /\ e.pos < Width
  <2>1. NextLine(e, c) = Stored(e, c)
    BY <1>1, <1>3 DEF NextLine
  <2>2. QED
    BY <1>1, <1>3, <2>1, StoredAfter
<1>4. CASE e.pos = Width
  <2>1. PICK f : f = NextLine(e, c)
    OBVIOUS
  <2>2. /\ f \in EditorState /\ f.pos \in 0 .. Width
        /\ f.wrapped = TRUE /\ f.over = FALSE
    BY <1>1, <1>4, <2>1, NextLineFacts
  <2>3. f.pos <= Width /\ f.pos >= 0
    BY <1>1, <2>2
  <2>4. After(p, c, f)
    BY <2>2, <2>3, DishonestAfter
  <2>5. QED
    BY <2>1, <2>4
<1>5. QED
  BY <1>1, <1>2, <1>3, <1>4

\* KILL empties the line, and the columns of its row.
LEMMA KillAfter ==
  ASSUME NEW p \in Editors, NEW e, Ready(p, e), NEW k
  PROVE  After(p, k, DoKill(p, e))
<1>1. /\ e \in EditorState /\ e.pos \in Int /\ (e.pos < 0 => p.full = "next")
      /\ e.over = FALSE /\ e.on = TRUE /\ e.pos <= Top(p) /\ (Honest(p, e) => RowShows(e))
      /\ Width \in Nat
  BY ReadyFacts, SizeFacts
<1>2. CASE p.full # "next"
  <2>1. 0 \in 0 .. e.pos
    BY <1>1, <1>2
  <2>2. DoKill(p, e) = Shortened(e, 0)
    BY <1>2 DEF DoKill
  <2>3. QED
    BY <2>1, <2>2, ShortenedAfter
<1>3. CASE p.full = "next"
  <2>1. PICK row : row = [i \in Glyphs |-> IF i < Width THEN Blank ELSE e.row[i]]
    OBVIOUS
  <2>2. PICK text : text = EmptyEditor.line
    OBVIOUS
  <2>3. text \in [Bytes -> Cells]
    BY <2>2, BlankFacts DEF Made
  <2>4. /\ e.row \in [Glyphs -> Cells] /\ e.rows \in Nat
        /\ e.wrapped \in BOOLEAN /\ e.over \in BOOLEAN /\ e.on \in BOOLEAN
    BY <1>1, StateIsMade
  <2>5. row \in [Glyphs -> Cells]
    BY <2>1, <2>4, BlankFacts
  <2>6. PICK f : f = [e EXCEPT !.pos = 0, !.col = 0, !.line = text, !.row = row]
    OBVIOUS
  <2>7. DoKill(p, e) = f
    BY <1>3, <2>1, <2>2, <2>6 DEF DoKill
  <2>8. f = Made(text, 0, row, 0, e.rows, e.wrapped, e.over, e.on)
    BY <1>1, <2>6 DEF EditorState, Made
  <2>9. f \in EditorState
    BY <2>3, <2>4, <2>5, <2>8 DEF EditorState, Made
  <2>10. /\ f.pos = 0 /\ f.row = row /\ f.col = 0 /\ f.rows = e.rows
         /\ f.wrapped = e.wrapped /\ f.over = FALSE
    BY <1>1, <2>8 DEF Made
  <2>11. Honest(p, f) <=> Honest(p, e)
    BY <2>10 DEF Honest
  <2>12. ASSUME RowShows(e) PROVE RowShows(f)
    <3>1. ASSUME NEW i \in Glyphs PROVE f.row[i] = Blank /\ ~(i < 0)
      <4>1. e.row[i] = IF i < e.pos THEN e.line[i] ELSE Blank
        BY <2>12 DEF RowShows
      <4>2. i \in Nat
        BY SizeFacts
      <4>3. Top(p) = Width
        BY <1>3 DEF Top
      <4>4. CASE i < Width
        BY <2>1, <2>10, <4>2, <4>4
      <4>5. CASE ~(i < Width)
        <5>1. ~(i < e.pos)
          BY <1>1, <4>2, <4>3, <4>5
        <5>2. QED
          BY <2>1, <2>10, <4>1, <4>2, <4>5, <5>1
      <4>6. QED
        BY <4>4, <4>5
    <3>2. QED
      BY <2>10, <3>1 DEF RowShows
  <2>13. Top(p) = Width /\ 0 <= Width
    BY <1>1, <1>3 DEF Top
  <2>14. Sound(p, f)
    BY <1>1, <1>3, <2>9, <2>10, <2>11, <2>12, <2>13 DEF Sound
  <2>15. QED
    BY <1>3, <2>7, <2>14 DEF After
<1>4. QED
  BY <1>2, <1>3

\* ERASE takes the last character from both.
LEMMA EraseAfter ==
  ASSUME NEW p \in Editors, NEW e, Ready(p, e), NEW k
  PROVE  After(p, k, DoErase(p, e))
<1>1. /\ e \in EditorState /\ e.pos \in Int /\ (e.pos < 0 => p.full = "next")
      /\ e.over = FALSE /\ e.on = TRUE /\ (Honest(p, e) => RowShows(e))
  BY ReadyFacts
<1>2. CASE e.pos > 0
  <2>1. DoErase(p, e) = Shortened(e, e.pos - 1)
    BY <1>1, <1>2 DEF DoErase
  <2>2. e.pos - 1 \in 0 .. e.pos
    BY <1>1, <1>2
  <2>3. QED
    BY <2>1, <2>2, ShortenedAfter
<1>3. CASE e.pos < 0
  <2>1. DoErase(p, e) = [e EXCEPT !.over = TRUE, !.on = FALSE]
    BY <1>1, <1>3 DEF DoErase
  <2>2. Excused(p, e)
    BY <1>1, <1>3 DEF Excused
  <2>3. QED
    BY <2>1, <2>2, StoppedAfter
<1>4. CASE e.pos = 0 /\ p.empty # "below"
  <2>1. DoErase(p, e) = e
    BY <1>4 DEF DoErase
  <2>2. QED
    BY <2>1, SameAfter
<1>5. CASE e.pos = 0 /\ p.empty = "below"
  <2>1. PICK h : h = Wiped(e, 1)
    OBVIOUS
  <2>2. PICK f : f = [h EXCEPT !.pos = -1]
    OBVIOUS
  <2>3. DoErase(p, e) = f
    BY <1>5, <2>1, <2>2 DEF DoErase
  <2>4. p.full = "next"
    BY <1>5, EditorFacts
  <2> DEFINE c == IF e.col - 1 > 0 THEN e.col - 1 ELSE 0
             row == [i \in Glyphs |-> IF i \in c .. e.col - 1 THEN Blank ELSE e.row[i]]
  <2>5. /\ c \in Nat /\ row \in [Glyphs -> Cells]
        /\ h = Made(e.line, e.pos, row, c, e.rows, e.wrapped, e.over, e.on)
    BY <1>1, <2>1, WipedFacts
  <2>6. ASSUME NEW i \in Glyphs
        PROVE  row[i] = IF i \in c .. e.col - 1 THEN Blank ELSE e.row[i]
    OBVIOUS
  <2>7. e.col = 0 => c = 0
    OBVIOUS
  <2> HIDE DEF c, row
  <2>8. f = Made(e.line, -1, row, c, e.rows, e.wrapped, e.over, e.on)
    BY <2>2, <2>5 DEF Made
  <2>9. /\ e.line \in [Bytes -> Cells] /\ e.rows \in Nat
        /\ e.wrapped \in BOOLEAN /\ e.over \in BOOLEAN /\ e.on \in BOOLEAN
    BY <1>1, StateIsMade
  <2>10. f \in EditorState
    BY <2>5, <2>8, <2>9 DEF EditorState, Made
  <2>11. /\ f.pos = -1 /\ f.row = row /\ f.col = c /\ f.rows = e.rows
         /\ f.wrapped = e.wrapped /\ f.over = FALSE
    BY <1>1, <2>8 DEF Made
  <2>12. Honest(p, f) <=> Honest(p, e)
    BY <2>11 DEF Honest
  <2>13. ASSUME RowShows(e) PROVE RowShows(f)
    <3>1. e.col = 0 /\ c = 0
      BY <1>5, <2>7, <2>13 DEF RowShows
    <3>2. ASSUME NEW i \in Glyphs PROVE f.row[i] = Blank /\ ~(i < -1)
      <4>1. i \in Nat
        BY SizeFacts
      <4>2. e.row[i] = Blank
        BY <1>5, <2>13, <4>1 DEF RowShows
      <4>3. QED
        BY <2>6, <2>11, <4>1, <4>2
    <3>3. QED
      BY <2>11, <3>1, <3>2 DEF RowShows
  <2>14. Top(p) \in Nat
    BY ReadyFacts
  <2>15. Sound(p, f)
    BY <1>1, <2>4, <2>10, <2>11, <2>12, <2>13, <2>14 DEF Sound
  <2>16. QED
    BY <2>3, <2>4, <2>15 DEF After
<1>6. QED
  BY <1>1, <1>2, <1>3, <1>4, <1>5

\* CTRL-W goes back to a byte of the line.
LEMMA WordBeginFacts ==
  ASSUME NEW p, NEW e, e.pos \in Nat
  PROVE  WordBegin(p, e) \in 0 .. e.pos
<1>1. CASE p.word = "blanks"
  <2>1. PICK b : b = Back(e, e.pos, {Blank})
    OBVIOUS
  <2>2. b \in 0 .. e.pos
    BY <2>1, BackFacts
  <2>3. b \in Nat
    BY <2>2
  <2>4. Back(e, b, NotBlank) \in 0 .. b
    BY <2>3, BackFacts
  <2>5. WordBegin(p, e) = Back(e, b, NotBlank)
    BY <1>1, <2>1 DEF WordBegin
  <2>6. QED
    BY <2>2, <2>3, <2>4, <2>5
<1>2. CASE p.word # "blanks"
  <2>1. PICK b : b = Back(e, e.pos, NotBlank)
    OBVIOUS
  <2>2. b \in 0 .. e.pos
    BY <2>1, BackFacts
  <2>3. b \in Nat
    BY <2>2
  <2>4. Back(e, b, {Blank}) \in 0 .. b
    BY <2>3, BackFacts
  <2>5. WordBegin(p, e) = Back(e, b, {Blank})
    BY <1>2, <2>1 DEF WordBegin
  <2>6. QED
    BY <2>2, <2>3, <2>4, <2>5
<1>3. QED
  BY <1>1, <1>2

\* CTRL-W takes the last word and the blanks its program takes with it from both.
LEMMA WordEraseAfter ==
  ASSUME NEW p \in Editors, NEW e, Ready(p, e), NEW k
  PROVE  After(p, k, DoWordErase(p, e))
<1>1. e.pos \in Int
  BY ReadyFacts
<1>2. CASE e.pos > 0
  <2>1. WordBegin(p, e) \in 0 .. e.pos
    BY <1>1, <1>2, WordBeginFacts
  <2>2. DoWordErase(p, e) = Shortened(e, WordBegin(p, e))
    BY <1>2 DEF DoWordErase
  <2>3. QED
    BY <2>1, <2>2, ShortenedAfter
<1>3. CASE ~(e.pos > 0)
  <2>1. DoWordErase(p, e) = e
    BY <1>3 DEF DoWordErase
  <2>2. QED
    BY <2>1, SameAfter
<1>4. QED
  BY <1>2, <1>3

\* A newline begins a new row, or a line in fresh memory on the same row.
LEMMA NewlineAfter ==
  ASSUME NEW p \in Editors, NEW e, Ready(p, e), NEW k
  PROVE  After(p, k, DoNewline(p, e))
<1>1. CASE p.newline = "row"
  <2>1. DoNewline(p, e) = [NextRow(e) EXCEPT !.pos = 0]
    BY <1>1 DEF DoNewline
  <2>2. PICK f : f = [NextRow(e) EXCEPT !.pos = 0]
    OBVIOUS
  <2>3. Ready(p, f)
    BY <2>2, NextRowReady
  <2>4. QED
    BY <2>1, <2>2, <2>3, SameAfter
<1>2. CASE p.newline = "count"
  <2>1. p.full = "next"
    BY <1>2, EditorFacts
  <2>2. e \in EditorState /\ e.over = FALSE
    BY ReadyFacts
  <2>3. /\ e.row \in [Glyphs -> Cells] /\ e.col \in Nat /\ e.rows \in Nat
        /\ e.wrapped \in BOOLEAN /\ e.over \in BOOLEAN /\ e.on \in BOOLEAN
    BY <2>2, StateIsMade
  <2>4. PICK n : n = Min({Rows, e.rows + 1})
    OBVIOUS
  <2>5. n \in Nat /\ n > 0
    <3>1. {Rows, e.rows + 1} \in SUBSET Nat /\ {Rows, e.rows + 1} # {}
      BY <2>3, SizeFacts
    <3>2. n \in {Rows, e.rows + 1}
      BY <2>4, <3>1, LeastElement
    <3>3. Rows \in Nat /\ Rows > 0
      BY SizeFacts
    <3>4. QED
      BY <2>3, <3>2, <3>3
  <2>6. PICK text : text = EmptyEditor.line
    OBVIOUS
  <2>7. text \in [Bytes -> Cells]
    BY <2>6, BlankFacts DEF Made
  <2>8. PICK f : f = [e EXCEPT !.pos = 0, !.rows = n, !.line = text]
    OBVIOUS
  <2>9. DoNewline(p, e) = f
    BY <1>2, <2>4, <2>6, <2>8 DEF DoNewline
  <2>10. f = Made(text, 0, e.row, e.col, n, e.wrapped, e.over, e.on)
    BY <2>2, <2>8 DEF EditorState, Made
  <2>11. f \in EditorState
    BY <2>3, <2>5, <2>7, <2>10 DEF EditorState, Made
  <2>12. f.pos = 0 /\ f.rows = n /\ f.over = FALSE
    BY <2>2, <2>10 DEF Made
  <2>13. f.pos <= Width /\ f.pos >= 0 /\ f.rows > 0
    BY <2>5, <2>12, SizeFacts
  <2>14. After(p, k, f)
    BY <2>1, <2>11, <2>12, <2>13, DishonestAfter
  <2>15. QED
    BY <2>9, <2>14
<1>3. CASE p.newline # "row" /\ p.newline # "count"
  <2>1. DoNewline(p, e) = e
    BY <1>3 DEF DoNewline
  <2>2. QED
    BY <2>1, SameAfter
<1>4. QED
  BY <1>1, <1>2, <1>3

\* A printable character is appended, or wraps the line, or rings.
LEMMA PrintableAfter ==
  ASSUME NEW p \in Editors, NEW e, Ready(p, e), NEW c \in Printable
  PROVE  After(p, c, DoPrintable(p, e, c))
<1>1. CASE p.full = "break"
  <2>1. DoPrintable(p, e, c) = Broken(e, c)
    BY <1>1 DEF DoPrintable
  <2>2. QED
    BY <1>1, <2>1, BrokenAfter
<1>2. CASE p.full = "screen"
  <2>1. DoPrintable(p, e, c) = OnScreen(e, c)
    BY <1>2 DEF DoPrintable
  <2>2. QED
    BY <1>2, <2>1, OnScreenAfter
<1>3. CASE p.full = "next"
  <2>1. DoPrintable(p, e, c) = NextLine(e, c)
    BY <1>3 DEF DoPrintable
  <2>2. QED
    BY <1>3, <2>1, NextLineAfter
<1>4. CASE p.full = "word" /\ e.pos = Room
  <2>1. DoPrintable(p, e, c) = [e EXCEPT !.over = TRUE, !.on = FALSE]
    BY <1>4 DEF DoPrintable
  <2>2. Room - 1 \in Width .. e.pos - 1
    BY <1>4, SizeFacts
  <2>3. e.line[Room - 1] = Blank
    BY <1>4, <2>2 DEF Ready, BlanksBelow
  <2>4. Excused(p, e)
    BY <1>4, <2>3 DEF Excused
  <2>5. After(p, c, [e EXCEPT !.over = TRUE, !.on = FALSE])
    BY <2>4, StoppedAfter
  <2>6. QED
    BY <2>1, <2>5, Zenon
<1>5. CASE p.full = "word" /\ e.pos # Room
  <2>1. DoPrintable(p, e, c) = Stored(e, c)
    BY <1>5 DEF DoPrintable
  <2>2. Top(p) = Room
    BY <1>5 DEF Top
  <2>3. e.pos \in Int /\ ~(e.pos < 0) /\ e.pos <= Top(p) /\ Top(p) \in Nat
    BY <1>5, ReadyFacts
  <2>4. e.pos >= 0 /\ e.pos < Top(p)
    BY <1>5, <2>2, <2>3
  <2>5. QED
    BY <2>1, <2>4, StoredAfter
<1>6. QED
  BY <1>1, <1>2, <1>3, <1>4, <1>5, EditorFacts

\* The kinds of keys are different.
LEMMA KeyFacts ==
  /\ Erase \notin Printable /\ Kill \notin Printable /\ WordErase \notin Printable
  /\ Enter \notin Printable /\ EndOfFile \notin Printable
  /\ Blank \in Printable
  /\ Erase # Kill /\ Erase # WordErase /\ Erase # Enter /\ Erase # EndOfFile
  /\ Kill # WordErase /\ Kill # Enter /\ Kill # EndOfFile
  /\ WordErase # Enter /\ WordErase # EndOfFile /\ Enter # EndOfFile
<1>1. /\ Erase # Blank /\ Kill # Blank /\ WordErase # Blank
      /\ Enter # Blank /\ EndOfFile # Blank
      /\ Erase # Kill /\ Erase # WordErase /\ Erase # Enter /\ Erase # EndOfFile
      /\ Kill # WordErase /\ Kill # Enter /\ Kill # EndOfFile
      /\ WordErase # Enter /\ WordErase # EndOfFile /\ Enter # EndOfFile
  BY Zenon DEF Erase, Kill, WordErase, Enter, EndOfFile, Blank
<1>2. QED
  BY <1>1, LettersAssumption DEF Printable

\* So every key leaves a sound state.
LEMMA EditedAfter ==
  ASSUME NEW p \in Editors, NEW e, Ready(p, e), NEW k \in Key
  PROVE  After(p, k, Edited(p, e, k))
<1>1. CASE k \in Printable
  <2>1. Edited(p, e, k) = DoPrintable(p, e, k)
    BY <1>1, KeyFacts DEF Edited
  <2>2. QED
    BY <1>1, <2>1, PrintableAfter
<1>2. CASE k = Erase
  <2>1. Edited(p, e, k) = DoErase(p, e)
    BY <1>2, KeyFacts DEF Edited
  <2>2. QED
    BY <2>1, EraseAfter
<1>3. CASE k = Kill
  <2>1. Edited(p, e, k) = DoKill(p, e)
    BY <1>3, KeyFacts DEF Edited
  <2>2. QED
    BY <2>1, KillAfter
<1>4. CASE k = WordErase
  <2>1. Edited(p, e, k) = DoWordErase(p, e)
    BY <1>4, KeyFacts DEF Edited
  <2>2. QED
    BY <2>1, WordEraseAfter
<1>5. CASE k = Enter
  <2>1. Edited(p, e, k) = DoNewline(p, e)
    BY <1>5, KeyFacts DEF Edited
  <2>2. QED
    BY <2>1, NewlineAfter
<1>6. CASE k = EndOfFile
  <2>1. Edited(p, e, k) = e
    BY <1>6, KeyFacts DEF Edited
  <2>2. QED
    BY <2>1, SameAfter
<1>7. QED
  BY <1>1, <1>2, <1>3, <1>4, <1>5, <1>6 DEF Key

\* Bytes behind the line, which are forgotten, are no part of it.
LEMMA ForgottenAfter ==
  ASSUME NEW p \in Editors, NEW k, NEW e, After(p, k, e)
  PROVE  After(p, k, Forgotten(e))
<1>1. /\ e \in EditorState /\ e.pos <= Top(p) /\ (e.pos < 0 => p.full = "next")
      /\ (e.rows > 0 => p.full = "next") /\ (e.over => ~e.on /\ Excused(p, e))
      /\ (Honest(p, e) => RowShows(e))
  BY DEF After, Sound
<1>2. e.pos \in Int /\ Top(p) \in Nat /\ Top(p) <= Room /\ Width \in Nat /\ Room \in Nat
  BY <1>1, SizeFacts DEF EditorState, Top
<1>3. e.pos <= Room
  BY <1>1, <1>2
<1>4. PICK g : g = Forgotten(e)
  OBVIOUS
<1>5. /\ g \in EditorState
      /\ g.pos = e.pos /\ g.rows = e.rows
      /\ g.wrapped = e.wrapped /\ g.over = e.over /\ g.on = e.on
      /\ \A i \in Bytes : i < e.pos => g.line[i] = e.line[i]
      /\ RowShows(e) => RowShows(g)
  BY <1>1, <1>3, <1>4, ForgottenFacts
<1>6. Honest(p, g) <=> Honest(p, e)
  BY <1>5 DEF Honest
<1>7. Excused(p, e) => Excused(p, g)
  <2>1. ASSUME e.pos = Room PROVE g.line[Room - 1] = e.line[Room - 1]
    <3>1. Room - 1 \in Bytes /\ Room - 1 < e.pos
      BY <2>1, SizeFacts
    <3>2. QED
      BY <1>5, <3>1
  <2>2. QED
    BY <1>5, <2>1 DEF Excused
<1>8. Sound(p, g)
  BY <1>1, <1>5, <1>6, <1>7 DEF Sound
<1>9. ASSUME NEW n \in Int, n <= e.pos, BlanksBelow(e, n)
      PROVE  BlanksBelow(g, n)
  <2>1. ASSUME NEW i \in Width .. n - 1 PROVE g.line[i] = Blank
    <3>1. i \in Bytes /\ i < e.pos
      BY <1>2, <1>3, <1>9, SizeFacts
    <3>2. e.line[i] = Blank
      BY <1>9 DEF BlanksBelow
    <3>3. QED
      BY <1>5, <3>1, <3>2
  <2>2. QED
    BY <2>1 DEF BlanksBelow
<1>10. /\ BlanksBelow(e, e.pos) => BlanksBelow(g, g.pos)
       /\ BlanksBelow(e, e.pos - 1) => BlanksBelow(g, g.pos - 1)
  <2>1. e.pos - 1 \in Int /\ e.pos - 1 <= e.pos /\ e.pos <= e.pos
    BY <1>2
  <2>2. QED
    BY <1>2, <1>5, <1>9, <2>1
<1>11. QED
  BY <1>4, <1>5, <1>8, <1>10 DEF After

\* A word that moves to the next row fits into it: there are blanks between it
\* and the end of the row, or it is short.
LEMMA WordMovedFacts ==
  ASSUME NEW p \in Editors, NEW k, NEW e, After(p, k, e), p.full = "word", e.on
  PROVE  LET f == WordMoved(e, k)
         IN  Sound(p, f) /\ BlanksBelow(f, f.pos)
<1>1. /\ e \in EditorState /\ e.pos <= Room /\ ~(e.pos < 0)
      /\ ~(e.rows > 0) /\ ~e.over
      /\ BlanksBelow(e, e.pos - 1) /\ (k = Blank => BlanksBelow(e, e.pos))
      /\ Sound(p, e)
  BY DEF After, Sound, Top
<1>2. e.pos \in Nat /\ Width \in Nat /\ Width > 0 /\ Room \in Nat /\ Room > Width
  BY <1>1, SizeFacts DEF EditorState
<1>3. CASE e.pos < Width \/ k = Blank
  <2>1. WordMoved(e, k) = e
    BY <1>3 DEF WordMoved
  <2>2. e.pos < Width => Width .. e.pos - 1 = {}
    BY <1>2
  <2>3. BlanksBelow(e, e.pos)
    BY <1>1, <1>3, <2>2 DEF BlanksBelow
  <2>4. QED
    BY <1>1, <2>1, <2>3
<1>4. CASE ~(e.pos < Width) /\ k # Blank
  <2>1. PICK b : b = Back(e, e.pos, NotBlank)
    OBVIOUS
  <2>2. PICK w : w = IF b > 0 THEN Word(e) ELSE <<>>
    OBVIOUS
  <2>3. b \in 0 .. e.pos /\ \A i \in b .. e.pos - 1 : e.line[i] \in NotBlank
    BY <1>2, <2>1, BackFacts
  <2>4. w \in Seq(Cells) /\ Len(w) \in Nat /\ Len(w) <= Width
    <3>1. e.pos \in 0 .. Room
      BY <1>1, <1>2
    <3>2. Word(e) \in Seq(Cells) /\ Len(Word(e)) = e.pos - b
      BY <1>1, <2>1, <3>1, WordFacts
    <3>3. CASE b > 0 /\ e.pos <= Width + 1
      BY <1>2, <2>2, <2>3, <3>2, <3>3
    <3>4. CASE b > 0 /\ e.pos > Width + 1
      <4>1. e.pos - 2 \in Width .. (e.pos - 1) - 1
        BY <1>2, <3>4
      <4>2. e.line[e.pos - 2] = Blank
        BY <1>1, <4>1 DEF BlanksBelow
      <4>3. e.pos - 2 \notin b .. e.pos - 1
        BY <2>3, <4>2, BlankFacts
      <4>4. e.pos - b <= 1
        BY <1>2, <2>3, <3>4, <4>3
      <4>5. QED
        BY <1>2, <2>2, <2>3, <3>2, <3>4, <4>4
    <3>5. CASE ~(b > 0)
      <4>1. w = <<>>
        BY <2>2, <3>5
      <4>2. QED
        BY <1>2, <4>1
    <3>6. QED
      BY <1>2, <3>3, <3>4, <3>5
  <2>5. PICK row : row = RowOf(w)
    OBVIOUS
  <2>6. PICK text : text = LineOf(w, e.line)
    OBVIOUS
  <2>7. PICK f : f = WordMoved(e, k)
    OBVIOUS
  <2>8. /\ f \in EditorState
        /\ f = Made(text, Len(w), row, Len(w), e.rows, TRUE, e.over, e.on)
    <3>1. e.pos \in Width .. Room
      BY <1>1, <1>2, <1>4
    <3>2. w = Moved(e)
      BY <2>1, <2>2 DEF Moved
    <3>3. QED
      BY <1>1, <1>4, <2>5, <2>6, <2>7, <3>1, <3>2, WordMovedMade
  <2>9. ASSUME NEW i \in Glyphs
        PROVE  row[i] = IF i < Len(w) THEN text[i] ELSE Blank
    <3>1. i < Len(w) => i \in Bytes
      BY <1>2, <2>4, SizeFacts
    <3>2. QED
      BY <2>5, <2>6, <3>1 DEF RowOf, LineOf
  <2>10. f \in EditorState
    BY <2>8
  <2>11. /\ f.pos = Len(w) /\ f.line = text /\ f.row = row /\ f.col = Len(w)
         /\ f.rows = e.rows /\ f.over = e.over
    BY <2>8 DEF Made
  <2>12. RowShows(f)
    BY <2>4, <2>9, <2>11 DEF RowShows
  <2>13. Top(p) = Room
    BY DEF Top
  <2>14. Sound(p, f)
    BY <1>1, <1>2, <2>4, <2>10, <2>11, <2>12, <2>13 DEF Sound
  <2>15. BlanksBelow(f, f.pos)
    <3>1. Width .. Len(w) - 1 = {}
      BY <1>2, <2>4
    <3>2. QED
      BY <2>11, <3>1 DEF BlanksBelow
  <2>16. QED
    BY <2>7, <2>14, <2>15
<1>5. QED
  BY <1>3, <1>4

-----------------------------------------------------------------------------
\* Every step of the editor keeps line and row alike.
LEMMA EditKeepsSound ==
  ASSUME EditorInv, Edit
  PROVE  /\ Sound(editor, ed')
         /\ editor.full = "word" => BlanksBelow(ed', ed'.pos)
<1> DEFINE k == Head(ahead)
           g == Forgotten(Edited(editor, ed, k))
<1>1. editor \in Editors /\ k \in Key /\ Ready(editor, ed)
  <2>1. editor \in Editors /\ Sound(editor, ed) /\ ed.on
    BY DEF EditorInv, Edit
  <2>2. ahead \in Seq(Key) /\ ahead # <<>>
    BY DEF EditorInv, Edit
  <2>3. k \in Key
    BY <2>2, HeadTailProperties
  <2>4. QED
    BY <2>1, <2>3 DEF EditorInv, Ready
<1>2. ed' = IF Leaves(editor, ed, k) THEN [ed EXCEPT !.on = FALSE]
            ELSE IF ed.rows = Rows /\ Uses(ed, k) THEN [ed EXCEPT !.over = TRUE, !.on = FALSE]
            ELSE IF editor.full = "word" /\ g.on THEN WordMoved(g, k) ELSE g
  BY DEF Edit
<1> HIDE DEF k
<1>3. After(editor, k, g)
  BY <1>1, EditedAfter, ForgottenAfter
<1> HIDE DEF g
<1>4. CASE Leaves(editor, ed, k)
  <2>1. ed' = [ed EXCEPT !.on = FALSE]
    BY <1>2, <1>4
  <2>2. /\ ed \in EditorState /\ ed.pos <= Top(editor) /\ (ed.pos < 0 => editor.full = "next")
        /\ (ed.rows > 0 => editor.full = "next") /\ ed.over = FALSE
        /\ (Honest(editor, ed) => RowShows(ed))
    BY <1>1, ReadyFacts
  <2>3. PICK f : f = [ed EXCEPT !.on = FALSE]
    OBVIOUS
  <2>4. f = Made(ed.line, ed.pos, ed.row, ed.col, ed.rows, ed.wrapped, ed.over, FALSE)
    BY <2>2, <2>3 DEF EditorState, Made
  <2>5. /\ ed.line \in [Bytes -> Cells] /\ ed.pos \in Int /\ ed.row \in [Glyphs -> Cells]
        /\ ed.col \in Nat /\ ed.rows \in Nat /\ ed.wrapped \in BOOLEAN /\ ed.over \in BOOLEAN
    BY <2>2, StateIsMade
  <2>6. f \in EditorState
    BY <2>4, <2>5 DEF EditorState, Made
  <2>7. /\ f.line = ed.line /\ f.pos = ed.pos /\ f.row = ed.row /\ f.col = ed.col
        /\ f.rows = ed.rows /\ f.wrapped = ed.wrapped /\ f.over = ed.over
    BY <2>4 DEF Made
  <2>8. (Honest(editor, f) <=> Honest(editor, ed)) /\ (RowShows(f) <=> RowShows(ed))
    BY <2>7 DEF Honest, RowShows
  <2>9. Sound(editor, f)
    BY <2>2, <2>6, <2>7, <2>8 DEF Sound
  <2>10. editor.full = "word" => BlanksBelow(f, f.pos)
    BY <1>1, <2>7 DEF Ready, BlanksBelow
  <2>11. QED
    BY <2>1, <2>3, <2>9, <2>10
<1>5. CASE ~Leaves(editor, ed, k) /\ ed.rows = Rows /\ Uses(ed, k)
  <2>1. PICK f : f = [ed EXCEPT !.over = TRUE, !.on = FALSE]
    OBVIOUS
  <2>2. ed' = f
    BY <1>2, <1>5, <2>1
  <2>3. ed.rows > 0
    BY <1>5, SizeFacts
  <2>4. editor.full = "next"
    BY <1>1, <2>3, ReadyFacts
  <2>5. Excused(editor, ed)
    BY <1>5, <2>4 DEF Excused
  <2>6. After(editor, k, f)
    BY <1>1, <2>1, <2>5, StoppedAfter
  <2>7. QED
    BY <2>2, <2>4, <2>6 DEF After
<1>6. CASE /\ ~Leaves(editor, ed, k) /\ ~(ed.rows = Rows /\ Uses(ed, k))
           /\ editor.full = "word" /\ g.on
  <2>1. PICK f : f = WordMoved(g, k)
    OBVIOUS
  <2>2. ed' = f
    BY <1>2, <1>6, <2>1
  <2>3. Sound(editor, f) /\ BlanksBelow(f, f.pos)
    BY <1>1, <1>3, <1>6, <2>1, WordMovedFacts
  <2>4. QED
    BY <2>2, <2>3
<1>7. CASE /\ ~Leaves(editor, ed, k) /\ ~(ed.rows = Rows /\ Uses(ed, k))
           /\ ~(editor.full = "word" /\ g.on)
  <2>1. ed' = g
    BY <1>2, <1>7
  <2>2. QED
    BY <1>3, <1>7, <2>1 DEF After
<1>8. QED
  BY <1>4, <1>5, <1>6, <1>7

\* LineEditor, all nine programs: the line and the row agree after every key,
\* the length stays within the columns of the program, blanks only stand behind
\* them in I.Trushkin's, and a write outside the array has one of the known
\* reasons.
THEOREM EditorInductive == EditorSpec => []EditorInv
<1>1. EditorInit => EditorInv
  <2> SUFFICES ASSUME EditorInit PROVE EditorInv
    OBVIOUS
  <2>1. editor \in Editors /\ ahead \in Seq(Key)
    BY DEF EditorInit
  <2>2. ed = Made(FreshLine, 0, BlankRow, 0, 0, FALSE, FALSE, TRUE)
    BY BlankFacts DEF EditorInit
  <2>3. ed \in EditorState
    BY <2>2, BlankFacts DEF EditorState, Made
  <2>4. /\ ed.pos = 0 /\ ed.row = BlankRow /\ ed.col = 0 /\ ed.rows = 0
        /\ ed.over = FALSE
    BY <2>2 DEF Made
  <2>5. RowShows(ed)
    <3>1. \A i \in Glyphs : ~(i < 0)
      BY SizeFacts
    <3>2. QED
      BY <2>4, <3>1 DEF RowShows, BlankRow
  <2>6. 0 <= Top(editor)
    BY SizeFacts DEF Top
  <2>7. Sound(editor, ed)
    BY <2>3, <2>4, <2>5, <2>6 DEF Sound
  <2>8. BlanksBelow(ed, ed.pos)
    <3>1. Width .. 0 - 1 = {}
      BY SizeFacts
    <3>2. QED
      BY <2>4, <3>1 DEF BlanksBelow
  <2>9. QED
    BY <2>1, <2>7, <2>8 DEF EditorInv
<1>2. EditorInv /\ [EditorNext]_editorVars => EditorInv'
  <2> SUFFICES ASSUME EditorInv, [EditorNext]_editorVars PROVE EditorInv'
    OBVIOUS
  <2>1. CASE TypeKey
    <3>1. ahead' \in Seq(Key)
      BY <2>1, AppendProperties DEF EditorInv, TypeKey
    <3>2. QED
      BY <2>1, <3>1 DEF EditorInv, TypeKey, Sound, Honest, RowShows, Excused, Top, BlanksBelow
  <2>2. CASE Edit
    <3>1. Sound(editor, ed') /\ (editor.full = "word" => BlanksBelow(ed', ed'.pos))
      BY <2>2, EditKeepsSound
    <3>2. ahead' \in Seq(Key)
      BY <2>2, HeadTailProperties DEF EditorInv, Edit
    <3>3. editor' = editor
      BY <2>2 DEF Edit
    <3>4. editor' \in Editors
      BY <3>3 DEF EditorInv
    <3> QED
      BY <3>1, <3>2, <3>3, <3>4 DEF EditorInv, Sound, Honest, RowShows, Excused, Top, BlanksBelow
  <2>3. CASE UNCHANGED editorVars
    BY <2>3 DEF editorVars, EditorInv, Sound, Honest, RowShows, Excused, Top, BlanksBelow
  <2>4. QED
    BY <2>1, <2>2, <2>3 DEF EditorNext
<1>3. QED
  BY <1>1, <1>2, PTL DEF EditorSpec

\* The row shows the line with the cursor behind it, for as long as the program
\* never moved a word on the screen only (Y.komarevtsev, mChelbaev, m.tsyrenov)
\* nor counted a newline that it does not show (m.tsyrenov).
THEOREM RowShowsLine == EditorSpec => []ScreenIsLine
<1>1. EditorInv => ScreenIsLine
  <2> SUFFICES ASSUME EditorInv, Honest(editor, ed) PROVE /\ ed.col = Max({0, ed.pos})
        /\ \A i \in Glyphs : ed.row[i] = IF i < ed.pos THEN ed.line[i] ELSE Blank
    BY DEF ScreenIsLine, Honest
  <2>1. RowShows(ed) /\ ed.pos \in Int
    BY DEF EditorInv, Sound, EditorState
  <2>2. Max({0, ed.pos}) = IF ed.pos > 0 THEN ed.pos ELSE 0
    BY <2>1, NotBelowZero
  <2>3. QED
    BY <2>1, <2>2 DEF RowShows
<1>2. QED
  BY <1>1, EditorInductive, PTL

\* No key writes outside the line's array, but for m.tsyrenov's program before
\* the first byte of an empty line or behind its last line, and I.Trushkin's
\* when a line of blanks reaches the end of the array.
THEOREM KeysStayInside == EditorSpec => []InsideLine
<1>1. EditorInv => InsideLine
  BY DEF EditorInv, Sound, Top, Excused, InsideLine
<1>2. QED
  BY <1>1, EditorInductive, PTL

-----------------------------------------------------------------------------
(****************************************************************************)
(* The letter just read. Where the row does not show the line, the cursor   *)
(* still has a column to put it in.                                         *)
(****************************************************************************)
Cursor(p, e) ==
  /\ e.rows <= Rows
  /\ p.full = "screen" => e.col = e.pos
  /\ p.full = "next" /\ e.rows < Rows => e.col <= e.rows * Width + (IF e.pos > 0 THEN e.pos ELSE 0)
  /\ p.full = "word" => \A i \in 0 .. e.pos - 1 : e.line[i] \in Printable

\* Memory that nobody has written holds no character.
LEMMA UnwrittenIsNoKey == Unwritten \notin Printable
<1>1. Unwritten # Blank
  BY Zenon DEF Unwritten, Blank
<1>2. QED
  BY <1>1, LettersAssumption DEF Printable

\* A stored letter ends both.
LEMMA StoredHolds ==
  ASSUME NEW e \in EditorState, NEW c \in Cells, e.pos \in Bytes, e.col \in Glyphs
  PROVE  RowEndsIn(Stored(e, c), c) /\ LineEndsIn(Stored(e, c), c)
<1>1. PICK f : f = Stored(e, c)
  OBVIOUS
<1>2. /\ f.pos = e.pos + 1 /\ f.col = e.col + 1
      /\ f.line = [e.line EXCEPT ![e.pos] = c] /\ f.row = [e.row EXCEPT ![e.col] = c]
  BY <1>1, StoredFacts
<1>3. e.line \in [Bytes -> Cells] /\ e.row \in [Glyphs -> Cells]
  BY StateIsMade
<1>4. e.pos \in Nat /\ e.col \in Nat
  BY SizeFacts
<1>5. f.pos > 0 /\ f.col > 0 /\ f.pos - 1 = e.pos /\ f.col - 1 = e.col
  BY <1>2, <1>4
<1>6. f.line[e.pos] = c /\ f.row[e.col] = c
  BY <1>2, <1>3
<1>7. QED
  BY <1>1, <1>5, <1>6 DEF RowEndsIn, LineEndsIn

\* What is forgotten stands behind the last byte.
LEMMA ForgottenHolds ==
  ASSUME NEW e \in EditorState, e.pos <= Room, NEW k
  PROVE  /\ RowEndsIn(Forgotten(e), k) <=> RowEndsIn(e, k)
         /\ LineEndsIn(e, k) => LineEndsIn(Forgotten(e), k)
<1>1. PICK g : g = Forgotten(e)
  OBVIOUS
<1>2. /\ g.pos = e.pos /\ g.row = e.row /\ g.col = e.col
      /\ \A i \in Bytes : i < e.pos => g.line[i] = e.line[i]
  BY <1>1, ForgottenFacts
<1>3. e.pos > 0 => e.pos - 1 \in Bytes /\ e.pos - 1 < e.pos
  <2>1. e.pos \in Int
    BY StateIsMade
  <2>2. QED
    BY <2>1, SizeFacts
<1>4. QED
  BY <1>1, <1>2, <1>3 DEF RowEndsIn, LineEndsIn

\* I.Trushkin's full line that ends in a letter: the last word becomes the
\* line, or nothing does, if the line is one word.
LEMMA WordMovedLetter ==
  ASSUME NEW e \in EditorState, e.pos \in Width .. Room, NEW k \in Letters,
         e.line[e.pos - 1] = k
  PROVE  LET f == WordMoved(e, k)
         IN  IF Back(e, e.pos, NotBlank) > 0
             THEN RowEndsIn(f, k) /\ LineEndsIn(f, k)
             ELSE f.pos = 0 /\ \A i \in 0 .. e.pos - 1 : e.line[i] \in NotBlank
<1>1. /\ Width \in Nat /\ Width > 0 /\ Room > Width /\ Room \in Nat /\ Columns \in Nat
      /\ Columns > Room /\ Bytes = 0 .. Room - 1
  BY SizeFacts
<1>2. e.pos \in Nat /\ e.pos \in 1 .. Room /\ ~(e.pos < Width) /\ k # Blank
  BY <1>1, LettersAssumption
<1>3. /\ Word(e) \in Seq(Cells) /\ Len(Word(e)) \in 1 .. e.pos
      /\ Word(e)[Len(Word(e))] = k
  BY <1>2, WordEndsIn
<1>4. PICK b : b = Back(e, e.pos, NotBlank)
  OBVIOUS
<1>5. b \in 0 .. e.pos /\ \A i \in b .. e.pos - 1 : e.line[i] \in NotBlank
  BY <1>2, <1>4, BackFacts
<1>6. PICK w : w = IF b > 0 THEN Word(e) ELSE <<>>
  OBVIOUS
<1>7. w = Moved(e)
  BY <1>4, <1>6 DEF Moved
<1>8. PICK row, text : row = RowOf(w) /\ text = LineOf(w, e.line)
  OBVIOUS
<1>9. PICK f : f = WordMoved(e, k)
  OBVIOUS
<1>10. f = Made(text, Len(w), row, Len(w), e.rows, TRUE, e.over, e.on)
  BY <1>2, <1>7, <1>8, <1>9, WordMovedMade
<1>11. f.line = text /\ f.pos = Len(w) /\ f.row = row /\ f.col = Len(w)
  BY <1>10 DEF Made
<1>12. ASSUME b > 0 PROVE RowEndsIn(f, k) /\ LineEndsIn(f, k)
  <2>1. w = Word(e) /\ Len(w) \in 1 .. Room /\ w[Len(w)] = k
    BY <1>1, <1>2, <1>3, <1>6, <1>12
  <2>2. RowEndsIn(f, k)
    <3>1. Len(w) \in 1 .. Columns
      BY <1>1, <2>1
    <3>2. QED
      BY <1>3, <1>8, <1>11, <2>1, <3>1, WrittenHolds DEF RowOf
  <2>3. PICK i : i = Len(w) - 1
    OBVIOUS
  <2>4. i \in Bytes /\ i < Len(w) /\ i + 1 = Len(w) /\ Len(w) > 0
    BY <1>1, <2>1, <2>3
  <2>5. text[i] = w[i + 1]
    BY <1>8, <2>4 DEF LineOf
  <2>6. LineEndsIn(f, k)
    BY <1>11, <2>1, <2>3, <2>4, <2>5 DEF LineEndsIn
  <2>7. QED
    BY <2>2, <2>6
<1>13. ASSUME ~(b > 0)
       PROVE  f.pos = 0 /\ \A i \in 0 .. e.pos - 1 : e.line[i] \in NotBlank
  <2>1. w = <<>> /\ b = 0
    BY <1>2, <1>5, <1>6, <1>13
  <2>2. f.pos = 0
    BY <1>11, <2>1
  <2>3. QED
    BY <1>5, <2>1, <2>2
<1>14. QED
  BY <1>4, <1>9, <1>12, <1>13

\* The bytes of a line that I.Trushkin's program moves were typed, if all were.
LEMMA WordMovedTyped ==
  ASSUME NEW e \in EditorState, e.pos \in 0 .. Room, NEW k,
         \A i \in 0 .. e.pos - 1 : e.line[i] \in Printable
  PROVE  LET f == WordMoved(e, k)
         IN  /\ f.rows = e.rows
             /\ \A i \in 0 .. f.pos - 1 : f.line[i] \in Printable
<1>1. /\ Width \in Nat /\ Room \in Nat /\ Bytes = 0 .. Room - 1 /\ e.pos \in Nat /\ e.pos <= Room
  BY SizeFacts
<1>2. CASE e.pos < Width \/ k = Blank
  <2>1. WordMoved(e, k) = e
    BY <1>2 DEF WordMoved
  <2>2. QED
    BY <2>1
<1>3. CASE ~(e.pos < Width \/ k = Blank)
  <2>1. PICK b : b = Back(e, e.pos, NotBlank)
    OBVIOUS
  <2>2. PICK w : w = IF b > 0 THEN Word(e) ELSE <<>>
    OBVIOUS
  <2>3. /\ b \in 0 .. e.pos
        /\ Word(e) \in Seq(Cells) /\ Len(Word(e)) = e.pos - b
        /\ \A i \in 0 .. e.pos - b - 1 : Word(e)[i + 1] = e.line[b + i]
    BY <2>1, WordFacts
  <2>4. w \in Seq(Cells) /\ Len(w) \in Nat /\ Len(w) <= e.pos
    BY <1>1, <2>2, <2>3
  <2>5. ASSUME NEW i \in 0 .. Len(w) - 1 PROVE w[i + 1] \in Printable
    <3>1. w = Word(e)
      BY <2>2, <2>5
    <3>2. i \in 0 .. e.pos - b - 1 /\ b + i \in 0 .. e.pos - 1
      BY <1>1, <2>3, <2>5, <3>1
    <3>3. w[i + 1] = e.line[b + i]
      BY <2>3, <3>1, <3>2
    <3>4. QED
      BY <3>2, <3>3
  <2>6. w = Moved(e)
    BY <2>1, <2>2 DEF Moved
  <2>7. PICK row, text : row = RowOf(w) /\ text = LineOf(w, e.line)
    OBVIOUS
  <2>8. PICK f : f = WordMoved(e, k)
    OBVIOUS
  <2>9. f.line = text /\ f.pos = Len(w) /\ f.rows = e.rows
    <3>1. e.pos \in Width .. Room
      BY <1>1, <1>3
    <3>2. f = Made(text, Len(w), row, Len(w), e.rows, TRUE, e.over, e.on)
      BY <1>3, <2>6, <2>7, <2>8, <3>1, WordMovedMade
    <3>3. QED
      BY <3>2 DEF Made
  <2>10. ASSUME NEW i \in 0 .. Len(w) - 1 PROVE text[i] \in Printable
    <3>1. i \in Bytes /\ i < Len(w)
      BY <1>1, <2>4
    <3>2. text[i] = w[i + 1]
      BY <2>7, <3>1 DEF LineOf
    <3>3. QED
      BY <2>5, <3>2
  <2>11. QED
    BY <2>8, <2>9, <2>10
<1>4. QED
  BY <1>2, <1>3

(****************************************************************************)
(* What the keys do to the cursor.                                          *)
(****************************************************************************)
\* At the beginning of a row it is where it should be,
LEMMA CursorHome ==
  ASSUME NEW p, NEW e, e.pos = 0, e.col = 0, e.rows \in Nat, e.rows <= Rows
  PROVE  Cursor(p, e)
<1>1. e.rows * Width >= 0 /\ e.rows * Width \in Nat
  BY SizeFacts
<1>2. 0 .. e.pos - 1 = {}
  OBVIOUS
<1>3. QED
  BY <1>1, <1>2 DEF Cursor

\* and nothing but the columns, the lengths and the bytes matters to it.
LEMMA CursorSame ==
  ASSUME NEW p, NEW e, NEW f, Cursor(p, e),
         f.pos = e.pos, f.col = e.col, f.rows = e.rows,
         \A i \in 0 .. e.pos - 1 : f.line[i] = e.line[i]
  PROVE  Cursor(p, f)
  BY DEF Cursor

\* A character moves the cursor with the line's end,
LEMMA CursorStored ==
  ASSUME NEW p, NEW e \in EditorState, Cursor(p, e), NEW c \in Printable, e.pos \in Bytes
  PROVE  Cursor(p, Stored(e, c))
<1>1. PICK f : f = Stored(e, c)
  OBVIOUS
<1>2. c \in Cells
  BY DEF Cells
<1>3. /\ f.pos = e.pos + 1 /\ f.col = e.col + 1 /\ f.rows = e.rows
      /\ f.line = [e.line EXCEPT ![e.pos] = c]
  BY <1>1, <1>2, StoredFacts
<1>4. /\ e.line \in [Bytes -> Cells] /\ e.col \in Nat /\ e.rows \in Nat
      /\ e.pos \in Nat /\ Width \in Nat /\ Bytes = 0 .. Room - 1 /\ Room \in Nat
  BY StateIsMade, SizeFacts
<1>5. PICK m : m = e.rows * Width
  OBVIOUS
<1>6. m \in Nat
  BY <1>4, <1>5
<1>7. ASSUME p.full = "next", f.rows < Rows
      PROVE  f.col <= m + (IF f.pos > 0 THEN f.pos ELSE 0)
  <2>1. e.col <= m + (IF e.pos > 0 THEN e.pos ELSE 0)
    BY <1>3, <1>5, <1>7 DEF Cursor
  <2>2. QED
    BY <1>3, <1>4, <1>6, <2>1
<1>8. ASSUME p.full = "word", NEW i \in 0 .. f.pos - 1 PROVE f.line[i] \in Printable
  <2>1. CASE i = e.pos
    BY <1>3, <1>4, <2>1
  <2>2. CASE i # e.pos
    <3>1. i \in 0 .. e.pos - 1 /\ i \in Bytes
      BY <1>3, <1>4, <1>8, <2>2
    <3>2. e.line[i] \in Printable
      BY <1>8, <3>1 DEF Cursor
    <3>3. QED
      BY <1>3, <1>4, <2>2, <3>1, <3>2
  <2>3. QED
    BY <2>1, <2>2
<1>9. p.full = "screen" => f.col = f.pos
  BY <1>3 DEF Cursor
<1>10. QED
  BY <1>1, <1>3, <1>5, <1>7, <1>8, <1>9 DEF Cursor

\* as does what is erased.
LEMMA CursorShortened ==
  ASSUME NEW p, NEW e \in EditorState, Cursor(p, e), NEW n \in 0 .. e.pos
  PROVE  Cursor(p, Shortened(e, n))
<1>1. PICK f : f = Shortened(e, n)
  OBVIOUS
<1>2. /\ f.pos = n /\ f.line = e.line /\ f.rows = e.rows
      /\ f.col = IF e.col - (e.pos - n) > 0 THEN e.col - (e.pos - n) ELSE 0
  BY <1>1, ShortenedFacts
<1>3. /\ e.col \in Nat /\ e.rows \in Nat /\ Width \in Nat
      /\ e.pos \in Nat /\ n \in Nat /\ n <= e.pos
  BY StateIsMade, SizeFacts
<1>4. PICK m : m = e.rows * Width
  OBVIOUS
<1>5. m \in Nat
  BY <1>3, <1>4
<1>6. ASSUME p.full = "next", f.rows < Rows
      PROVE  f.col <= m + (IF f.pos > 0 THEN f.pos ELSE 0)
  <2>1. e.col <= m + (IF e.pos > 0 THEN e.pos ELSE 0)
    BY <1>2, <1>4, <1>6 DEF Cursor
  <2>2. e.col <= m + e.pos
    BY <1>3, <2>1
  <2>3. f.col <= m + n
    BY <1>2, <1>3, <1>5, <2>2
  <2>4. QED
    BY <1>2, <1>3, <1>5, <2>3
<1>7. p.full = "screen" => f.col = f.pos
  <2>1. ASSUME e.col = e.pos PROVE f.col = n
    BY <1>2, <1>3, <2>1
  <2>2. QED
    BY <1>2, <2>1 DEF Cursor
<1>8. ASSUME p.full = "word", NEW i \in 0 .. f.pos - 1 PROVE f.line[i] \in Printable
  <2>1. i \in 0 .. e.pos - 1
    BY <1>2, <1>3, <1>8
  <2>2. QED
    BY <1>2, <1>8, <2>1 DEF Cursor
<1>9. QED
  BY <1>1, <1>2, <1>4, <1>6, <1>7, <1>8 DEF Cursor

\* A write outside the array leaves the cursor where it is.
LEMMA CursorStopped ==
  ASSUME NEW p, NEW e \in EditorState, Cursor(p, e)
  PROVE  Cursor(p, [e EXCEPT !.over = TRUE, !.on = FALSE])
<1>1. PICK f : f = [e EXCEPT !.over = TRUE, !.on = FALSE]
  OBVIOUS
<1>2. f = Made(e.line, e.pos, e.row, e.col, e.rows, e.wrapped, TRUE, FALSE)
  BY <1>1, StoppedFacts
<1>3. f.line = e.line /\ f.pos = e.pos /\ f.col = e.col /\ f.rows = e.rows
  BY <1>2 DEF Made
<1>4. QED
  BY <1>1, <1>3, CursorSame

\* A full line takes the cursor to the end of what is written again.
LEMMA CursorPrintable ==
  ASSUME NEW p \in Editors, NEW e, Ready(p, e), Cursor(p, e), NEW c \in Printable,
         e.rows # Rows
  PROVE  Cursor(p, DoPrintable(p, e, c))
<1>1. /\ e \in EditorState /\ e.pos \in Int /\ e.pos <= Top(p)
      /\ (e.pos < 0 => p.full = "next")
      /\ Width \in Nat /\ Width > 0 /\ Room > Width /\ Room \in Nat /\ Bytes = 0 .. Room - 1
  <2>1. Width \in Nat /\ Width > 0 /\ Room > Width /\ Room \in Nat /\ Bytes = 0 .. Room - 1
    BY SizeFacts
  <2>2. e \in EditorState /\ e.pos \in Int /\ e.pos <= Top(p) /\ (e.pos < 0 => p.full = "next")
    BY ReadyFacts
  <2>3. QED
    BY <2>1, <2>2
<1>2. CASE p.full = "break"
  <2>1. Top(p) = Width /\ DoPrintable(p, e, c) = Broken(e, c)
    BY <1>2 DEF Top, DoPrintable
  <2>2. CASE e.pos < Width
    <3>1. e.pos \in Bytes
      BY <1>1, <1>2, <2>2
    <3>2. Broken(e, c) = Stored(e, c)
      BY <2>2 DEF Broken
    <3>3. QED
      BY <1>1, <2>1, <3>1, <3>2, CursorStored
  <2>3. CASE ~(e.pos < Width)
    <3>1. PICK h : h = [NextRow(e) EXCEPT !.pos = 0, !.wrapped = TRUE]
      OBVIOUS
    <3>2. Broken(e, c) = Stored(h, c)
      BY <2>3, <3>1 DEF Broken
    <3>3. h = Made(e.line, 0, BlankRow, 0, e.rows, TRUE, e.over, e.on)
      BY <1>1, <3>1, NextRowFacts
    <3>4. h.pos = 0 /\ h.col = 0 /\ h.rows = e.rows
      BY <3>3 DEF Made
    <3>5. h \in EditorState
      BY <3>1, NextRowReady DEF Ready, Sound
    <3>6. Cursor(p, h)
      BY <1>1, <3>4, CursorHome, StateIsMade DEF Cursor
    <3>7. h.pos \in Bytes
      BY <1>1, <3>4
    <3>8. QED
      BY <2>1, <3>2, <3>5, <3>6, <3>7, CursorStored
  <2>4. QED
    BY <2>2, <2>3
<1>3. CASE p.full = "screen"
  <2>1. Top(p) = Width
    BY <1>3 DEF Top
  <2>2. DoPrintable(p, e, c) = OnScreen(e, c)
    BY <1>3 DEF DoPrintable
  <2>3. CASE e.pos < Width
    <3>1. e.pos \in Bytes
      BY <1>1, <1>3, <2>3
    <3>2. OnScreen(e, c) = Stored(e, c)
      BY <2>3 DEF OnScreen
    <3>3. QED
      BY <1>1, <2>2, <3>1, <3>2, CursorStored
  <2>4. CASE e.pos = Width
    <3>1. PICK f : f = OnScreen(e, c)
      OBVIOUS
    <3>2. f.pos = f.col /\ f.rows = e.rows
      BY <1>1, <2>4, <3>1, OnScreenFacts
    <3>3. QED
      BY <1>3, <2>2, <3>1, <3>2 DEF Cursor
  <2>5. QED
    BY <1>1, <2>1, <2>3, <2>4
<1>4. CASE p.full = "next"
  <2>1. Top(p) = Width
    BY <1>4 DEF Top
  <2>2. DoPrintable(p, e, c) = NextLine(e, c)
    BY <1>4 DEF DoPrintable
  <2>3. CASE e.pos < 0
    <3>1. NextLine(e, c) = [e EXCEPT !.over = TRUE, !.on = FALSE]
      BY <2>3 DEF NextLine
    <3>2. Cursor(p, [e EXCEPT !.over = TRUE, !.on = FALSE])
      BY <1>1, CursorStopped
    <3>3. QED
      BY <2>2, <3>1, <3>2, Zenon
  <2>4. CASE e.pos >= 0 /\ e.pos < Width
    <3>1. e.pos \in Bytes
      BY <1>1, <2>4
    <3>2. NextLine(e, c) = Stored(e, c)
      BY <1>1, <2>4 DEF NextLine
    <3>3. QED
      BY <1>1, <2>2, <3>1, <3>2, CursorStored
  <2>5. CASE e.pos = Width
    <3>1. PICK f : f = NextLine(e, c)
      OBVIOUS
    <3>2. /\ f \in EditorState /\ f.col <= f.rows * Width /\ f.pos \in 0 .. Width
          /\ f.rows = e.rows + 1
      BY <1>1, <2>5, <3>1, NextLineFacts
    <3>3. PICK m : m = f.rows * Width
      OBVIOUS
    <3>4. m \in Nat /\ f.col \in Nat /\ f.pos \in Int
      BY <1>1, <3>2, <3>3, StateIsMade
    <3>5. f.col <= m + (IF f.pos > 0 THEN f.pos ELSE 0)
      BY <3>2, <3>3, <3>4
    <3>6. f.rows <= Rows
      <4>1. e.rows <= Rows /\ e.rows \in Nat /\ Rows \in Nat
        BY <1>1, StateIsMade, SizeFacts DEF Cursor
      <4>2. QED
        BY <3>2, <4>1
    <3>7. QED
      BY <1>4, <2>2, <3>1, <3>3, <3>5, <3>6 DEF Cursor
  <2>6. QED
    BY <1>1, <2>1, <2>3, <2>4, <2>5
<1>5. CASE p.full = "word" /\ e.pos = Room
  <2>1. DoPrintable(p, e, c) = [e EXCEPT !.over = TRUE, !.on = FALSE]
    BY <1>5 DEF DoPrintable
  <2>2. Cursor(p, [e EXCEPT !.over = TRUE, !.on = FALSE])
    BY <1>1, CursorStopped
  <2>3. QED
    BY <2>1, <2>2, Zenon
<1>6. CASE p.full = "word" /\ e.pos # Room
  <2>1. DoPrintable(p, e, c) = Stored(e, c)
    BY <1>6 DEF DoPrintable
  <2>2. e.pos \in Bytes
    BY <1>1, <1>6 DEF Top
  <2>3. QED
    BY <1>1, <2>1, <2>2, CursorStored
<1>7. QED
  BY <1>2, <1>3, <1>4, <1>5, <1>6, EditorFacts

\* Every key keeps the cursor in bounds.
LEMMA CursorEdited ==
  ASSUME NEW p \in Editors, NEW e, Ready(p, e), Cursor(p, e), NEW k \in Key,
         ~(e.rows = Rows /\ Uses(e, k))
  PROVE  Cursor(p, Edited(p, e, k))
<1>1. /\ e \in EditorState /\ e.pos \in Int /\ (e.pos < 0 => p.full = "next")
      /\ e.col \in Nat /\ e.rows \in Nat /\ Width \in Nat
  BY ReadyFacts, SizeFacts, StateIsMade
<1>2. CASE k \in Printable
  <2>1. Edited(p, e, k) = DoPrintable(p, e, k)
    BY <1>2, KeyFacts DEF Edited
  <2>2. e.rows # Rows
    BY <1>2 DEF Uses
  <2>3. QED
    BY <1>2, <2>1, <2>2, CursorPrintable
<1>3. CASE k = Erase
  <2>1. Edited(p, e, k) = DoErase(p, e)
    BY <1>3, KeyFacts DEF Edited
  <2>2. CASE e.pos > 0
    <3>1. DoErase(p, e) = Shortened(e, e.pos - 1) /\ e.pos - 1 \in 0 .. e.pos
      BY <1>1, <2>2 DEF DoErase
    <3>2. QED
      BY <1>1, <2>1, <3>1, CursorShortened
  <2>3. CASE e.pos < 0
    <3>1. DoErase(p, e) = [e EXCEPT !.over = TRUE, !.on = FALSE]
      BY <1>1, <2>3 DEF DoErase
    <3>2. Cursor(p, [e EXCEPT !.over = TRUE, !.on = FALSE])
      BY <1>1, CursorStopped
    <3>3. QED
      BY <2>1, <3>1, <3>2
  <2>4. CASE e.pos = 0 /\ p.empty # "below"
    <3>1. DoErase(p, e) = e
      BY <2>4 DEF DoErase
    <3>2. QED
      BY <2>1, <3>1
  <2>5. CASE e.pos = 0 /\ p.empty = "below"
    <3>1. p.full = "next"
      BY <2>5, EditorFacts
    <3>2. PICK c : c = IF e.col - 1 > 0 THEN e.col - 1 ELSE 0
      OBVIOUS
    <3>3. PICK row : Wiped(e, 1) = Made(e.line, e.pos, row, c, e.rows, e.wrapped, e.over, e.on)
      BY <1>1, <3>2, WipedFacts
    <3>4. PICK h : h = Wiped(e, 1)
      OBVIOUS
    <3>5. h = Made(e.line, e.pos, row, c, e.rows, e.wrapped, e.over, e.on)
      BY <3>3, <3>4
    <3>6. PICK f : f = [h EXCEPT !.pos = -1]
      OBVIOUS
    <3>7. f = Made(e.line, -1, row, c, e.rows, e.wrapped, e.over, e.on)
      BY <3>5, <3>6 DEF Made
    <3>8. f.pos = -1 /\ f.col = c /\ f.rows = e.rows
      BY <3>7 DEF Made
    <3>9. DoErase(p, e) = f
      BY <2>5, <3>4, <3>6 DEF DoErase
    <3>10. c <= e.col
      BY <1>1, <3>2
    <3>11. e.rows < Rows => e.col <= e.rows * Width + 0
      BY <2>5, <3>1 DEF Cursor
    <3>12. PICK m : m = e.rows * Width
      OBVIOUS
    <3>13. m \in Nat /\ c \in Nat
      BY <1>1, <3>2, <3>12
    <3>14. e.rows < Rows => c <= m + 0
      BY <1>1, <3>10, <3>11, <3>12, <3>13
    <3>15. QED
      BY <2>1, <3>1, <3>8, <3>9, <3>12, <3>14 DEF Cursor
  <2>6. QED
    BY <1>1, <2>2, <2>3, <2>4, <2>5
<1>4. CASE k = Kill
  <2>1. Edited(p, e, k) = DoKill(p, e)
    BY <1>4, KeyFacts DEF Edited
  <2>2. CASE p.full # "next"
    <3>1. DoKill(p, e) = Shortened(e, 0) /\ 0 \in 0 .. e.pos
      BY <1>1, <2>2 DEF DoKill
    <3>2. QED
      BY <1>1, <2>1, <3>1, CursorShortened
  <2>3. CASE p.full = "next"
    <3>1. PICK row : row = [i \in Glyphs |-> IF i < Width THEN Blank ELSE e.row[i]]
      OBVIOUS
    <3>2. PICK text : text = EmptyEditor.line
      OBVIOUS
    <3>3. PICK f : f = [e EXCEPT !.pos = 0, !.col = 0, !.line = text, !.row = row]
      OBVIOUS
    <3>4. DoKill(p, e) = f
      BY <2>3, <3>1, <3>2, <3>3 DEF DoKill
    <3>5. f = Made(text, 0, row, 0, e.rows, e.wrapped, e.over, e.on)
      BY <1>1, <3>3 DEF EditorState, Made
    <3>6. f.pos = 0 /\ f.col = 0 /\ f.rows = e.rows
      BY <3>5 DEF Made
    <3>7. QED
      BY <1>1, <2>1, <3>4, <3>6, CursorHome DEF Cursor
  <2>4. QED
    BY <2>2, <2>3
<1>5. CASE k = WordErase
  <2>1. Edited(p, e, k) = DoWordErase(p, e)
    BY <1>5, KeyFacts DEF Edited
  <2>2. CASE e.pos > 0
    <3>1. WordBegin(p, e) \in 0 .. e.pos
      BY <1>1, <2>2, WordBeginFacts
    <3>2. DoWordErase(p, e) = Shortened(e, WordBegin(p, e))
      BY <2>2 DEF DoWordErase
    <3>3. QED
      BY <1>1, <2>1, <3>1, <3>2, CursorShortened
  <2>3. CASE ~(e.pos > 0)
    <3>1. DoWordErase(p, e) = e
      BY <2>3 DEF DoWordErase
    <3>2. QED
      BY <2>1, <3>1
  <2>4. QED
    BY <2>2, <2>3
<1>6. CASE k = Enter
  <2>1. Edited(p, e, k) = DoNewline(p, e)
    BY <1>6, KeyFacts DEF Edited
  <2>2. CASE p.newline = "row"
    <3>1. PICK f : f = [NextRow(e) EXCEPT !.pos = 0]
      OBVIOUS
    <3>2. f = Made(e.line, 0, BlankRow, 0, e.rows, e.wrapped, e.over, e.on)
      BY <1>1, <3>1, NextRowFacts
    <3>3. f.pos = 0 /\ f.col = 0 /\ f.rows = e.rows
      BY <3>2 DEF Made
    <3>4. DoNewline(p, e) = f
      BY <2>2, <3>1 DEF DoNewline
    <3>5. QED
      BY <1>1, <2>1, <3>3, <3>4, CursorHome DEF Cursor
  <2>3. CASE p.newline = "count"
    <3>1. p.full = "next"
      BY <2>3, EditorFacts
    <3>2. PICK n : n = Min({Rows, e.rows + 1})
      OBVIOUS
    <3>3. n \in {Rows, e.rows + 1} /\ n <= Rows
      <4>1. {Rows, e.rows + 1} \in SUBSET Nat /\ {Rows, e.rows + 1} # {}
        BY <1>1, SizeFacts
      <4>2. QED
        BY <3>2, <4>1, LeastElement
    <3>4. PICK text : text = EmptyEditor.line
      OBVIOUS
    <3>5. PICK f : f = [e EXCEPT !.pos = 0, !.rows = n, !.line = text]
      OBVIOUS
    <3>6. f = Made(text, 0, e.row, e.col, n, e.wrapped, e.over, e.on)
      BY <1>1, <3>5 DEF EditorState, Made
    <3>7. f.pos = 0 /\ f.col = e.col /\ f.rows = n
      BY <3>6 DEF Made
    <3>8. DoNewline(p, e) = f
      BY <2>3, <3>2, <3>4, <3>5 DEF DoNewline
    <3>9. ASSUME n < Rows PROVE e.col <= n * Width + 0
      <4>1. n = e.rows + 1 /\ e.rows < Rows /\ e.pos <= Width
        <5>1. Rows \in Nat
          BY SizeFacts
        <5>2. e.pos <= Top(p) /\ Top(p) = Width
          BY <3>1, ReadyFacts DEF Top
        <5>3. QED
          BY <1>1, <3>3, <3>9, <5>1, <5>2
      <4>2. e.col <= e.rows * Width + (IF e.pos > 0 THEN e.pos ELSE 0)
        BY <3>1, <4>1 DEF Cursor
      <4>3. n * Width = e.rows * Width + Width
        BY <1>1, <4>1
      <4>4. PICK m : m = e.rows * Width
        OBVIOUS
      <4>5. m \in Nat
        BY <1>1, <4>4
      <4>6. e.col <= m + Width
        BY <1>1, <4>1, <4>2, <4>4, <4>5
      <4>7. QED
        BY <1>1, <4>3, <4>4, <4>5, <4>6
    <3>10. QED
      BY <2>1, <3>1, <3>3, <3>7, <3>8, <3>9 DEF Cursor
  <2>4. CASE p.newline # "row" /\ p.newline # "count"
    <3>1. DoNewline(p, e) = e
      BY <2>4 DEF DoNewline
    <3>2. QED
      BY <2>1, <3>1
  <2>5. QED
    BY <2>2, <2>3, <2>4
<1>7. CASE k = EndOfFile
  <2>1. Edited(p, e, k) = e
    BY <1>7, KeyFacts DEF Edited
  <2>2. QED
    BY <2>1
<1>8. QED
  BY <1>2, <1>3, <1>4, <1>5, <1>6, <1>7 DEF Key

-----------------------------------------------------------------------------
\* What a step of the editor works on: a key that was typed, and a state.
LEMMA EditFacts ==
  ASSUME EditorInv, Edit
  PROVE  /\ editor \in Editors /\ key' \in Key /\ Ready(editor, ed)
         /\ LET g == Forgotten(Edited(editor, ed, key'))
            IN  /\ After(editor, key', g)
                /\ ed' = IF Leaves(editor, ed, key') THEN [ed EXCEPT !.on = FALSE]
                         ELSE IF ed.rows = Rows /\ Uses(ed, key')
                         THEN [ed EXCEPT !.over = TRUE, !.on = FALSE]
                         ELSE IF editor.full = "word" /\ g.on THEN WordMoved(g, key') ELSE g
<1>1. PICK k : k = Head(ahead)
  OBVIOUS
<1>2. editor \in Editors /\ Sound(editor, ed) /\ ed.on
  BY DEF EditorInv, Edit
<1>3. ahead \in Seq(Key) /\ ahead # <<>>
  BY DEF EditorInv, Edit
<1>4. k \in Key
  BY <1>1, <1>3, HeadTailProperties
<1>5. key' = k
  BY <1>1 DEF Edit
<1>6. Ready(editor, ed)
  BY <1>2 DEF EditorInv, Ready
<1>7. PICK g : g = Forgotten(Edited(editor, ed, k))
  OBVIOUS
<1>8. After(editor, k, g)
  BY <1>2, <1>4, <1>6, <1>7, EditedAfter, ForgottenAfter
<1>9. ed' = IF Leaves(editor, ed, k) THEN [ed EXCEPT !.on = FALSE]
            ELSE IF ed.rows = Rows /\ Uses(ed, k) THEN [ed EXCEPT !.over = TRUE, !.on = FALSE]
            ELSE IF editor.full = "word" /\ g.on THEN WordMoved(g, k) ELSE g
  BY <1>1, <1>7 DEF Edit
<1>10. QED
  BY <1>2, <1>4, <1>5, <1>6, <1>7, <1>8, <1>9

\* Forgetting what stands behind the line leaves the cursor.
LEMMA CursorForgotten ==
  ASSUME NEW p, NEW e \in EditorState, e.pos <= Room, Cursor(p, e)
  PROVE  Cursor(p, Forgotten(e))
<1>1. PICK g : g = Forgotten(e)
  OBVIOUS
<1>2. /\ g.pos = e.pos /\ g.rows = e.rows /\ g.col = e.col
      /\ \A i \in Bytes : i < e.pos => g.line[i] = e.line[i]
  BY <1>1, ForgottenFacts
<1>3. \A i \in 0 .. e.pos - 1 : i \in Bytes /\ i < e.pos
  <2>1. e.pos \in Int /\ Room \in Nat /\ Bytes = 0 .. Room - 1
    BY SizeFacts, StateIsMade
  <2>2. QED
    BY <2>1
<1>4. Cursor(p, g)
  BY <1>2, <1>3, CursorSame
<1>5. QED
  BY <1>1, <1>4

\* Every step keeps the cursor in bounds.
LEMMA EditKeepsCursor ==
  ASSUME EditorInv, Cursor(editor, ed), Edit
  PROVE  Cursor(editor, ed')
<1>1. PICK k : k = key'
  OBVIOUS
<1>2. PICK p : p = editor
  OBVIOUS
<1>3. PICK e : e = ed
  OBVIOUS
<1>4. PICK g : g = Forgotten(Edited(p, e, k))
  OBVIOUS
<1>5. /\ p \in Editors /\ k \in Key /\ Ready(p, e) /\ After(p, k, g)
      /\ ed' = IF Leaves(p, e, k) THEN [e EXCEPT !.on = FALSE]
               ELSE IF e.rows = Rows /\ Uses(e, k) THEN [e EXCEPT !.over = TRUE, !.on = FALSE]
               ELSE IF p.full = "word" /\ g.on THEN WordMoved(g, k) ELSE g
  BY <1>1, <1>2, <1>3, <1>4, EditFacts
<1>6. e \in EditorState /\ Cursor(p, e)
  BY <1>2, <1>3, <1>5, ReadyFacts
<1>7. ASSUME ~(e.rows = Rows /\ Uses(e, k)) PROVE Cursor(p, g)
  <2>1. Cursor(p, Edited(p, e, k))
    BY <1>5, <1>6, <1>7, CursorEdited
  <2>2. PICK h : h = Edited(p, e, k)
    OBVIOUS
  <2>3. After(p, k, h)
    BY <1>5, <2>2, EditedAfter
  <2>4. h \in EditorState /\ h.pos <= Top(p)
    BY <2>3 DEF After, Sound
  <2>5. h.pos \in Int /\ Top(p) <= Room /\ Top(p) \in Nat /\ Room \in Nat
    BY <1>5, <2>4, ReadyFacts, StateIsMade, SizeFacts
  <2>6. h.pos <= Room
    BY <2>4, <2>5
  <2>7. QED
    BY <1>4, <2>1, <2>2, <2>4, <2>6, CursorForgotten
<1>8. CASE Leaves(p, e, k)
  <2>1. PICK f : f = [e EXCEPT !.on = FALSE]
    OBVIOUS
  <2>2. f = Made(e.line, e.pos, e.row, e.col, e.rows, e.wrapped, e.over, FALSE)
    BY <1>6, <2>1 DEF EditorState, Made
  <2>3. f.line = e.line /\ f.pos = e.pos /\ f.col = e.col /\ f.rows = e.rows
    BY <2>2 DEF Made
  <2>4. Cursor(p, f)
    BY <1>6, <2>3, CursorSame
  <2>5. ed' = f
    BY <1>5, <1>8, <2>1
  <2>6. QED
    BY <1>2, <2>4, <2>5
<1>9. CASE ~Leaves(p, e, k) /\ e.rows = Rows /\ Uses(e, k)
  <2>1. PICK f : f = [e EXCEPT !.over = TRUE, !.on = FALSE]
    OBVIOUS
  <2>2. Cursor(p, f)
    BY <1>6, <2>1, CursorStopped
  <2>3. ed' = f
    BY <1>5, <1>9, <2>1
  <2>4. QED
    BY <1>2, <2>2, <2>3
<1>10. CASE /\ ~Leaves(p, e, k) /\ ~(e.rows = Rows /\ Uses(e, k))
            /\ p.full = "word" /\ g.on
  <2>1. PICK f : f = WordMoved(g, k)
    OBVIOUS
  <2>2. ed' = f
    BY <1>5, <1>10, <2>1
  <2>3. g \in EditorState /\ g.pos \in 0 .. Room
    <3>1. /\ g \in EditorState /\ g.pos <= Room /\ ~(g.pos < 0)
      BY <1>5, <1>10 DEF After, Sound, Top
    <3>2. g.pos \in Int /\ Room \in Nat
      BY <3>1, SizeFacts, StateIsMade
    <3>3. QED
      BY <3>1, <3>2
  <2>4. \A i \in 0 .. g.pos - 1 : g.line[i] \in Printable
    BY <1>7, <1>10 DEF Cursor
  <2>5. f.rows = g.rows /\ \A i \in 0 .. f.pos - 1 : f.line[i] \in Printable
    BY <2>1, <2>3, <2>4, WordMovedTyped
  <2>6. f.rows <= Rows
    BY <1>7, <1>10, <2>5 DEF Cursor
  <2>7. Cursor(p, f)
    BY <1>10, <2>5, <2>6 DEF Cursor
  <2>8. QED
    BY <1>2, <2>2, <2>7
<1>11. CASE /\ ~Leaves(p, e, k) /\ ~(e.rows = Rows /\ Uses(e, k))
            /\ ~(p.full = "word" /\ g.on)
  <2>1. ed' = g
    BY <1>5, <1>11
  <2>2. QED
    BY <1>2, <1>7, <1>11, <2>1
<1>12. QED
  BY <1>8, <1>9, <1>10, <1>11

\* A character finds a place in the row.
LEMMA CursorFits ==
  ASSUME NEW p \in Editors, NEW e, Ready(p, e), Cursor(p, e), e.pos >= 0, e.pos < Top(p),
         e.rows < Rows
  PROVE  e.col \in Glyphs
<1>1. /\ e \in EditorState /\ e.pos \in Int /\ e.rows \in Nat /\ e.col \in Nat
      /\ Top(p) \in Nat /\ Top(p) <= Room
  BY ReadyFacts, StateIsMade
<1>2. /\ Width \in Nat /\ Width > 0 /\ Room \in Nat /\ Rows \in Nat /\ Columns \in Nat
      /\ Columns > Room /\ Glyphs = 0 .. Columns - 1
  BY SizeFacts
<1>3. CASE p.full # "next"
  <2>1. e.col = e.pos
    <3>1. CASE p.full = "screen"
      BY <3>1 DEF Cursor
    <3>2. CASE p.full # "screen"
      <4>1. Honest(p, e)
        BY <1>3, <3>2, EditorFacts DEF Honest
      <4>2. RowShows(e)
        BY <4>1, ReadyFacts
      <4>3. e.col = IF e.pos > 0 THEN e.pos ELSE 0
        BY <4>2 DEF RowShows
      <4>4. QED
        BY <1>1, <4>3
    <3>3. QED
      BY <3>1, <3>2
  <2>2. QED
    BY <1>1, <1>2, <2>1
<1>4. CASE p.full = "next"
  <2>1. PICK d \in Nat : Rows = e.rows + 1 + d
    <3>1. Rows - (e.rows + 1) \in Nat
      BY <1>1, <1>2
    <3>2. Rows = e.rows + 1 + (Rows - (e.rows + 1))
      BY <1>1, <1>2
    <3>3. QED
      BY <3>1, <3>2
  <2>2. Rows * Width = e.rows * Width + Width + d * Width
    BY <1>1, <1>2, <2>1
  <2>3. d * Width \in Nat /\ e.rows * Width \in Nat
    BY <1>1, <1>2
  <2>4. e.col <= e.rows * Width + (IF e.pos > 0 THEN e.pos ELSE 0)
    BY <1>4 DEF Cursor
  <2>5. Columns >= Rows * Width
    BY EditorAssumption
  <2>6. e.pos < Width
    BY <1>4 DEF Top
  <2>7. PICK m, n : m = e.rows * Width /\ n = d * Width
    OBVIOUS
  <2>8. e.col <= m + e.pos /\ Columns >= m + Width + n /\ m \in Nat /\ n \in Nat
    BY <1>1, <2>2, <2>3, <2>4, <2>5, <2>7
  <2>9. e.col < Columns
    BY <1>1, <1>2, <2>6, <2>8
  <2>10. QED
    BY <1>1, <1>2, <2>9
<1>5. QED
  BY <1>3, <1>4

\* A letter that is stored ends row and line.
LEMMA LetterStored ==
  ASSUME NEW p \in Editors, NEW e, Ready(p, e), Cursor(p, e), e.pos >= 0, e.pos < Top(p),
         e.rows < Rows, NEW k \in Letters
  PROVE  LET g == Forgotten(Stored(e, k))
         IN  /\ RowEndsIn(g, k) /\ LineEndsIn(g, k) /\ g.on /\ g.pos = e.pos + 1
             /\ \A i \in 0 .. e.pos - 1 : g.line[i] = e.line[i]
<1>1. PICK f : f = Stored(e, k)
  OBVIOUS
<1>2. /\ e \in EditorState /\ e.pos \in Int /\ Top(p) <= Room /\ Top(p) \in Nat
      /\ Room \in Nat /\ e.on /\ Bytes = 0 .. Room - 1 /\ k \in Cells
  BY ReadyFacts, SizeFacts DEF Cells, Printable
<1>3. e.pos \in Bytes /\ e.col \in Glyphs
  BY <1>2, CursorFits
<1>4. RowEndsIn(f, k) /\ LineEndsIn(f, k)
  BY <1>1, <1>2, <1>3, StoredHolds
<1>5. /\ f \in EditorState /\ f.pos = e.pos + 1 /\ f.on = e.on
      /\ f.line = [e.line EXCEPT ![e.pos] = k]
  BY <1>1, <1>2, StoredFacts
<1>6. f.pos <= Room
  BY <1>2, <1>5
<1>7. PICK g : g = Forgotten(f)
  OBVIOUS
<1>8. /\ g.pos = f.pos /\ g.on = f.on
      /\ \A i \in Bytes : i < f.pos => g.line[i] = f.line[i]
  BY <1>5, <1>6, <1>7, ForgottenFacts
<1>9. RowEndsIn(g, k) /\ LineEndsIn(g, k)
  BY <1>4, <1>5, <1>6, <1>7, ForgottenHolds
<1>10. ASSUME NEW i \in 0 .. e.pos - 1 PROVE g.line[i] = e.line[i]
  <2>1. i \in Bytes /\ i < f.pos /\ i # e.pos /\ e.line \in [Bytes -> Cells]
    BY <1>2, <1>3, <1>5, StateIsMade
  <2>2. QED
    BY <1>5, <1>8, <2>1
<1>11. QED
  BY <1>1, <1>2, <1>5, <1>7, <1>8, <1>9, <1>10

\* What becomes of a letter, program by program.
LEMMA LetterPlaced ==
  ASSUME NEW p \in Editors, NEW e, Ready(p, e), Cursor(p, e), e.rows < Rows, NEW k \in Letters,
         NEW g, g = Forgotten(DoPrintable(p, e, k)), After(p, k, g),
         NEW f, f = IF p.full = "word" /\ g.on THEN WordMoved(g, k) ELSE g, f.on
  PROVE  \/ RowEndsIn(f, k) /\ f.pos > 0 /\ (p.full # "next" \/ ~f.wrapped => LineEndsIn(f, k))
         \/ p.full = "screen" /\ e.pos = Width
         \/ p.full = "word" /\ f.pos = 0 /\ \A i \in 0 .. Width - 2 : e.line[i] \in Letters
<1>1. /\ e \in EditorState /\ e.pos \in Int /\ e.pos <= Top(p)
      /\ (e.pos < 0 => p.full = "next")
  BY ReadyFacts
<1>2. /\ Width \in Nat /\ Width > 0 /\ Room > Width /\ Room \in Nat
      /\ k \in Printable /\ k # Blank
  BY SizeFacts, LettersAssumption DEF Printable
<1>3. ASSUME e.pos >= 0, e.pos < Top(p), DoPrintable(p, e, k) = Stored(e, k)
      PROVE  RowEndsIn(g, k) /\ LineEndsIn(g, k) /\ g.pos > 0
  <2>1. RowEndsIn(g, k) /\ LineEndsIn(g, k)
    BY <1>3, LetterStored
  <2>2. QED
    BY <2>1 DEF LineEndsIn
<1>4. CASE p.full = "break"
  <2>1. f = g /\ Top(p) = Width /\ DoPrintable(p, e, k) = Broken(e, k)
    BY <1>4 DEF Top, DoPrintable
  <2>2. CASE e.pos < Width
    <3>1. Broken(e, k) = Stored(e, k)
      BY <2>2 DEF Broken
    <3>2. e.pos >= 0
      BY <1>1, <1>4
    <3>3. QED
      BY <1>3, <2>1, <2>2, <3>1, <3>2
  <2>3. CASE ~(e.pos < Width)
    <3>1. PICK h : h = [NextRow(e) EXCEPT !.pos = 0, !.wrapped = TRUE]
      OBVIOUS
    <3>2. Broken(e, k) = Stored(h, k)
      BY <2>3, <3>1 DEF Broken
    <3>3. h = Made(e.line, 0, BlankRow, 0, e.rows, TRUE, e.over, e.on)
      BY <1>1, <3>1, NextRowFacts
    <3>4. h.pos = 0 /\ h.col = 0 /\ h.rows = e.rows
      BY <3>3 DEF Made
    <3>5. Ready(p, h)
      BY <3>1, NextRowReady
    <3>6. Cursor(p, h)
      BY <1>1, <3>4, CursorHome, StateIsMade DEF Cursor
    <3>7. h.pos >= 0 /\ h.pos < Top(p) /\ h.rows < Rows
      BY <1>2, <2>1, <3>4
    <3>8. RowEndsIn(g, k) /\ LineEndsIn(g, k)
      BY <2>1, <3>2, <3>5, <3>6, <3>7, LetterStored
    <3>9. QED
      BY <2>1, <3>8 DEF LineEndsIn
  <2>4. QED
    BY <2>2, <2>3
<1>5. CASE p.full = "screen"
  <2>1. f = g /\ Top(p) = Width /\ DoPrintable(p, e, k) = OnScreen(e, k) /\ e.pos >= 0
    BY <1>1, <1>5 DEF Top, DoPrintable
  <2>2. CASE e.pos < Width
    <3>1. OnScreen(e, k) = Stored(e, k)
      BY <2>2 DEF OnScreen
    <3>2. QED
      BY <1>3, <2>1, <2>2, <3>1
  <2>3. QED
    BY <1>1, <1>2, <1>5, <2>1, <2>2
<1>6. CASE p.full = "next"
  <2>1. f = g /\ Top(p) = Width /\ DoPrintable(p, e, k) = NextLine(e, k)
    BY <1>6 DEF Top, DoPrintable
  <2>2. CASE e.pos < 0
    <3>1. PICK h : h = [e EXCEPT !.over = TRUE, !.on = FALSE]
      OBVIOUS
    <3>2. h = NextLine(e, k)
      BY <2>2, <3>1 DEF NextLine
    <3>3. h = Made(e.line, e.pos, e.row, e.col, e.rows, e.wrapped, TRUE, FALSE)
      BY <1>1, <3>1, StoppedFacts
    <3>4. h.on = FALSE /\ h.pos = e.pos
      BY <3>3 DEF Made
    <3>5. h \in EditorState
      <4>1. After(p, k, [e EXCEPT !.over = TRUE, !.on = FALSE])
        BY <1>6, <2>2, StoppedAfter DEF Excused
      <4>2. QED
        BY <3>1, <4>1 DEF After, Sound
    <3>6. g.on = FALSE
      <4>1. h.pos <= Room
        BY <1>1, <1>2, <2>2, <3>4
      <4>2. g = Forgotten(h)
        BY <2>1, <3>2
      <4>3. QED
        BY <3>4, <3>5, <4>1, <4>2, ForgottenFacts
    <3>7. QED
      BY <2>1, <3>6
  <2>3. CASE e.pos >= 0 /\ e.pos < Width
    <3>1. NextLine(e, k) = Stored(e, k)
      BY <1>1, <2>3 DEF NextLine
    <3>2. QED
      BY <1>3, <2>1, <2>3, <3>1
  <2>4. CASE e.pos = Width
    <3>1. PICK h : h = NextLine(e, k)
      OBVIOUS
    <3>2. h \in EditorState /\ RowEndsIn(h, k) /\ h.pos > 0 /\ h.wrapped = TRUE
      BY <1>1, <1>2, <2>4, <3>1, NextLineFacts
    <3>3. h.pos <= Room
      <4>1. After(p, k, h)
        BY <1>2, <1>6, <3>1, NextLineAfter
      <4>2. h.pos <= Width /\ h.pos \in Int
        BY <2>1, <3>2, <4>1, StateIsMade DEF After, Sound
      <4>3. QED
        BY <1>2, <4>2
    <3>4. g = Forgotten(h)
      BY <2>1, <3>1
    <3>5. g.pos = h.pos /\ g.wrapped = TRUE /\ RowEndsIn(g, k)
      BY <3>2, <3>3, <3>4, ForgottenFacts, ForgottenHolds
    <3>6. QED
      BY <1>6, <2>1, <3>2, <3>5
  <2>5. QED
    BY <1>1, <1>2, <2>1, <2>2, <2>3, <2>4
<1>7. CASE p.full = "word" /\ e.pos = Room
  <2>1. PICK h : h = [e EXCEPT !.over = TRUE, !.on = FALSE]
    OBVIOUS
  <2>2. h = DoPrintable(p, e, k)
    BY <1>7, <2>1 DEF DoPrintable
  <2>3. h = Made(e.line, e.pos, e.row, e.col, e.rows, e.wrapped, TRUE, FALSE)
    BY <1>1, <2>1, StoppedFacts
  <2>4. h.on = FALSE /\ h.pos = e.pos
    BY <2>3 DEF Made
  <2>5. h \in EditorState
    <3>1. After(p, k, DoPrintable(p, e, k))
      BY <1>2, PrintableAfter
    <3>2. QED
      BY <2>2, <3>1 DEF After, Sound
  <2>6. h.pos <= Room
    BY <1>2, <1>7, <2>4
  <2>7. g.on = FALSE
    BY <2>2, <2>4, <2>5, <2>6, ForgottenFacts
  <2>8. QED
    BY <2>7
<1>8. CASE p.full = "word" /\ e.pos # Room
  <2>1. Top(p) = Room /\ DoPrintable(p, e, k) = Stored(e, k) /\ e.pos >= 0 /\ e.pos < Room
    BY <1>1, <1>2, <1>8 DEF Top, DoPrintable
  <2>2. /\ RowEndsIn(g, k) /\ LineEndsIn(g, k) /\ g.on /\ g.pos = e.pos + 1
        /\ \A i \in 0 .. e.pos - 1 : g.line[i] = e.line[i]
    BY <2>1, LetterStored
  <2>3. f = WordMoved(g, k)
    BY <1>8, <2>2
  <2>4. CASE g.pos < Width
    <3>1. WordMoved(g, k) = g
      BY <2>4 DEF WordMoved
    <3>2. QED
      BY <2>2, <2>3, <3>1 DEF LineEndsIn
  <2>5. CASE ~(g.pos < Width)
    <3>1. g \in EditorState /\ g.pos \in Width .. Room /\ g.line[g.pos - 1] = k
      <4>1. g \in EditorState /\ g.line[g.pos - 1] = k
        BY <2>2 DEF After, Sound, LineEndsIn
      <4>2. g.pos \in Width .. Room
        BY <1>1, <1>2, <2>1, <2>2, <2>5
      <4>3. QED
        BY <4>1, <4>2
    <3>2. IF Back(g, g.pos, NotBlank) > 0
          THEN RowEndsIn(f, k) /\ LineEndsIn(f, k)
          ELSE f.pos = 0 /\ \A i \in 0 .. g.pos - 1 : g.line[i] \in NotBlank
      BY <2>3, <3>1, WordMovedLetter
    <3>3. CASE Back(g, g.pos, NotBlank) > 0
      BY <3>2, <3>3 DEF LineEndsIn
    <3>4. CASE ~(Back(g, g.pos, NotBlank) > 0)
      <4>1. ASSUME NEW i \in 0 .. Width - 2 PROVE e.line[i] \in Letters
        <5>1. i \in 0 .. e.pos - 1 /\ i \in 0 .. g.pos - 1
          BY <1>1, <1>2, <2>2, <2>5
        <5>2. e.line[i] \in NotBlank
          BY <2>2, <3>2, <3>4, <5>1
        <5>3. e.line[i] \in Printable
          BY <1>8, <5>1 DEF Cursor
        <5>4. Unwritten \notin Printable
          BY UnwrittenIsNoKey
        <5>5. QED
          BY <5>2, <5>3, <5>4, BlankFacts DEF NotBlank, Printable
      <4>2. QED
        BY <1>8, <3>2, <3>4, <4>1
    <3>5. QED
      BY <3>3, <3>4
  <2>6. QED
    BY <2>4, <2>5
<1>9. QED
  BY <1>4, <1>5, <1>6, <1>7, <1>8, EditorFacts

\* LineEditor, all nine programs: a letter that is read is the last glyph of the
\* row and the last byte of the line. Y.komarevtsev's and mChelbaev's programs
\* drop the one behind a full line, and I.Trushkin's the word that fills a whole
\* row.
THEOREM LetterStays == EditorSpec => LetterIsHeld
<1> DEFINE Inv == EditorInv /\ Cursor(editor, ed)
<1>1. EditorInit => Cursor(editor, ed)
  <2> SUFFICES ASSUME EditorInit PROVE Cursor(editor, ed)
    OBVIOUS
  <2>1. ed = Made(FreshLine, 0, BlankRow, 0, 0, FALSE, FALSE, TRUE)
    BY BlankFacts DEF EditorInit
  <2>2. ed.pos = 0 /\ ed.col = 0 /\ ed.rows = 0
    BY <2>1 DEF Made
  <2>3. QED
    BY <2>2, CursorHome, SizeFacts
<1>2. EditorInv /\ Cursor(editor, ed) /\ [EditorNext]_editorVars => Cursor(editor, ed)'
  <2> SUFFICES ASSUME EditorInv, Cursor(editor, ed), [EditorNext]_editorVars
               PROVE  Cursor(editor, ed)'
    OBVIOUS
  <2>1. CASE TypeKey
    BY <2>1 DEF TypeKey, Cursor
  <2>2. CASE Edit
    <3>1. Cursor(editor, ed')
      BY <2>2, EditKeepsCursor
    <3>2. editor' = editor
      BY <2>2 DEF Edit
    <3>3. QED
      BY <3>1, <3>2 DEF Cursor
  <2>3. CASE UNCHANGED editorVars
    BY <2>3 DEF editorVars, Cursor
  <2>4. QED
    BY <2>1, <2>2, <2>3 DEF EditorNext
<1>3. ASSUME EditorInv, Cursor(editor, ed), [EditorNext]_editorVars,
             key' \in Letters, ed'.on, ahead' # ahead, Len(ahead') < Len(ahead)
      PROVE  \/ /\ ed'.col > 0 /\ ed'.row[ed'.col - 1] = key'
                /\ ed'.pos > 0 /\ (editor.full # "next" \/ ~ed'.wrapped => ed'.line[ed'.pos - 1] = key')
             \/ editor.full = "screen" /\ ed.pos = Width
             \/ editor.full = "word" /\ ed'.pos = 0 /\ \A i \in 0 .. Width - 2 : ed.line[i] \in Letters
  <2>1. Edit
    <3>1. ~TypeKey
      <4>1. ahead \in Seq(Key)
        BY <1>3 DEF EditorInv
      <4>2. \A k \in Key : Len(Append(ahead, k)) = Len(ahead) + 1 /\ Len(ahead) \in Nat
        BY <4>1, AppendProperties
      <4>3. QED
        BY <1>3, <4>2 DEF TypeKey
    <3>2. ~UNCHANGED editorVars
      BY <1>3 DEF editorVars
    <3>3. QED
      BY <1>3, <3>1, <3>2 DEF EditorNext
  <2>2. PICK k : k = key'
    OBVIOUS
  <2>3. PICK p : p = editor
    OBVIOUS
  <2>4. PICK e : e = ed
    OBVIOUS
  <2>5. PICK g : g = Forgotten(Edited(p, e, k))
    OBVIOUS
  <2>6. PICK f : f = ed'
    OBVIOUS
  <2>7. /\ p \in Editors /\ k \in Key /\ Ready(p, e) /\ After(p, k, g)
        /\ f = IF Leaves(p, e, k) THEN [e EXCEPT !.on = FALSE]
               ELSE IF e.rows = Rows /\ Uses(e, k) THEN [e EXCEPT !.over = TRUE, !.on = FALSE]
               ELSE IF p.full = "word" /\ g.on THEN WordMoved(g, k) ELSE g
    BY <1>3, <2>1, <2>2, <2>3, <2>4, <2>5, <2>6, EditFacts
  <2>8. k \in Letters /\ k \in Printable /\ k # EndOfFile /\ k # Enter /\ Cursor(p, e) /\ f.on
    BY <1>3, <2>2, <2>3, <2>4, <2>6, KeyFacts DEF Printable
  <2>9. Edited(p, e, k) = DoPrintable(p, e, k)
    BY <2>8, KeyFacts DEF Edited
  <2>10. ~Leaves(p, e, k) /\ Uses(e, k)
    BY <2>8 DEF Leaves, Uses
  <2>11. e.rows # Rows
    <3>1. SUFFICES ASSUME e.rows = Rows PROVE FALSE
      OBVIOUS
    <3>2. f = [e EXCEPT !.over = TRUE, !.on = FALSE]
      BY <2>7, <2>10, <3>1
    <3>3. f = Made(e.line, e.pos, e.row, e.col, e.rows, e.wrapped, TRUE, FALSE)
      BY <2>7, <3>2, ReadyFacts, StoppedFacts
    <3>4. f.on = FALSE
      BY <3>3 DEF Made
    <3>5. QED
      BY <2>8, <3>4
  <2>12. e.rows < Rows
    <3>1. e.rows <= Rows /\ e.rows \in Nat /\ Rows \in Nat
      BY <2>7, <2>8, ReadyFacts, StateIsMade, SizeFacts DEF Cursor
    <3>2. QED
      BY <2>11, <3>1
  <2>13. f = IF p.full = "word" /\ g.on THEN WordMoved(g, k) ELSE g
    BY <2>7, <2>10, <2>11
  <2>14. \/ RowEndsIn(f, k) /\ f.pos > 0 /\ (p.full # "next" \/ ~f.wrapped => LineEndsIn(f, k))
         \/ p.full = "screen" /\ e.pos = Width
         \/ p.full = "word" /\ f.pos = 0 /\ \A i \in 0 .. Width - 2 : e.line[i] \in Letters
    BY <2>5, <2>7, <2>8, <2>9, <2>12, <2>13, LetterPlaced
  <2>15. QED
    BY <2>2, <2>3, <2>4, <2>6, <2>14 DEF RowEndsIn, LineEndsIn
<1>4. QED
  BY <1>1, <1>2, <1>3, EditorInductive, PTL DEF EditorSpec, LetterIsHeld
=============================================================================
