---------------------------- MODULE SignalCounter ----------------------------
(*****************************************************************************)
(* Laboratory 21: SIGINT rings the bell, SIGQUIT reports how often and ends  *)
(* the program. A handler may be interrupted by the other signal between any *)
(* two of its steps. What signal() means depends on the system it is built   *)
(* on (the makefiles know two): on one it stays and blocks its own signal,   *)
(* on the other the signal goes back to its default before the handler runs, *)
(* which is why some handlers install themselves again.                      *)
(*****************************************************************************)
EXTENDS Integers, Sequences, SequencesExt, FiniteSets

CONSTANTS
  Counters,  \* the programs to look at
  Presses    \* how often a key that raises a signal may be pressed

INT == "SIGINT"
QUIT == "SIGQUIT"
Signal == {INT, QUIT}

(*****************************************************************************)
(* The programs.                                                             *)
(*   rings   what the handler of SIGINT does, in this order: it counts,      *)
(*           writes a bell at once ("bell") or into stdio's buffer ("hold"), *)
(*           and installs itself again                                       *)
(*   by      "signal" or "sigaction", whose flags and mask are set, or       *)
(*           "unset" (k.makanin's are whatever is on the stack)              *)
(*   loop    whether main() installs both again after every pause()          *)
(*   flag    whether SIGQUIT only sets a variable for main() to look at      *)
(*****************************************************************************)
Karakulin21 == [rings |-> <<"count", "bell">>, by |-> "signal", loop |-> FALSE, flag |-> FALSE]
Daniil21 == [Karakulin21 EXCEPT !.by = "sigaction"]
Zelenkov21 == Daniil21
Trushkin21 == [Karakulin21 EXCEPT !.rings = <<"count", "bell", "install">>]
Tsyrenov21 == [Karakulin21 EXCEPT !.rings = <<"count", "hold", "install">>]
ZaVialoV21 == [Karakulin21 EXCEPT !.rings = <<"bell", "count", "install">>]
Bedareva21 == [Karakulin21 EXCEPT !.rings = <<"count">>]
Komarevtsev21 == [Karakulin21 EXCEPT !.loop = TRUE]
Chelbaev21 == Komarevtsev21
Shestakov21 == [Komarevtsev21 EXCEPT !.rings = <<"count", "hold">>]
Makanin21 == [rings |-> <<"bell", "count">>, by |-> "unset", loop |-> FALSE, flag |-> TRUE]
AllCounters == {Karakulin21, Daniil21, Zelenkov21, Trushkin21, Tsyrenov21, ZaVialoV21,
                Bedareva21, Komarevtsev21, Chelbaev21, Shestakov21, Makanin21}

ASSUME CounterAssumption == Counters \subseteq AllCounters

VARIABLES
  counter,    \* which program runs
  handling,   \* reset: a signal goes back to its default when its handler
              \* starts; blocks: the signals a handler of each one blocks
  main,       \* where main() is: "int" and "quit" install, then it "waits"
  frames,     \* the handlers that run, the innermost last: signal, steps left
  pending,    \* signals raised and not delivered
  installed,  \* signals that have a handler
  state,      \* "runs", "reported" (it said how many, and ends), "killed"
  tally,      \* counted, heard, held (in stdio), pressed,
              \* quit (the variable is set), said (the report)
  ready       \* main() has come to wait once
counterVars == <<counter, handling, main, frames, pending, installed, state, tally, ready>>

(* A build of signal() does either; sigaction() with no flags and an empty   *)
(* mask does the first; unset flags and masks are anything.                  *)
Own == [s \in Signal |-> {s}]
Handlings(p) ==
  CASE p.by = "sigaction" -> {[reset |-> FALSE, blocks |-> Own]}
    [] p.by = "signal"    -> {[reset |-> FALSE, blocks |-> Own],
                              [reset |-> TRUE, blocks |-> [s \in Signal |-> {}]]}
    [] p.by = "unset"     -> [reset : BOOLEAN, blocks : [Signal -> SUBSET Signal]]

NoTally == [counted |-> 0, heard |-> 0, held |-> 0, pressed |-> 0,
            quit |-> FALSE, said |-> -1]

CounterInit ==
  /\ counter \in Counters /\ handling \in Handlings(counter)
  /\ main = "int" /\ frames = <<>> /\ pending = {} /\ installed = {}
  /\ state = "runs" /\ tally = NoTally /\ ready = FALSE

(* Ctrl-C and Ctrl-\. A signal that is pending cannot be raised twice.       *)
Press(s) ==
  /\ state = "runs" /\ tally.pressed < Presses
  /\ pending' = pending \union {s}
  /\ tally' = [tally EXCEPT !.pressed = @ + 1]
  /\ UNCHANGED <<counter, handling, main, frames, installed, state, ready>>

Blocked == UNION {handling.blocks[frames[i].sig] : i \in DOMAIN frames}
Steps(s) == IF s = INT THEN counter.rings
            ELSE IF counter.flag THEN <<"set">> ELSE <<"report", "exit">>

Deliver(s) ==
  /\ state = "runs" /\ s \in pending \ Blocked
  /\ pending' = pending \ {s}
  /\ IF s \in installed
     THEN /\ frames' = Append(frames, [sig |-> s, left |-> Steps(s)])
          /\ installed' = (IF handling.reset THEN installed \ {s} ELSE installed)
          /\ UNCHANGED state
     ELSE state' = "killed" /\ UNCHANGED <<frames, installed>>
  /\ UNCHANGED <<counter, handling, main, tally, ready>>

\* faulty: stdio's buffer is not flushed
ReportedHeld(t) == [t EXCEPT !.said = t.counted]

(* The line that the report begins or ends with flushes stdio's buffer.      *)
Reported(t) == [t EXCEPT !.said = t.counted, !.heard = @ + t.held, !.held = 0]

DoneBy(step) ==
  tally' = CASE step = "count"  -> [tally EXCEPT !.counted = @ + 1]
             [] step = "bell"   -> [tally EXCEPT !.heard = @ + 1]
             [] step = "hold"   -> [tally EXCEPT !.held = @ + 1]
             [] step = "report" -> Reported(tally)
             [] step = "set"    -> [tally EXCEPT !.quit = TRUE]
             [] OTHER           -> tally

(* One step of the innermost handler; behind its last, pause() returns.      *)
HandlerStep ==
  LET f == Last(frames)
      step == Head(f.left)
  IN /\ state = "runs" /\ frames # <<>> /\ f.left # <<>>
     /\ DoneBy(step)
     /\ frames' = [frames EXCEPT ![Len(frames)].left = Tail(@)]
     /\ installed' = (IF step = "install" THEN installed \union {INT} ELSE installed)
     /\ state' = (IF step = "exit" THEN "reported" ELSE state)
     /\ UNCHANGED <<counter, handling, main, pending, ready>>

HandlerReturns ==
  /\ state = "runs" /\ frames # <<>> /\ Last(frames).left = <<>>
  /\ frames' = Front(frames)
  /\ main' = (IF Len(frames) = 1 /\ main = "waits" /\ counter.loop THEN "int" ELSE main)
  /\ UNCHANGED <<counter, handling, pending, installed, state, tally, ready>>

\* faulty: only one handler is installed
InstallOne ==
  /\ state = "runs" /\ frames = <<>> /\ main # "waits"
  /\ installed' = installed \union {INT}
  /\ main' = "waits" /\ ready' = TRUE
  /\ UNCHANGED <<counter, handling, frames, pending, state, tally>>

(* main() installs SIGINT's handler, then SIGQUIT's, and waits; k.makanin's  *)
(* looks at the variable all the time.                                       *)
Install ==
  /\ state = "runs" /\ frames = <<>> /\ main # "waits"
  /\ installed' = installed \union {IF main = "int" THEN INT ELSE QUIT}
  /\ main' = (IF main = "int" THEN "quit" ELSE "waits")
  /\ ready' = (ready \/ main = "quit")
  /\ UNCHANGED <<counter, handling, frames, pending, state, tally>>

QuitSeen ==
  /\ state = "runs" /\ frames = <<>> /\ main = "waits" /\ tally.quit
  /\ tally' = Reported(tally) /\ state' = "reported"
  /\ UNCHANGED <<counter, handling, main, frames, pending, installed, ready>>

CounterStep == HandlerStep \/ HandlerReturns \/ Install \/ QuitSeen \/ \E s \in Signal : Deliver(s)
CounterNext == CounterStep \/ \E s \in Signal : Press(s)
CounterSpec == CounterInit /\ [][CounterNext]_counterVars /\ WF_counterVars(CounterStep)

(*****************************************************************************)
(* What the programs should do.                                              *)
(*****************************************************************************)
(* Handlers of SIGINT that wait below others with one of these steps to do.  *)
Ringing == {"bell", "hold"}
Owing(steps) == {i \in DOMAIN frames : ToSet(frames[i].left) \intersect steps # {}}

(* The number a program reports is the number of bells heard until then,     *)
(* but for the handlers that SIGQUIT interrupted: one that counts first was  *)
(* counted and not heard, one that rings first was heard and not counted.    *)
(* n.bedareva's rings no bell at all.                                        *)
ReportIsBells ==
  [][tally'.said # tally.said /\ ToSet(counter.rings) \intersect Ringing # {} =>
       tally'.heard - tally'.said
         = Cardinality(Owing({"count"})) - Cardinality(Owing(Ringing))]_counterVars

(* Once main() waits, no key kills the program, unless a signal goes back to *)
(* its default. Then a second SIGQUIT during the report does; so does SIGINT *)
(* while its handler runs, and, where the handler does not install itself    *)
(* again, from then on. A main() that does it instead comes round too late   *)
(* for a signal that was handled just before pause().                        *)
KilledOnlyInWindow ==
  [][state' = "killed" =>
       \/ ~ready
       \/ handling.reset /\ \E s \in Signal :
            /\ s \in pending \ installed
            /\ \/ \E i \in DOMAIN frames : frames[i].sig = s
               \/ s = INT /\ ~Contains(counter.rings, "install")
               \/ counter.flag]_counterVars

=============================================================================
