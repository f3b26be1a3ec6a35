# Models of the operating-systems laboratories

The repository holds the solutions of thirteen students to one series of laboratory tasks: small
POSIX programs in C, one directory per student and task (`Daniil/t31`, `I.Trushkin/31`,
`m.tsyrenov/lab31`, ...). This directory holds TLA+ models of those of them in which something can
go wrong that a test would hardly show: the servers of tasks 30, 31 and 32, in which several clients,
one server and the operating system interleave; the parents and children of tasks 9, 10 and 25; the
signal handlers of task 21; the line editors of task 17; and the line tables of tasks 5, 6 and 7,
with the time-out that races the user. Most tasks were solved eleven or twelve times: a module states the
algorithm once, and one record per program says where it differs.

Contents: the inventory; the modules; what is checked, with which bounds and which fairness; what is
proved and how; the mutants; the disagreements found; what is not modelled; the plan.

## 1. Inventory

| Task | Programs | State | Hard behaviour | What would make it correct |
|---|---|---|---|---|
| 31 | 11 servers: upper-case what several clients of one AF_UNIX socket write; one relays it | descriptor table, set or array of watched descriptors, loop position | clients connect, write and leave between any two steps; descriptor numbers come back; EMFILE; full tables; reads cut the stream | nobody forgotten, nobody read twice, no blocking call on a silent client, each stream shown in order, every client served in the end |
| 31 | clients | a line buffer, the socket | end of file at the keyboard, SIGPIPE, full socket buffers | each typed line sent once |
| 32 | 9 servers: the same, asynchronously (epoll, SIGIO, aio, threads) | ready edges, pending signals, requests, threads | lost edges, coalescing signals, handler against main(), thread against main(), a clock against events | as task 31; each connection has one operation in flight |
| 30 | 11 servers and clients for one connection | one connection, the socket's name in the file system | end of file, crash between bind() and unlink(), two servers | a server ends with its client, can start again, and nobody steals its name |
| 25 | two processes and a pipe | pipe, two processes | wait() before read, full pipe, unclosed ends, joined and cut lines | the text arrives once, both end, the parent last |
| 21 | SIGINT counter | a counter | coalescing and nested signals, signal() that resets | one bell per count, killed never |
| 17 | line editor on a raw terminal | line buffer, cursor, terminal | wrap, erase word, kill | screen and buffer agree, nothing outside the buffer |
| 9, 10 | fork, exec, wait | processes, stdio buffers | failing fork and exec, a command that a signal ends, output copied by fork() | each message once, the right exit code, the parent's last line last |
| 5, 6, 7 | table of line offsets; with a time-out; with mmap() | table, file position, terminal and stdio buffers | lines across buffers, unterminated last line, full tables, alarm against input | line k is shown exactly, silence ends the program, what is typed is read |
| 4 | linked list of strings | a list | none (sequential) | order of input |
| 1, 2, 3, 18 | options and limits, time zone, set-uid, `ls -l` | none | none | output only |

Interaction. A server and its clients share a connection-oriented socket: the kernel's accept queue,
one byte stream per client and direction, and the server's descriptor table. Servers of one task share
the socket's name. Signals interrupt the programs of tasks 6, 21 and 32, threads share the descriptor
table of three servers, a parent and its child share a terminal, a pipe, and stdio's buffers by copy.
There is no other shared state between programs.

Semantics assumed of the system are those of Linux: `poll()` reports POLLIN and POLLHUP for a
stream socket whose peer has closed, `select()` reports it readable, a `write()` to it raises
SIGPIPE, an epoll edge is raised by each arrival, a standard signal is pending at most once, with the
siginfo of the first; a connection that a client closes with unread answers is reset. Where the
makefiles leave a choice, both are explored: `signal()` of task 21 with and without resetting the
handler; output of tasks 9 and 10 to a terminal and to a file.

## 2. Modules

| Module | Models | Source |
|---|---|---|
| `CText` | bytes, `toupper()` loops, C strings, framing of a line | all servers and clients of tasks 25 and 30-32 |
| `UnixSocket` | accept queue, descriptor table, one stream per client; the system calls as building blocks; the clients' connect, write and close | operating system, clients |
| `UpperService` | abstract: what every upper-casing program promises | |
| `SelectServer` | five `select()` servers | Trushkin, Shestakov, Karakulin, Daniil, Zelenkov, task 31 |
| `SlotPollServer` | `poll()` over fixed slots | Komarevtsev, task 31 |
| `CompactPollServer` | `poll()` over a dense array | Makanin, Bedareva, task 31 |
| `TwoPollServer` | two `poll()`s with time-outs, entries never removed | Tsyrenov, Chelbaev, task 31 |
| `BroadcastServer` | relaying `select()` server and its client | ZaVialoV, task 31 |
| `BroadcastService` | abstract: atomic broadcast | |
| `EpollEdgeServer` | edge-triggered epoll, one read per edge | Karakulin, task 32 |
| `ThreadServer` | a detached thread per client | Trushkin, ZaVialoV, Komarevtsev, task 32 |
| `SigioServer` | a SIGIO handler that reads every client | Daniil, Zelenkov, task 32 |
| `AioServer` | `aio_read()` per client, re-armed in the SIGIO handler; a timer that answers | Chelbaev, Tsyrenov, task 32 |
| `TickServer` | level-triggered epoll and a letter to everybody each millisecond | Makanin, task 32 |
| `OneShotServer` | servers for one client, started again and at once, and their name | eleven programs, task 30 |
| `PipeTransfer` | writer and reader of a pipe | eleven programs, task 25 |
| `ChildProcess` | a child that becomes a command, and its parent | twenty-two programs, tasks 9 and 10 |
| `SignalCounter` | two handlers that interrupt main() and each other | eleven programs, task 21 |
| `LineEditor` | a line editor and the row its terminal shows | nine programs, task 17 |
| `LinePrograms` | what differs between the programs of tasks 5 to 7 | thirty-five programs |
| `LineTable` | the table of the lines of a text, as a loop over its bytes, its memory, and what an entry shows | tasks 5-7 |
| `LineQuery` | the dialogue over the table: user, terminal, stdio, timer and program | tasks 5-7 |
| `SocketTheorems` | lemmas about `CText` and `UnixSocket`, with proofs | |
| `SelectServerProofs` | theorems about `SelectServer` and `BroadcastServer` | |
| `PollProofs` | theorems about `SlotPollServer` and `TwoPollServer` | |
| `CompactPollProofs` | theorems about `CompactPollServer` | |
| `ThreadProofs` | theorems about `ThreadServer` | |
| `AsyncProofs` | theorems about `SigioServer`, `AioServer`, `TickServer` and `EpollEdgeServer` | |
| `ProcessProofs` | theorems about `OneShotServer`, `PipeTransfer`, `ChildProcess`, `SignalCounter` and `LineEditor` | |
| `LineProofs` | theorems about `LineTable` and `LineQuery` | |
| `MC...` | instances for TLC; `MCTerminal`, `MCProcesses` and `MCAsyncServers` hold several components each, of which a behaviour runs one | |

The server modules of tasks 31 and 32 EXTEND `UnixSocket`. A connection is kept as a history:
`sent[c]` is everything client `c` ever wrote, `rd[c]` how much of it the server has read, `shown[c]`
what the terminal shows for it. So "in order, nothing twice, nothing lost" is a statement about one
state. `conn[f]` is the client behind descriptor `f`; `accept()` returns the lowest free number, so
numbers are reused as they are in reality.

The unit of a step is a system call, with the computation that follows it up to the next one:
between two steps anything may happen elsewhere. `accept()` and the update of the server's tables
after it are one step where no other thread, handler or process sees the tables; in `ThreadServer`,
`SigioServer` and `AioServer`, where somebody does, they are separate steps. A blocking call that has
nothing to return is an action that is not enabled.

How state corresponds to code:

* `SelectServer`: `active` is the `fd_set` the program keeps, `maxFd` its `max_fd`, `pending` the part
  of the set `select()` returned that the `for` loop has not reached, `up` whether the process still
  runs; `prog` is a record of what differs between the five (read size, what is printed, what a failed
  `accept()` does).
* `SlotPollServer`: `slot[k]` and `revents[k]` are `poll_fds[k].fd` and `.revents`.
* `CompactPollServer`: `table`, `n`, `listen` are entries 1 to n, the client count and entry 0; `i`
  is the walk's loop variable. n.bedareva's program calls `to_uppercase()`, which is declared nowhere
  in its file, before a loop that does the same conversion; it is modelled by that loop.
* `TwoPollServer`: `newsocket` is the array of that name, as long as `k`; `str` is the read buffer,
  which is kept because stale bytes in it could be shown.
* `BroadcastServer`: `master`, `max_fd` as in the program, `todo` what the relaying loop has left,
  `buffer` the text, `heard`/`taken` the stream to each client, `typed` a line a client is about to
  write.
* `EpollEdgeServer`: `edge` is the kernel's ready list as far as clients are concerned, `events` what
  the loop has left of the array.
* `ThreadServer`: `cell[t]` is the int on the heap, `fd[t]` and `buffer[t]` the thread's locals.
* `SigioServer`: `client_sockets` as in the program, `i` the handler's loop variable, `mode[f]` what
  `set_socket_async()` has done so far.
* `AioServer`: `request[f]` and `held[f]` are the control block and buffer of a descriptor, `carried`
  the request the one pending SIGIO names, `clients` the timer's table of numbers.
* `TickServer`: `clientFds` as in the program, `reported` what the loop has left of the events,
  `letters[c]` those the client has not read.
* `OneShotServer`: `name` is the server the directory entry leads to, `srv[s]` the line a server is
  at; `queue`, `served` and `peer` are the connection; `head[s]` is the first byte of the server's buffer,
  by which S.ZaVialoV's server ends: it never looks whether `read()` found the end of the stream, and
  shows one empty text before the `'\0'` it put there itself stops it. Texts are counted, not spelled:
  what is shown of them is the business of `CText` and the servers of task 31.
* `PipeTransfer`: `sent` and `rd` are the pipe, `holders` the processes that have its write end open,
  `shown` what the reader printed of the bytes it read, and `strays` the places in it behind which it
  also printed memory that nobody wrote.
* `ChildProcess`: `unsaid[p]` is stdio's buffer of a process, copied by `fork()`, dropped by `exec()`;
  `ending` how the command ended, `told` what the parent reported, or that it was `"silent"`.
* `SignalCounter`: `frames` is the stack of handlers that run, each with the steps it has left.
* `LineEditor`: `ed.line` and `ed.pos` are the program's array and index, `ed.row` and `ed.col` the
  row on the screen.
* `LineQuery`: `tty` holds lines typed and not read, `stdio` the tokens left of the line read, `at` the
  file position; `alarm` and `expired` the signal and the variable its handler sets; `out` what was
  shown last, as pieces of the file. A piece is `open` if the program goes on behind it into memory
  nobody wrote, and `"wild"` is an access outside an array, which may also end the program. The alarm
  rings at any time after it was set; k.makanin's, which interrupts `scanf()`, is lost if `scanf()` is
  not waiting yet.

History variables (`newest`, `full`, `filled`, `late`, `dropped`, `alone`, `strays`, `heard`, `sent` and
`shown`) never guard a step of a program, except that `sent` and `heard` are also the streams.

## 3. Runs

| Run | Question |
|---|---|
| `select` | Three clients, two connection descriptors: accepts, EMFILE, hang-ups and reuse of numbers, lines with and without `'\0'`. `FreshReadiness`: what `select()` reported holds when the walk gets there, so the only thread never blocks on a silent client. `WatchedAreOpen`: nobody is forgotten, `max_fd` covers everybody. `ReadIsShown`: over all reads, however they cut and join the lines, each byte is shown once, in order and in upper case; only bytes behind a `'\0'` of the same read may be lost. `EventuallyAccepted`, also behind EMFILE |
| `slots` | `FreshEvents`: slots and descriptors agree and reported events still hold, however slots are filled and refused during a walk; who waits is taken or refused (`EventuallyAnswered`). That every byte read is printed (`BytewiseContract`) is proved, section 4 |
| `compact` | `BlindOnlyOnNewest`: compaction during the walk loses and doubles nobody, and a silent client is read only by the program that accepts before it walks, and only the client just accepted. `LimitIsKept`: listening is switched off and on in time |
| `two_poll` | `BlindOnlyOnReuse`: nobody is forgotten, and the second `read()` of one event can block only through a reused number. `BufferHolds`: the clients' trailing `'\0'` is all that keeps `strlen()` inside the buffer, and it does, however reads cut and join the lines |
| `broadcast` | The loop of blocking writes implements one atomic broadcast per read (`AtomicBroadcast`), and all that was written is relayed (`EventuallyRelayed`), unless server and client are blocked in `write()` to each other or the server was killed |
| `broadcast_pipe` | A violation, see section 6 |
| `epoll` | `ForgottenEdges`: the exact conditions under which a readable connection has lost its edge. `EventuallyReadShort`: text that never fills a read is read |
| `threads` | `OneServant`: each open connection belongs to exactly one thread or to main(), although numbers come back while threads are ending. `ThreadedContract`: refinement, with bytes held between `read()` and `printf()`. `EventuallyClosed`: descriptors come back, also after a failed `pthread_create()` |
| `async` | SIGIO: `BlocksOnlyOnPublished` and `ForgottenOnly`, the exact windows in which the handler blocks or a signal is missing. aio: `OneOperation`, every open connection is in one pair of hands unless its signal was merged into another; `EventuallyFetched`. Ticker: `ArrayIsOpen`, letters go to the open connections, once each |
| `lines` | Thirty-five programs on all texts of up to four letters and newlines and on longer ones. `ShowsTheLine` against a definition of line k by the newlines around it, and that nothing is shown behind it; `KeepsToMemory`: what is written, and that no memory is shown that nobody wrote; `TimeoutShowsFile`; `SilenceEnds`, with an alarm that rings at any moment; `TypedIsRead` |
| `terminal` | Editors: `ScreenIsLine`, `InsideLine`, `LetterIsHeld` after every sequence of keys. Counters: `ReportIsBells`, `KilledOnlyInWindow` under every interruption |
| `processes` | Children: `ReportsTheCode`; `SaidOnce`, which counts every message, the command's text and the last message exactly. Pipes: `Transferred`: each byte written is shown once, in order, and no memory is shown but behind one program's first piece; `ParentEndsLast`, `PipeDrains`. One-client servers: `FoundByName`, `RestartBinds`, `EndsWithClient` |

The first structural invariant of each server includes its type invariant.

Where a program can misbehave, the property says precisely when ("only on ...", "unless ..."), and
which program, so that a change which widens the window, or brings it to another program, is caught.

### Bounds, and why they are enough

*Sockets.* Three clients and two connection descriptors (`FdLimit`), or two slots, are the least with
which one client leaves, another one stays and a third one gets the descriptor number, slot or array
entry of the first; with which an array compacts around a survivor; and with which somebody waits
behind EMFILE. Where a table may be full before or after the descriptors are, both happen: the sizes
of `SlotPollServer` and the two programs of `CompactPollServer` are chosen in the initial state. One
client writes streams of three or four bytes and a read takes one to three, so that a read cuts a
line, joins two, and ends on and off a line end; the other clients write a byte or two, or only come
and go (`MaxBytes`, per client). Bytes are `a`, `b`, `c`, `'\0'` and newline, since the programs tell
nothing else apart. `select` runs one program with fatal and one with tolerated failures of
`accept()`; the record of the latter allows every behaviour of the other three. `Backlog` is 1 (two
waiting connections). `Inbox` is the size of a socket buffer: in `broadcast` two bytes, one line, so
that writes block; there everybody types a letter of its own (`OwnSpec`), which tells the clients
apart. `async` has two entries (`AioClients`, `TickClients`), so that three clients overrun them, and
one letter of room in a client's buffer (`TickRoom`). Each client connects once; a client that comes
back is another client, as it is for the server.

*Lines.* Four bytes make every arrangement of up to four newlines: empty lines at the start, in the
middle and at the end, a last line with and without its newline. Buffers and arrays are four long
(`Room`, `Buffer`, `Chunk`, `Page`), and a piece of a long line three (`Cut`), so texts of five bytes
cross them: a last line that is too long only together with the one before it, and a line behind the
end of a full array, are among them. Every number from -1 to 6 is typed, and 48, the code of `'0'`; about two texts also words,
two numbers on a line, empty lines and two lines in turn.

*Editors.* A line of three columns is the least in which a word can wrap behind a blank; two letters
and the blank tell words and order apart; two keys are typed ahead, which is what KILL may flush.
`Room` stands for an array that is longer than the line, `Rows` for the number of lines m.tsyrenov's
program has. *Counters.* Four signals: one handled, one interrupting, one pending and one merged.

*Processes.* Exit codes 0, 1 and 3 and one signal; up to three typed lines of up to two bytes and a
buffer of four (`Piece`), so that lines join, fill it exactly and are cut; the pipe holds eight, so a
writer blocks only where it repeats its last line for ever, which is followed for eight bytes (`Repeats`). A server is started three times and a client
twice, four starts in all (`Starts`, `Connects`, `Started`), with a queue of one and one text per client.

Deadlock is not checked: when every client has left a server waits for ever, and a program that has
ended takes no step.

### Fairness

Weak fairness of the program's next step: a process that can run does, it has no higher-priority
rival. `ThreadServer` has it for each thread, since the kernel schedules them one by one;
`SigioServer` and `AioServer` for main() and for the handler, since a pending signal is delivered, and
`AioServer` for each helper thread; two processes have it each. In `LineQuery` the timer has it only
while the program waits in `read()` or `select()`: a timer may run out whenever it is set, but only a
program that waits is sure to see it. Nothing is assumed of users, except in `BroadcastServer`: its
client programs finish a `write()` they have begun and read what has arrived, because that is their
`select()` loop. No strong fairness is used anywhere.

## 4. Proofs

`SocketTheorems` proves, for any number of clients, descriptors and bytes: the operators of `CText`
(length and contents of `UpperText`, `CString` of a text without `'\0'` is the text), what a
`Chunk` is, that concatenating chunks rebuilds the stream, and that each building block of
`UnixSocket` preserves `SocketInv`.

Every other proof module has one inductive invariant per component, a lemma per action that it is
kept, and the theorems. "Proved" below is for every value of the constants: any number of clients,
descriptors, servers, threads, entries, bytes, keys and signals, and every program the records
describe. TLC shows the same properties on the small instances of section 3.

| Theorem | States | Module |
|---|---|---|
| `TypeCorrect`, `ReadinessStaysFresh`, `NobodyForgotten`, `StreamsAreShown`, `StopsOnlyInAccept` | `TypeOK`, `FreshReadiness`, `WatchedAreOpen`, `ReadIsShown`, `StopsOnlyWhenFull` of the `select()` servers | `SelectServerProofs` |
| `EventsStayFresh`, `ReadsAreData` | `FreshEvents`; the walk's branches for a read of 0 or -1 are dead code | `PollProofs` |
| `Implements` | `Spec => BytewiseContract`: `UpperService` with every byte printed | `PollProofs` |
| `TwoBlindOnlyOnReuse`, `TwoBufferHolds` | `BlindOnlyOnReuse`, `BufferHolds` | `PollProofs` |
| `BlocksOnlyOnNewest`, `LimitKept`, `AcceptsAreAnnounced`, `StreamsAreShown` | `BlindOnlyOnNewest`, `LimitIsKept`; `accept()` never blocks; `NothingDropped` | `CompactPollProofs` |
| `RelayInductive`, `RelayIsAtomic` | the relay's tables; `AtomicBroadcast` | `SelectServerProofs` |
| `OneServantEach`, `Implements` | `OneServant`; `ThreadedContract` | `ThreadProofs` |
| `SigioBlocksOnlyOnPublished`, `SigioForgets` | `BlocksOnlyOnPublished`, `ForgottenOnly` of the SIGIO servers | `AsyncProofs` |
| `AioOneOperation`, `TickArrayIsOpen`, `EdgeForgets` | `OneOperation`, `ArrayIsOpen`, `ForgottenEdges` | `AsyncProofs` |
| `NameLeadsToServer`, `BindsAfterRestart` | `FoundByName`, `RestartBinds` | `ProcessProofs` |
| `ParentIsLast`, `PipeIsService` | `ParentEndsLast`; `Transferred` for lines, pieces and pipes of any size | `ProcessProofs` |
| `CodeIsReported`, `EachIsSaidOnce` | `ReportsTheCode`, `SaidOnce` | `ProcessProofs` |
| `KeysDoNotKill`, `BellsAreReported` | `KilledOnlyInWindow`, `ReportIsBells` | `ProcessProofs` |
| `RowShowsLine`, `KeysStayInside`, `LetterStays` | `ScreenIsLine`, `InsideLine`, `LetterIsHeld` | `ProcessProofs` |
| `QueryInvariant` | what the dialogue has shown is what the table has for the number asked for, with what an unterminated buffer adds, or what the handler of a time-out makes of it | `LineProofs` |
| `LinesShown`, `FileShown`, `MemoryKept` | `ShowsTheLine`, `TimeoutShowsFile`, `KeepsToMemory` for texts of any length | `LineProofs` |

### The inductive invariants

Hardly one of the properties is inductive alone. What each needs, and why:

* *`SelectServer`* (`IInv`): `SocketInv`, `TypeOK`, `WatchedAreOpen`, `FreshReadiness`, and that the
  walk only has watched descriptors left. `FreshReadiness` needs that no two descriptors lead to one
  client, or reading one would empty the other; `WatchedAreOpen` needs `FreshReadiness`, so that the
  walk closes only descriptors that are open.
* *`SlotPollServer`* (`IInv`): `SocketInv`, `FreshEvents`, and `DataWaits`: POLLIN without POLLHUP is
  text, because a client that leaves later does not take back what it wrote.
* *`TwoPollServer`* (`TwoInv`): `SocketInv`, `BlindOnlyOnReuse`, no reports outside the walk, and that
  every `StrSize` bytes of a stream contain a `'\0'` and its last byte is one (`Terminated`), from
  which `BufferHolds` follows: what `read()` leaves of the buffer ends in what an earlier read put
  there.
* *`CompactPollServer`* (`IInv`): `SocketInv`, `BlindOnlyOnNewest`, `LimitIsKept`, and `Announced`: until the
  loop comes to `accept()` a connection waits, there is room for it, and in Bedareva's program the
  entries not yet walked over are still readable.
* *`BroadcastServer`* (`RelayInv`): `master_fds` is the listening socket and the open connections,
  `max_fd` bounds it, and a text is owed only inside the relaying loop. The mapping to
  `BroadcastService` says a message is heard when it is *owed*: `WillHear` is what a client has heard
  and the text, where the loop has not come to it.
* *`ThreadServer`* (`IInv`): `SocketInv`, `TypeOK`, `Sole` (each open connection has one thread that
  has its number, in its cell or its variable, or `main()`), and `Pending` (a thread that is about to
  print holds the last bytes read of its client). `Sole` is what makes a reused number harmless: a
  thread gives its number up in the step that closes it. The refinement mapping takes the held bytes
  from the count of bytes read.
* *`SigioServer`* (`SigioInv`): the slots hold open connections, no two the same; what `main()` knows in
  each of its steps; only the client just published can be in blocking mode; and for each slot, that
  the handler will come to it, unless one of the reasons in `ForgottenOnly` holds (`Told`).
* *`AioServer`* (`AioInv`): `OneOperation` and `HandsAreKnown`: `main()` holds the connection it has just
  accepted, the pending signal names a request that has ended, and a buffer is full only between
  completion and fetching.
* *`TickServer`* (`TickInv`): the array is exactly the open connections without repetition, and reports
  are of open connections, so the loop that looks for the number to remove finds it.
* *`EpollEdgeServer`* (`EdgeInv`): reports and edges are of open descriptors, and each readable
  connection is heeded (an edge, a report) or forgotten for a named reason.
* *`OneShotServer`* (`OneShotInv`): `FoundByName` looks at a server that waits; the invariant follows the
  name from `bind()` to its removal. A server that was alone is the only one that runs; the name leads
  to a server that has it, or to one that was killed.
* *`PipeTransfer`* (`TransferInv`, `PipeInv`): who holds the pipe's ends at each line of the two
  programs, and where a `'\0'` can stand in the stream. Memory is shown only behind a first piece because
  the other reader that ends no piece itself is sent lines that end with a `'\0'`.
* *`ChildProcess`* (`LauncherInv`, `SaidInv`): how the child ended decides its status (`Settled`), which
  the report decodes, and whether there is a report at all (`HasTold`); and at every step, for each
  message, how often it is on the screen and in either copy of stdio's buffer (`OnTheWay`, `AtOnce`,
  `Meanwhile`, `CommandText`, `LastWord`). The second one is a count over sequences.
* *`SignalCounter`* (`KeysInv`, `BellsInv`): whenever a handler is not installed, a frame is left that
  installs it or ends the program; and bells minus counts is what the frames still owe of the one less
  what they owe of the other, whatever has interrupted what.
* *`LineEditor`* (`EditorInv`): the row shows the line, in programs and until keys that `Honest` names; the
  length is within the program's columns; a write outside has a known reason; and in Trushkin's
  program, which wraps only letters, all that stands behind the columns is blanks (`BlanksBelow`). A letter finds a column
  (`Cursor`): where row and line no longer agree, the cursor still is at the length of the line, or, in
  m.tsyrenov's program, at most a line's width per newline counted beyond it.
* *`LineTable`* (`Known`): what a state of the loop says when i bytes have been read: how many lines have
  begun (`Come`), that each line that ended has the entry it should (`Noted`), and, while no piece was
  full, where the line that was begun starts and what of it is blank (`InLine`). `LoopKnown` shows it by
  induction over the bytes. What differs between the thirty-five records that matters to it is in
  `Shape`, which `Shapes` checks record by record; line k is related to the number of newlines before a
  byte by `LinesOfText`. `TableEntries` and `TableSize` then say what every entry is and how many there
  are.
* *`LineQuery`* (`QueryInv`): the table stays that of the text, what is typed is numbers or `Junk`, and
  the last output is what the table has for its number (`OutOK`). The three properties follow from it
  and from `TableEntries`.

The loops of `LineTable` and `LineEditor`, and the counts of `ChildProcess`, are recursive functions or
folds. The library's induction theorems take an operator and cannot be instantiated here; instead the
well-foundedness of `<` gives every set of numbers a least element (`LeastElement`), which gives
induction over sets (`Upwards`) and the existence of a function that is defined step by step
(`EndlessIteration`, `Iteration`).

A step maps to one of the abstract specification, or to a stutter, by lemmas about streams
(`ReadDelivery`, `DeliveryStep`, `WriteDelivery`): what is shown stays the upper case of what was read,
because a chunk is the piece of the stream after `rd`. The temporal steps follow by propositional
temporal logic.

### Assumptions

The named assumptions of the modules, which TLC evaluates in every run: `SocketAssumption`
(descriptor numbers are natural, there is room for one connection behind the listening socket),
sizes that are positive (`SelectAssumption`, `SlotAssumption`, `TwoPollAssumption`,
`CompactAssumption`, `ThreadAssumption`, `SigioAssumption`, `AioAssumption`, `TickAssumption`,
`EpollAssumption`, `BroadcastAssumption`, `TransferAssumption`, `LineAssumption`), and that the programs are those the
modules list (`OneShotAssumption`, `LauncherAssumption`, `CounterAssumption`, `EditorsAssumption`,
`QueryAssumption`, which also says that texts are bytes and that numbers and words are typed).
Two say more. The texts of `SelectServer` and `TwoPollServer` contain no `'\0'`: clients take them
from `fgets()`. `EditorAssumption` has the row longer than the array and than all the lines
m.tsyrenov's program counts together (`Columns > Room`, `Columns >= Rows * Width`): the row of the
model is the one the program thinks it writes, however the terminal folds it.

### What is only model-checked

* Liveness under fairness is beyond the prover: `EventuallyAnswered`, `EventuallyAccepted`,
  `EventuallyRelayed`, `EventuallyClosed`, `EventuallyReadShort`, `EventuallyFetched`, `PipeDrains`,
  `EndsWithClient`, `SilenceEnds`, `TypedIsRead`.
* The violation of section 6, which is one behaviour.

Every safety property of a passing run, invariants and actions, is stated by a theorem.

### What the proofs found

Two cases of the line tables lay outside the texts and numbers that were run before the proofs were
tried, and `ShowsTheLine` and `KeepsToMemory` were wrong there. N.Shestakov's programs stop reading
when their array is full, and accept the number behind its last element. i.karakulin's program counts a
last line without its newline from the start of the line before, so two lines that fit the buffer one
by one overrun it together. Both are in the properties now, and in the run's texts.

## 5. Mutants

Every property of a passing run has a mutant: a definition marked "faulty" beside the one it
distorts, such as a missing update of `max_fd`, a loop that ends one too early, an entry that is not
moved, an end of the pipe that stays open, or a thread started with the address of main()'s variable.
Substituting it makes the property fail in the same run. Faulty definitions are used nowhere else.

## 6. Disagreements found

One run expects a violation. `broadcast_pipe`: ZaVialoV's server (task 31) has a branch that reports
a failed `write()` and goes on, but a `write()` to a client that has closed raises SIGPIPE and ends
the server.

The others are exceptions that the passing properties name:

| Program | What it does | Named in |
|---|---|---|
| Karakulin, 32 | reads once per edge: an end of file behind a text is never seen, the descriptor is lost | `ForgottenEdges` |
| Daniil, Zelenkov, Dolgov, 7 | show the line before the one asked for | `ShowsTheLine` |
| Karakulin, 5 | shows each line with the length of the one before | `ShowsTheLine` |
| Trushkin, 5 | never shows the last line | `ShowsTheLine` |
| Perminov, 7; Bedareva, 6 | start one byte early; start k - 1 bytes late | `ShowsTheLine` |
| Tsyrenov, 5, 6 | splits a line that spans two reads, and offsets drift from there | `ShowsTheLine` (`FitsPieces`) |
| Makanin, 6 | "Printing entire file" prints what is behind the position, which is nothing | `TimeoutShowsFile` |
| Trushkin, Dolgov, 6 | the time-out's handler starts with the element before its table, reads and ends a piece of that length outside its memory, and leaves out the last line | `KeepsToMemory`, `TimeoutShowsFile` |
| Chelbaev, 5, 6 | do not end what they read of a line, and show the memory behind it | `ShowsTheLine`, `KeepsToMemory` |
| Bedareva, 6 | shows a buffer nothing was read into, when it starts so late that the file has ended | `ShowsTheLine`, `KeepsToMemory` |
| Shestakov, ZaVialoV, 6, 7 | a time-out shows nothing of the file | `TimeoutShowsFile` |
| Makanin, 5, 6; Bedareva, 7; ZaVialoV, 7 | write behind an array, a copy; search behind a mapping | `KeepsToMemory` |
| Karakulin, 5 | reads its last line, without a newline, with the length of two | `KeepsToMemory` |
| Shestakov, 5, 6, 7 | accept the number behind the last element of a full array | `ShowsTheLine` |
| Daniil and others, 6 | an empty line wakes `select()`, and `scanf()` waits without a time-out | `SilenceEnds` |
| Chelbaev, 6; Makanin, 6, 7; Perminov, 6 | time only the first number; do not time a second try; look at the alarm after the next line | `SilenceEnds` |
| Makanin, 6, 7 | lose the alarm that rings before `scanf()` waits, and wait for ever | `SilenceEnds` |
| Komarevtsev, Chelbaev, 17 | drop the character that follows a full line | `LetterIsHeld` |
| Komarevtsev, Chelbaev, Tsyrenov, 17 | move a word on the screen only | `ScreenIsLine` |
| Tsyrenov, Trushkin, 17 | leave the array, with ERASE in an empty line or with blanks | `InsideLine` |
| Shestakov, Tsyrenov, 21 | ring with the report only | `ReportIsBells` |
| ZaVialoV, Tsyrenov, Trushkin, Karakulin, 10 | report 0, 256 times the code, an unset variable; 0 for a signal | `ReportsTheCode` |
| Komarevtsev, 10 | says nothing when a signal ended the command | `ReportsTheCode`, `SaidOnce` |
| Chelbaev, 9 | says a line twice into a file when exec fails | `SaidOnce` |
| Tsyrenov, 10 | says the last message twice when exec fails: the child goes on in the parent's lines | `SaidOnce` |
| Trushkin, 31, 25 | of several lines of one read, each ended by a `'\0'`, show only the first | `ReadIsShown`, `Transferred` |
| Shestakov, 25 | shows the memory of its buffer behind the first piece, which only the other process cleared | `Transferred` |
| ZaVialoV, Bedareva, 25 | end before the text is shown | `ParentEndsLast` |
| Trushkin, Shestakov, 25 | write or read behind a buffer that is full; Shestakov's writer repeats its line at end of file | `PipeDrains` |
| Makanin, Tsyrenov, Trushkin, 30 | cannot start again after a crash | `RestartBinds` |

Some need no run: Komarevtsev's server (task 31) tests POLLHUP before POLLIN, so text written just
before an exit is lost; Shestakov's programs (6 and 7) end on 48 and not on 0, and his writer (25) on
every line that begins with `exit`; Trushkin's (25) writes the character `'0'` behind a piece, in the
place of a `'\0'`; ZaVialoV's server (30) shows one empty text behind its client's end, and would end at
once on a text that begins with a `'\0'`.

## 7. Not modelled

* Tasks 1, 2, 3 and 18 print the results of system calls and task 4 is one sequential list: no state
  worth exploring.
* `N.Shestakov/17`, which keeps all lines in one buffer and draws the current one anew for each key,
  is another program than the nine editors and has no model yet; nor have `N.Shestakov/temp`, a draft
  of his server of task 31, and `Y.komarevtsev/task_32/Writer.c`, which writes a fixed line.
* `n.bedareva/lab5` and its copy `D.Dolgov/t5` do not compile.
* Failures of `socket()`, `listen()`, `select()`, `poll()`, `epoll_wait()`, `pipe()` and `open()`,
  which end the programs; wording of the output; partial writes; `printf()` inside a signal handler,
  except where stdio's buffer matters (tasks 9, 10, 21) or `free()` meets `malloc()` (`AioServer`);
  terminal settings, which are changed once before and once after the loop of task 17.

## 8. Plan

Inventory, models, runs and the theorems of section 4 are done. What is left: `N.Shestakov/17` beside
the other editors, against the same screen.
