# mysrc53 in TLA+

This directory models the programs of the repository that keep state, talk to
each other or run concurrently, checks them with TLC, and proves the central
properties of all but the OpenSSL demos with TLAPS.

- [1. Inventory](#1-inventory)
- [2. Modules and how they correspond to the code](#2-modules-and-how-they-correspond-to-the-code)
- [3. Runs](#3-runs)
- [4. Fairness](#4-fairness)
- [5. Proofs](#5-proofs)
- [6. Where the code and its comments differ](#6-where-the-code-and-its-comments-differ)
- [7. What is not modelled](#7-what-is-not-modelled)
- [8. How it grew, and what could follow](#8-how-it-grew-and-what-could-follow)

Paths are relative to the repository's root.

## 1. Inventory

The repository is a personal collection: small C++ programs, Python tools,
AutoHotkey scripts, and the shell configuration that ties them together. There
is no single application, but several small systems, some of them distributed
over a Linux host and the Windows machine its user sits at.

| component | source | state it keeps | operations | talks to |
|---|---|---|---|---|
| ping/pong demo | `cxx/tests64/conditionvar.cpp` | two mutexes, two condition variables, a round counter per thread | `main`, `ping`, `pong` | pthreads |
| writer/reader demo | `cxx/tests64/conditionvar2.cpp` | `mydata`, a mutex, a condition variable | `do_write`, `do_read` | pthreads |
| remote command channel | `python/e.py`, `ee.py`, `eee.py`, `imlistening.py` | the listener's socket buffer, its Qt message button, what it has started | send a command; receive, translate and run it; close the button; restart | UDP port 6821; `script/runccc` sends through `eee` |
| UDP echo | `cxx/udpecho/udpechoclient.cpp`, `udpechoserver.cpp` | a socket each | send a string, echo it, compare lengths | UDP, through `PracticalSocket` |
| socket library | `cxx/udpecho/PracticalSocket.*` | the descriptor of each object | construct, bind, listen, connect, accept, send, receive, destroy | the operating system's descriptor table and TCP |
| ssh-agent sharing | `dot/my.bashrc.sh`, `dot/mygg8.bashrc` | `~/.ssh/ssh-add-latest`, the running agents, each shell's `SSH_AUTH_SOCK` | log in | other logins, through the file and `pgrep` |
| input language keys | `ahk/한영키분리ime.ahk` | `lastWin`, AutoHotkey's stack of threads, each window's input mode, the tooltip | CapsLock, the Hangul key, the window timer | the active window |
| project environment | `dot/hidvr.aliases.sh` | three files shared by all shells, a file of extracted functions for each project, the trunk's link, each shell's variables | `config_prj`, `k` and its kin, a new shell | other shells, through the files; the project's own scripts |
| launchers | `script/runccc`, `script/linuxccc` | shell variables set by options | parse options, run the console program | `eee` |
| OpenSSL demos | `cxx/tests64/rsatt.cpp`, `ttatt.cpp`, `rsasign.cpp`, `osslcli.cpp` | keys, contexts, BIOs and buffers of one run | encrypt and decrypt, sign and verify, ask a TLS server | OpenSSL; a TLS server |
| small tools, shortcut keys, start scripts, build files | see section 7 | none between two runs | | |

### What is hard in them, and what makes them right

*ping/pong.* Neither `pthread_cond_wait` is in a loop, and no variable says
whose turn it is: the order of the lines rests only on who is parked when a
signal comes. Right is: `0 : ping, 0 : pong, 1 : ping, ...`; pong first signals
`main` and only then is ping started; the process ends after both have printed
everything; and the one way to hang is a signal that found nobody waiting.

*writer/reader.* Two fields are written in two steps; the reader waits without
a predicate. Right is: a report shows one whole write, the latest; no write is
reported twice unless a wakeup was spurious; and reports never stop, although
writes may go unreported.

*Remote commands.* A datagram has no answer, no retry and no number. The
listener runs commands one after the other, dies of many of them (an unknown
program, an empty text, an over-long datagram), and stops in a message button
when Python code raises. Right is: commands run in the order they were sent, as
long as the network keeps that order; none runs more often than it arrived; one
that is missing has met a listener that was down or a full buffer; and what `e`
and `ee` ask Windows to open is named as Windows sees it, unless it lies outside
`/home` or a quote in the command does not match.

*UDP echo.* The client has no timeout and does not look who answers; ports are
reused. Right is: without copies, and as long as no client leaves before its
answer (killed, or thrown out of `recv`), everyone gets his own echo; no echo is
taken twice; a client that hangs has lost a datagram or the server.

*Sockets.* A constructor is several system calls, each of which may throw, and
the kernel hands the lowest free descriptor to the next object at once. Right
is: every open descriptor has exactly one owner; bytes come in order, and all
of them if `::send` took all; and a reader learns that the other object is gone.

*ssh-agent.* `pgrep`, the redirection, `ssh-agent`, `sed -i` and the source of
the file are separate steps of logins that nothing keeps apart. Right is: one
agent, and every login talks to a live one, as long as logins do not overlap; a
login nobody overlapped gets its own agent whatever overlapping ones did
earlier; and nobody ever takes the address of the last boot's agent. All of this
rests on one assumption: no other program starts an ssh-agent for the user, since
`pgrep` (line 44) would see it and the script would then trust the file.

*Input language.* AutoHotkey's threads interrupt each other at every `Sleep` and
between any two lines, and the active window, which each line looks up anew, may
change there too. Right is: the last key pressed in a window has the last word
there, unless it was pressed on top of a thread that can still undo it; the
tooltip ends up true, unless something came between its question and its display;
and the window one stays in is noticed.

*OpenSSL demos.* One thread, one call after the other, and any of dozens of
calls may fail; some results are not looked at, some are looked at for the wrong
value. Right is: what slips through one check is caught by a later one, so that a
program that returns has told the truth; "OK. Verified." means there was a
signature; no call is given, prints or frees what has been freed already or was
never set; and what was made is given back, also what a variable held before it
was set again. That the null of a failed call is handed on is not wrong in this
sense: the code does it (`BN_set_word` gets the null of `BN_new`), and what
matters is what comes of it.

*Project environment.* `config_prj` writes three files one by one, and derives
its shell's variables from them with functions and a model id of the *previous*
project. A new shell extracts a project's functions once and for all, in one line
that tests, empties and fills the file. Right is: a switch that does not complain
is right, if its build tree is there; doing it again helps; a new shell comes up
for the last switch, if the extraction was whole and no other shell came up at the
same time; the trunk's link is right even when the check complains, or, where the
build directory is missing, at least leads to no other model's tree.

## 2. Modules and how they correspond to the code

| module | models | state | one action per |
|---|---|---|---|
| `Pthread` | mutexes and condition variables (external) | who holds each mutex, who is parked on each condition | `lock`, `unlock`, `signal`, `wait` (parking and returning are two steps), spurious wakeup |
| `Alternation` | what ping/pong promises | the lines printed so far | line |
| `PingPong` | `conditionvar.cpp` | `main`'s and the workers' program counters and rounds, mutexes, wait sets, output | pthread call |
| `WriterReader` | `conditionvar2.cpp` | both threads, `mydata`, what was reported | pthread call and field written |
| `CommandText` | what the clients build and what the listener makes of it | none: operators on sequences of words | |
| `RemoteCommand` | clients, network, listener | the datagrams under way, the socket buffer, the listener's status, what it ran | client run, datagram delivered, lost or repeated, turn of the listener's loop, click, restart |
| `UdpEcho` | echo client and server | each client's progress and port, the datagrams under way, the server | client's send, client's receive or exception, turn of the server's loop, its end, loss, kill |
| `EchoSockets` | the same programs with the sockets of `PracticalSocket` | each program's next call, each socket's port and datagrams, the buffer between `recvFrom` and `sendTo`, the wire | constructor, `sendTo`, `recv`, `recvFrom`, the exception of each, destructor; arrival, loss, kill |
| `PracticalSocket` | the socket classes and the descriptors under them | each object's construction step and descriptor, the descriptor table, both sides of every connection | system call of a constructor or method, exception, destructor |
| `SshAgent` | the end of the login script | each login's position and `SSH_AUTH_SOCK`, the inodes behind the file, the agents | command of the script; agent killed |
| `Ime` | the input language script | modes, active window, `lastWin`, the thread stack with each thread's next step, the window it looked up and what it was told, the tooltip | hotkey, timer, look-up, message, question, key sent or tooltip of a thread, change of window |
| `ProjectEnv` | `config_prj`, `sprjenv`, `sbldenv`, a new shell | the three files, the extracted functions (there, whole), the link, each shell's variables and position | file tested, read, emptied or written, check, command, shell opened or closed |
| `OpenSslDemos` | the four programs that call OpenSSL | the next call, what each name holds (right, padded, wrong, freed), what was printed | call that works, call that fails |

`MC*` modules only give constants their values. `*Proofs` modules hold theorems.
`PingPong`, `WriterReader` and `OpenSslDemos` are instantiated directly by their
configurations.

`PingPong` EXTENDS `Pthread` and instantiates `Alternation` under a refinement
mapping; `RemoteCommand` EXTENDS `CommandText`; `EchoSockets` puts the echo
programs and their sockets together and instantiates `UdpEcho` under a mapping
that counts a datagram in the server's hand as a request, and one in a client's
socket as a reply. The other components do not share state and are not composed.

Abstractions worth knowing:

- *Granularity.* A step is what another actor can observe: one pthread call,
  one system call, one read or write of a shared file, one look-up, message or
  key of an AutoHotkey thread. `sed -i` is two steps, its read and its rename;
  `ssh-agent > file` is three, the truncation, the fork of the agent and the
  output; line 314's `[ -f ] || sed > file` is three as well. The `echo` of one line
  into a file that `config_prj` writes is one: who reads the file between its
  truncation and the output has met a `config_prj` half way, like one who reads
  between two of the files, and no property of `ProjectEnv` claims anything then.
  One turn of the listener's loop is one step, because nothing else
  touches its state meanwhile, except that a message button splits it.
- *Text.* A command is a sequence of words, and of a word only what the
  listener's tests see is kept: its kind, how the file in it is named, and whether
  it begins with a quote, closed or not. An unmatched quote makes `shlex.split`
  raise; `cmd.split()`, which takes over, leaves a quoted program cut or with its
  quote, so that `args[0]` ends in no `.exe` (`FirstArg`, `Garbled`).
  Byte streams are sequences of numbers, so that a lost, repeated or reordered
  byte shows.
- *A platform is chosen once.* Whether condition variables wake spuriously and
  threads fail to start (`PingPong`'s `env`), and whether the network loses and
  repeats (`net` of the echo modules), is a variable that `Init` chooses and no
  step changes: one run covers every platform, and a property says on which it
  holds.
- *Straight-line programs.* `OpenSslDemos` writes each function as the sequence of
  its calls, and a call as a record: what it needs and makes, how it may fail,
  which results the check after it catches, and whether it then gives up or skips.
  Two actions, `Work` and `Fail`, run them all.
- *Undefined and external behaviour* is a choice. What a system call may answer
  (fail, take less, be interrupted, lose, repeat, reorder) is a disjunct of the
  action that makes the call. An external program is what the code relies on:
  `PracticalSocket` gets the lowest free descriptor; AutoHotkey may interrupt a
  thread between any two lines, does not start a hotkey again whose thread still
  runs, and resumes threads newest first. That it spares a thread in its first
  milliseconds is not relied on, except that the first look-up of a hotkey's thread
  comes with its launch.
- *History variables* (marked so at their declarations) are read by properties
  only, with two exceptions that are no part of the program either: the bounds
  on losses, copies, interrupts, restarts and commands count in such variables.

Two module names differ from the code's: `Fd(o)` is what the system knows under
`o.sockDesc`; the `step` of an object is the constructor's next call.

## 3. Runs

Each cfg holds all bounds; they are constants of the specification.

| run | instance | shows |
|---|---|---|
| `ping_pong` | four rounds; with and without spurious wakeups and failing `pthread_create` | `Alternates`: refinement of `Alternation`; `StartedInOrder`; `LostMeansUnanswered`: when both are parked exactly one ping is unanswered; `EndsOrLosesWakeup`: on a calm platform it ends or both wait for ever; `ExitsAfterBoth`, on every platform |
| `writer_reader` | random numbers modulo 2, spurious wakeups | `WholePair`, `KeepsReporting`; `FreshReport` up to the first spurious wakeup |
| `remote` | three clients (one opening files inside and outside `/home`, with blanks and unmatched quotes in their names, one sending each kind of command, one unknown host), one loss, one copy, any reordering, a buffer of two, one restart | `NoExtraRuns`, `InSendOrder`, `MissingOnlyIfDown`, `FilesAreReachable`, `GetsItsTurn` |
| `udp_echo` | three clients on two ports, strings of different lengths and one too long; any number of losses, copies, kills and exceptions out of `recv`, a server that may start late, fail or never start | `OwnEcho`, `EchoTakenOnce`, `ClientEnds` |
| `echo_sockets` | two clients and the server, two ports, call by call, the same network | `Implements`: refinement of `UdpEcho`; `GetsEcho`: nobody is passed over in `recvFrom` or `recv` |
| `ssh_agent` | three logins, any agent killed at any time, a file that is empty or from the last boot | `OneAgent`, `Connected` until two logins overlap; `AloneGetsOwn`, `FromThisBoot` always |
| `ime` | two windows, one of which may refuse messages, initial modes arbitrary | `KeyWins`, `TooltipTrue`, `Noticed` |
| `ime_caps_lock` | the same | violation, see section 6 |
| `project_env` | two shells, closed at any step; a trunk with two models, a branch that knows one of them, on another SoC, and the PC version, which is extracted already; one of the trunk's build trees missing; extractions that fail, are cut off or are seen half done; two `config_prj` | `SilenceMeansRight`, `SecondTimeRight`, `NewShellRight`, `LinkRight` |
| `sockets` | four objects (a server, its client or the accepted connection in two, a datagram socket) competing for three descriptors; two bytes, short writes | `OneOwner`, `InOrder`, `HearsTheEnd` |
| `socket_short_writes` | server, client and accepted object, three bytes, short writes | violation, see section 6 |
| `openssl` | each of the four programs, every call failing in each of its ways, any number of them | `HonestOutput`, `OkMeansSigned`, `NoStaleUse`, `NothingLeft` |

Every module states a type invariant. Where TLAPS proves it, and a run is there
for deeper questions, it is left to the proof (`ping_pong`, `writer_reader`,
`remote`, `udp_echo`, `echo_sockets`, `sockets`, `project_env`); the other runs
check it, those of `ssh_agent` and `ime` although it is proved too. A
property that holds only under a condition says so itself, through a history
variable or the platform (`copies = 0`, `raced = {}`, `~spurred`,
`~net.repeats`), so that one run shows both the promise and what is left without
it.

*Why the bounds are enough.* In each system the interesting interference is
between two actors and something they share; three logins, clients or objects
leave one to have spoilt the shared thing earlier, and two ports for three
clients make one be handed on. In `remote` one loss, one copy and one restart are
enough for every guard that looks at them, because the properties allow for "at
most this many", and the theorems remove the bounds; the echo networks are not
bounded at all, since a client sends once. Two bytes distinguish a lost, a
repeated and a swapped byte. Three descriptors are one too few for the four
objects: with the server, its client and the datagram socket built, `accept` finds
the table full, and the constructor of whichever object is left does so, too. Two
`config_prj` are enough for one shell to be wrong and repair it, or for two to
spoil each other's files; what a third could find stale, the files, link and
variables of an earlier call, the initial states and new shells already vary, and
the theorems hold for any number. An incomplete file of functions defines none of
the two models or the first. Of two windows one may refuse messages: which one
does not matter, and if both do nothing happens.
`ping_pong` plays four of the code's ten rounds: first, last and two in
between; its safety is proved for any number. Modulo 2 two writes may or may not
differ. `openssl` is not bounded: its programs are finite.

`CHECK_DEADLOCK FALSE` stands where the system may stop: a process that ends
(`PingPong`), clients that all have ended, a listener nobody restarts, logins
that are all done, a process killed by SIGPIPE, a demo that has returned.
`WriterReader`, `Ime` and `ProjectEnv` never stop and are checked for deadlock.

## 4. Fairness

| specification | fair | because |
|---|---|---|
| `PingPong` | weakly, the next call of `main` and of each worker | the scheduler runs every thread that can run |
| `WriterReader` | weakly, the writer's next call; strongly, the reader's | the same; and `do_write` sleeps after each write with the mutex free, so a reader that wants it has it in the end |
| `RemoteCommand` | `Arrive`, `Receive` | what is not lost arrives, and the loop takes what is in its buffer. Not `CloseModal` and not `Restart`: nobody has to click or to start it again |
| `UdpEcho` | each client's `Serve` and `Receive` | a socket hands out its datagrams in turn, so none is passed over for ever, and a client in `recv` is scheduled. Not loss, copies or kills |
| `EchoSockets` | weakly, `SendTo`, each `Recv` and each arrival; strongly, each client's `RecvFrom` | a program goes on when its call can return, and what is on the wire arrives; strong, because the server's `recvFrom` of one datagram is disabled again and again while it answers another |
| `Ime` | the timer's thread; strongly, each step of a thread | a timer fires; a thread below others gets its turn unless keys are pressed without end |
| `PracticalSocket` | each `Recv` | a thread that sits in `recv` gets what has arrived. Nobody has to send, accept or destroy |

No other module states a liveness property: a login or a shell may be left at
any prompt.

## 5. Proofs

TLAPS checks these for every value of the constants; the theorems of a module
assume only its named `ASSUME`s, which TLC evaluates in every run.

**`ConditionVarProofs`**, about both demos.

Of ping/pong, for any number of rounds and on every platform:
`TypeCorrect`, `ExitSafe`, `InTurnAlways`, `StartOrder`, `LostWakeupShape` and
`ImplementsAlternation`. `InTurn` is not inductive: a signal wakes whoever is
parked, so one must know who can be. `ProgressInv`, which holds with spurious
wakeups and failed thread creations too and gives `ExitSafe`, ties each thread's
position to its round, and its round to what it has printed. `TurnsInv` adds
three parts. `SyncInv` is about the handshake: who holds `sync_mutex`, that `main` is
parked only there, and which worker exists already. `MutexInv` says that whoever
holds `gmutex` is inside the section and that a thread in the wait set is parked.
`TurnInv` says whose line is next: pong is called only while ping waits, and has
printed as much as ping, or one line less, according to where both are. Without
spurious wakeups a parked thread leaves the wait only through the other one's
signal, and that comes after the other's line; this is the step that fails when
wakeups may be spurious, so the invariant is `CalmInv`, `TurnsInv` or a
platform with spurious wakeups. The refinement proof maps each print to a step of
`Alternation` and everything else to a stutter, citing `InTurn` for the guard.

Of the writer and the reader, for any range of random numbers: `ReportTypeCorrect`,
`FreshReportAlways`, `WholePairAlways`. `WriterReader` is instantiated there as `WR`
on the same variables of `Pthread`, so its assumption about `Modulus` is a
hypothesis of these theorems. `ReportMutexInv`: the mutex is held exactly between lock
and unlock. `DataInv`: unless the writer is between its two assignments, `mydata` is
the last whole pair; the reader prints with the mutex held, so the writer is not
there. `NewsInv`: what wakes the reader is a write that it has not printed, until a
spurious wakeup.

**`RemoteCommandProofs`** (any clients, commands and buffer, any bounds on loss,
copies and restarts).
`TypeCorrect` and all four safety properties, each from an invariant of its own;
`ReceiveCases` says once what a turn of the loop can do. `NoExtraRunsAlways` from
`CountInv`: of each client's command, the datagrams under way, the waiting ones and
the runs together are at most one, once it is sent, plus the copies made; every
step moves a datagram from one place to the next or drops it.
`InSendOrderAlways` from `Ordered`: while nothing is repeated or reordered,
network, buffer and what was run are each in the order of sending, and what was
run came before what waits, and that before what is under way.
`MissingOnlyIfDownAlways` from `DownInv`, that a listener that does not run has been
down since every sending, and `Travels`, that whatever exists was sent.
`FilesAreReachableAlways` from `TextInv`, that what was run is the rewritten text of its
client, and the lemma `FileTextsTranslated` about the commands of `e` and `ee`, with
the property's two exceptions: a path outside `/home` and an unmatched quote after a
program in quotes.

**`UdpEchoProofs`** (any clients, ports and strings).
`TypeCorrect`, `EchoTakenOnceAlways`, `OwnEchoAlways`. `SingleInv`: unless the
network repeats, a client's datagram is in at most one place, the requests, the
replies or somebody's answer. `OwnerInv`: as long as nobody is killed or thrown out
of `recv`, the port a datagram goes back to still belongs to the client that sent it.

**`EchoSocketsProofs`** (the same).
`TypeCorrect`, `ImplementsUdpEcho`: initial states map to initial states and every
call to a turn of `UdpEcho` or a stutter. `SockInv`: a port belongs to one socket,
and what is in a socket came to its port; so an arrival at a closed port is a
`Discard`. `WireInv`: a datagram's client has sent it, and unless the network
repeats it is in one place only; so taking it from one set takes it from the
mapped union. `OwnEchoAlways` and `EchoTakenOnceAlways` are what the refinement is
for: the two theorems about `UdpEcho`, instantiated under the mapping, say of the
programs with their sockets what `UdpEcho` says of turns; only what the mapping
makes of a client's position is left to prove.

**`SshAgentProofs`** (any set of logins).
`TypeCorrect`, `FromThisBootAlways`, `AloneGetsOwnAlways`, `OneAgentAlways`,
`ConnectedAlways`, all on the assumption that no other program starts an agent.
Three invariants of their own: `BootInv`: as long as the file
holds the last boot's address nobody has got beyond the truncation and no agent
runs, so nobody is sent to the file by `pgrep`. `OwnInv`: a login that is in
progress with another is in `raced`; one that is not finds its own address in the
inode it opened, in `sed`'s buffer and in the file, one after the other. `AloneInv`: until
logins overlap, whoever starts an agent does so when none runs, and the file
names the running agent whenever nobody is writing it.

**`PracticalSocketProofs`** (any numbers of objects, descriptors, connections,
any set of calls).
`TypeCorrect`, `OneOwnerAlways`. `OneOwner` alone is not inductive, since
`accept` and `connect` go through the descriptor of an object: `OwnerInv` adds
the type invariant in parts (`ObjectsOK`, `TableOK`, `TcpOK`), among them that an
object has a descriptor exactly while it is built, and `SidesOK`, that a connected
descriptor knows its side.
`EndsHeldOnce`, `InOrderAlways`, `WholeBufferUnlessShort` and
`EofIsTheEndUnlessShort` are about the bytes, from `OrderInv`. `EndsOK` says that no
two descriptors hold the same side of a connection and that a connection waits in
one queue once; without it `accept` could hand out a side that is read already, or a
destructor close one that is in use. The lemma `EndsAndMoves` then reduces every
step, for each direction of each connection, to one of five moves: nothing, bytes
handed over, bytes received, closed, forgotten. `FlowInv`, which each move keeps:
what was received, followed by what is under way, rises and stays below what was
given. `WholeInv`, kept only if `::send` takes all: received and under way
together are exactly what was given, from 1 on, unless the receiver is closed; so what is
received is a beginning of it, and a 0 from `recv` means that all of it has come
(`EofIsTheEnd`, an action property that the proofs' module defines). The run
`socket_short_writes` shows what happens without that assumption.

**`ProjectEnvProofs`** (any shells, projects, models and build trees, any number of
`config_prj`).
`TypeCorrect`, `FilesSettled`, `SilenceMeansRightAlways`, `SecondTimeRightAlways`,
`NewShellRightAlways` and `LinkRightAlways`, all from one inductive invariant, whose
parts say what is known at each step. `JobInv`: which steps a job has, and
that its arguments are acceptable ones. `SoloInv`: while a `config_prj` that no other
overlaps is under way no other shell is in one, and while a new shell that is alone
comes up no other does; so nobody else writes the files, or the functions, whatever
the others do meanwhile. `FilesInv` and `VarInv`: of such a call, each file and each
variable is that of its arguments from the step on that sets it, the letter stays
the build directory's until the project's script sets it, and line 247's check has
compared the two. `VarInv` does not say that the build directory's letter is right
before `sbldenv`, because it need not be: that is why the silence of line 247 is worth
something. It is also why `LinkRight` has its exception: where the build directory
is missing, the letter is still the one that named it, right or not, and the link
then leads to that missing directory at worst. `AgainInv`: for the second of two
equal calls the letter is right from `sprjenv` on, since the first has left the
project's functions and a `Hiconf` that is not `PC`. `DefsInv`: the functions a shell
has are of projects that know their models. `NewInv`: a new shell knows no function
until it sources its project's, and then all of them if it came up alone and the file
is whole. `SettledInv`: after a call that no other overlapped the three files say the
same command, so a shell that reads them later comes up right. A command may name a
model its project does not know; the script then exits, and no property is about
the shell that is gone.
Of the constants they use that no model id is the word `PC`, that no project is called
"unset", and that a build tree is named after a project and a letter.

**`ImeProofs`** (any set of windows, any modes to begin with, whatever refuses
messages).
`TypeCorrect`, `KeyWinsAlways`, `TooltipTrueAlways` and `CapsLockUnlessOver`.
`StackInv`: a thread is on the stack once at most, only `CheckWin` sleeps before it has
looked a window up, and a thread that is to address a window has looked one up.
`KeyInv` is about the last key that counts, one that was not pressed on top of a
thread that may undo it (`over`): its thread, if it has not ended, runs and addresses
the active window; no thread below it may undo it (`MayUndo`: it is still to set
the other language or to toggle, or has asked another window); and the window is in
the key's language, or refuses messages, or the thread has yet to see to it. With
no thread left that is `KeyWins`. `TipInv`: as long as nothing has come between the
running thread and its question of line 56, the window it asked is the active one,
and the answer the mode of that; so is the tooltip's text when the thread ends
with nobody left to change it. What the property excuses is real: a thread
interrupted between its question and its tooltip shows the mode of before, and if the
interrupting thread has shown its own already, the stale tooltip stays.
`CapsLockUnlessOver` is about the run `ime_caps_lock`, see section 6: the promise
holds in every behaviour in which CapsLock is never pressed on top of a thread that
`MayUndo` names. Of the constant they use that "none" is no window.

*Only model-checked:* everything temporal under fairness (`EndsOrLosesWakeup`,
`KeepsReporting`, `GetsItsTurn`, `ClientEnds`, `GetsEcho`, `Noticed`,
`HearsTheEnd`), because TLAPS's backends have neither fairness nor `ENABLED`; what a
recursive definition computes, because the induction theorems take an operator; and
`OpenSslDemos`. The one constant of that module is the set of programs, and the run
has all four, so TLC's check is complete there: it goes through every way in which
each of the finitely many calls can fail, and a proof would say it of the same
states again.

## 6. Where the code and its comments differ

- `socket_short_writes`: `CommunicatingSocket::send` drops the count `::send`
  returns. "Write the given buffer to this socket" (`PracticalSocket.h:151`) then
  fails without an exception: the rest of the buffer is never sent.
- `ime_caps_lock`: "CapsLock → 무조건 영문" (English unconditionally, line 36).
  The Hangul key's thread may be anywhere before the end of line 32 when CapsLock is
  pressed; it then goes on, and sets Korean, or finds the window in English and
  toggles it. CapsLock pressed on top of `CheckWin`'s thread breaks the promise, too,
  if that has found Korean and is about to toggle, or has looked up a window at line
  30 that was left since. There is no other way: in a behaviour without these the
  promise holds, for any windows (`CapsLockUnlessOver`).

Seen while modelling, part of the models, and not the subject of a run:

- `send` on a reset connection raises SIGPIPE and ends the process, where the
  interface promises an exception (`Send` of `PracticalSocket`, last disjunct).
- One failed `sendTo` ends the echo server whose loop says "Run forever"
  (`Stop` of `UdpEcho`, `ServerEnds` of `EchoSockets`), and takes the waiting
  requests with it.
- `eee` joins its arguments with blanks, so an argument with a blank arrives as
  several (`EEEText`).
- `CheckWin`'s "start in English" may go to another window, since `IME_Set` looks
  the window up again 80 ms later (`AfterSleep80`).
- A tooltip may stay stale: a thread interrupted between lines 56 and 65 shows
  the mode of before (`told`, `TooltipTrue`).
- A command of `e` whose file name has an unmatched quote after a blank is run as it
  came, with its Linux path (`Garbled`), and so is any path outside `/home`.
- Two shells that come up at once: the second may find the first one's file of
  functions empty, and comes up without a letter; an extraction that failed stays
  empty for ever (`Extract`, `Truncate`, `Sed`).
- `config_prj` of a model the project does not know writes its files before the
  script exits, and with it the shell (`BuildEnv`).
- The first `config_prj` of a project in a shell may use the previous project's
  model functions, and says so (`warned`).
- `rsatt` announces a test of the foreign key `pubk`, but encrypts with its own
  `dkey` (`Rsatt`).
- `rsatt` and `ttatt` keep the length of the *first* `EVP_PKEY_decrypt`, an upper
  bound, for the decrypted text, which so ends in zeros (`Decrypt`, value
  "padded").
- `rsasign` frees `bne` only if there is no key to return (`RsaGenKey`), and may
  call a right signature wrong when `BN_CTX_new` fails (`Verification`).
- `osslcli` takes only 0 for a failed `SSL_connect`, and only -1 for a failed
  `SSL_read`: a failed handshake is found out a call or two later, after the
  certificate has been printed, and a connection the server has closed answers
  "Got 0 chars" (`TlsConnect`, `Ask`).

## 7. What is not modelled

- *The option loops of `script/runccc` and `script/linuxccc`*: one shell, whose
  variables select the words of one command. An argument that no pattern matches
  is never shifted away and the loop never ends; that is certain, not a matter of
  order, and the first try shows it.
- *`PracticalSocket`'s* getters, `resolveService`, `cleanUp` and multicast, which
  change nothing a later call depends on; `disconnect` and a connected
  `UDPSocket`, which no program of the repository uses; and an object shared by two
  threads.
- *Starting a command on Windows itself* in `e.py` and `ee.py` (no `SSH_CLIENT`):
  one `Popen`, no state. The Windows code page and undecodable datagrams of the
  listener.
- *What the cryptography computes*: key sizes, padding, encodings. A value is
  right, padded or wrong.
- *`aestt.cpp`, `certtt.cpp`, `exported.cpp`*: they convert their input once, with
  a library whose header, `tta_util.h`, is not in the repository.
- *`sreport.cpp`, `eemacs.cpp`, `mytt.cpp`, `globalbufferoverflow.cpp`*: filters
  and one-shot programs whose state is the line they read. (`sreport` spins for
  ever on a line of 10239 characters or more, since `getline` then sets `failbit`
  and not `eof`.)
- *In `hidvr.aliases.sh`*, `go`, the `grep` helpers and the aliases that change
  directory: no state. The project's own scripts do not change while the model
  runs, so functions extracted from them may be missing but never are outdated.
- *`ptsshortcut-v1.ahk`, `rundvr.ahk`*: each key sends a fixed text.
- *Start scripts of the recorder, wrappers, aliases, make files, editor
  settings, notes*: no state, or not code that runs here.

## 8. How it grew, and what could follow

First came the two condition variable demos with the proofs about ping/pong,
then the remote commands, the echo programs, the sockets, the logins, the
language keys and the shells' environment; then the proofs about logins and
descriptors; and last the OpenSSL demos, the echo programs call by call and their
refinement, and the proofs about the writer and the reader, the remote commands
and the echoes; then those about the bytes of a connection and the environment of
a shell; and those about the language keys, with which the safety of everything but
the OpenSSL demos is proved.

What is left is of less weight: `disconnect` and connected datagram
sockets once a program uses them; and the variant of the login script in
`dot2/rocky.bashrc`, which does not call `ssh-add` after it has started an agent.
