# TLA+ models of ng

This directory holds TLA+ specifications of the programs and libraries under
`src/bazelPro`, the TLC configurations that check them on small instances, and
proofs that TLAPS checks for every instance. Paths below are relative to
`src/bazelPro/src` unless they say otherwise.

1. [The system](#the-system)
2. [Modules](#modules)
3. [What each run checks](#what-each-run-checks)
4. [What is proved](#what-is-proved)
5. [Findings](#findings)
6. [Not modelled](#not-modelled)

## The system

The repository is a set of small C++ programs around cleaning robots.

| Component | State | Operations | Meets |
|---|---|---|---|
| **Hk_Shm** `tmp/tmp.h`, `tmp/tmp.cc:256-340` | a shared-memory segment: tags, version, `index`, 15 slots of (timestamp, crc, payload) | constructor (attach, clear if the tags are bad), `Put`, `Get` | other processes, through memory only: no lock, no atomic |
| **zsignal** `lib/zsignal.cc` | `users[NSIG]`, mutex, self-pipe, signal dispositions, `abort_expected` | `zsignal_init`, `register`, `deregister`, `reset_default`, `raise`, `abort`; signal handlers; `selfpipe_cb`, `signal_cb` | event loops (adds events to them), threads (called from any), the kernel |
| **Event loops** `lib/loop.cc`, `lib/loopthread.cc` | thread-local `g_loop`; libevent's queues | `loop_main`, `process_loop`, `loopThread::create/onInit/run` | zsignal, the application's callbacks |
| **UThread** `lib/uthread.cc` | `m_threadId`, `m_isThreadRunning`, name | `create`, `exit`, `join`, destructor | pthreads, loopThread derives from it |
| **zmutex** `lib/zmutex.cc` | a recursive, priority-inheriting mutex | create, lock, trylock, timedlock, unlock | zsignal |
| **Error records** `lib/zerror.cc`, `bufprintf.*`, `snprintf_asyncsignalsafe.*`, `prettyprint_*`, `zlog.*` | a bounded buffer; a sequence number | format and print | zsignal's handlers |
| **HK server** `hk/main.cpp`, `msg_gen.*`, `msg_type.h` | `tick`, `flip`, one buffer, one client address, two flags | one turn of a receive loop: answer a datagram, maybe send commands | robots, over UDP |
| **JW server** `jw/srv.cc` | `global_path_tick`, `block_tick`, one buffer | answer a JSON request | a client, over UDP |
| **Edge detector** `tmp/tmp.cc:35-120` | active flag, time of the last falling edge | `test_edge` | `test/test.cc` |
| **Crossing rules** `tmp/tmp.cc:121-230` | none (reads JSON files of `../map_cross`) | `test_cross_map` | |
| **Demos and utilities** `udp/`, `utils/`, `libtest/`, `libmain/`, `main.cc` | none | I/O | |

What is hard in it:

* *Hk_Shm* is lock-free by hope: a reader and any number of writers touch the
  same slots with plain `memcpy`, processes may be killed between two stores,
  and constructors may race. What makes it correct is the order of the stores
  in `Put`, the checksum, the timestamp and the one retry in `Get`.
* *zsignal* takes a signal through a handler in any thread, a bounded pipe, the
  main loop, a locked table and the loop of yet another thread. Callbacks must
  run at most once, in the thread that registered them, with their own context,
  and the default callback must print a record before the process dies.
* *A fatal signal* may interrupt the code that makes the record of another one,
  or another thread's, or malloc, or printf; the handler works only because of
  three flags of `sigaction`, what the kernel does with a blocked signal, and
  calls of `backtrace` and of stdout made beforehand.
* *UThread and zmutex* wrap pthreads calls that must not be made with a dead id
  or a malformed deadline, in whatever order their users call them.
* *The bounded buffer* of the error records passes what is left of it on as an
  unsigned number: one character too many and the next call writes anywhere.
* *The HK server* shares one buffer, one address and one set of flags between
  all robots, over a network that loses, duplicates and reorders, and it builds
  each message field by field next to a `sizeof` of a struct.

`PROJECT.json` lists the hazards line by line, with the properties that would
catch each of them.

## Modules

| Module | Models | Extends / instantiates |
|---|---|---|
| `HkShm` | the ring | instantiates `LatestValue` |
| `LatestValue` | what the ring promises (abstract) | |
| `HkShmProofs` | types, torn reads and racing constructors, proved | `HkShm`, `TLAPS` |
| `HkShmContractProofs` | the contract of `Get`, and that the ring implements `LatestValue`, proved | `HkShmProofs` |
| `SignalDelivery` | what zsignal promises (abstract) | |
| `ZSignal` | zsignal on its loops | instantiates `SignalDelivery` |
| `ZSignalProofs` | its safety, and that it implements `SignalDelivery`, proved | `ZSignal`, `TLAPS` |
| `ZFatal` | fatal signals and `zsignal_abort` | |
| `UThread` | a thread object | |
| `ZMutex` | the mutex and its deadlines | |
| `ThreadsProofs` | the safety of `UThread`, `ZMutex` and `ZFatal`, proved | `MCThreads`, `TLAPS` |
| `HkMsg` | structs and generators, as operators | |
| `HkServer` | the HK server's loop | `HkMsg` |
| `HkServerProofs` | all safety properties of the HK server, proved | `HkServer`, `Recursion`, `TLAPS` |
| `JwServer` | the path server's loop | |
| `TestEdge` | the edge detector | |
| `CrossMap` | the crossing rules, with a reference definition | |
| `ProgramsProofs` | the safety of `TestEdge`, `CrossMap` and `JwServer`, proved | `MCPrograms`, `Recursion`, `TLAPS` |
| `Snprintf` | the conversions of `snprintf_asyncsignalsafe`, with C's | |
| `BufPrintf` | the bounded buffer | |
| `BufPrintfProofs` | its bounds and the conversions, proved | `MCBufPrintf`, `Recursion`, `TLAPS` |
| `Recursion` | induction over the naturals and recursive functions, proved | `TLAPS` |
| `MCHkShm`, `MCZSignal`, `MCHkServer`, `MCBufPrintf` | instances for TLC | |
| `MCThreads` | instances of `UThread`, `ZFatal` and `ZMutex` | |
| `MCPrograms` | instances of `TestEdge`, `CrossMap` and `JwServer`, and the files of the crossings | |

`MCThreads` and `MCPrograms` put parts that do not meet into one run: the
initial state chooses a part (`part`, `program`), and a behaviour is then that
part's alone while the variables of the others stay as they began. The states
add up instead of multiplying, and every property is checked in the part it is
about. The proofs extend these modules, where the properties of the runs are
defined; the values TLC gets are constants there, and no proof uses them.

Definitions with `Mutant:` in their comment are plausible errors in the code.
They are used by nothing: each is there to replace the definition after it and
show that a property can be violated. `FatalSignalKills` has two, one for each call of
malloc the handler must not make.

### HkShm

A payload is the number of the `Put` that wrote it, held once per *word*;
`memcpy` moves the words one at a time in any order, so a slot or a reader's
copy may hold words of several Puts. Each process has a program counter `pc`
and the locals of its call (`at` is `index` or `retry_index`, `stamp` is `time`
or `read_time`, `todo` what memset or memcpy has still to move). Every load or
store of the segment is a step:

| Code | Action |
|---|---|
| constructor, check / memset / tags (`tmp.h:78-84`) | `CtorCheck`, `CtorWipe`, `CtorTag` |
| `Put` (`tmp.cc:319-340`) | `PutStart` (checksum, clock), `PutIndex` or `PutAstray`, `PutStamp`, `PutCrc`, `PutCopy`, `PutPublish` |
| `Get` (`tmp.cc:273-317`) | `GetIndex` or `GetAstray`, `GetTime`, `GetStale` or `GetStamp`, `GetCopy`, `GetOk`, `GetRetry`, `GetFail` |
| a process is killed | `Crash`; it may attach again |
| `system_clock` | `Tick` |

`helper.index` is a `uint32_t` that both calls put in an `int` (`ToInt`), and the
remainder of a negative `int` is negative (`Rem`). `InitIndexes` says what the index
of a segment that has its tags may be. From 2^31 on, and for `Put` from 2^31-1 on,
the code works at a negative place of the array: such a call goes *astray*
(`PutAstray`, `GetAstray`), and the model ends there, because what it overwrites or
reads is undefined.

Abstractions. Loads and stores take effect in program order (the build targets
x86, and the functions are calls into another translation unit; on a weaker
memory model or under aggressive inlining more could happen). The three tag
fields are compared in one step. The clock never steps back. The checksum is a
constant operator `Crc32`; `CrcAssumption` says that no *mixture of payloads
written in the behaviour* collides with a whole payload or with the zero of a
cleared slot, which is what the design relies on; nothing is assumed about
other byte strings. `got`, `born`, `published`, `seen`, `laps` are history.

### ZSignal and SignalDelivery

`SignalDelivery` says what a user of the library may rely on: a signal that was
caught is pending, and then either lost or the cause of *one* call, of a
callback registered for that signal, with the context of the same registration,
in the thread that registered it. `ZSignal` has the mechanism:

| Code | Actions |
|---|---|
| `nonfatal_signal_handler`, `raise`, the system default | `Raise`, `Arrive` |
| `zsignal_register`, `deregister`, `reset_default` | `CallApi`, then `RegisterRefused`, or `RegisterEnter`; `DeregisterEnter`; `Store` once per field; `Leave` |
| `zsignal_init` in `loop_main` | `BootPipe` (may fail before or after the pipe is open), `BootRegister`, `BootDone`, `AppInitFails` |
| `process_loop`, `event_base_loop(EVLOOP_ONCE)` | `EnterLoop`, `Sleep`, `WakeDue`, `WakeOther`, `EndIteration`, `LoopEnds` |
| `selfpipe_cb`, `send_signal_event` | `SelfPipeRead`, `SendNothing`, `SendEvent` |
| `signal_cb` and the callbacks | `RunCallback`; `DefaultPrint`, `DefaultRestore`, `DefaultRaise` |

A callback and its context are the number of the registration they came with,
stored field by field, so a mixture would show. libevent is external and
modelled as the code uses it: without `evthread_use_pthreads` (`loop.cc:54`) a
timer added to a sleeping loop of another thread does not wake it, and one
added to a loop that works is a data race that may lose it (`SendNothing`).
`selfpipe` is closed, open but `unread`, or open and `read` by the main loop: if
`event_add` fails, `create_selfpipe` returns with the pipe open, `loop_main` goes on,
and what the handlers put in the pipe stays there. Left out: priorities, and the text
of records; the fatal handlers are in `ZFatal`.

### LatestValue

A register with one writer. A value is *offered* and then shows, or never does
if the writer is killed in between; a reader gets the value that showed when it
began if that is young enough, and otherwise nothing. Only a reader that more
than `Lead` values overtake may get none instead, or a newer one; an older one, or
a mixture, no reader gets.
There is no ring in it, no checksum and no retry. `HkShm!Latest` maps the ring
to it: `PutStart` offers, `PutPublish` publishes, the readers that are reading
are those inside `Get`, and `stamp` is the time `GetTime` read.

### ZFatal

| Code | Actions |
|---|---|
| `fatal_signal_handler` (`zsignal.cc:114-126`) | `Check`, `Record`, `Raise`, `Return` |
| `zsignal_abort` (`401-406`) | `AbortFlag`, `AbortPrint`, `AbortRaise` |
| a fault, a failed assertion, a signal from outside | `Fault`, `Kill` |
| the program is in malloc, or in printf | `Allocate`, `Release`; `StartPrint`, `EndPrint` |

Each thread has a stack of handlers. The kernel is external and modelled as
`install_fatal_signal_handler` asks for it: `SA_RESETHAND` without `SA_NODEFER`
takes the handler away when it is delivered and blocks the signal while it
runs; `raise` in the handler therefore returns, and what it raised is delivered
when the handler does. A fault on a blocked signal kills at once.

The handler and `zsignal_abort` call `printf` (`115`, `403`), which POSIX does not
allow a handler. What that can cost is waiting: `CanPrint` needs stdout's lock, which
another thread may hold and the interrupted thread may take again (glibc's is
recursive), and malloc if stdout has no buffer yet. It has one when `main` has
written its first line (`libmain/main.cc:5`), hence `PrintAllocates`; in the same way
`zsignal_init` has called `backtrace` before (`320-323`), hence `Allocates`.
`FatalSignalKills` rests on both: an application of the library whose `main` prints
nothing before `loop_main` would have the deadlock that the mutant shows. What a
printf inside a printf does to stdout's text is not modelled, and the states in
which the program holds both locks, malloc's inside stdout's, are left out, because
its printf calls malloc no more either.

### UThread, ZMutex

`UThread` is one object: its owner calls `create` (which may fail in the two
ways `pthread_create` can), `exit`, `join` and the destructor in any order, its
threads go through `UThreadStartFun` step by step, may call `exit` on the
object or delete it, and end at a cancellation point when they were cancelled.
pthreads is external; that an id may be joined or cancelled only while its
thread was not joined is what `IdIsJoinable` is about. A call that would wait
leaves `owner` at the call, and `Joined` or `Deleted` completes it.

`ZMutex` is `lock`, `trylock`, `timedlock` and `unlock` by several threads, with
the deadline computed in seconds and nanoseconds as `zmutex.cc:62-68` does, on
a clock that ticks in fractions of a second so that the carry happens at, below
and above the full second. `ClockFails` is the return of `EINVAL` when there is no
clock (`58-60`).

### Snprintf and BufPrintf

`Snprintf!Converted` is what `vsnprintf_asyncsignalsafe` stores for one parsed
directive; `IsC` says what C asks for, as a condition on the characters rather
than another way to compute them: blanks, the sign, zeroes and a numeral that
stands for the argument. An int has 8 bits and a long 10 in the instance, a short
4. `Conforms` names where the code does what C asks for; the calls of the run go
beyond it, so that the run prints those too. It leaves out

* longs whose magnitude an unsigned int cannot hold (line 308),
* `%#x` and `%#o`, where the code counts what it puts in front as digits: `%#x` of
  5 comes out as `0x05`, `%#o` of 0 as `00`,
* a zero-filled `%d` with a precision, whose blanks come behind its sign,
* a zero-filled `%d` with both a plus and a space, where the space wins,
* precisions above 34, for which the code's `tmp` has no room,
* zero-filled text, of which C says nothing.

No record uses any of these but the longs. Not modelled at all are the precision
`.0`, a negative `*`, the character 0, and `%f`, `%n` and `%p`.

`BufPrintf` is the array and the two fields of `buffer_t`, for any formatter
that stores what fits and a 0 and returns how many characters there would have
been, as both of `bufprintf.cc`'s formatters do. One byte before and one behind
the array show a store outside.

### TestEdge, CrossMap, JwServer

`TestEdge` is `test_edge` with an action for each branch, on a clock (`now`)
that somebody may set; `passed` is the time that has really passed. The
subtraction is that of `uint64_t`.

`CrossMap` is `test_cross_map` loop by loop (`Scan`, `NoMatch`, `Match`, `Walk`
and the ways out), with the files it may find and the descriptors it never
closes; a rule that is no array is an empty rule. An entry without a `rule`, a
`neighbor` or a point, or with one that is no string, is `Broken` and ends the process
in an assertion of rapidjson (`RuleAssertion`, and `Abort` in `Walk`). The reference (`Way`,
`IsAnswer`) cuts the way out of the first rule that has both crossings and
turns it round if need be. What `cross_rule.json` and the crossings' files may hold
are the constants `Documents` and `Maps`; `MCPrograms` gives TLC the documents of
`map_cross` and odd ones.

`JwServer` is the loop of `jw/srv.cc`: `Turn` receives, answers by type and sends
a global path after every third typed message; `Assertion` is a message that
rapidjson's accessors do not survive. The properties compare what a client was
sent with what it asked; `Select` cuts those parts out of the two histories. It is a
recursive function and takes a set of records, because the proofs are about it.

### HkMsg and HkServer

`HkMsg` writes each generator of `msg_gen.cpp` as the bytes it produces, from
three conversions (`Host`: what a `memcpy` of an `int` stores on a
little-endian machine; `Bswap`; `Net`) and the members of the structs, whose
`Sizeof` and `Offset` follow natural alignment (`Ends` places one member after the
other). `HkServer` is the loop of
`main.cpp`: an action for each branch, which receives, decodes at the offsets
in the code, answers, and ends with the interrupt command of every third turn.
`out` is what the turn sent. The robots and the network are external: a robot
packs the structs of `msg_type.h`, and *any datagram of any robot may come
next*, which covers loss, duplication, delay and reordering.

`recvfrom` overlays the buffer and stores the sender's address only as far as
`client_len` says, which is 0 the first time: `client_addr` then keeps what was
on the stack, `Nowhere` in the model.

Left out: datagrams that are shorter than their struct (the server does not
look at `recv_len`; it would handle what the previous datagram left in the
buffer again, and `hexdump` of an empty one frees an uninitialized pointer),
because robots do not send such; padding inside path points; the dumps.

## What each run checks

`tlc -config <cfg> <module>`; seconds are for two to four workers.

| Run (cfg) | Question | Instance | States |
|---|---|---|---|
| `shm_contract` | Does the ring implement `LatestValue`? Does an un-lapped `Get` return exactly what was published, and are published slots left alone? (`ActsAsLatestValue`, `GetContract`, `PublishedStable`) | ring of 3, 1 writer, 1 reader, 2 words, 4 Puts, 1 crash, index 0, past the ring, or negative as an int | 1.1 M |
| `shm_torn` | Can `Get` ever return a mixture, or a call leave the ring? (`NoTornRead`, `StaysInRing`) | 2 writers, 4 Puts, 1 crash, index 0 or the largest a build with another ring can leave; the clock stands still so that every slot written is fresh | 4.1 M |
| `shm_attach` | Do racing constructors settle, with Puts and Gets around them? (`TagsSettle`) | new segment, 2 writers, 1 reader, 1 Put, 1 crash | 0.7 M |
| `sig_threads` | Does zsignal implement `SignalDelivery`, is every caught signal somewhere until it runs, and is there a record before death? (`KeepsPromise`, `NoneVanishes`, `RecordBeforeDeath`) | main, a loop thread, a plain thread; 1 signal, pipe of 1, 2 raises, 3 calls | 1.2 M |
| `sig_live` | Is the main loop in order, do calls end, and does no signal stay in the pipe? (`MainInOrder`, `ApiCallsEnd`, `CaughtIsHandled`) | fair threads; main, a plain thread, SIGTERM and SIGPIPE; 2 raises, 2 calls | 0.2 M |
| `hk_answers` | Is each request answered, to its sender, with its own order and ids and an honest length; do interrupts come in turn; does the door info go out once? (`AnswersMatch`, `SentToSender`, `LengthHonest`, `InterruptsInTurn`, `DoorInfoSentOnce`) | 2 robots, any datagram in each of 9 turns | 6.6 k |
| `threads_parts` | *UThread*: are only joinable ids joined, is nothing used after deletion, does `isRunning` tell, do cancelled threads end and owners return? *ZFatal*: never two handlers of one signal at once, no `exit(-1)`, a report of every lone signal, death after every fatal signal? *ZMutex*: is no deadline refused, nobody turned away early, and does `timedlock` return? | 2 threads each; 3 fatal signals, each at most twice; 3 timeouts, 2 calls that wait | 0.2 M |
| `buf_records` | Do records stay in their buffer, whole as far as they fit, and do the conversions agree with C? (`InBounds`, `HoldsBeginning`, `AgreesWithC`) | a buffer of 8, 2 calls out of all directives the records use and others of each kind, with numbers at every boundary of the widths | 20 k |
| `programs_alone` | *TestEdge*: right pairs, none missed, one event and the return value that says so? *CrossMap*: is the answer the way, and does the call return or abort? *JwServer*: every request answered to its client, results in turn, every third a path? | 5 falling edges in 10 ticks, the clock set once; 4 crossings, 8 rule files, 37 maps, 2 calls; 2 clients, 5 datagrams | 0.9 M |
| `shm_fresh`, `sig_crossthread`, `sig_reset` | the findings below | | |

**Type invariants.** Each module has a `TypeOK`. Those of `HkShm` and `ZSignal` are
proved; those of `TestEdge`, `BufPrintf`,
`UThread` and `ZFatal` are part of the invariants proved of them. The others hold in
the same instances but are left out of the configurations, which keep to what says
more; the proofs use the part of them that they need.

**Why the bounds are enough.** In a ring of 3 with 4 Puts a writer laps a reader
once; the slot `Get` falls back to, the slot being filled and the slot read are
then all distinct or all equal, and a longer ring adds slots that no step
touches. Two words already make a mixture. Two payload ages (`MaxTime` against
`TimeRange`) give fresh, just fresh and stale; `Wrap` stands for 2^32: it
has to be larger than every age, so that a timestamp of the future or of a cleared
slot is "very old", as in `uint32_t` arithmetic, and more than twice the ring, so
that half of it, where an `int` turns negative, is no slot. `shm_contract` begins with
an index on each side of that. In ZSignal a pipe of 1
overflows with 2 raises; 3 calls let a thread deregister and register again
while a lookup is under way. In HkServer 9 turns run the interrupt types once
round, and the state depends on the past only through the flags, the counters
and the tail of the buffer.

Two threads on one UThread let one be lost to a second `create` and one be
joined, cancelled or deleted; a third would be as either. In ZFatal three
signals nest two handlers in a thread and race another thread's; each comes at
most twice because the second time its handler is gone. In ZMutex the clock's
step is 200 ms and its start 400 ms, so deadlines meet, miss and pass a full
second, and `MaxSec` leaves the longest timeout time to end. A record of 8
characters is filled exactly, overrun in the first call, and overrun in the
second. In TestEdge 5 edges give two pairs with a late edge between; in
CrossMap 5 descriptors run out in the middle of the second call; in JwServer 5
datagrams give a path, four results and a client that comes back. Proofs remove
these bounds for the properties they cover.

**Deadlock** is not checked: all these systems may stop when the bounds on
Puts, raises, calls, edges or turns are used up, a process may have ended, and
in UThread a join of a thread whose body never returns waits for ever, as it
does in the code.

**Fairness.** In ZSignal, `FairSpec` (`sig_live`, `sig_crossthread`) has weak
fairness of each *thread's* next step, which the kernel's scheduler gives a
thread that can run. Nothing is assumed of the environment: neither that a
signal is sent, nor that an API is called, nor that an application descriptor
becomes ready (`WakeOther`). Weak fairness suffices for the mutex there because
in `sig_live` each waiting thread is served when the bounded calls run out.
In UThread the start function goes on, a cancelled body reaches a cancellation
point (the bodies sleep, read or wait in epoll), and `pthread_join` returns when
its thread has ended; *no body need return*. In ZFatal a thread goes on with
the handler, with `zsignal_abort` and with what it does in malloc or printf. There
the handler has strong fairness: while it waits for stdout's lock, other threads may
take it and give it back again and again, and a futex's waiter gets it in the end
only because it is awake, now and then, when the lock is free. Release of a lock
needs weak fairness only. In ZMutex the
clock ticks and pthread serves a waiting thread that can be served; *nobody need
unlock*. In CrossMap a call goes on. HkShm, HkServer, JwServer, TestEdge and
BufPrintf have no liveness property: every step of theirs is one that their
caller or a datagram asks for.

## What is proved

TLAPS checks the following for every value of the constants that satisfies the
named assumptions of the modules. They say that the process that is nobody is
nobody's name, that bounds are naturals, and that the inputs have their type. For
the ring they are `RingAssumption` (at least 3 slots), `SizeAssumption` (the ring's size
is an `int`), `TimeAssumption` and `CrcAssumption`; for the conversions, that a short, an int and a long have widths of
which each divides the next (`SnprintfAssumption`) and that a call is a directive
with an argument of its kind (`ConversionsAssumption`). Sets of threads, robots, clients and signals may have any size,
and so may the bounds on raises, calls, turns, datagrams and edges.

Every safety invariant and action property that the passing runs check is proved;
so are both refinements. The theorems have names of their own
and are listed in `PROJECT.json` with the property each one states. Below is the
argument of each: the inductive invariant, and why its parts are there.

### The ring

* `TypeCorrect`. `TypeOK` is inductive, for whatever `uint32_t` the index is: a call
  whose `int` is no slot goes astray and works on none.
* `NobodyAstray` (`StaysInRing`), under the hypothesis that every index the segment may
  begin with, and the one after it, fit in an `int`. `IndexFits` is the invariant: it
  stays so, because the code stores slots and 0 only. A build of this code with a ring
  of any size (an `int`) leaves such an index. Without the hypothesis it is false, as the
  behaviours of `shm_contract` that end in `PutAstray` or `GetAstray` show.
* `NoTornReads`. Payloads are compared to checksums of whole payloads only, so
  the invariant says that every checksum stored, by whichever writer, is that of
  a payload that was Put (or the zero of a cleared slot), that what a reader
  returned matched one, and that the words copied lie in `Data`. `CrcAssumption`
  then turns equal checksums into equal payloads. It needs nothing about the
  order in which the copies happen, which is why it holds for racing writers and
  crashes as well.
* `TagsComeTogether` (`TagsSettle`). `TagsInv` says of each tag that it is set, or
  that some constructor has still to write it, or that nobody has attached yet.
  A constructor may wipe a tag only while it has itself yet to write it, and
  that is the argument: the last one to wipe is followed by its own writes.
* `GetKeepsContract`, for one writer and a segment that has its tags. `SoloInv`
  says where the writer is in the ring relative to the reader: the slot in
  `index` and the one before hold whole payloads with their own checksum and
  time; the writer, wherever it was killed, has touched only the slot after
  `index`; and a reader that was overtaken by `laps` publications looks at a slot
  that the writer will reach only after `N-2` of them. `GetContract` alone is not
  inductive: it says nothing of a reader in the middle of its copy.
* `PublishedSlotsStable`, from the same invariant.
* `RingActsAsLatestValue`, again for one writer and a segment that has its tags. A
  step simulation: the steps of `Put` and `Get` map to steps of the register or
  to stuttering. What a `Get` that was not lapped returns follows from
  `SoloInv`; that a `Put` under way is the last one offered is a third invariant,
  `LastPut`; and that a lapped `Get` returns nothing or a value not older than its
  beginning is a fourth, `AheadInv`, together with the one behind `NoTornReads`.
* `GetsAreNeverOlder`, from `AheadInv`, which no run checks: in a ring it is not obvious,
  because a `Get` whose slot fails its checksum falls back to the slot *before*. But
  the words of a slot only get newer (`HistoryGrows`), and one that was filled since
  the `Get` began holds nothing older than that (`NoneToCome`). With one writer a
  slot fails only when it has been filled again, and then the slot before has been
  too. So the payload that `shm_fresh` finds too old (see Findings), because it came
  with a newer time stamp, is still none older than what was published when the `Get`
  began: it is the `Get` itself that took longer than `time_range`.

### zsignal on its loops

One invariant, `IInv`, in named parts, carries all of `ZSignalProofs`:

* `Types`, `IdsInv`: the types, and that every registration number met is that of a
  registration made. `TypeCorrect` follows.
* `TableInv`: a thread inside the table holds the mutex (`Excluded`); an entry that
  nobody is storing is nothing or one whole registration (`TableWhole`); of an entry
  that is being stored the fields that are done are those of the registration under
  way (`StoredSoFar`). `TableWholeUnderMutex` follows: the main loop's lookup sees
  no mixture, although the fields are stored one by one. No run states it; it is
  what the refinement rests on.
* `LoopInv`: where a loop is when it has what in its queue; only the main loop reads
  the self-pipe, only at the head of its queue, and the pipe is then not empty.
* `EventsInv`: a timer, a queued event and a callback that ran carry one
  registration's callback and context, and are on that registration's loop.
* `PipeInv`, `SentInv`: signals come out of the pipe in the order they went in; one
  that was sent to a loop is behind none in the pipe, was not lost, has run nothing
  and is on one loop, once (`SentFresh`, `SentOnce`).
* `MainInv`: the main loop has one timer at most, and it is younger than everything
  that ran. `MainLoopInOrder` follows. This is where the code's reading one signal
  per iteration is used: with two timers due together libevent could swap them.
* `BootInv`, `HandlersInv`: until `zsignal_init` is done nobody else registers; from
  then on each of its signals has a handler, or is being given one, or has its
  record. `RecordFirst` follows, for any registrations and resets afterwards.

`DeliveryKeepsPromise` is a step simulation over `IInv`: a raise that is caught makes
the signal pending; a full pipe, an empty entry and the data race of a foreign
timer lose it; `RunCallback` and `DefaultPrint` run it; all else stutters. "At most
one, once" is `SentOnce`; "its own context, in its own thread" is `EventsInv`. The
callbacks run are a sequence in both, so that one run a second time would be a step
of `SignalDelivery`, and not a stutter.

`CallsAreTheirs` says the same of the callbacks run so far, without the abstract
specification (`OneCallEach`): no two are of one signal, and each has one
registration's callback and context, of its signal and its thread.

`SignalsAreSomewhere` is the other half. `SentInv` keeps a signal from being in two
places; `NoneVanishes` says it is in one: a signal that is neither lost nor run is in
the pipe, in `selfpipe_cb`'s hand, or with the loop it was sent to; `sig_threads`
checks that too. The only ways to be lost are the three named above. No fairness is needed, so it also holds of a signal
whose loop sleeps for ever, and there says where it is stuck.

### Threads, mutex, fatal signals

* `IdsAreJoinable`, `DeletedIsUnused`, `RunningThreadIsTold`, for any number of threads
  started on one object. The last two are not inductive alone. `Known` says that a
  living object has the id of every thread that was not joined, or has lost it to
  a second `create`, which is what the destructor relies on; `FlagComesFirst` says
  that the flag is set before the body is chosen.
* `DeadlinesAreAccepted`, `WaitsAsLongAsAsked`, for any clock and timeouts.
  `DeadlineInv` says that a call that waits has the deadline it computed when it
  began; the rest is the arithmetic of the carry. One carry is enough because the
  clock's nanoseconds and the timeout's are both below a second.
* `HandlersRunOnce`, `AbortEndsInRaise`, `LoneSignalsAreReported`, for any fatal
  signals and threads. `CameBefore`: a signal with a handler on some stack, or
  pending, has the system default again, so no second handler can start.
  `RaisedAgain`: a handler that returns has its signal pending, so its return
  kills. `Announced`: a thread inside `zsignal_abort` has set `abort_expected` and
  printed before it raises, and SIGABRT has come then. `ReportedFirst`: a signal
  that came once and is about to be raised again has been reported; it speaks of
  signals that came once because `abort_expected` is one flag for all threads.

### The programs that run alone

* `SendsOneEvent`, the event and the return values 3 and 4, also when the clock is set; `CatchesClosePairs` and `CatchesEveryPair`
  as long as it was not, from an invariant that the static time is that of the last
  falling edge exactly if that edge is in no pair.
* `AnswersAreWays` (`AnswerIsWay`), for any rules, crossings and files. `Scanning`
  says what the indices are while a rule is searched (the last places so far, 0 if
  none) and that no rule passed had both; `Walking` says that the points collected
  are the first of the reference's way. The reference is not computed as the code
  does, which is why this needs the lemma that the last place found is `Place`.
* `EachClientIsAnswered`, `ResultsGoRound`, `EveryThirdHasPath`, for any clients and
  messages. The invariant relates the histories to the counters: `AddressKept`
  (an address is kept from the second turn on), `InPairs` (a client's requests and its
  answers pair up, in order), `InRounds` (`block_tick` counts the answers and
  determines each), `InThrees` (`global_path_tick` counts the typed datagrams, a third
  of it the paths).

### The HK server

* `TurnsSendToSender`. `AddressInv` relates `client_addr` and `client_len` to the
  number of turns: an address is received only from the second turn on, because
  `client_len` is 0 before the first. Every branch receives before it sends.
* `DoorInfoGoesOutOnce`, from the same invariant: the flag is set exactly when the door
  info was sent, and it went to a robot exactly if that was not the first turn.
* `LengthsAreHonest`, `RequestsAreAnswered`, `InterruptsGoRound`. `TurnInv` says that
  `flip` is a third of `tick`, that the turn just done sent messages of certain types
  (`Sent`) which fit what it received (`Fitting`), and that the answer repeats what the
  request holds (`Repeats`). Underneath, for each struct of `msg_type.h` the server
  uses: natural alignment leaves no padding (`Unpadded`), so that `sizeof` is the sum
  of the fields copied. Then: for each generator, how long its message is and what is
  at the offsets the header's readers look at; that a datagram just received is at
  the front of the buffer whatever is behind it; and that `Net` is injective on
  types, so that an answer can be told from a command.

### The bounded buffer

* `StaysInBounds`, `BeginningHeld`, and `ReturnsWhatItAdds`, which no run checks: for an
  array of any size and any formatter. The invariant is that what is available is the rest of the array
  (`RestIsAvailable`) and that the array holds what `HoldsBeginning` says; one lemma,
  `StoredBytes`, says what a formatter does with the array.

### The conversions

* `ConversionsAreC`, for every directive `Conforms` keeps, every argument, width and
  precision; `RecordsAreC` (`AgreesWithC`) follows, because every call is such a
  directive. The argument goes in the order of the code:
  - *The number.* `va_arg`, `half` and the cast to `unsigned int` each change the
    number by multiples of a width; widths divide each other, so what is left modulo
    the narrowest is the argument's (`SameMod`), and `itoa` gets the argument's
    magnitude (`NumberFacts`).
  - *The digits.* `itoa`'s numeral is a recursive function of the number, shown to exist
    by course-of-values induction; a numeral of `n div b` followed by the digit of
    `n mod b` is a numeral of `n` (`PlainAppend`), so the digits stand for the number and
    do not begin with a 0 (`NumeralIsPlain`). Zeroes in front change nothing
    (`ValueZeroes`), which gives the precision (`ItoaNumeral`).
  - *The layout.* Whichever branch the flags choose, the output is blanks, sign,
    zeroes, digits and blanks, and together they fill the width (`LayoutFills`); the
    numeral `IsC` cuts out of it is the one put in (`AssemblyParts`).

### Induction over data

The library's induction theorems take an operator as a parameter, which the provers
cannot instantiate. `Recursion` states induction for the *set* of the numbers of which
a formula holds (`LeastNat`, `UpTo`), from which the proofs show that a function
defined by recursion exists and what it computes. For that, the definitions the
proofs are about are recursive functions of their modules (`Select` in `JwServer`,
`Ends` in `HkMsg`, `itoa` and `Value` in `Snprintf`) and not folds of the community
modules, which are defined by an operator parameter.

### Only model-checked

* Liveness (`ApiCallsEnd`, `CaughtIsHandled`, `ExitEndsThread`, `OwnerReturns`,
  `FatalSignalKills`, `TimedLockReturns`, `CallReturns`) and everything that mentions
  `ENABLED`: out of this prover's reach.
* The three findings, which are violations.

## Findings

| Run | What the code does | What it says |
|---|---|---|
| `shm_fresh` | a lapped reader accepts a payload N Puts old: the new timestamp is in the slot before its checksum and payload (`tmp.cc:333`) | `tmp.h:93`: `time_range` is how old the data may be |
| `sig_crossthread` | an event for a thread whose loop sleeps is not run: `evthread_use_pthreads` is commented out (`loop.cc:54`) | `zsignal.cc:185-195`: the callback runs in the user thread, one event is sent to it |
| `sig_reset` | another thread's registration between the two halves of `zsignal_reset_default` stays, and 0 is returned (`zsignal.cc:387`) | `zsignal.cc:386`: restore default handler |

The proof of `GetContract` and the run `shm_fresh` fit together: the contract
holds for readers that are not lapped, and the finding needs one that is.

Known, but not runs of their own, because reading the line shows as much:

* `Get` returns 0 in every case (`tmp.cc:316`), though `tmp.h:94` says that an
  equal tag means equal data.
* If the first datagram the HK server gets is a status, the door info goes to an
  uninitialized address and never again (`hk/main.cpp:22, 90`);
  `DoorInfoSentOnce` and `SentToSender` say so.
* The `raise` at the end of `fatal_signal_handler` does not terminate the process
  as its comment says, it returns, because the signal is blocked there; the
  process dies when the handler returns (`zsignal.cc:123-125`).
* `abort_expected` is one flag for all threads: while a thread is between
  `zsignal.cc:402` and `405`, another thread's failed assertion dies without its
  record (`116-118`). Hence `LoneSignalIsReported` is about signals that came once.
* An index of 2^31-1 or more in a segment that has its tags, which no build of this
  code leaves, takes `Put` and `Get` outside the ring: `Get` rejects an index that is
  too large, but not the negative number it makes of this one (`tmp.cc:276-277`).
* If `event_add` fails, the self-pipe is open and in no loop: caught signals stay in
  it, and `loop_main` goes on (`zsignal.cc:258`). `CaughtIsHandled` and
  `RecordBeforeDeath` are about a `zsignal_init` that succeeded.
* A second `create` loses the first thread, and a `create` that fails late leaves an id
  (`uthread.cc:88`); `NoUseAfterDelete` and `IdIsJoinable` exclude these.
* The line `zsignal_abort` prints is lost if stdout is buffered (`403`).
* `isRunning()` stays true after a thread has left by itself (`uthread.cc:109-110`).
* Setting the system clock back makes `test_edge` miss a pair (`tmp.cc:86`).
* `%lx` and `%ld` print no more than an unsigned int has
  (`snprintf_asyncsignalsafe.cc:308`), the addresses in records included
  (`zerror.cc:136`).
* `load_point` and `test_cross_map` close no file they open; calls fail when
  descriptors run out (`full` in `CrossMap`).

Not findings, because nothing in the repository promises otherwise, but worth
knowing: a constructor that saw bad tags may clear what another process has
published; a callback may still run after `zsignal_deregister` returned; a
second robot is never sent the door info; the answers to a registration, a
status and a clean-area request carry order 1 instead of the request's.

## Not modelled

* The layout of error records (`zerror.cc`), the tables of the prettyprinters and
  `zlog`: text. What a record needs to be written, a buffer and conversions, is
  in `BufPrintf` and `Snprintf`; that it is written, in `ZSignal` and `ZFatal`.
* `%f`, `%n`, `%p` of `snprintf_asyncsignalsafe`: no record uses them.
* `zmutex_delete`, which nothing calls, and failures of `zmutex_create`.
* Priorities and the application's events of the loops: libevent orders them.
* `vsnprintf` that fails: the formats of the records cannot. `pthread_attr_` calls that
  fail, which leave `UThread` as it was.
* Datagrams shorter than their struct, and the bytes of the path server's buffer.
* `utils/`, `udp/`, `libtest/`, `main.cc` and the rapidjson and boost
  demonstrations: I/O, or calls of the above that keep no state.
* `proto/`, which no source file includes, and the build files.

What could still be added: an instance of ZSignal in which two loop threads register
for two signals.
