------------------------------ MODULE ZSignal ------------------------------
(***************************************************************************)
(* The signal library lib/zsignal.cc on the event loops of lib/loop.cc and *)
(* lib/loopthread.cc.  A non-fatal signal interrupts some thread; its      *)
(* handler writes it to the self-pipe.  The main loop reads one signal at a*)
(* time and, under the mutex, looks up who registered for it and adds a    *)
(* zero timer to that thread's loop, which then runs the callback.         *)
(*                                                                         *)
(* libevent (external) is modelled as the code uses it, without            *)
(* evthread_use_pthreads (loop.cc:54): a loop computes its timeout, sleeps *)
(* in epoll_wait, activates what is ready (descriptors first, then timers, *)
(* timers due at the same time in any order) and runs it.  Adding a timer  *)
(* to a loop another thread is working on is a data race that may lose it; *)
(* adding one to a loop that sleeps does not wake it.                      *)
(***************************************************************************)
EXTENDS Integers, FiniteSets, Sequences, SequencesExt

CONSTANTS
    Main,         \* the thread that runs loop_main
    LoopThreads,  \* loopThreads: threads with a loop of their own
    PlainThreads, \* UThreads without a loop
    FdLoops,      \* the threads among Main and LoopThreads whose loop has descriptors of the application
    Sigs,         \* non-fatal signals, whose system default action terminates
    Defaults,     \* those zsignal_init registers its default callback for
    Ignored,      \* those it registers do_nothing for (SIGPIPE)
    PipeCap,      \* signals the self-pipe holds
    MaxRaises,    \* bound: signals sent to the process
    MaxCalls      \* bound: API calls started

ASSUME ZSignalAssumption ==
    /\ Main \notin LoopThreads \cup PlainThreads
    /\ LoopThreads \cap PlainThreads = {}
    /\ "none" \notin LoopThreads \cup PlainThreads \cup {Main}
    /\ FdLoops \subseteq LoopThreads \cup {Main}
    /\ Defaults \subseteq Sigs /\ Ignored \subseteq Sigs /\ Defaults \cap Ignored = {}
    /\ PipeCap \in Nat \ {0} /\ MaxRaises \in Nat /\ MaxCalls \in Nat

Loops   == LoopThreads \cup {Main}
Threads == Loops \cup PlainThreads
NoOne   == "none"    \* the mutex is free; also the NULL event_base
Null    == 0         \* the NULL callback and the NULL context

\* A callback and its context are the number of the registration they came with.
NoUser == [evbase |-> NoOne, cb |-> Null, ctxt |-> Null]
NoCall == [op |-> "none"]

\* Mutant: g_loop is one variable for all threads.
Base_Global(t) == Main

\* get_loop(): thread-local, so NULL in a thread without a loop.
Base(t) == IF t \in Loops THEN t ELSE NoOne

VARIABLES
    proc,     \* running, killed by a signal, or returned from loop_main
    killer,   \* the signal that killed it
    boot,     \* the registrations zsignal_init has still to make
    selfpipe, \* closed, open but not in the main loop (unread), or open and in it (read)
    users,    \* the table users[NSIG]
    disp,     \* what the kernel does with a signal: system default or our handler
    mtx,      \* who holds the mutex
    call,     \* each thread's API call under way
    regs,     \* history: the registrations made, [by, sig, kind]
    pipe,     \* the self-pipe
    inhand,   \* the signal selfpipe_cb has read
    phase,    \* where each loop is
    armed,    \* the loop went to sleep with a timer due
    timers,   \* timers added to each loop
    active,   \* what each loop has still to run in this iteration
    caught,   \* history: the signals our handler caught, in order
    lost,     \* history: those that will run no callback
    calls,    \* history: the callbacks run, in order
    printed,  \* history: the signals an error record was printed for
    raises,   \* how many signals were sent
    ops       \* how many API calls were started

table == <<users, mtx, regs>>
signals == <<pipe, caught, lost>>
loops == <<phase, armed, timers, active>>
bounds == <<raises, ops>>
vars == <<proc, killer, boot, selfpipe, table, disp, call, signals, inhand, loops,
          calls, printed, bounds>>

Init ==
    /\ proc = "running" /\ killer = NoOne
    /\ boot = Defaults \cup Ignored /\ selfpipe = "closed"
    /\ users = [s \in Sigs |-> NoUser]
    /\ disp = [s \in Sigs |-> "default"]
    /\ mtx = NoOne
    /\ call = [t \in Threads |-> NoCall]
    /\ regs = <<>>
    /\ pipe = <<>> /\ caught = <<>> /\ lost = {}
    /\ inhand = 0
    /\ phase = [t \in Threads |-> IF t = Main THEN "boot" ELSE "start"]
    /\ armed = [t \in Loops |-> FALSE]
    /\ timers = [t \in Loops |-> {}]
    /\ active = [t \in Loops |-> <<>>]
    /\ calls = <<>> /\ printed = {}
    /\ raises = 0 /\ ops = 0

-----------------------------------------------------------------------------
(* A signal arrives: nonfatal_signal_handler in whichever thread runs, or   *)
(* the system's default action.                                             *)

Arrive(s) ==
    \/ /\ disp[s] = "default"
       /\ proc' = "killed" /\ killer' = s
       /\ UNCHANGED signals
    \/ /\ disp[s] = "handler"
       /\ caught' = Append(caught, s)
       /\ IF selfpipe # "closed" /\ Len(pipe) < PipeCap
          THEN pipe' = Append(pipe, Len(caught) + 1) /\ UNCHANGED lost
          ELSE lost' = lost \cup {Len(caught) + 1} /\ UNCHANGED pipe
       /\ UNCHANGED <<proc, killer>>

\* kill(2) from outside, or zsignal_raise.
Raise(s) ==
    /\ proc = "running"
    /\ raises < MaxRaises
    /\ raises' = raises + 1
    /\ Arrive(s)
    /\ UNCHANGED <<boot, selfpipe, table, disp, call, inhand, loops, calls, printed, ops>>

-----------------------------------------------------------------------------
(* The API: zsignal_register, zsignal_deregister, zsignal_reset_default.    *)
(* Each takes the mutex, stores the fields of users[signo] one by one and   *)
(* leaves the mutex; reset is deregister, then register.                    *)

\* The mutex is recursive, but no thread asks for it while it holds it.
MutexFree == mtx = NoOne

InCall(t, at) == proc = "running" /\ call[t].op # "none" /\ call[t].at = at

EnterCall(t, op, at, s, kind) ==
    call' = [call EXCEPT ![t] = [op |-> op, at |-> at, sig |-> s, kind |-> kind,
                                 id |-> 0, todo |-> <<>>]]

Booting == phase[Main] \in {"boot", "register"}

\* The code of the application runs in threads without a loop, in the init
\* callbacks and in the callbacks of a loop; none exists before zsignal_init
\* has returned.
Application(t) ==
    /\ ~Booting
    /\ call[t] = NoCall
    /\ phase[t] \in {"start", "dispatch"}

CallApi(t, op, s) ==
    /\ proc = "running"
    /\ Application(t)
    /\ ops < MaxCalls
    /\ ops' = ops + 1
    /\ EnterCall(t, op, IF op = "register" THEN "reg_enter" ELSE "dereg_enter", s,
                 IF op = "reset" THEN "default" ELSE "user")
    /\ UNCHANGED <<proc, killer, boot, selfpipe, table, disp, signals, inhand, loops,
                   calls, printed, raises>>

\* Mutant: the early return forgets to unlock.
HolderAfterRefusal_Kept(t) == t

HolderAfterRefusal(t) == NoOne

\* A callback for the signal is registered already: unlock and return -1.
RegisterRefused(t) ==
    /\ InCall(t, "reg_enter")
    /\ MutexFree
    /\ users[call[t].sig].cb # Null
    /\ mtx' = HolderAfterRefusal(t)
    /\ call' = [call EXCEPT ![t] = NoCall]
    /\ UNCHANGED <<proc, killer, boot, selfpipe, users, regs, disp, signals, inhand, loops,
                   calls, printed, bounds>>

RegisterEnter(t) ==
    /\ InCall(t, "reg_enter")
    /\ MutexFree
    /\ users[call[t].sig].cb = Null
    /\ mtx' = t
    /\ regs' = Append(regs, [by |-> t, sig |-> call[t].sig, kind |-> call[t].kind])
    /\ call' = [call EXCEPT ![t].at = "reg_store", ![t].id = Len(regs'),
                            ![t].todo = <<"cb", "ctxt", "evbase", "install">>]
    /\ UNCHANGED <<proc, killer, boot, selfpipe, users, disp, signals, inhand, loops,
                   calls, printed, bounds>>

DeregisterEnter(t) ==
    /\ InCall(t, "dereg_enter")
    /\ MutexFree
    /\ mtx' = t
    /\ call' = [call EXCEPT ![t].at = "dereg_store", ![t].todo = <<"evbase", "cb", "ctxt">>]
    /\ UNCHANGED <<proc, killer, boot, selfpipe, users, regs, disp, signals, inhand,
                   loops, calls, printed, bounds>>

\* What the call leaves in users[signo].
Entry(t) == IF call[t].at = "reg_store"
            THEN [evbase |-> Base(t), cb |-> call[t].id, ctxt |-> call[t].id]
            ELSE NoUser

Store(t) ==
    /\ InCall(t, "reg_store") \/ InCall(t, "dereg_store")
    /\ call[t].todo # <<>>
    /\ LET field == Head(call[t].todo)
       IN  IF field = "install"
           THEN disp' = [disp EXCEPT ![call[t].sig] = "handler"] /\ UNCHANGED users
           ELSE users' = [users EXCEPT ![call[t].sig][field] = Entry(t)[field]]
                /\ UNCHANGED disp
    /\ call' = [call EXCEPT ![t].todo = Tail(@)]
    /\ UNCHANGED <<proc, killer, boot, selfpipe, mtx, regs, signals, inhand, loops,
                   calls, printed, bounds>>

Leave(t) ==
    /\ InCall(t, "reg_store") \/ InCall(t, "dereg_store")
    /\ call[t].todo = <<>>
    /\ mtx' = NoOne
    /\ IF call[t].op = "reset" /\ call[t].at = "dereg_store"
       THEN call' = [call EXCEPT ![t].at = "reg_enter"]
       ELSE call' = [call EXCEPT ![t] = NoCall]
    /\ UNCHANGED <<proc, killer, boot, selfpipe, users, regs, disp, signals, inhand,
                   loops, calls, printed, bounds>>

ApiStep(t) ==
    RegisterRefused(t) \/ RegisterEnter(t) \/ DeregisterEnter(t) \/ Store(t) \/ Leave(t)

-----------------------------------------------------------------------------
(* zsignal_init, which loop_main calls and whose result it ignores.         *)

Phase(t, ph) == phase' = [phase EXCEPT ![t] = ph]

\* create_selfpipe: event_add may fail when the pipe is open, and the handlers
\* then write to a pipe nobody reads; or there is no pipe.
BootPipe ==
    /\ proc = "running" /\ phase[Main] = "boot"
    /\ \/ selfpipe' = "read" /\ Phase(Main, "register")
       \/ selfpipe' = "unread" /\ Phase(Main, "start")
       \/ UNCHANGED selfpipe /\ Phase(Main, "start")
    /\ UNCHANGED <<proc, killer, boot, table, disp, call, signals, inhand, armed, timers,
                   active, calls, printed, bounds>>

BootRegister(s) ==
    /\ proc = "running" /\ phase[Main] = "register" /\ call[Main] = NoCall
    /\ s \in boot
    /\ boot' = boot \ {s}
    /\ EnterCall(Main, "register", "reg_enter", s, IF s \in Ignored THEN "nothing" ELSE "default")
    /\ UNCHANGED <<proc, killer, selfpipe, table, disp, signals, inhand, loops, calls,
                   printed, bounds>>

BootDone ==
    /\ proc = "running" /\ phase[Main] = "register" /\ call[Main] = NoCall
    /\ boot = {}
    /\ Phase(Main, "start")
    /\ UNCHANGED <<proc, killer, boot, selfpipe, table, disp, call, signals, inhand, armed,
                   timers, active, calls, printed, bounds>>

\* app_init reports a failure: loop_main returns without running the loop.
AppInitFails ==
    /\ proc = "running" /\ phase[Main] = "start" /\ call[Main] = NoCall
    /\ proc' = "exited"
    /\ UNCHANGED <<killer, boot, selfpipe, table, disp, call, signals, inhand, loops,
                   calls, printed, bounds>>

-----------------------------------------------------------------------------
(* A loop: process_loop calls event_base_loop(EVLOOP_ONCE) until the base   *)
(* has no event left.                                                       *)

\* What stands for selfpipe_event in a loop's active queue.
SelfPipe == [n |-> 0, sig |-> NoOne, cb |-> Null, ctxt |-> Null]

InLoop(t, ph) == proc = "running" /\ phase[t] = ph /\ call[t] = NoCall

HasEvents(t) == (t = Main /\ selfpipe = "read") \/ t \in FdLoops \/ timers[t] # {}

EnterLoop(t) ==
    /\ InLoop(t, "start") /\ ~Booting
    /\ Phase(t, "poll")
    /\ UNCHANGED <<proc, killer, boot, selfpipe, table, disp, call, signals, inhand, armed,
                   timers, active, calls, printed, bounds>>

Sleep(t) ==
    /\ InLoop(t, "poll")
    /\ HasEvents(t)
    /\ Phase(t, "wait")
    /\ armed' = [armed EXCEPT ![t] = timers[t] # {}]
    /\ UNCHANGED <<proc, killer, boot, selfpipe, table, disp, call, signals, inhand,
                   timers, active, calls, printed, bounds>>

\* event_base_loop returns 1: the thread ends, or loop_main returns.
LoopEnds(t) ==
    /\ InLoop(t, "poll")
    /\ ~HasEvents(t)
    /\ Phase(t, "gone")
    /\ proc' = IF t = Main THEN "exited" ELSE proc
    /\ UNCHANGED <<killer, boot, selfpipe, table, disp, call, signals, inhand, armed,
                   timers, active, calls, printed, bounds>>

\* The main loop learns that the pipe holds something.
PipeReadable == selfpipe = "read" /\ pipe # <<>>

Wake(t) ==
    /\ Phase(t, "dispatch")
    /\ \E due \in SetToSeqs(timers[t]) :
         active' = [active EXCEPT ![t] =
                      (IF t = Main /\ PipeReadable THEN <<SelfPipe>> ELSE <<>>) \o due]
    /\ timers' = [timers EXCEPT ![t] = {}]
    /\ armed' = [armed EXCEPT ![t] = FALSE]
    /\ UNCHANGED <<proc, killer, boot, selfpipe, table, disp, call, signals, inhand,
                   calls, printed, bounds>>

\* Mutant: selfpipe_event was never added to the loop.
Ready_NoPipe(t) == armed[t]

Ready(t) == armed[t] \/ (t = Main /\ PipeReadable)

WakeDue(t) ==
    /\ InLoop(t, "wait")
    /\ Ready(t)
    /\ Wake(t)

\* One of the application's descriptors is ready.
WakeOther(t) ==
    /\ InLoop(t, "wait")
    /\ t \in FdLoops
    /\ Wake(t)

EndIteration(t) ==
    /\ InLoop(t, "dispatch")
    /\ active[t] = <<>>
    /\ Phase(t, "poll")
    /\ UNCHANGED <<proc, killer, boot, selfpipe, table, disp, call, signals, inhand, armed,
                   timers, active, calls, printed, bounds>>

Runs(t, ph) == InLoop(t, ph) /\ active[t] # <<>>

\* Mutant: selfpipe_cb reads on until the pipe is empty.
ReadsOn_Drain == pipe # <<>>

\* selfpipe_cb handles one signal and returns to the loop, whatever is in the pipe.
ReadsOn == FALSE

\* selfpipe_cb reads one signal,
SelfPipeRead ==
    /\ Runs(Main, "dispatch")
    /\ Head(active[Main]) = SelfPipe
    /\ inhand' = Head(pipe)
    /\ pipe' = Tail(pipe)
    /\ Phase(Main, "lookup")
    /\ UNCHANGED <<proc, killer, boot, selfpipe, table, disp, call, caught, lost, armed,
                   timers, active, calls, printed, bounds>>

\* takes the mutex, looks the user up and sends the event.
User == users[caught[inhand]]

SelfPipeLookup ==
    /\ InLoop(Main, "lookup")
    /\ MutexFree
    /\ Phase(Main, "dispatch")
    /\ inhand' = 0
    /\ active' = [active EXCEPT ![Main] = IF ReadsOn THEN @ ELSE Tail(@)]
    /\ UNCHANGED <<proc, killer, boot, selfpipe, table, disp, call, pipe, caught, armed,
                   calls, printed, bounds>>

\* No callback, or a callback without a loop (evtimer_add fails), or a timer
\* lost in the race with the thread that works on the loop.
SendNothing ==
    /\ SelfPipeLookup
    /\ \/ User.cb = Null
       \/ User.evbase = NoOne
       \/ User.evbase \in LoopThreads /\ phase[User.evbase] \notin {"wait", "gone"}
    /\ lost' = lost \cup {inhand}
    /\ UNCHANGED timers

\* Mutant: the event and its context are static variables.
TimersAfter_Static(base, e) == {e}

\* Each event has a context and a timer of its own.
TimersAfter(base, e) == timers[base] \cup {e}

SendEvent ==
    /\ SelfPipeLookup
    /\ User.cb # Null
    /\ User.evbase # NoOne
    /\ timers' = [timers EXCEPT ![User.evbase] =
                    TimersAfter(User.evbase, [n |-> inhand, sig |-> caught[inhand],
                                              cb |-> User.cb, ctxt |-> User.ctxt])]
    /\ UNCHANGED lost

\* signal_cb runs the user's callback, or the do_nothing of SIGPIPE.
RunCallback(t) ==
    /\ Runs(t, "dispatch")
    /\ LET e == Head(active[t])
       IN  /\ e # SelfPipe
           /\ regs[e.cb].kind # "default"
           /\ calls' = Append(calls, [n |-> e.n, cb |-> e.cb, ctxt |-> e.ctxt, on |-> t])
    /\ active' = [active EXCEPT ![t] = Tail(@)]
    /\ UNCHANGED <<proc, killer, boot, selfpipe, table, disp, call, signals, inhand, phase,
                   armed, timers, printed, bounds>>

\* Mutant: no error record is printed.
Recorded_Nothing(s) == printed

Recorded(s) == printed \cup {s}

\* log_error_and_call_system_default_handler: print the record, restore the
\* system default, raise.
DefaultPrint(t) ==
    /\ Runs(t, "dispatch")
    /\ LET e == Head(active[t])
       IN  /\ e # SelfPipe
           /\ regs[e.cb].kind = "default"
           /\ calls' = Append(calls, [n |-> e.n, cb |-> e.cb, ctxt |-> e.ctxt, on |-> t])
           /\ printed' = Recorded(e.sig)
    /\ Phase(t, "restore")
    /\ UNCHANGED <<proc, killer, boot, selfpipe, table, disp, call, signals, inhand, armed,
                   timers, active, bounds>>

DefaultRestore(t) ==
    /\ Runs(t, "restore")
    /\ disp' = [disp EXCEPT ![Head(active[t]).sig] = "default"]
    /\ Phase(t, "reraise")
    /\ UNCHANGED <<proc, killer, boot, selfpipe, table, call, signals, inhand, armed,
                   timers, active, calls, printed, bounds>>

DefaultRaise(t) ==
    /\ Runs(t, "reraise")
    /\ Arrive(Head(active[t]).sig)
    /\ active' = [active EXCEPT ![t] = Tail(@)]
    /\ Phase(t, "dispatch")
    /\ UNCHANGED <<boot, selfpipe, table, disp, call, inhand, armed, timers, calls,
                   printed, bounds>>

LoopStep(t) ==
    \/ EnterLoop(t) \/ Sleep(t) \/ LoopEnds(t) \/ WakeDue(t) \/ EndIteration(t)
    \/ RunCallback(t) \/ DefaultPrint(t) \/ DefaultRestore(t) \/ DefaultRaise(t)

MainStep ==
    \/ BootPipe \/ (\E s \in Sigs : BootRegister(s)) \/ BootDone
    \/ SelfPipeRead \/ SendNothing \/ SendEvent

\* What a thread does once it is scheduled.
ThreadStep(t) ==
    \/ ApiStep(t)
    \/ t \in Loops /\ LoopStep(t)
    \/ t = Main /\ MainStep

\* What the outside does, and what the application chooses to do.
Environment ==
    \/ \E s \in Sigs : Raise(s)
    \/ \E t \in Threads, s \in Sigs, op \in {"register", "deregister", "reset"} : CallApi(t, op, s)
    \/ \E t \in Loops : WakeOther(t)
    \/ AppInitFails

Next == Environment \/ \E t \in Threads : ThreadStep(t)

Spec == Init /\ [][Next]_vars

\* The kernel schedules every thread that can run.
FairSpec == Spec /\ \A t \in Threads : WF_vars(ThreadStep(t))

-----------------------------------------------------------------------------
(* Properties. *)

Ids     == 0 .. Len(regs)
Numbers == 1 .. Len(caught)
Events  == [n : 0 .. Len(caught), sig : Sigs \cup {NoOne}, cb : Ids, ctxt : Ids]
Users   == [evbase : Loops \cup {NoOne}, cb : Ids, ctxt : Ids]
ApiCalls == [op   : {"register", "deregister", "reset"},
             at   : {"reg_enter", "reg_store", "dereg_enter", "dereg_store"},
             sig  : Sigs,
             kind : {"user", "default", "nothing"},
             id   : Ids,
             todo : Seq({"cb", "ctxt", "evbase", "install"})]

\* Every variable holds a value of its type; the self-pipe never holds more than
\* its capacity, and a registration number never names a registration to come.
TypeOK ==
    /\ proc \in {"running", "killed", "exited"}
    /\ killer \in Sigs \cup {NoOne}
    /\ boot \subseteq Defaults \cup Ignored /\ selfpipe \in {"closed", "unread", "read"}
    /\ users \in [Sigs -> Users]
    /\ disp \in [Sigs -> {"default", "handler"}]
    /\ mtx \in Threads \cup {NoOne}
    /\ call \in [Threads -> ApiCalls \cup {NoCall}]
    /\ regs \in Seq([by : Threads, sig : Sigs, kind : {"user", "default", "nothing"}])
    /\ pipe \in Seq(Numbers) /\ Len(pipe) <= PipeCap
    /\ caught \in Seq(Sigs) /\ lost \subseteq Numbers
    /\ inhand \in 0 .. Len(caught)
    /\ phase \in [Threads -> {"boot", "register", "start", "poll", "wait", "gone", "dispatch",
                              "lookup", "restore", "reraise"}]
    /\ armed \in [Loops -> BOOLEAN]
    /\ timers \in [Loops -> SUBSET Events]
    /\ active \in [Loops -> Seq(Events)]
    /\ calls \in Seq([n : Numbers, cb : Ids, ctxt : Ids, on : Loops])
    /\ printed \subseteq Sigs
    /\ raises \in 0 .. MaxRaises /\ ops \in 0 .. MaxCalls

\* What became of the n-th signal caught.
State(n) == IF n \in lost THEN "lost"
            ELSE IF \E i \in DOMAIN calls : calls[i].n = n THEN "called" ELSE "pending"

Promise == INSTANCE SignalDelivery WITH
    regs   <- [k \in DOMAIN regs |-> [by |-> regs[k].by, sig |-> regs[k].sig]],
    status <- [n \in DOMAIN caught |-> [sig |-> caught[n], state |-> State(n)]]

\* The library keeps the promise of SignalDelivery: a caught signal runs at most
\* one callback, once, never with the callback of one registration and the
\* context of another, and in the thread that registered it, though registering,
\* deregistering and looking up touch the table field by field in several
\* threads (zsignal.cc:185-240, 339-381).
KeepsPromise == Promise!Spec

\* Callbacks registered from the main loop run in the order their signals were
\* caught: the pipe is first in first out and selfpipe_cb reads one signal per
\* iteration, so the main loop never has two zero timers to order
\* (zsignal.cc:210-240).
MainInOrder ==
    \A i, j \in DOMAIN calls :
        i < j /\ calls[i].on = Main /\ calls[j].on = Main => calls[i].n < calls[j].n

\* Once zsignal_init has succeeded, no signal it registered a callback for ends the
\* process before an error record was printed, whatever the application
\* deregisters, registers and resets meanwhile (zsignal.cc:292-294).
RecordBeforeDeath ==
    proc = "killed" /\ selfpipe = "read" /\ ~Booting /\ killer \in Defaults \cup Ignored
        => killer \in printed

\* An API call that was begun ends: no path keeps the mutex (zsignal.cc:347-380).
ApiCallsEnd == \A t \in Threads : call[t] # NoCall ~> call[t] = NoCall \/ proc # "running"

InPipe(n)   == \E i \in DOMAIN pipe : pipe[i] = n
WithLoop(n) == \E t \in Loops : \/ \E e \in timers[t] : e.n = n
                               \/ \E i \in DOMAIN active[t] : active[t][i].n = n

\* No signal vanishes: one that our handler caught and that has not run its
\* callback is in the self-pipe, in selfpipe_cb's hand or with the loop it was
\* sent to, unless the pipe was full or selfpipe_cb found no loop to send it to,
\* however many signals come before a loop gets round to them (zsignal.cc:129-149,
\* 196-240).
NoneVanishes ==
    \A n \in Numbers : State(n) = "pending" => n = inhand \/ InPipe(n) \/ WithLoop(n)

\* A signal in the self-pipe does not stay there, if create_selfpipe succeeded:
\* its callback runs, or it is dropped because nobody (with a loop) is registered
\* for it (zsignal.cc:210-240).
CaughtIsHandled ==
    \A n \in 1 .. MaxRaises :
        selfpipe = "read" /\ InPipe(n)
            ~> (n \in DOMAIN caught /\ State(n) # "pending") \/ proc # "running"

\* zsignal.cc:194-195 "this function is executed within the init thread ... it
\* sends one event to a user thread", 185-186 "executed within the user thread
\* ... responsible for calling the user callback": an event added to the loop of
\* a thread is run there.
EventReachesUserThread ==
    \A n \in 1 .. MaxRaises :
        (\E t \in Loops : \E e \in timers[t] : e.n = n)
            ~> (n \in DOMAIN caught /\ State(n) = "called") \/ proc # "running"

\* zsignal.cc:386 "restore default handler": when zsignal_reset_default returns
\* 0 the default callback is the one registered.
ResetRestoresDefault ==
    [][\A t \in Threads :
         call[t].op = "reset" /\ call'[t] = NoCall =>
             LET k == users'[call[t].sig].cb IN k # Null /\ regs'[k].kind = "default"]_vars
=============================================================================
