--------------------------- MODULE ZSignalProofs ---------------------------
(***************************************************************************)
(* zsignal on its loops, proved for any threads, signals, size of the pipe *)
(* and number of calls: the table is whole whenever the mutex is free, each*)
(* event on its way is that of one registration and of a signal nobody has *)
(* run yet, the main loop keeps the order of the signals, no signal of     *)
(* zsignal_init's kills without a record, each signal caught runs at most  *)
(* one callback, once, and is never forgotten, and ZSignal implements      *)
(* SignalDelivery.                                                         *)
(***************************************************************************)
EXTENDS ZSignal, FiniteSetTheorems, SequenceTheorems, TLAPS

-----------------------------------------------------------------------------
(* Types that do not depend on the state.                                   *)

AnyEvent == [n : Nat, sig : Sigs \cup {NoOne}, cb : Nat, ctxt : Nat]
AnyUser  == [evbase : Loops \cup {NoOne}, cb : Nat, ctxt : Nat]
AnyCall  == [op   : {"register", "deregister", "reset"},
             at   : {"reg_enter", "reg_store", "dereg_enter", "dereg_store"},
             sig  : Sigs,
             kind : {"user", "default", "nothing"},
             id   : Nat,
             todo : Seq({"cb", "ctxt", "evbase", "install"})]
AnyReg   == [by : Threads, sig : Sigs, kind : {"user", "default", "nothing"}]
AnyRun   == [n : Nat, cb : Nat, ctxt : Nat, on : Loops]
Phases   == {"boot", "register", "start", "poll", "wait", "gone", "dispatch", "lookup",
             "restore", "reraise"}

TableTypes ==
    /\ users \in [Sigs -> AnyUser]
    /\ disp \in [Sigs -> {"default", "handler"}]
    /\ mtx \in Threads \cup {NoOne}
    /\ call \in [Threads -> AnyCall \cup {NoCall}]
    /\ regs \in Seq(AnyReg)

SignalTypes ==
    /\ pipe \in Seq(Nat) /\ Len(pipe) <= PipeCap
    /\ caught \in Seq(Sigs)
    /\ lost \subseteq Nat
    /\ inhand \in Nat

LoopTypes ==
    /\ phase \in [Threads -> Phases]
    /\ armed \in [Loops -> BOOLEAN]
    /\ timers \in [Loops -> SUBSET AnyEvent]
    /\ \A t \in Loops : IsFiniteSet(timers[t])
    /\ active \in [Loops -> Seq(AnyEvent)]
    /\ calls \in Seq(AnyRun)

ProcTypes ==
    /\ proc \in {"running", "killed", "exited"}
    /\ killer \in Sigs \cup {NoOne}
    /\ boot \subseteq Defaults \cup Ignored /\ selfpipe \in {"closed", "unread", "read"}
    /\ printed \subseteq Sigs
    /\ raises \in 0 .. MaxRaises /\ ops \in 0 .. MaxCalls

Types == TableTypes /\ SignalTypes /\ LoopTypes /\ ProcTypes

-----------------------------------------------------------------------------
(* The table and the mutex.                                                 *)

\* t is between taking and leaving the mutex.
Storing(t) == call[t] # NoCall /\ call[t].at \in {"reg_store", "dereg_store"}

\* Nobody stores without the mutex.
Excluded == \A t \in Threads : Storing(t) <=> mtx = t

\* An entry is empty, or that of one registration for its signal.
Whole(s) ==
    \/ users[s] = NoUser
    \/ \E k \in 1 .. Len(regs) :
           /\ users[s] = [evbase |-> Base(regs[k].by), cb |-> k, ctxt |-> k]
           /\ regs[k].sig = s

\* An entry that is not whole is being stored.
TableWhole == \A s \in Sigs : Whole(s) \/ \E t \in Threads : Storing(t) /\ call[t].sig = s

ToStore(t, field) == \E i \in DOMAIN call[t].todo : call[t].todo[i] = field

\* What was stored so far is part of the entry.
StoredSoFar ==
    \A t \in Threads : Storing(t) =>
        /\ call[t].at = "reg_store" =>
               /\ call[t].id \in 1 .. Len(regs)
               /\ regs[call[t].id].by = t /\ regs[call[t].id].sig = call[t].sig
        /\ \A field \in {"evbase", "cb", "ctxt"} :
               ToStore(t, field) \/ users[call[t].sig][field] = Entry(t)[field]

TableInv == Excluded /\ TableWhole /\ StoredSoFar

-----------------------------------------------------------------------------
(* The loops.                                                               *)

Busy(t) == phase[t] \in {"restore", "reraise"}

\* Where a loop is, and what it has to run.
LoopInv ==
    /\ \A t \in Loops : phase[t] \in {"boot", "register", "start", "poll", "wait", "gone"} =>
                            active[t] = <<>>
    /\ \A t \in Loops : \A i \in DOMAIN active[t] : active[t][i] = SelfPipe => t = Main /\ i = 1
    /\ \A t \in Loops : Busy(t) => /\ active[t] # <<>> /\ active[t][1] # SelfPipe
                                   /\ active[t][1].sig \in printed
    /\ \A t \in Threads : phase[t] \in {"boot", "register", "lookup"} => t = Main
    /\ phase[Main] = "lookup" => active[Main] # <<>> /\ active[Main][1] = SelfPipe
    /\ phase[Main] = "dispatch" /\ active[Main] # <<>> /\ active[Main][1] = SelfPipe => pipe # <<>>
    /\ phase[Main] = "lookup" <=> inhand # 0

\* The events a loop has that were not run yet: the one it is busy with was.
Due(t)  == {i \in DOMAIN active[t] : active[t][i] # SelfPipe /\ ~(Busy(t) /\ i = 1)}
Sent(t) == timers[t] \cup {active[t][i] : i \in Due(t)}

\* e belongs in t's loop.
EventOf(e, t) ==
    /\ e.n \in Numbers
    /\ e.sig = caught[e.n]
    /\ e.cb \in 1 .. Len(regs) /\ e.ctxt = e.cb
    /\ regs[e.cb].by = t /\ regs[e.cb].sig = e.sig

EventsInv ==
    /\ \A t \in Loops : \A e \in timers[t] : EventOf(e, t)
    /\ \A t \in Loops : \A i \in DOMAIN active[t] :
           active[t][i] = SelfPipe \/ EventOf(active[t][i], t)
    /\ \A c \in DOMAIN calls : /\ calls[c].n \in Numbers
                               /\ calls[c].cb \in 1 .. Len(regs) /\ calls[c].ctxt = calls[c].cb

\* n was caught before the signal in hand and those in the pipe.
Before(n) == (inhand # 0 => n < inhand) /\ \A i \in DOMAIN pipe : n < pipe[i]

PipeInv ==
    /\ \A i \in DOMAIN pipe : pipe[i] \in Numbers /\ pipe[i] \notin lost
    /\ \A i, j \in DOMAIN pipe : i < j => pipe[i] < pipe[j]
    /\ inhand # 0 => /\ inhand \in Numbers /\ inhand \notin lost
                     /\ \A i \in DOMAIN pipe : inhand < pipe[i]
    /\ lost \subseteq Numbers

\* A signal that was sent to a loop is neither lost nor in the pipe and has run
\* nothing,
SentFresh ==
    /\ \A t \in Loops : \A e \in Sent(t) :
           Before(e.n) /\ e.n \notin lost /\ \A c \in DOMAIN calls : calls[c].n # e.n
    /\ \A c \in DOMAIN calls : Before(calls[c].n)

\* and was sent once.
SentOnce ==
    /\ \A t, u \in Loops : \A e \in Sent(t), f \in Sent(u) : e.n = f.n => t = u /\ e = f
    /\ \A t \in Loops : \A i, j \in Due(t) : active[t][i] = active[t][j] => i = j
    /\ \A t \in Loops : \A i \in Due(t) : active[t][i] \notin timers[t]

SentInv == SentFresh /\ SentOnce

\* The main loop has one timer at most, and runs it before the next.
MainInv ==
    /\ \A e, f \in timers[Main] : e = f
    /\ active[Main] # <<>> /\ active[Main][1] = SelfPipe => timers[Main] = {}
    /\ \A i, j \in DOMAIN active[Main] :
           active[Main][i] # SelfPipe /\ active[Main][j] # SelfPipe => i = j
    /\ \A e \in timers[Main] : \A i \in Due(Main) : active[Main][i].n < e.n
    /\ \A c \in DOMAIN calls : calls[c].on = Main => \A e \in Sent(Main) : calls[c].n < e.n
    /\ MainInOrder

-----------------------------------------------------------------------------
(* zsignal_init, and death.                                                 *)

AtBoot == Defaults \cup Ignored

\* Until zsignal_init is done nobody else registers.
BootInv ==
    /\ Booting => \A t \in Threads \ {Main} : call[t] = NoCall
    /\ Booting => \A s \in boot : users[s] = NoUser
    /\ phase[Main] = "boot" => call[Main] = NoCall /\ boot = AtBoot /\ selfpipe = "closed"
    /\ phase[Main] = "register" /\ call[Main] # NoCall =>
           /\ call[Main].op = "register" /\ call[Main].at \in {"reg_enter", "reg_store"}
           /\ call[Main].sig \notin boot
           /\ call[Main].at = "reg_enter" => users[call[Main].sig] = NoUser

\* The registration of s is under way.
Installing(s) ==
    /\ phase[Main] = "register" /\ call[Main] # NoCall /\ call[Main].sig = s
    /\ call[Main].at = "reg_enter" \/ ToStore(Main, "install")

\* A signal of zsignal_init's has its handler, or its record was printed.
HandlersInv ==
    /\ selfpipe = "read" => \A s \in AtBoot :
           (s \in boot /\ Booting) \/ Installing(s) \/ disp[s] = "handler" \/ s \in printed
    /\ RecordBeforeDeath

\* No registration number names a registration to come.
IdsInv ==
    /\ users \in [Sigs -> Users]
    /\ call \in [Threads -> ApiCalls \cup {NoCall}]

IInv == Types /\ TableInv /\ LoopInv /\ EventsInv /\ PipeInv /\ SentInv /\ MainInv
             /\ BootInv /\ HandlersInv /\ IdsInv

-----------------------------------------------------------------------------
(* Sequences and threads.                                                   *)

LEMMA TailFacts ==
  ASSUME NEW S, NEW q \in Seq(S), q # <<>>
  PROVE  /\ Tail(q) \in Seq(S) /\ Head(q) = q[1] /\ 1 \in DOMAIN q /\ q[1] \in S
         /\ \A i \in DOMAIN Tail(q) : i + 1 \in DOMAIN q /\ i + 1 # 1 /\ Tail(q)[i] = q[i + 1]
         /\ \A i \in DOMAIN q : i # 1 => i - 1 \in DOMAIN Tail(q) /\ Tail(q)[i - 1] = q[i]
         /\ DOMAIN q \subseteq Nat \ {0} /\ DOMAIN Tail(q) \subseteq Nat \ {0}
         /\ Len(Tail(q)) = Len(q) - 1 /\ Len(q) \in Nat
<1>1. /\ Len(q) \in Nat \ {0} /\ DOMAIN q = 1 .. Len(q) /\ q \in [1 .. Len(q) -> S]
  BY LenProperties, EmptySeq
<1>2. /\ Tail(q) \in Seq(S) /\ Len(Tail(q)) = Len(q) - 1 /\ DOMAIN Tail(q) = 1 .. Len(q) - 1
      /\ \A i \in 1 .. Len(q) - 1 : Tail(q)[i] = q[i + 1]
  BY <1>1, HeadTailProperties, LenProperties
<1>3. Head(q) = q[1]
  BY <1>1
<1> QED
  BY <1>1, <1>2, <1>3

LEMMA AppendFacts ==
  ASSUME NEW S, NEW q \in Seq(S), NEW x \in S
  PROVE  /\ Append(q, x) \in Seq(S) /\ Len(Append(q, x)) = Len(q) + 1 /\ Len(q) \in Nat
         /\ DOMAIN q = 1 .. Len(q) /\ DOMAIN Append(q, x) = 1 .. Len(q) + 1
         /\ \A i \in DOMAIN q : Append(q, x)[i] = q[i]
         /\ Append(q, x)[Len(q) + 1] = x
BY AppendProperties, LenProperties

\* NoOne is no thread, so a loop's base is never the NULL event_base.
LEMMA ThreadFacts ==
  /\ NoOne \notin Threads /\ Main \in Loops /\ Main \in Threads /\ Loops \subseteq Threads
  /\ \A t \in Threads : Base(t) \in Loops \cup {NoOne}
  /\ \A t \in Loops : Base(t) = t
BY ZSignalAssumption DEF NoOne, Threads, Loops, Base

LEMMA DisposFacts == Defaults \subseteq Sigs /\ Ignored \subseteq Sigs /\ AtBoot \subseteq Sigs
BY ZSignalAssumption DEF AtBoot

-----------------------------------------------------------------------------
(* The steps of Next: those of the API change the table, the others do not. *)

ApiMove ==
    \/ \E t \in Threads, s \in Sigs, op \in {"register", "deregister", "reset"} : CallApi(t, op, s)
    \/ \E s \in Sigs : BootRegister(s)
    \/ \E t \in Threads : ApiStep(t)

LoopMove ==
    \/ \E s \in Sigs : Raise(s)
    \/ AppInitFails \/ BootPipe \/ BootDone \/ SelfPipeRead \/ SendNothing \/ SendEvent
    \/ \E t \in Loops : \/ EnterLoop(t) \/ Sleep(t) \/ LoopEnds(t) \/ WakeDue(t) \/ WakeOther(t)
                        \/ EndIteration(t) \/ RunCallback(t) \/ DefaultPrint(t)
                        \/ DefaultRestore(t) \/ DefaultRaise(t)

LEMMA NextMoves == Next => ApiMove \/ LoopMove
BY ThreadFacts DEF Next, Environment, ThreadStep, LoopStep, MainStep, ApiMove, LoopMove

LEMMA ApiFrame ==
  ASSUME ApiMove
  PROVE  /\ proc = "running"
         /\ UNCHANGED <<proc, killer, selfpipe, signals, inhand, loops, calls, printed, raises>>
<1>1. ASSUME NEW t \in Threads, ApiStep(t)
      PROVE  /\ proc = "running"
             /\ UNCHANGED <<proc, killer, selfpipe, signals, inhand, loops, calls, printed,
                            raises>>
  <2>1. proc = "running"
    BY <1>1 DEF ApiStep, InCall, RegisterRefused, RegisterEnter, DeregisterEnter, Store, Leave
  <2> QED
    BY <1>1, <2>1 DEF ApiStep, RegisterRefused, RegisterEnter, DeregisterEnter, Store, Leave,
       bounds
<1> QED
  BY <1>1 DEF ApiMove, CallApi, BootRegister, bounds

LEMMA LoopFrame == LoopMove => proc = "running" /\ UNCHANGED <<table, call, ops>>
<1>1. \A t : WakeDue(t) \/ WakeOther(t) => proc = "running" /\ UNCHANGED <<table, call, ops>>
  BY DEF WakeDue, WakeOther, Wake, InLoop, bounds
<1>2. SendNothing \/ SendEvent => proc = "running" /\ UNCHANGED <<table, call, ops>>
  BY DEF SendNothing, SendEvent, SelfPipeLookup, InLoop, bounds
<1>3. \A t : EnterLoop(t) \/ Sleep(t) \/ LoopEnds(t) \/ EndIteration(t)
             => proc = "running" /\ UNCHANGED <<table, call, ops>>
  BY DEF EnterLoop, Sleep, LoopEnds, EndIteration, InLoop, bounds
<1>4. \A t : RunCallback(t) \/ DefaultPrint(t) \/ DefaultRestore(t) \/ DefaultRaise(t)
             => proc = "running" /\ UNCHANGED <<table, call, ops>>
  BY DEF RunCallback, DefaultPrint, DefaultRestore, DefaultRaise, Runs, InLoop, bounds
<1>5. AppInitFails \/ BootPipe \/ BootDone \/ SelfPipeRead
             => proc = "running" /\ UNCHANGED <<table, call, ops>>
  BY DEF AppInitFails, BootPipe, BootDone, SelfPipeRead, Runs, InLoop, bounds
<1>6. \A s : Raise(s) => proc = "running" /\ UNCHANGED <<table, call, ops>>
  BY DEF Raise
<1> QED
  BY <1>1, <1>2, <1>3, <1>4, <1>5, <1>6 DEF LoopMove

-----------------------------------------------------------------------------
(* The initial states.                                                      *)

LEMMA InitInv == Init => IInv
<1> SUFFICES ASSUME Init PROVE IInv
  OBVIOUS
<1> USE ThreadFacts, DisposFacts
<1>1. Types
  <2>1. TableTypes
    BY DEF Init, TableTypes, AnyUser, AnyCall, NoUser, NoCall, Null
  <2>2. SignalTypes
    BY ZSignalAssumption DEF Init, SignalTypes
  <2>3. LoopTypes
    <3>1. \A t \in Loops : timers[t] = {}
      BY DEF Init
    <3>2. \A t \in Loops : IsFiniteSet(timers[t])
      BY <3>1, FS_EmptySet
    <3>3. phase \in [Threads -> Phases]
      BY DEF Init, Phases
    <3>4. active \in [Loops -> Seq(AnyEvent)] /\ timers \in [Loops -> SUBSET AnyEvent]
      BY DEF Init
    <3>5. armed \in [Loops -> BOOLEAN] /\ calls \in Seq(AnyRun)
      BY DEF Init
    <3> QED
      BY <3>2, <3>3, <3>4, <3>5 DEF LoopTypes
  <2>4. ProcTypes
    <3>1. raises \in 0 .. MaxRaises /\ ops \in 0 .. MaxCalls
      BY ZSignalAssumption DEF Init
    <3> QED
      BY <3>1 DEF Init, ProcTypes
  <2> QED
    BY <2>1, <2>2, <2>3, <2>4 DEF Types
<1>2. TableInv
  <2>1. \A t \in Threads : ~Storing(t)
    BY DEF Init, Storing
  <2> QED
    BY <2>1 DEF Init, TableInv, Excluded, TableWhole, StoredSoFar, Whole
<1>3. LoopInv
  BY DEF Init, LoopInv, Busy
<1>4. EventsInv /\ PipeInv
  BY DEF Init, EventsInv, PipeInv
<1>5. \A t \in Loops : Sent(t) = {} /\ Due(t) = {}
  BY DEF Init, Sent, Due
<1>6. SentInv
  BY <1>5 DEF Init, SentInv, SentFresh, SentOnce
<1>7. MainInv
  BY <1>5 DEF Init, MainInv, MainInOrder
<1>8. BootInv
  BY DEF Init, BootInv, Booting, AtBoot
<1>9. HandlersInv
  BY DEF Init, HandlersInv, RecordBeforeDeath
<1>10. IdsInv
  <2>1. Len(regs) = 0 /\ Null \in Ids
    BY DEF Init, Ids, Null
  <2> QED
    BY <2>1 DEF Init, IdsInv, Users, NoUser, Null
<1> QED
  BY <1>1, <1>2, <1>3, <1>4, <1>6, <1>7, <1>8, <1>9, <1>10 DEF IInv

-----------------------------------------------------------------------------
(* The table: what each step of the API does to it.                         *)

\* The call that EnterCall begins.
Begun(op, at, s, kind) == [op |-> op, at |-> at, sig |-> s, kind |-> kind, id |-> 0, todo |-> <<>>]

\* The rest of a state's table part in terms of one thread's step.
Others(t) == \A u \in Threads : u # t => call'[u] = call[u]

LEMMA EnterCallStep ==
  ASSUME TableTypes, NEW t \in Threads, NEW s \in Sigs,
         NEW op \in {"register", "deregister", "reset"}, NEW at \in {"reg_enter", "dereg_enter"},
         NEW kind \in {"user", "default", "nothing"},
         EnterCall(t, op, at, s, kind)
  PROVE  /\ call'[t] = Begun(op, at, s, kind) /\ Others(t)
         /\ Begun(op, at, s, kind) \in AnyCall
         /\ call' \in [Threads -> AnyCall \cup {NoCall}]
<1>1. <<>> \in Seq({"cb", "ctxt", "evbase", "install"})
  BY EmptySeq
<1>2. Begun(op, at, s, kind) \in AnyCall
  BY <1>1 DEF Begun, AnyCall
<1> QED
  BY <1>2 DEF EnterCall, Begun, TableTypes, Others

LEMMA RegisterEnterStep ==
  ASSUME TableTypes, NEW t \in Threads, RegisterEnter(t)
  PROVE  /\ call[t] \in AnyCall /\ call[t].at = "reg_enter" /\ mtx = NoOne /\ mtx' = t
         /\ users[call[t].sig].cb = Null /\ users' = users /\ disp' = disp
         /\ regs' = Append(regs, [by |-> t, sig |-> call[t].sig, kind |-> call[t].kind])
         /\ [by |-> t, sig |-> call[t].sig, kind |-> call[t].kind] \in AnyReg
         /\ regs' \in Seq(AnyReg) /\ Len(regs) \in Nat
         /\ call'[t] \in AnyCall /\ call'[t].at = "reg_store" /\ call'[t].id = Len(regs) + 1
         /\ call'[t].todo = <<"cb", "ctxt", "evbase", "install">>
         /\ call'[t].op = call[t].op /\ call'[t].sig = call[t].sig
         /\ call'[t].kind = call[t].kind
         /\ Others(t)
         /\ call' \in [Threads -> AnyCall \cup {NoCall}]
<1> DEFINE td == <<"cb", "ctxt", "evbase", "install">>
<1>1. call[t] \in AnyCall /\ call[t].at = "reg_enter"
  BY DEF RegisterEnter, InCall, TableTypes, NoCall
<1>2. [by |-> t, sig |-> call[t].sig, kind |-> call[t].kind] \in AnyReg
  BY <1>1 DEF AnyCall, AnyReg
<1>3. regs' \in Seq(AnyReg) /\ Len(regs') = Len(regs) + 1 /\ Len(regs) \in Nat
  BY <1>2, AppendFacts DEF RegisterEnter, TableTypes
<1>4. td \in Seq({"cb", "ctxt", "evbase", "install"})
  OBVIOUS
<1>5. call' = [call EXCEPT ![t].at = "reg_store", ![t].id = Len(regs'), ![t].todo = td]
  BY DEF RegisterEnter
<1> HIDE DEF td
<1>6. call'[t] = [call[t] EXCEPT !.at = "reg_store", !.id = Len(regs'), !.todo = td]
      /\ Others(t)
  BY <1>5 DEF TableTypes, Others
<1>7. /\ call'[t] \in AnyCall /\ call'[t].at = "reg_store" /\ call'[t].id = Len(regs')
      /\ call'[t].todo = td /\ call'[t].op = call[t].op /\ call'[t].sig = call[t].sig
      /\ call'[t].kind = call[t].kind
  <2>1. Len(regs') \in Nat
    BY <1>3
  <2> QED
    BY <1>1, <1>4, <1>6, <2>1 DEF AnyCall
<1>8. call' \in [Threads -> AnyCall \cup {NoCall}]
  BY <1>5, <1>6, <1>7 DEF TableTypes, Others
<1> QED
  BY <1>1, <1>2, <1>3, <1>6, <1>7, <1>8 DEF RegisterEnter, MutexFree, td

LEMMA DeregisterEnterStep ==
  ASSUME TableTypes, NEW t \in Threads, DeregisterEnter(t)
  PROVE  /\ call[t] \in AnyCall /\ call[t].at = "dereg_enter" /\ mtx = NoOne /\ mtx' = t
         /\ UNCHANGED <<users, disp, regs>>
         /\ call'[t] \in AnyCall /\ call'[t].at = "dereg_store"
         /\ call'[t].todo = <<"evbase", "cb", "ctxt">>
         /\ call'[t].op = call[t].op /\ call'[t].sig = call[t].sig
         /\ call'[t].kind = call[t].kind
         /\ Others(t)
         /\ call' \in [Threads -> AnyCall \cup {NoCall}]
<1> DEFINE td == <<"evbase", "cb", "ctxt">>
<1>1. call[t] \in AnyCall /\ call[t].at = "dereg_enter"
  BY DEF DeregisterEnter, InCall, TableTypes, NoCall
<1>4. td \in Seq({"cb", "ctxt", "evbase", "install"})
  OBVIOUS
<1>5. call' = [call EXCEPT ![t].at = "dereg_store", ![t].todo = td]
  BY DEF DeregisterEnter
<1> HIDE DEF td
<1>6. call'[t] = [call[t] EXCEPT !.at = "dereg_store", !.todo = td] /\ Others(t)
  BY <1>5 DEF TableTypes, Others
<1>7. /\ call'[t] \in AnyCall /\ call'[t].at = "dereg_store"
      /\ call'[t].todo = td /\ call'[t].op = call[t].op /\ call'[t].sig = call[t].sig
      /\ call'[t].kind = call[t].kind
  BY <1>1, <1>4, <1>6 DEF AnyCall
<1>8. call' \in [Threads -> AnyCall \cup {NoCall}]
  BY <1>5, <1>6, <1>7 DEF TableTypes, Others
<1> QED
  BY <1>1, <1>6, <1>7, <1>8 DEF DeregisterEnter, MutexFree, td

\* A store of one field of the table.
StoreField(t, field) ==
    /\ field \in {"cb", "ctxt", "evbase"}
    /\ users' = [users EXCEPT ![call[t].sig][field] = Entry(t)[field]]
    /\ disp' = disp

LEMMA StoreStep ==
  ASSUME TableTypes, NEW t \in Threads, Store(t)
  PROVE  /\ call[t] \in AnyCall /\ call[t].at \in {"reg_store", "dereg_store"}
         /\ UNCHANGED <<mtx, regs>>
         /\ call[t].todo # <<>>
         /\ \/ StoreField(t, Head(call[t].todo))
            \/ /\ Head(call[t].todo) = "install"
               /\ disp' = [disp EXCEPT ![call[t].sig] = "handler"] /\ users' = users
         /\ call'[t] \in AnyCall /\ call'[t].at = call[t].at
         /\ call'[t].todo = Tail(call[t].todo)
         /\ call'[t].op = call[t].op /\ call'[t].sig = call[t].sig
         /\ call'[t].kind = call[t].kind /\ call'[t].id = call[t].id
         /\ Others(t)
         /\ call' \in [Threads -> AnyCall \cup {NoCall}]
<1>1. call[t] \in AnyCall /\ call[t].at \in {"reg_store", "dereg_store"}
  BY DEF Store, InCall, TableTypes, NoCall
<1>2. call[t].todo # <<>> /\ call[t].todo \in Seq({"cb", "ctxt", "evbase", "install"})
  BY <1>1 DEF Store, AnyCall
<1>3. /\ Tail(call[t].todo) \in Seq({"cb", "ctxt", "evbase", "install"})
      /\ Head(call[t].todo) \in {"cb", "ctxt", "evbase", "install"}
  BY <1>2, HeadTailProperties
<1>4. call' = [call EXCEPT ![t].todo = Tail(@)]
  BY DEF Store
<1>5. call'[t] = [call[t] EXCEPT !.todo = Tail(call[t].todo)] /\ Others(t)
  BY <1>4 DEF TableTypes, Others
<1>6. /\ call'[t] \in AnyCall /\ call'[t].at = call[t].at
      /\ call'[t].todo = Tail(call[t].todo)
      /\ call'[t].op = call[t].op /\ call'[t].sig = call[t].sig
      /\ call'[t].kind = call[t].kind /\ call'[t].id = call[t].id
  BY <1>1, <1>3, <1>5 DEF AnyCall
<1>7. call' \in [Threads -> AnyCall \cup {NoCall}]
  BY <1>4, <1>5, <1>6 DEF TableTypes, Others
<1>8. CASE Head(call[t].todo) = "install"
  BY <1>1, <1>2, <1>5, <1>6, <1>7, <1>8 DEF Store
<1>9. CASE Head(call[t].todo) # "install"
  <2>1. StoreField(t, Head(call[t].todo))
    BY <1>3, <1>9 DEF Store, StoreField
  <2> QED
    BY <1>1, <1>2, <1>5, <1>6, <1>7, <2>1 DEF Store
<1> QED
  BY <1>8, <1>9

LEMMA LeaveStep ==
  ASSUME TableTypes, NEW t \in Threads, Leave(t)
  PROVE  /\ call[t] \in AnyCall /\ call[t].at \in {"reg_store", "dereg_store"}
         /\ call[t].todo = <<>>
         /\ UNCHANGED <<users, regs, disp>> /\ mtx' = NoOne
         /\ \/ call'[t] = NoCall
            \/ /\ call[t].op = "reset" /\ call'[t] \in AnyCall /\ call'[t].at = "reg_enter"
               /\ call'[t].todo = <<>> /\ call'[t].op = call[t].op
               /\ call'[t].sig = call[t].sig
         /\ Others(t)
         /\ call' \in [Threads -> AnyCall \cup {NoCall}]
<1>1. call[t] \in AnyCall /\ call[t].at \in {"reg_store", "dereg_store"}
  BY DEF Leave, InCall, TableTypes, NoCall
<1>2. CASE call' = [call EXCEPT ![t] = NoCall]
  BY <1>1, <1>2 DEF Leave, TableTypes, Others
<1>3. CASE /\ call' = [call EXCEPT ![t].at = "reg_enter"]
           /\ call[t].op = "reset" /\ call[t].at = "dereg_store"
  <2>1. call'[t] = [call[t] EXCEPT !.at = "reg_enter"] /\ Others(t)
    BY <1>3 DEF TableTypes, Others
  <2>2. /\ call'[t] \in AnyCall /\ call'[t].at = "reg_enter"
        /\ call'[t].todo = call[t].todo /\ call'[t].op = call[t].op
        /\ call'[t].sig = call[t].sig
    BY <1>1, <2>1 DEF AnyCall
  <2>3. call' \in [Threads -> AnyCall \cup {NoCall}]
    BY <1>3, <2>1, <2>2 DEF TableTypes, Others
  <2> QED
    BY <1>1, <1>3, <2>1, <2>2, <2>3 DEF Leave
<1> QED
  BY <1>2, <1>3 DEF Leave

LEMMA RefusedStep ==
  ASSUME TableTypes, NEW t \in Threads, RegisterRefused(t)
  PROVE  /\ call[t] \in AnyCall /\ call[t].at = "reg_enter" /\ mtx = NoOne /\ mtx' = NoOne
         /\ users[call[t].sig].cb # Null
         /\ UNCHANGED <<users, regs, disp>>
         /\ call'[t] = NoCall /\ Others(t)
         /\ call' \in [Threads -> AnyCall \cup {NoCall}]
<1>1. call[t] \in AnyCall /\ call[t].at = "reg_enter"
  BY DEF RegisterRefused, InCall, TableTypes, NoCall
<1> QED
  BY <1>1 DEF RegisterRefused, TableTypes, Others, MutexFree, HolderAfterRefusal

LEMMA EntryType ==
  ASSUME TableTypes, NEW t \in Threads, call[t] \in AnyCall
  PROVE  Entry(t) \in AnyUser
<1>1. Base(t) \in Loops \cup {NoOne} /\ call[t].id \in Nat
  BY ThreadFacts DEF AnyCall
<1> QED
  BY <1>1 DEF Entry, AnyUser, NoUser, Null

LEMMA StoreFieldFacts ==
  ASSUME TableTypes, NEW t \in Threads, call[t] \in AnyCall, NEW field, StoreField(t, field)
  PROVE  /\ users' \in [Sigs -> AnyUser]
         /\ \A s \in Sigs : s # call[t].sig => users'[s] = users[s]
         /\ users'[call[t].sig][field] = Entry(t)[field]
         /\ \A g \in {"cb", "ctxt", "evbase"} :
                g # field => users'[call[t].sig][g] = users[call[t].sig][g]
<1>1. call[t].sig \in Sigs
  BY DEF AnyCall
<1>2. users[call[t].sig] \in AnyUser /\ Entry(t) \in AnyUser
  BY <1>1, EntryType DEF TableTypes
<1>3. /\ users'[call[t].sig] = [users[call[t].sig] EXCEPT ![field] = Entry(t)[field]]
      /\ \A s \in Sigs : s # call[t].sig => users'[s] = users[s]
      /\ DOMAIN users' = Sigs
  BY <1>1 DEF StoreField, TableTypes
<1>4. field \in {"cb", "ctxt", "evbase"}
  BY DEF StoreField
<1>5. /\ users'[call[t].sig][field] = Entry(t)[field]
      /\ \A g \in {"cb", "ctxt", "evbase"} :
             g # field => users'[call[t].sig][g] = users[call[t].sig][g]
  BY <1>2, <1>3, <1>4 DEF AnyUser
<1>6. users'[call[t].sig] \in AnyUser
  BY <1>2, <1>3, <1>4 DEF AnyUser
<1>7. users' \in [Sigs -> AnyUser]
  BY <1>3, <1>6 DEF StoreField, TableTypes
<1> QED
  BY <1>3, <1>5, <1>7

\* A call that begins is one nobody stores for yet.
LEMMA CallBegins ==
  ASSUME TableTypes,
         NEW t \in Threads, NEW s \in Sigs,
         CallApi(t, "register", s) \/ CallApi(t, "deregister", s) \/ CallApi(t, "reset", s)
           \/ (t = Main /\ BootRegister(s))
  PROVE  /\ call[t] = NoCall /\ call'[t] \in AnyCall /\ call'[t].sig = s
         /\ call'[t].at \in {"reg_enter", "dereg_enter"}
         /\ call' \in [Threads -> AnyCall \cup {NoCall}]
         /\ Others(t)
         /\ UNCHANGED <<table, disp>>
<1>1. \E op \in {"register", "deregister", "reset"}, at \in {"reg_enter", "dereg_enter"},
         kind \in {"user", "default", "nothing"} : EnterCall(t, op, at, s, kind)
  <2>1. CASE CallApi(t, "register", s)
    BY <2>1 DEF CallApi
  <2>2. CASE CallApi(t, "deregister", s)
    BY <2>2 DEF CallApi
  <2>3. CASE CallApi(t, "reset", s)
    BY <2>3 DEF CallApi
  <2>4. CASE t = Main /\ BootRegister(s)
    BY <2>4 DEF BootRegister
  <2> QED
    BY <2>1, <2>2, <2>3, <2>4
<1>2. PICK op \in {"register", "deregister", "reset"}, at \in {"reg_enter", "dereg_enter"},
         kind \in {"user", "default", "nothing"} : EnterCall(t, op, at, s, kind)
  BY <1>1
<1>3. call[t] = NoCall /\ UNCHANGED <<table, disp>>
  BY DEF CallApi, BootRegister, Application
<1>4. /\ call'[t] = Begun(op, at, s, kind) /\ Others(t)
      /\ Begun(op, at, s, kind) \in AnyCall
      /\ call' \in [Threads -> AnyCall \cup {NoCall}]
  BY <1>2, EnterCallStep
<1> QED
  BY <1>3, <1>4 DEF Begun

\* The steps of the API, one by one.
LEMMA ApiCases ==
  ASSUME ApiMove, NEW ACTION P,
         ASSUME NEW t \in Threads, NEW s \in Sigs,
                CallApi(t, "register", s) \/ CallApi(t, "deregister", s) \/ CallApi(t, "reset", s)
                  \/ (t = Main /\ BootRegister(s))
         PROVE  P,
         ASSUME NEW t \in Threads, RegisterRefused(t) PROVE P,
         ASSUME NEW t \in Threads, RegisterEnter(t) PROVE P,
         ASSUME NEW t \in Threads, DeregisterEnter(t) PROVE P,
         ASSUME NEW t \in Threads, Store(t) PROVE P,
         ASSUME NEW t \in Threads, Leave(t) PROVE P
  PROVE  P
BY ThreadFacts DEF ApiMove, ApiStep

LEMMA StepTableTypes ==
  ASSUME Types, [Next]_vars
  PROVE  TableTypes'
<1> USE DEF Types
<1>1. CASE ApiMove
  <2>1. ASSUME NEW t \in Threads, NEW s \in Sigs,
               CallApi(t, "register", s) \/ CallApi(t, "deregister", s) \/ CallApi(t, "reset", s)
                 \/ (t = Main /\ BootRegister(s))
        PROVE  TableTypes'
    BY <2>1, CallBegins DEF TableTypes, table
  <2>2. ASSUME NEW t \in Threads, RegisterRefused(t) PROVE TableTypes'
    BY <2>2, RefusedStep DEF TableTypes
  <2>3. ASSUME NEW t \in Threads, RegisterEnter(t) PROVE TableTypes'
    BY <2>3, RegisterEnterStep DEF TableTypes
  <2>4. ASSUME NEW t \in Threads, DeregisterEnter(t) PROVE TableTypes'
    BY <2>4, DeregisterEnterStep DEF TableTypes
  <2>5. ASSUME NEW t \in Threads, Store(t) PROVE TableTypes'
    <3>1. /\ call[t] \in AnyCall /\ UNCHANGED <<mtx, regs>>
          /\ call' \in [Threads -> AnyCall \cup {NoCall}]
          /\ \/ StoreField(t, Head(call[t].todo))
             \/ disp' = [disp EXCEPT ![call[t].sig] = "handler"] /\ users' = users
      BY <2>5, StoreStep
    <3>2. users' \in [Sigs -> AnyUser] /\ disp' \in [Sigs -> {"default", "handler"}]
      BY <3>1, StoreFieldFacts DEF StoreField, TableTypes
    <3> QED
      BY <3>1, <3>2 DEF TableTypes
  <2>6. ASSUME NEW t \in Threads, Leave(t) PROVE TableTypes'
    BY <2>6, LeaveStep DEF TableTypes
  <2> QED
    BY <1>1, <2>1, <2>2, <2>3, <2>4, <2>5, <2>6, ApiCases
<1>2. ASSUME LoopMove \/ UNCHANGED vars PROVE TableTypes'
  <2>1. disp' \in [Sigs -> {"default", "handler"}]
    <3>1. \A s : [disp EXCEPT ![s] = "default"] \in [Sigs -> {"default", "handler"}]
      BY DEF TableTypes
    <3>2. UNCHANGED disp \/ \E s : disp' = [disp EXCEPT ![s] = "default"]
      BY <1>2 DEF LoopMove, Raise, AppInitFails, BootPipe, BootDone, SelfPipeRead, SendNothing,
         SendEvent, SelfPipeLookup, EnterLoop, Sleep, LoopEnds, WakeDue, WakeOther, Wake,
         EndIteration, RunCallback, DefaultPrint, DefaultRestore, DefaultRaise, vars
    <3> QED
      BY <3>1, <3>2 DEF TableTypes
  <2>2. UNCHANGED <<table, call>>
    BY <1>2, LoopFrame DEF vars
  <2> QED
    BY <2>1, <2>2 DEF TableTypes, table
<1> QED
  BY <1>1, <1>2, NextMoves

-----------------------------------------------------------------------------
(* The table is whole whenever the mutex is free.                           *)

\* What a step keeps when no call comes or goes between taking and leaving.
LEMMA TableFrame ==
  ASSUME TableTypes, TableInv, UNCHANGED <<users, regs, mtx>>,
         \A t \in Threads : call'[t] = call[t] \/ (~Storing(t) /\ ~Storing(t)')
  PROVE  TableInv'
<1>1. \A t \in Threads : Storing(t)' <=> Storing(t)
  BY DEF Storing
<1>2. \A t \in Threads : Storing(t)' => call'[t] = call[t]
  OBVIOUS
<1>3. \A s \in Sigs : Whole(s)' <=> Whole(s)
  BY DEF Whole
<1>4. Excluded'
  BY <1>1 DEF Excluded, TableInv
<1>5. TableWhole'
  BY <1>1, <1>2, <1>3 DEF TableWhole, TableInv
<1>6. StoredSoFar'
  BY <1>1, <1>2 DEF StoredSoFar, TableInv, Entry, ToStore
<1> QED
  BY <1>4, <1>5, <1>6 DEF TableInv

LEMMA WholeWhenFree ==
  ASSUME TableInv, mtx = NoOne
  PROVE  (\A s \in Sigs : Whole(s)) /\ \A t \in Threads : ~Storing(t)
BY ThreadFacts DEF TableInv, Excluded, TableWhole

LEMMA TableRegisterEnter ==
  ASSUME TableTypes, TableInv, NEW t \in Threads, RegisterEnter(t)
  PROVE  TableInv'
<1> DEFINE new == [by |-> t, sig |-> call[t].sig, kind |-> call[t].kind]
<1>1. /\ mtx = NoOne /\ mtx' = t /\ users' = users /\ regs' = Append(regs, new)
      /\ new \in AnyReg /\ Len(regs) \in Nat
      /\ call'[t] \in AnyCall /\ call'[t].at = "reg_store" /\ call'[t].id = Len(regs) + 1
      /\ call'[t].todo = <<"cb", "ctxt", "evbase", "install">> /\ call'[t].sig = call[t].sig
      /\ Others(t)
  BY RegisterEnterStep
<1>2. /\ \A s \in Sigs : Whole(s)
      /\ \A u \in Threads : ~Storing(u)
  BY <1>1, WholeWhenFree
<1>3. /\ Len(regs') = Len(regs) + 1 /\ regs'[Len(regs) + 1] = new
      /\ \A k \in 1 .. Len(regs) : regs'[k] = regs[k]
  BY <1>1, AppendFacts DEF TableTypes
<1>4. \A u \in Threads : Storing(u)' <=> u = t
  BY <1>1, <1>2 DEF Storing, Others, AnyCall, NoCall
<1>5. Excluded'
  BY <1>1, <1>4, ThreadFacts DEF Excluded
<1>6. TableWhole'
  <2>1. ASSUME NEW s \in Sigs PROVE Whole(s)'
    <3>1. CASE users[s] = NoUser
      BY <1>1, <3>1 DEF Whole
    <3>2. CASE users[s] # NoUser
      <4>1. PICK k \in 1 .. Len(regs) :
               /\ users[s] = [evbase |-> Base(regs[k].by), cb |-> k, ctxt |-> k]
               /\ regs[k].sig = s
        BY <1>2, <3>2 DEF Whole
      <4>2. k \in 1 .. Len(regs') /\ regs'[k] = regs[k]
        BY <1>1, <1>3
      <4> QED
        BY <1>1, <4>1, <4>2 DEF Whole
    <3> QED
      BY <3>1, <3>2
  <2> QED
    BY <2>1 DEF TableWhole
<1>7. StoredSoFar'
  <2>1. \A field \in {"evbase", "cb", "ctxt"} : ToStore(t, field)'
    <3>1. /\ 1 \in DOMAIN call'[t].todo /\ call'[t].todo[1] = "cb"
          /\ 2 \in DOMAIN call'[t].todo /\ call'[t].todo[2] = "ctxt"
          /\ 3 \in DOMAIN call'[t].todo /\ call'[t].todo[3] = "evbase"
      BY <1>1
    <3> QED
      BY <3>1 DEF ToStore
  <2>2. /\ call'[t].id \in 1 .. Len(regs')
        /\ regs'[call'[t].id].by = t /\ regs'[call'[t].id].sig = call'[t].sig
    BY <1>1, <1>3
  <2> QED
    BY <1>4, <2>1, <2>2 DEF StoredSoFar
<1> QED
  BY <1>5, <1>6, <1>7 DEF TableInv

LEMMA TableDeregisterEnter ==
  ASSUME TableTypes, TableInv, NEW t \in Threads, DeregisterEnter(t)
  PROVE  TableInv'
<1>1. /\ mtx = NoOne /\ mtx' = t /\ UNCHANGED <<users, regs>>
      /\ call'[t] \in AnyCall /\ call'[t].at = "dereg_store"
      /\ call'[t].todo = <<"evbase", "cb", "ctxt">>
      /\ Others(t)
  BY DeregisterEnterStep
<1>2. /\ \A s \in Sigs : Whole(s)
      /\ \A u \in Threads : ~Storing(u)
  BY <1>1, WholeWhenFree
<1>3. \A u \in Threads : Storing(u)' <=> u = t
  BY <1>1, <1>2 DEF Storing, Others, AnyCall, NoCall
<1>4. Excluded'
  BY <1>1, <1>3, ThreadFacts DEF Excluded
<1>5. TableWhole'
  BY <1>1, <1>2 DEF TableWhole, Whole
<1>6. StoredSoFar'
  <2>1. \A field \in {"evbase", "cb", "ctxt"} : ToStore(t, field)'
    <3>1. /\ 1 \in DOMAIN call'[t].todo /\ call'[t].todo[1] = "evbase"
          /\ 2 \in DOMAIN call'[t].todo /\ call'[t].todo[2] = "cb"
          /\ 3 \in DOMAIN call'[t].todo /\ call'[t].todo[3] = "ctxt"
      BY <1>1
    <3> QED
      BY <3>1 DEF ToStore
  <2> QED
    BY <1>1, <1>3, <2>1 DEF StoredSoFar
<1> QED
  BY <1>4, <1>5, <1>6 DEF TableInv

\* The call that stores is alone, so it is in its entry that a store lands.
LEMMA TableStore ==
  ASSUME TableTypes, TableInv, NEW t \in Threads, Store(t)
  PROVE  TableInv'
<1> DEFINE s == call[t].sig
<1> DEFINE head == Head(call[t].todo)
<1>1. /\ call[t] \in AnyCall /\ call[t].at \in {"reg_store", "dereg_store"}
      /\ UNCHANGED <<mtx, regs>> /\ call[t].todo # <<>>
      /\ StoreField(t, head) \/ (head = "install" /\ users' = users)
      /\ call'[t] \in AnyCall /\ call'[t].at = call[t].at /\ call'[t].id = call[t].id
      /\ call'[t].todo = Tail(call[t].todo) /\ call'[t].sig = s /\ Others(t)
  BY StoreStep
<1>2. /\ Storing(t) /\ Storing(t)' /\ mtx = t
      /\ \A u \in Threads : u # t => ~Storing(u) /\ ~Storing(u)'
  BY <1>1 DEF Storing, AnyCall, NoCall, Others, TableInv, Excluded
<1>3. Excluded'
  BY <1>1, <1>2 DEF Excluded
<1>4. \A r \in Sigs : r # s => users'[r] = users[r]
  BY <1>1, StoreFieldFacts
<1>5. TableWhole'
  <2>1. ASSUME NEW r \in Sigs, r # s PROVE Whole(r)'
    <3>1. Whole(r)
      BY <1>2, <2>1 DEF TableInv, TableWhole
    <3> QED
      BY <1>1, <1>4, <2>1, <3>1 DEF Whole
  <2> QED
    BY <1>1, <1>2, <2>1 DEF TableWhole
<1>6. Entry(t)' = Entry(t)
  BY <1>1 DEF Entry
<1>7. ASSUME NEW f \in {"evbase", "cb", "ctxt"}
      PROVE  ToStore(t, f)' \/ users'[s][f] = Entry(t)'[f]
  <2>1. call[t].todo \in Seq({"cb", "ctxt", "evbase", "install"})
    BY <1>1 DEF AnyCall
  <2>2. CASE f = head
    BY <1>1, <1>6, <2>2, StoreFieldFacts
  <2>3. CASE f # head
    <3>1. CASE ToStore(t, f)
      <4>1. PICK i \in DOMAIN call[t].todo : call[t].todo[i] = f
        BY <3>1 DEF ToStore
      <4>2. i # 1
        BY <1>1, <2>1, <2>3, <4>1, TailFacts
      <4>3. i - 1 \in DOMAIN Tail(call[t].todo) /\ Tail(call[t].todo)[i - 1] = f
        <5> DEFINE q == call[t].todo
        <5>1. q # <<>> /\ q \in Seq({"cb", "ctxt", "evbase", "install"})
          BY <1>1, <2>1
        <5> HIDE DEF q
        <5>2. \A j \in DOMAIN q : j # 1 => j - 1 \in DOMAIN Tail(q) /\ Tail(q)[j - 1] = q[j]
          BY <5>1, TailFacts
        <5> QED
          BY <4>1, <4>2, <5>2 DEF q
      <4> QED
        BY <1>1, <4>3 DEF ToStore
    <3>2. CASE users[s][f] = Entry(t)[f]
      BY <1>1, <1>6, <2>3, <3>2, StoreFieldFacts
    <3> QED
      BY <1>2, <3>1, <3>2 DEF TableInv, StoredSoFar
  <2> QED
    BY <2>2, <2>3
<1>8. StoredSoFar'
  BY <1>1, <1>2, <1>7 DEF StoredSoFar, TableInv
<1> QED
  BY <1>3, <1>5, <1>8 DEF TableInv

\* A call that leaves has stored the whole entry.
LEMMA TableLeave ==
  ASSUME TableTypes, TableInv, NEW t \in Threads, Leave(t)
  PROVE  TableInv'
<1> DEFINE s == call[t].sig
<1>1. /\ call[t] \in AnyCall /\ call[t].at \in {"reg_store", "dereg_store"}
      /\ call[t].todo = <<>> /\ UNCHANGED <<users, regs>> /\ mtx' = NoOne
      /\ call'[t] = NoCall \/ (call'[t] \in AnyCall /\ call'[t].at = "reg_enter")
      /\ Others(t)
  BY LeaveStep
<1>2. /\ Storing(t) /\ mtx = t
      /\ \A u \in Threads : u # t => ~Storing(u)
  BY <1>1 DEF Storing, AnyCall, NoCall, TableInv, Excluded
<1>3. \A u \in Threads : ~Storing(u)'
  BY <1>1, <1>2 DEF Storing, Others, AnyCall
<1>4. \A f \in {"evbase", "cb", "ctxt"} : users[s][f] = Entry(t)[f]
  BY <1>1, <1>2 DEF TableInv, StoredSoFar, ToStore
<1>5. s \in Sigs /\ users[s] \in AnyUser /\ Entry(t) \in AnyUser
  BY <1>1, EntryType DEF TableTypes, AnyCall
<1>6. users[s] = Entry(t)
  BY <1>4, <1>5 DEF AnyUser
<1>7. Whole(s)
  <2>1. CASE call[t].at = "dereg_store"
    BY <1>6, <2>1 DEF Entry, Whole
  <2>2. CASE call[t].at = "reg_store"
    <3>1. /\ call[t].id \in 1 .. Len(regs)
          /\ regs[call[t].id].by = t /\ regs[call[t].id].sig = s
      BY <1>2, <2>2 DEF TableInv, StoredSoFar
    <3>2. users[s] = [evbase |-> Base(t), cb |-> call[t].id, ctxt |-> call[t].id]
      BY <1>6, <2>2 DEF Entry
    <3> QED
      BY <3>1, <3>2 DEF Whole
  <2> QED
    BY <1>1, <2>1, <2>2
<1>8. \A r \in Sigs : Whole(r)
  BY <1>2, <1>7 DEF TableInv, TableWhole
<1>9. TableWhole' /\ Excluded' /\ StoredSoFar'
  BY <1>1, <1>3, <1>8, ThreadFacts DEF TableWhole, Excluded, StoredSoFar, Whole
<1> QED
  BY <1>9 DEF TableInv

LEMMA StepTable ==
  ASSUME Types, TableInv, [Next]_vars
  PROVE  TableInv'
<1> USE DEF Types
<1>1. CASE ApiMove
  <2>1. ASSUME NEW t \in Threads, NEW s \in Sigs,
               CallApi(t, "register", s) \/ CallApi(t, "deregister", s) \/ CallApi(t, "reset", s)
                 \/ (t = Main /\ BootRegister(s))
        PROVE  TableInv'
    <3>1. /\ call[t] = NoCall /\ call'[t].at \in {"reg_enter", "dereg_enter"} /\ Others(t)
          /\ UNCHANGED table
      BY <2>1, CallBegins
    <3>2. UNCHANGED <<users, regs, mtx>>
      BY <3>1 DEF table
    <3>3. \A u \in Threads : call'[u] = call[u] \/ (~Storing(u) /\ ~Storing(u)')
      BY <3>1 DEF Others, Storing
    <3> QED
      BY <3>2, <3>3, TableFrame
  <2>2. ASSUME NEW t \in Threads, RegisterRefused(t) PROVE TableInv'
    <3>1. /\ call[t].at = "reg_enter" /\ mtx = NoOne /\ mtx' = NoOne
          /\ UNCHANGED <<users, regs>> /\ call'[t] = NoCall /\ Others(t)
      BY <2>2, RefusedStep
    <3>2. \A u \in Threads : call'[u] = call[u] \/ (~Storing(u) /\ ~Storing(u)')
      BY <3>1 DEF Others, Storing
    <3> QED
      BY <3>1, <3>2, TableFrame
  <2>3. ASSUME NEW t \in Threads, RegisterEnter(t) PROVE TableInv'
    BY <2>3, TableRegisterEnter
  <2>4. ASSUME NEW t \in Threads, DeregisterEnter(t) PROVE TableInv'
    BY <2>4, TableDeregisterEnter
  <2>5. ASSUME NEW t \in Threads, Store(t) PROVE TableInv'
    BY <2>5, TableStore
  <2>6. ASSUME NEW t \in Threads, Leave(t) PROVE TableInv'
    BY <2>6, TableLeave
  <2> QED
    BY <1>1, <2>1, <2>2, <2>3, <2>4, <2>5, <2>6, ApiCases
<1>2. CASE LoopMove \/ UNCHANGED vars
  BY <1>2, LoopFrame, TableFrame DEF vars, table
<1> QED
  BY <1>1, <1>2, NextMoves

-----------------------------------------------------------------------------
(* The loops: what each step does to them.                                  *)

\* The step moves t and no other loop.
Moves(t, ph) == phase' = [phase EXCEPT ![t] = ph]

Resting == Phases \ {"lookup", "restore", "reraise"}

\* A step that only moves a loop which has nothing to run.
Quiet(t, ph) ==
    /\ phase[t] \in Resting /\ ph \in Resting /\ active[t] = <<>>
    /\ ph \in {"boot", "register"} => t = Main
    /\ Moves(t, ph)
    /\ UNCHANGED <<signals, inhand, timers, active, calls, printed>>

LEMMA QuietStep ==
  ASSUME LoopInv, BootPipe \/ BootDone
                    \/ \E t \in Loops : EnterLoop(t) \/ Sleep(t) \/ LoopEnds(t) \/ EndIteration(t)
  PROVE  \E t \in Loops, ph \in Resting : Quiet(t, ph)
<1> USE DEF Resting, Phases, Quiet, Moves, Phase, InLoop
<1>1. ASSUME BootPipe PROVE \E ph \in Resting : Quiet(Main, ph)
  <2>1. active[Main] = <<>> /\ phase[Main] = "boot"
    BY <1>1, ThreadFacts DEF BootPipe, LoopInv
  <2>2. CASE Phase(Main, "register")
    <3>1. Quiet(Main, "register")
      BY <1>1, <2>1, <2>2 DEF BootPipe
    <3> QED
      BY <3>1
  <2>3. CASE Phase(Main, "start")
    <3>1. Quiet(Main, "start")
      BY <1>1, <2>1, <2>3 DEF BootPipe
    <3> QED
      BY <3>1
  <2> QED
    BY <1>1, <2>2, <2>3 DEF BootPipe
<1>2. ASSUME BootDone PROVE Quiet(Main, "start")
  BY <1>2, ThreadFacts DEF BootDone, LoopInv
<1>3. ASSUME NEW t \in Loops, EnterLoop(t) PROVE Quiet(t, "poll")
  BY <1>3 DEF EnterLoop, LoopInv
<1>4. ASSUME NEW t \in Loops, Sleep(t) PROVE Quiet(t, "wait")
  BY <1>4 DEF Sleep, LoopInv
<1>5. ASSUME NEW t \in Loops, LoopEnds(t) PROVE Quiet(t, "gone")
  BY <1>5 DEF LoopEnds, LoopInv
<1>6. ASSUME NEW t \in Loops, EndIteration(t) PROVE Quiet(t, "poll")
  BY <1>6 DEF EndIteration
<1>7. "start" \in Resting /\ "poll" \in Resting /\ "wait" \in Resting /\ "gone" \in Resting
  OBVIOUS
<1> QED
  BY <1>1, <1>2, <1>3, <1>4, <1>5, <1>6, <1>7, ThreadFacts

\* What the handler, or the system, does with a signal.
LEMMA ArriveStep ==
  ASSUME SignalTypes, NEW s \in Sigs, Arrive(s)
  PROVE  /\ caught' \in Seq(Sigs) /\ pipe' \in Seq(Nat) /\ Len(pipe') <= PipeCap
         /\ lost' \subseteq Nat
         /\ \/ /\ UNCHANGED signals /\ disp[s] = "default" /\ proc' = "killed" /\ killer' = s
            \/ /\ caught' = Append(caught, s) /\ UNCHANGED <<proc, killer>>
               /\ \/ pipe' = Append(pipe, Len(caught) + 1) /\ lost' = lost
                  \/ lost' = lost \cup {Len(caught) + 1} /\ pipe' = pipe
<1>1. CASE disp[s] = "default" /\ proc' = "killed" /\ killer' = s /\ UNCHANGED signals
  BY <1>1 DEF signals, SignalTypes
<1>2. CASE /\ caught' = Append(caught, s)
           /\ IF selfpipe # "closed" /\ Len(pipe) < PipeCap
              THEN pipe' = Append(pipe, Len(caught) + 1) /\ UNCHANGED lost
              ELSE lost' = lost \cup {Len(caught) + 1} /\ UNCHANGED pipe
           /\ UNCHANGED <<proc, killer>>
  <2>1. caught' \in Seq(Sigs) /\ Len(caught) + 1 \in Nat
    BY <1>2, AppendFacts DEF SignalTypes
  <2>2. CASE Len(pipe) < PipeCap /\ pipe' = Append(pipe, Len(caught) + 1) /\ UNCHANGED lost
    <3>1. pipe' \in Seq(Nat) /\ Len(pipe') = Len(pipe) + 1 /\ Len(pipe) \in Nat
      BY <2>1, <2>2, AppendFacts DEF SignalTypes
    <3>2. Len(pipe') <= PipeCap
      BY <2>2, <3>1, ZSignalAssumption
    <3> QED
      BY <1>2, <2>1, <2>2, <3>1, <3>2 DEF SignalTypes
  <2>3. CASE lost' = lost \cup {Len(caught) + 1} /\ UNCHANGED pipe
    BY <1>2, <2>1, <2>3 DEF SignalTypes
  <2> QED
    BY <1>2, <2>2, <2>3
<1> QED
  BY <1>1, <1>2 DEF Arrive

\* The numbers and the signals of those caught so far stay.
CaughtKept == /\ Numbers \subseteq Numbers' /\ \A n \in Numbers : caught'[n] = caught[n]
              /\ Numbers = 1 .. Len(caught) /\ Len(caught) \in Nat

LEMMA CaughtSame ==
  ASSUME caught \in Seq(Sigs), UNCHANGED caught
  PROVE  CaughtKept
<1>1. Len(caught) \in Nat
  BY LenProperties
<1> QED
  BY <1>1 DEF Numbers, CaughtKept

LEMMA CaughtGrows ==
  ASSUME caught \in Seq(Sigs), NEW s \in Sigs, caught' = Append(caught, s)
  PROVE  CaughtKept /\ Len(caught) + 1 \in Numbers' /\ caught'[Len(caught) + 1] = s
<1>1. Len(caught) \in Nat
  BY LenProperties
<1>2. Len(caught') = Len(caught) + 1 /\ caught'[Len(caught) + 1] = s
  BY AppendFacts
<1>3. \A n \in 1 .. Len(caught) : caught'[n] = caught[n]
  BY AppendFacts
<1> QED
  BY <1>1, <1>2, <1>3 DEF Numbers, CaughtKept

SelfPipeType == SelfPipe \in AnyEvent

LEMMA SelfPipeIsEvent == SelfPipeType
BY DEF SelfPipeType, SelfPipe, AnyEvent, Null

\* A loop that wakes takes its timers in some order, after the self-pipe.
LEMMA WakeStep ==
  ASSUME LoopTypes, NEW t \in Loops, Wake(t), \A e \in timers[t] : e # SelfPipe
  PROVE  /\ Moves(t, "dispatch") /\ timers' = [timers EXCEPT ![t] = {}]
         /\ active' \in [Loops -> Seq(AnyEvent)]
         /\ armed' \in [Loops -> BOOLEAN]
         /\ \A u \in Loops : u # t => active'[u] = active[u]
         /\ \A i \in DOMAIN active'[t] :
                \/ active'[t][i] = SelfPipe /\ i = 1 /\ t = Main /\ pipe # <<>>
                \/ active'[t][i] \in timers[t]
         /\ \A i, j \in DOMAIN active'[t] : active'[t][i] = active'[t][j] => i = j
         /\ UNCHANGED <<signals, inhand, calls, printed, proc, killer, disp, selfpipe, boot>>
<1> DEFINE card == Cardinality(timers[t])
<1> DEFINE pre == IF t = Main /\ PipeReadable THEN <<SelfPipe>> ELSE <<>>
<1>1. PICK due \in SetToSeqs(timers[t]) : active' = [active EXCEPT ![t] = pre \o due]
  BY DEF Wake
<1>2. card \in Nat
  BY FS_CardinalityType DEF LoopTypes
<1>3. /\ due \in [1 .. card -> timers[t]]
      /\ \A i, j \in 1 .. card : due[i] = due[j] => i = j
  BY DEF SetToSeqs
<1>4. timers[t] \subseteq AnyEvent
  BY DEF LoopTypes
<1> HIDE DEF card
<1>5. due \in Seq(AnyEvent) /\ Len(due) = card /\ DOMAIN due = 1 .. card
  <2>1. due \in [1 .. card -> AnyEvent]
    BY <1>3, <1>4
  <2>2. due \in Seq(AnyEvent)
    BY <1>2, <2>1
  <2>3. DOMAIN due = 1 .. card /\ DOMAIN due = 1 .. Len(due) /\ Len(due) \in Nat
    BY <1>3, <2>2, LenProperties
  <2> QED
    BY <1>2, <2>2, <2>3
<1>6. /\ active'[t] = pre \o due /\ \A u \in Loops : u # t => active'[u] = active[u]
      /\ DOMAIN active' = Loops /\ active' = [u \in Loops |-> active'[u]]
  BY <1>1 DEF LoopTypes
<1>7. /\ active'[t] \in Seq(AnyEvent)
      /\ \A i \in DOMAIN active'[t] :
             \/ active'[t][i] = SelfPipe /\ i = 1 /\ t = Main /\ pipe # <<>>
             \/ active'[t][i] \in timers[t]
      /\ \A i, j \in DOMAIN active'[t] : active'[t][i] = active'[t][j] => i = j
  <2>1. CASE ~(t = Main /\ PipeReadable)
    <3>1. active'[t] = due
      BY <1>5, <1>6, <2>1, ConcatEmptySeq
    <3> QED
      BY <1>3, <1>5, <3>1
  <2>2. CASE t = Main /\ PipeReadable
    <3>1. <<SelfPipe>> \in Seq(AnyEvent) /\ Len(<<SelfPipe>>) = 1 /\ <<SelfPipe>>[1] = SelfPipe
      BY SelfPipeIsEvent DEF SelfPipeType
    <3>2. active'[t] = <<SelfPipe>> \o due
      BY <1>6, <2>2
    <3>3. /\ active'[t] \in Seq(AnyEvent) /\ Len(active'[t]) = 1 + card
          /\ \A i \in 1 .. 1 + card : active'[t][i] = IF i <= 1 THEN <<SelfPipe>>[i] ELSE due[i - 1]
      BY <1>5, <3>1, <3>2, ConcatProperties
    <3>4. DOMAIN active'[t] = 1 .. 1 + card
      BY <3>3, LenProperties
    <3>5. active'[t][1] = SelfPipe
      BY <1>2, <3>1, <3>3
    <3>6. \A i \in 1 .. 1 + card : i # 1 => active'[t][i] = due[i - 1] /\ i - 1 \in 1 .. card
      BY <1>2, <3>3
    <3>7. \A i \in 1 .. 1 + card : i # 1 => active'[t][i] \in timers[t]
      BY <1>3, <3>6
    <3>8. ASSUME NEW i \in 1 .. 1 + card, NEW j \in 1 .. 1 + card, active'[t][i] = active'[t][j]
          PROVE  i = j
      <4>1. CASE i = 1 \/ j = 1
        BY <3>5, <3>7, <3>8, <4>1
      <4>2. CASE i # 1 /\ j # 1
        <5>1. i - 1 = j - 1
          BY <1>3, <3>6, <3>8, <4>2
        <5> QED
          BY <1>2, <5>1
      <4> QED
        BY <4>1, <4>2
    <3> QED
      BY <2>2, <3>3, <3>4, <3>5, <3>7, <3>8 DEF PipeReadable
  <2> QED
    BY <2>1, <2>2
<1>8. active' \in [Loops -> Seq(AnyEvent)]
  BY <1>6, <1>7 DEF LoopTypes
<1>9. armed' \in [Loops -> BOOLEAN]
  BY DEF Wake, LoopTypes
<1> QED
  BY <1>6, <1>7, <1>8, <1>9 DEF Wake, Moves, Phase

\* A loop that is done with the head of what it has to run.
Drops(t) == active' = [active EXCEPT ![t] = Tail(@)]

LEMMA DropStep ==
  ASSUME LoopTypes, NEW t \in Loops, active[t] # <<>>, Drops(t)
  PROVE  /\ active' \in [Loops -> Seq(AnyEvent)]
         /\ \A u \in Loops : u # t => active'[u] = active[u]
         /\ active'[t] = Tail(active[t]) /\ Head(active[t]) = active[t][1]
         /\ 1 \in DOMAIN active[t] /\ active[t][1] \in AnyEvent
         /\ \A i \in DOMAIN active'[t] : /\ i + 1 \in DOMAIN active[t] /\ i + 1 # 1 /\ i \in Nat
                                         /\ active'[t][i] = active[t][i + 1]
<1> DEFINE q == active[t]
<1>1. q \in Seq(AnyEvent) /\ q # <<>>
  BY DEF LoopTypes
<1>2. /\ active'[t] = Tail(q) /\ \A u \in Loops : u # t => active'[u] = active[u]
      /\ active' = [active EXCEPT ![t] = Tail(q)]
  BY DEF Drops, LoopTypes
<1> HIDE DEF q
<1>3. /\ Tail(q) \in Seq(AnyEvent) /\ Head(q) = q[1] /\ 1 \in DOMAIN q /\ q[1] \in AnyEvent
      /\ \A i \in DOMAIN Tail(q) : i + 1 \in DOMAIN q /\ i + 1 # 1 /\ Tail(q)[i] = q[i + 1]
      /\ DOMAIN Tail(q) \subseteq Nat
  BY <1>1, TailFacts
<1>4. active' \in [Loops -> Seq(AnyEvent)]
  BY <1>2, <1>3 DEF LoopTypes
<1> QED
  BY <1>2, <1>3, <1>4 DEF q

LEMMA ReadStep ==
  ASSUME SignalTypes, LoopTypes, LoopInv, SelfPipeRead
  PROVE  /\ phase[Main] = "dispatch" /\ active[Main] # <<>> /\ active[Main][1] = SelfPipe
         /\ pipe # <<>> /\ inhand = 0 /\ inhand' = pipe[1] /\ pipe' = Tail(pipe)
         /\ Moves(Main, "lookup")
         /\ UNCHANGED <<caught, lost, armed, timers, active, calls, printed, proc, killer,
                        disp, selfpipe, boot>>
<1>1. active[Main] # <<>> /\ active[Main] \in Seq(AnyEvent)
  BY ThreadFacts DEF SelfPipeRead, Runs, LoopTypes
<1>2. Head(active[Main]) = active[Main][1]
  BY <1>1
<1>3. phase[Main] = "dispatch" /\ active[Main][1] = SelfPipe /\ pipe # <<>>
  BY <1>1, <1>2 DEF SelfPipeRead, Runs, InLoop, LoopInv
<1>4. inhand = 0
  BY <1>3 DEF LoopInv
<1>5. Head(pipe) = pipe[1]
  BY <1>3 DEF SignalTypes
<1> QED
  BY <1>1, <1>3, <1>4, <1>5 DEF SelfPipeRead, Moves, Phase

LEMMA LookupStep ==
  ASSUME LoopInv, SelfPipeLookup
  PROVE  /\ phase[Main] = "lookup" /\ active[Main] # <<>> /\ active[Main][1] = SelfPipe
         /\ mtx = NoOne /\ inhand # 0 /\ inhand' = 0
         /\ Moves(Main, "dispatch") /\ Drops(Main)
         /\ UNCHANGED <<pipe, caught, armed, calls, printed, proc, killer, disp, selfpipe, boot>>
<1>1. phase[Main] = "lookup"
  BY DEF SelfPipeLookup, InLoop
<1>2. active[Main] # <<>> /\ active[Main][1] = SelfPipe /\ inhand # 0
  BY <1>1 DEF LoopInv
<1> QED
  BY <1>1, <1>2 DEF SelfPipeLookup, MutexFree, Moves, Phase, Drops, ReadsOn

\* The callback of e was run in t.
Ran(e, t) == calls' = Append(calls, [n |-> e.n, cb |-> e.cb, ctxt |-> e.ctxt, on |-> t])

LEMMA RunStep ==
  ASSUME LoopTypes, NEW t \in Loops, RunCallback(t) \/ DefaultPrint(t)
  PROVE  /\ phase[t] = "dispatch" /\ active[t] # <<>> /\ active[t][1] # SelfPipe
         /\ 1 \in DOMAIN active[t] /\ active[t][1] \in AnyEvent
         /\ Ran(active[t][1], t)
         /\ UNCHANGED <<signals, inhand, timers, armed, proc, killer, disp, selfpipe, boot>>
         /\ \/ Drops(t) /\ UNCHANGED <<phase, printed>>
            \/ Moves(t, "restore") /\ active' = active
               /\ printed' = printed \cup {active[t][1].sig}
<1>1. active[t] # <<>> /\ active[t] \in Seq(AnyEvent) /\ phase[t] = "dispatch"
  BY DEF RunCallback, DefaultPrint, Runs, InLoop, LoopTypes
<1>2. Head(active[t]) = active[t][1] /\ 1 \in DOMAIN active[t] /\ active[t][1] \in AnyEvent
  BY <1>1, TailFacts
<1>3. CASE RunCallback(t)
  BY <1>1, <1>2, <1>3 DEF RunCallback, Ran, Drops
<1>4. CASE DefaultPrint(t)
  BY <1>1, <1>2, <1>4 DEF DefaultPrint, Ran, Moves, Phase, Recorded
<1> QED
  BY <1>3, <1>4

LEMMA RestoreStep ==
  ASSUME LoopTypes, NEW t \in Loops, DefaultRestore(t)
  PROVE  /\ phase[t] = "restore" /\ Moves(t, "reraise")
         /\ disp' = [disp EXCEPT ![active[t][1].sig] = "default"]
         /\ UNCHANGED <<signals, inhand, timers, armed, active, calls, printed, proc, killer,
                        selfpipe, boot>>
<1>1. active[t] # <<>> /\ active[t] \in Seq(AnyEvent)
  BY DEF DefaultRestore, Runs, LoopTypes
<1>2. Head(active[t]) = active[t][1]
  BY <1>1
<1> QED
  BY <1>2 DEF DefaultRestore, Runs, InLoop, Moves, Phase

LEMMA RaiseAgainStep ==
  ASSUME LoopTypes, NEW t \in Loops, DefaultRaise(t)
  PROVE  /\ phase[t] = "reraise" /\ active[t] # <<>>
         /\ Moves(t, "dispatch") /\ Drops(t)
         /\ Arrive(active[t][1].sig)
         /\ UNCHANGED <<inhand, timers, armed, calls, printed, disp, selfpipe, boot>>
<1>1. active[t] # <<>> /\ active[t] \in Seq(AnyEvent)
  BY DEF DefaultRaise, Runs, LoopTypes
<1>2. Head(active[t]) = active[t][1]
  BY <1>1
<1> QED
  BY <1>1, <1>2 DEF DefaultRaise, Runs, InLoop, Moves, Phase, Drops

\* Nothing that concerns signals and loops.
Still == UNCHANGED <<signals, inhand, phase, timers, active, calls, printed>>

\* The other steps, one by one.
LEMMA LoopCases ==
  ASSUME LoopInv, LoopMove, NEW ACTION P,
         AppInitFails => P,
         ASSUME NEW s \in Sigs, Raise(s) PROVE P,
         ASSUME NEW t \in Loops, NEW ph \in Resting, Quiet(t, ph) PROVE P,
         ASSUME NEW t \in Loops, phase[t] = "wait", Wake(t) PROVE P,
         SelfPipeRead => P,
         SendNothing => P,
         SendEvent => P,
         ASSUME NEW t \in Loops, RunCallback(t) \/ DefaultPrint(t) PROVE P,
         ASSUME NEW t \in Loops, DefaultRestore(t) PROVE P,
         ASSUME NEW t \in Loops, DefaultRaise(t) PROVE P
  PROVE  P
<1>1. CASE BootPipe \/ BootDone
              \/ \E t \in Loops : EnterLoop(t) \/ Sleep(t) \/ LoopEnds(t) \/ EndIteration(t)
  BY <1>1, QuietStep
<1>2. ASSUME NEW t \in Loops, WakeDue(t) \/ WakeOther(t) PROVE P
  BY <1>2 DEF WakeDue, WakeOther, InLoop
<1> QED
  BY <1>1, <1>2 DEF LoopMove

\* An event is no self-pipe, and a number that was given out is not 0.
LEMMA EventFacts ==
  ASSUME SignalTypes, EventsInv
  PROVE  /\ Numbers \subseteq Nat \ {0}
         /\ \A e, t : EventOf(e, t) => e # SelfPipe /\ e.sig \in Sigs
         /\ \A t \in Loops : \A e \in timers[t] : e # SelfPipe
<1>1. Numbers \subseteq Nat \ {0} /\ Len(caught) \in Nat
  BY LenProperties DEF SignalTypes, Numbers
<1>2. \A n \in Numbers : caught[n] \in Sigs
  BY <1>1, ElementOfSeq DEF SignalTypes, Numbers
<1>3. ASSUME NEW e, NEW t, EventOf(e, t) PROVE e # SelfPipe /\ e.sig \in Sigs
  <2>1. e.n \in Numbers /\ e.sig = caught[e.n]
    BY <1>3 DEF EventOf
  <2>2. e.n # 0
    BY <1>1, <2>1
  <2>3. SelfPipe.n = 0
    BY DEF SelfPipe
  <2> QED
    BY <1>2, <2>1, <2>2, <2>3
<1> QED
  BY <1>1, <1>3 DEF EventsInv

\* What a loop is busy with is an event.
LEMMA BusyFacts ==
  ASSUME Types, LoopInv, EventsInv, NEW t \in Loops, Busy(t)
  PROVE  /\ 1 \in DOMAIN active[t] /\ active[t] # <<>> /\ active[t][1] # SelfPipe
         /\ EventOf(active[t][1], t) /\ active[t][1].sig \in Sigs /\ active[t][1] \in AnyEvent
<1>1. active[t] # <<>> /\ active[t][1] # SelfPipe /\ active[t] \in Seq(AnyEvent)
  BY DEF LoopInv, Types, LoopTypes
<1>2. 1 \in DOMAIN active[t] /\ active[t][1] \in AnyEvent
  BY <1>1, TailFacts
<1>3. EventOf(active[t][1], t)
  BY <1>1, <1>2 DEF EventsInv
<1> QED
  BY <1>1, <1>2, <1>3, EventFacts DEF Types

\* The main loop looks the user up while nobody stores, so what it sends is an
\* event of one registration, for the loop of the thread that registered.
LEMMA SendEventStep ==
  ASSUME Types, TableInv, LoopInv, PipeInv, SendEvent
  PROVE  \E b \in Loops, e \in AnyEvent :
             /\ timers' = [timers EXCEPT ![b] = timers[b] \cup {e}]
             /\ e.n = inhand /\ EventOf(e, b) /\ lost' = lost
<1> DEFINE s == caught[inhand]
<1>1. inhand # 0 /\ mtx = NoOne
  BY LookupStep DEF SendEvent, TimersAfter
<1>2. inhand \in Numbers
  BY <1>1 DEF PipeInv
<1>3. s \in Sigs
  BY <1>2, ElementOfSeq DEF Types, SignalTypes, Numbers
<1>4. Whole(s)
  BY <1>1, <1>3, WholeWhenFree
<1>5. User = users[s] /\ User.cb # Null /\ User.evbase # NoOne
  BY DEF User, SendEvent
<1> HIDE DEF s
<1>6. users[s] # NoUser
  BY <1>5 DEF NoUser
<1>7. PICK k \in 1 .. Len(regs) :
         /\ users[s] = [evbase |-> Base(regs[k].by), cb |-> k, ctxt |-> k]
         /\ regs[k].sig = s
  BY <1>4, <1>6 DEF Whole
<1> DEFINE b == regs[k].by
<1> DEFINE e == [n |-> inhand, sig |-> s, cb |-> k, ctxt |-> k]
<1>8. User.evbase = Base(b) /\ User.cb = k /\ User.ctxt = k
  BY <1>5, <1>7
<1>9. b \in Loops /\ User.evbase = b
  BY <1>5, <1>8 DEF Base
<1>10. k \in Nat /\ inhand \in Nat
  <2>1. Len(regs) \in Nat
    BY LenProperties DEF Types, TableTypes
  <2> QED
    BY <2>1 DEF Types, SignalTypes
<1>11. e \in AnyEvent
  BY <1>3, <1>10 DEF AnyEvent
<1>12. EventOf(e, b)
  BY <1>2, <1>7 DEF EventOf, s
<1>13. timers' = [timers EXCEPT ![b] = timers[b] \cup {e}]
  BY <1>8, <1>9 DEF SendEvent, TimersAfter, s
<1> QED
  BY <1>9, <1>11, <1>12, <1>13 DEF SendEvent, TimersAfter

-----------------------------------------------------------------------------
(* Types.                                                                   *)

LEMMA StepSignalTypes ==
  ASSUME Types, LoopInv, EventsInv, [Next]_vars
  PROVE  SignalTypes'
<1> USE DEF Types
<1>1. ASSUME UNCHANGED <<signals, inhand>> PROVE SignalTypes'
  BY <1>1 DEF SignalTypes, signals
<1>2. CASE ApiMove \/ UNCHANGED vars
  BY <1>1, <1>2, ApiFrame DEF vars
<1>3. CASE LoopMove
  <2>1. AppInitFails => SignalTypes'
    BY <1>1 DEF AppInitFails
  <2>2. ASSUME NEW s \in Sigs, Raise(s) PROVE SignalTypes'
    BY <2>2, ArriveStep DEF Raise, SignalTypes
  <2>3. ASSUME NEW t \in Loops, NEW ph \in Resting, Quiet(t, ph) PROVE SignalTypes'
    BY <1>1, <2>3 DEF Quiet
  <2>4. ASSUME NEW t \in Loops, phase[t] = "wait", Wake(t) PROVE SignalTypes'
    BY <1>1, <2>4 DEF Wake
  <2>5. ASSUME SelfPipeRead PROVE SignalTypes'
    <3>1. /\ pipe # <<>> /\ inhand' = pipe[1] /\ pipe' = Tail(pipe)
          /\ UNCHANGED <<caught, lost>>
      BY <2>5, ReadStep
    <3>2. /\ pipe[1] \in Nat /\ Tail(pipe) \in Seq(Nat) /\ Len(Tail(pipe)) = Len(pipe) - 1
          /\ Len(pipe) \in Nat
      BY <3>1, TailFacts DEF SignalTypes
    <3>3. Len(pipe') <= PipeCap
      BY <3>1, <3>2, ZSignalAssumption DEF SignalTypes
    <3> QED
      BY <3>1, <3>2, <3>3 DEF SignalTypes
  <2>6. ASSUME SendNothing PROVE SignalTypes'
    BY <2>6, LookupStep DEF SendNothing, SignalTypes
  <2>7. ASSUME SendEvent PROVE SignalTypes'
    BY <2>7, LookupStep DEF SendEvent, TimersAfter, SignalTypes
  <2>8. ASSUME NEW t \in Loops, RunCallback(t) \/ DefaultPrint(t) PROVE SignalTypes'
    BY <1>1, <2>8, RunStep
  <2>9. ASSUME NEW t \in Loops, DefaultRestore(t) PROVE SignalTypes'
    BY <1>1, <2>9, RestoreStep
  <2>10. ASSUME NEW t \in Loops, DefaultRaise(t) PROVE SignalTypes'
    <3>1. Busy(t) /\ Arrive(active[t][1].sig) /\ inhand' = inhand
      BY <2>10, RaiseAgainStep DEF Busy
    <3>2. active[t][1].sig \in Sigs
      BY <3>1, BusyFacts
    <3> QED
      BY <3>1, <3>2, ArriveStep DEF SignalTypes
  <2> QED
    BY <1>3, <2>1, <2>2, <2>3, <2>4, <2>5, <2>6, <2>7, <2>8, <2>9, <2>10, LoopCases
<1> QED
  BY <1>2, <1>3, NextMoves

LEMMA StepLoopTypes ==
  ASSUME Types, TableInv, LoopInv, EventsInv, PipeInv, [Next]_vars
  PROVE  LoopTypes'
<1> USE DEF Types
<1>1. ASSUME UNCHANGED loops, UNCHANGED calls PROVE LoopTypes'
  BY <1>1 DEF LoopTypes, loops
<1>2. CASE ApiMove \/ UNCHANGED vars
  BY <1>1, <1>2, ApiFrame DEF vars
<1>3. CASE LoopMove
  <2>0. armed' \in [Loops -> BOOLEAN]
    <3>1. \A t \in Loops : Wake(t) => armed' \in [Loops -> BOOLEAN]
      BY DEF Wake, LoopTypes
    <3>2. \A t \in Loops : Sleep(t) => armed' \in [Loops -> BOOLEAN]
      BY DEF Sleep, LoopTypes
    <3>3. UNCHANGED armed \/ \E t \in Loops : Sleep(t) \/ Wake(t)
      BY <1>3 DEF LoopMove, Raise, AppInitFails, BootPipe, BootDone, SelfPipeRead, SendNothing,
         SendEvent, SelfPipeLookup, EnterLoop, LoopEnds, WakeDue, WakeOther,
         EndIteration, RunCallback, DefaultPrint, DefaultRestore, DefaultRaise, loops
    <3> QED
      BY <3>1, <3>2, <3>3 DEF LoopTypes
  <2> DEFINE Rest == /\ phase' \in [Threads -> Phases]
                     /\ timers' \in [Loops -> SUBSET AnyEvent]
                     /\ \A u \in Loops : IsFiniteSet(timers'[u])
                     /\ active' \in [Loops -> Seq(AnyEvent)]
                     /\ calls' \in Seq(AnyRun)
  <2>p. ASSUME NEW t \in Loops, NEW ph \in Phases, Moves(t, ph)
        PROVE  phase' \in [Threads -> Phases]
    BY <2>p DEF Moves, LoopTypes
  <2>r. Resting \subseteq Phases /\ "dispatch" \in Phases /\ "lookup" \in Phases
        /\ "restore" \in Phases /\ "reraise" \in Phases
    BY DEF Resting, Phases
  <2>1. AppInitFails => Rest
    BY DEF AppInitFails, loops, LoopTypes
  <2>2. ASSUME NEW s \in Sigs, Raise(s) PROVE Rest
    BY <2>2 DEF Raise, loops, LoopTypes
  <2>3. ASSUME NEW t \in Loops, NEW ph \in Resting, Quiet(t, ph) PROVE Rest
    BY <2>3, <2>p, <2>r DEF Quiet, LoopTypes
  <2>4. ASSUME NEW t \in Loops, phase[t] = "wait", Wake(t) PROVE Rest
    <3>1. /\ Moves(t, "dispatch") /\ timers' = [timers EXCEPT ![t] = {}]
          /\ active' \in [Loops -> Seq(AnyEvent)] /\ calls' = calls
      BY <2>4, WakeStep, EventFacts
    <3>2. \A u \in Loops : timers'[u] = IF u = t THEN {} ELSE timers[u]
      BY <3>1 DEF LoopTypes
    <3>3. timers' \in [Loops -> SUBSET AnyEvent] /\ \A u \in Loops : IsFiniteSet(timers'[u])
      BY <3>1, <3>2, FS_EmptySet DEF LoopTypes
    <3> QED
      BY <3>1, <3>3, <2>p, <2>r DEF LoopTypes
  <2>5. ASSUME SelfPipeRead PROVE Rest
    BY <2>5, ReadStep, <2>p, <2>r, ThreadFacts DEF LoopTypes
  <2>l. ASSUME SelfPipeLookup
        PROVE  /\ phase' \in [Threads -> Phases] /\ active' \in [Loops -> Seq(AnyEvent)]
               /\ calls' \in Seq(AnyRun)
    <3>1. active[Main] # <<>> /\ Moves(Main, "dispatch") /\ Drops(Main) /\ calls' = calls
      BY <2>l, LookupStep
    <3> QED
      BY <3>1, <2>p, <2>r, DropStep, ThreadFacts DEF LoopTypes
  <2>6. ASSUME SendNothing PROVE Rest
    BY <2>6, <2>l DEF SendNothing, LoopTypes
  <2>7. ASSUME SendEvent PROVE Rest
    <3>1. PICK b \in Loops, e \in AnyEvent : timers' = [timers EXCEPT ![b] = timers[b] \cup {e}]
      BY <2>7, SendEventStep
    <3>2. \A u \in Loops : timers'[u] = timers[u] \/ timers'[u] = timers[u] \cup {e}
      BY <3>1 DEF LoopTypes
    <3>3. timers' \in [Loops -> SUBSET AnyEvent] /\ \A u \in Loops : IsFiniteSet(timers'[u])
      BY <3>1, <3>2, FS_AddElement DEF LoopTypes
    <3> QED
      BY <2>7, <2>l, <3>3 DEF SendEvent, TimersAfter
  <2>8. ASSUME NEW t \in Loops, RunCallback(t) \/ DefaultPrint(t) PROVE Rest
    <3> DEFINE e == active[t][1]
    <3> DEFINE run == [n |-> e.n, cb |-> e.cb, ctxt |-> e.ctxt, on |-> t]
    <3>1. /\ e \in AnyEvent /\ active[t] # <<>> /\ calls' = Append(calls, run) /\ timers' = timers
          /\ \/ Drops(t) /\ phase' = phase
             \/ Moves(t, "restore") /\ active' = active
      BY <2>8, RunStep DEF Ran
    <3>2. run \in AnyRun
      BY <3>1 DEF AnyEvent, AnyRun
    <3> HIDE DEF run
    <3>3. calls' \in Seq(AnyRun)
      BY <3>1, <3>2, AppendFacts DEF LoopTypes
    <3>4. phase' \in [Threads -> Phases] /\ active' \in [Loops -> Seq(AnyEvent)]
      BY <3>1, <2>p, <2>r, DropStep DEF LoopTypes
    <3> QED
      BY <3>1, <3>3, <3>4 DEF LoopTypes
  <2>9. ASSUME NEW t \in Loops, DefaultRestore(t) PROVE Rest
    BY <2>9, RestoreStep, <2>p, <2>r DEF LoopTypes
  <2>10. ASSUME NEW t \in Loops, DefaultRaise(t) PROVE Rest
    <3>1. /\ active[t] # <<>> /\ Moves(t, "dispatch") /\ Drops(t)
          /\ UNCHANGED <<timers, calls>>
      BY <2>10, RaiseAgainStep
    <3> QED
      BY <3>1, <2>p, <2>r, DropStep DEF LoopTypes
  <2> HIDE DEF Rest
  <2>11. Rest
    BY <1>3, <2>1, <2>2, <2>3, <2>4, <2>5, <2>6, <2>7, <2>8, <2>9, <2>10, LoopCases
  <2> QED
    BY <2>0, <2>11 DEF LoopTypes, Rest
<1> QED
  BY <1>2, <1>3, NextMoves

LEMMA StepProcTypes ==
  ASSUME Types, LoopInv, EventsInv, [Next]_vars
  PROVE  ProcTypes'
<1> USE DEF Types
<1>0. MaxRaises \in Nat /\ MaxCalls \in Nat
  BY ZSignalAssumption
<1>1. CASE ApiMove
  <2>1. UNCHANGED <<proc, killer, selfpipe, printed, raises>>
    BY <1>1, ApiFrame
  <2>2. ops' = ops \/ (ops < MaxCalls /\ ops' = ops + 1)
    BY <1>1 DEF ApiMove, CallApi, BootRegister, ApiStep, RegisterRefused, RegisterEnter,
       DeregisterEnter, Store, Leave, bounds
  <2>3. boot' \subseteq boot
    BY <1>1 DEF ApiMove, CallApi, BootRegister, ApiStep, RegisterRefused, RegisterEnter,
       DeregisterEnter, Store, Leave
  <2>4. ops' \in 0 .. MaxCalls
    BY <1>0, <2>2 DEF ProcTypes
  <2> QED
    BY <2>1, <2>3, <2>4 DEF ProcTypes
<1>2. CASE LoopMove
  <2>1. ops' = ops
    BY <1>2, LoopFrame
  <2>2. raises' = raises \/ (raises < MaxRaises /\ raises' = raises + 1)
    BY <1>2 DEF LoopMove, Raise, AppInitFails, BootPipe, BootDone, SelfPipeRead, SendNothing,
       SendEvent, SelfPipeLookup, EnterLoop, Sleep, LoopEnds, WakeDue, WakeOther, Wake,
       EndIteration, RunCallback, DefaultPrint, DefaultRestore, DefaultRaise, bounds
  <2>3. raises' \in 0 .. MaxRaises
    BY <1>0, <2>2 DEF ProcTypes
  <2>4. boot' = boot /\ selfpipe' \in {"closed", "unread", "read"}
    BY <1>2 DEF LoopMove, Raise, AppInitFails, BootPipe, BootDone, SelfPipeRead, SendNothing,
       SendEvent, SelfPipeLookup, EnterLoop, Sleep, LoopEnds, WakeDue, WakeOther, Wake,
       EndIteration, RunCallback, DefaultPrint, DefaultRestore, DefaultRaise, ProcTypes
  <2> DEFINE Rest == /\ proc' \in {"running", "killed", "exited"}
                     /\ killer' \in Sigs \cup {NoOne} /\ printed' \subseteq Sigs
  <2>6. ASSUME NEW s \in Sigs, Arrive(s), printed' = printed PROVE Rest
    BY <2>6 DEF Arrive, ProcTypes
  <2>7. ASSUME NEW t \in Loops, DefaultRaise(t) PROVE Rest
    BY <2>6, <2>7, RaiseAgainStep, BusyFacts DEF Busy
  <2>8. ASSUME NEW t \in Loops, DefaultPrint(t) PROVE Rest
    <3>1. active[t][1] # SelfPipe /\ 1 \in DOMAIN active[t]
      BY <2>8, RunStep
    <3>2. active[t][1].sig \in Sigs
      BY <3>1, EventFacts DEF EventsInv
    <3>3. printed' = printed \cup {active[t][1].sig} \/ printed' = printed
      BY <2>8, RunStep
    <3> QED
      BY <2>8, <3>2, <3>3 DEF DefaultPrint, ProcTypes
  <2>9. ASSUME NEW s \in Sigs, Raise(s) PROVE Rest
    BY <2>6, <2>9 DEF Raise
  <2>10. ASSUME \A t \in Loops : ~DefaultRaise(t) /\ ~DefaultPrint(t),
                \A s \in Sigs : ~Raise(s)
         PROVE  Rest
    BY <1>2, <2>10 DEF LoopMove, AppInitFails, BootPipe, BootDone, SelfPipeRead, SendNothing,
       SendEvent, SelfPipeLookup, EnterLoop, Sleep, LoopEnds, WakeDue, WakeOther, Wake,
       EndIteration, RunCallback, DefaultRestore, ProcTypes
  <2> HIDE DEF Rest
  <2>11. Rest
    BY <2>7, <2>8, <2>9, <2>10
  <2> QED
    BY <1>0, <2>1, <2>3, <2>4, <2>11 DEF ProcTypes, Rest
<1>3. CASE UNCHANGED vars
  BY <1>3 DEF vars, bounds, ProcTypes
<1> QED
  BY <1>1, <1>2, <1>3, NextMoves

-----------------------------------------------------------------------------
(* Where the loops are.                                                     *)

LEMMA LoopInvFrame ==
  ASSUME LoopInv, UNCHANGED <<phase, active, inhand>>, printed \subseteq printed',
         pipe # <<>> => pipe' # <<>>
  PROVE  LoopInv'
BY DEF LoopInv, Busy

LEMMA StepLoopInv ==
  ASSUME Types, TableInv, LoopInv, EventsInv, PipeInv, [Next]_vars
  PROVE  LoopInv'
<1> USE DEF Types
<1>1. CASE ApiMove \/ UNCHANGED vars
  BY <1>1, ApiFrame, LoopInvFrame DEF vars, loops, signals
<1>2. CASE LoopMove
  <2>a. ASSUME NEW s \in Sigs, Arrive(s) PROVE pipe # <<>> => pipe' # <<>>
    <3>1. pipe' = pipe \/ pipe' = Append(pipe, Len(caught) + 1)
      BY <2>a, ArriveStep DEF signals
    <3>2. Len(caught) + 1 \in Nat
      BY LenProperties DEF SignalTypes
    <3> QED
      BY <3>1, <3>2, AppendProperties DEF SignalTypes
  <2>1. AppInitFails => LoopInv'
    BY LoopInvFrame DEF AppInitFails, loops, signals
  <2>2. ASSUME NEW s \in Sigs, Raise(s) PROVE LoopInv'
    BY <2>2, <2>a, LoopInvFrame DEF Raise, loops
  <2>3. ASSUME NEW t \in Loops, NEW ph \in Resting, Quiet(t, ph) PROVE LoopInv'
    <3>1. /\ \A u \in Threads : phase'[u] = IF u = t THEN ph ELSE phase[u]
          /\ t \in Threads
      BY <2>3, ThreadFacts DEF Quiet, Moves, LoopTypes
    <3>2. /\ UNCHANGED <<pipe, inhand, active, printed>> /\ active[t] = <<>>
          /\ phase[t] \in Resting /\ ph \in Resting
          /\ (ph \in {"boot", "register"} => t = Main)
      BY <2>3 DEF Quiet, signals
    <3>3. \A u \in Loops : Busy(u)' => u # t /\ Busy(u)
      BY <3>1, ThreadFacts DEF Busy, Resting
    <3>4. /\ ph \notin {"lookup", "restore", "reraise"}
          /\ phase[t] \notin {"lookup", "restore", "reraise"}
      BY <3>2 DEF Resting
    <3>5. phase'[Main] = "lookup" <=> phase[Main] = "lookup"
      BY <3>1, <3>4, ThreadFacts
    <3>6. \A u \in Threads : phase'[u] \in {"boot", "register", "lookup"} => u = Main
      BY <3>1, <3>2, <3>4 DEF LoopInv
    <3>7. \A u \in Loops : active'[u] = active[u]
      BY <3>2
    <3>8. \A u \in Loops : phase'[u] \in {"boot", "register", "start", "poll", "wait", "gone"}
                              => active'[u] = <<>>
      BY <3>1, <3>2, ThreadFacts DEF LoopInv
    <3>9. phase'[Main] = "dispatch" /\ active'[Main] # <<>> /\ active'[Main][1] = SelfPipe
             => pipe' # <<>>
      BY <3>1, <3>2, ThreadFacts DEF LoopInv
    <3> QED
      BY <3>2, <3>3, <3>5, <3>6, <3>7, <3>8, <3>9, ThreadFacts DEF LoopInv
  <2>4. ASSUME NEW t \in Loops, phase[t] = "wait", Wake(t) PROVE LoopInv'
    <3>1. /\ Moves(t, "dispatch") /\ t \in Threads
          /\ \A u \in Loops : u # t => active'[u] = active[u]
          /\ \A i \in DOMAIN active'[t] :
                \/ active'[t][i] = SelfPipe /\ i = 1 /\ t = Main /\ pipe # <<>>
                \/ active'[t][i] \in timers[t]
          /\ UNCHANGED <<pipe, inhand, printed>>
          /\ active' \in [Loops -> Seq(AnyEvent)]
      BY <2>4, WakeStep, EventFacts, ThreadFacts DEF signals
    <3>2. \A u \in Threads : phase'[u] = IF u = t THEN "dispatch" ELSE phase[u]
      BY <3>1 DEF Moves, LoopTypes
    <3>3. \A u \in Loops : Busy(u)' => u # t /\ Busy(u)
      BY <3>2, ThreadFacts DEF Busy
    <3>4. \A e \in timers[t] : e # SelfPipe
      BY EventFacts
    <3>5. active'[t] # <<>> => 1 \in DOMAIN active'[t]
      BY <3>1, TailFacts
    <3>6. phase'[Main] = "dispatch" /\ active'[Main] # <<>> /\ active'[Main][1] = SelfPipe
             => pipe' # <<>>
      BY <3>1, <3>2, <3>4, <3>5, ThreadFacts DEF LoopInv
    <3>7. \A u \in Loops : \A i \in DOMAIN active'[u] :
             active'[u][i] = SelfPipe => u = Main /\ i = 1
      BY <3>1, <3>4 DEF LoopInv
    <3>8. phase'[Main] = "lookup" <=> phase[Main] = "lookup"
      BY <2>4, <3>2, ThreadFacts
    <3> QED
      BY <2>4, <3>1, <3>2, <3>3, <3>6, <3>7, <3>8, ThreadFacts DEF LoopInv
  <2>5. ASSUME SelfPipeRead PROVE LoopInv'
    <3>1. /\ phase[Main] = "dispatch" /\ active[Main] # <<>> /\ active[Main][1] = SelfPipe
          /\ pipe # <<>> /\ inhand' = pipe[1] /\ Moves(Main, "lookup")
          /\ UNCHANGED <<active, printed>>
      BY <2>5, ReadStep
    <3>2. \A u \in Threads : phase'[u] = IF u = Main THEN "lookup" ELSE phase[u]
      BY <3>1 DEF Moves, LoopTypes
    <3>3. inhand' # 0
      <4>1. 1 \in DOMAIN pipe
        BY <3>1, TailFacts DEF SignalTypes
      <4> QED
        BY <3>1, <4>1, EventFacts DEF PipeInv
    <3>4. \A u \in Loops : Busy(u)' => Busy(u)
      BY <3>2, ThreadFacts DEF Busy
    <3> QED
      BY <3>1, <3>2, <3>3, <3>4, ThreadFacts DEF LoopInv
  <2>d. ASSUME NEW t \in Loops, active[t] # <<>>, Drops(t), Moves(t, "dispatch"),
               t = Main => inhand' = 0, t # Main => inhand' = inhand /\ phase[t] # "lookup",
               printed' = printed, pipe # <<>> => pipe' # <<>>
        PROVE  LoopInv'
    <3>1. \A u \in Threads : phase'[u] = IF u = t THEN "dispatch" ELSE phase[u]
      BY <2>d DEF Moves, LoopTypes
    <3>2. /\ \A u \in Loops : u # t => active'[u] = active[u]
          /\ \A i \in DOMAIN active'[t] : /\ i + 1 \in DOMAIN active[t] /\ i + 1 # 1
                                          /\ active'[t][i] = active[t][i + 1]
          /\ active' \in [Loops -> Seq(AnyEvent)]
      BY <2>d, DropStep
    <3>3. \A i \in DOMAIN active'[t] : active'[t][i] # SelfPipe
      BY <3>2 DEF LoopInv
    <3>4. active'[t] # <<>> => 1 \in DOMAIN active'[t]
      BY <3>2, TailFacts
    <3>5. \A u \in Loops : Busy(u)' => u # t /\ Busy(u)
      BY <3>1, ThreadFacts DEF Busy
    <3>6. phase'[Main] = "dispatch" /\ active'[Main] # <<>> /\ active'[Main][1] = SelfPipe
             => pipe' # <<>>
      BY <2>d, <3>1, <3>2, <3>3, <3>4, ThreadFacts DEF LoopInv
    <3>7. phase'[Main] = "lookup" <=> inhand' # 0
      BY <2>d, <3>1, ThreadFacts DEF LoopInv
    <3> QED
      BY <2>d, <3>1, <3>2, <3>3, <3>5, <3>6, <3>7, ThreadFacts DEF LoopInv
  <2>6. ASSUME SendNothing \/ SendEvent PROVE LoopInv'
    <3>1. SelfPipeLookup
      BY <2>6 DEF SendNothing, SendEvent
    <3> QED
      BY <2>d, <3>1, LookupStep, ThreadFacts
  <2>8. ASSUME NEW t \in Loops, RunCallback(t) \/ DefaultPrint(t) PROVE LoopInv'
    <3>1. /\ phase[t] = "dispatch" /\ active[t] # <<>> /\ active[t][1] # SelfPipe
          /\ UNCHANGED <<signals, inhand>>
          /\ \/ Drops(t) /\ UNCHANGED <<phase, printed>>
             \/ Moves(t, "restore") /\ active' = active
                /\ printed' = printed \cup {active[t][1].sig}
      BY <2>8, RunStep
    <3>2. CASE Drops(t) /\ UNCHANGED <<phase, printed>>
      <4>1. Moves(t, "dispatch")
        BY <3>1, <3>2, ThreadFacts DEF Moves, LoopTypes
      <4>2. phase[t] # "lookup" /\ (t = Main => inhand = 0)
        BY <3>1 DEF LoopInv
      <4> QED
        BY <2>d, <3>1, <3>2, <4>1, <4>2 DEF signals
    <3>3. CASE Moves(t, "restore") /\ active' = active
                /\ printed' = printed \cup {active[t][1].sig}
      <4>1. \A u \in Threads : phase'[u] = IF u = t THEN "restore" ELSE phase[u]
        BY <3>3 DEF Moves, LoopTypes
      <4>2. \A u \in Loops : Busy(u)' => Busy(u) \/ u = t
        BY <4>1, ThreadFacts DEF Busy
      <4> QED
        BY <3>1, <3>3, <4>1, <4>2, ThreadFacts DEF LoopInv, signals
    <3> QED
      BY <3>1, <3>2, <3>3
  <2>9. ASSUME NEW t \in Loops, DefaultRestore(t) PROVE LoopInv'
    <3>1. /\ phase[t] = "restore" /\ Moves(t, "reraise")
          /\ UNCHANGED <<pipe, inhand, active, printed>>
      BY <2>9, RestoreStep DEF signals
    <3>2. \A u \in Threads : phase'[u] = IF u = t THEN "reraise" ELSE phase[u]
      BY <3>1 DEF Moves, LoopTypes
    <3>3. \A u \in Loops : Busy(u)' => Busy(u)
      BY <3>1, <3>2, ThreadFacts DEF Busy
    <3> QED
      BY <3>1, <3>2, <3>3, ThreadFacts DEF LoopInv
  <2>10. ASSUME NEW t \in Loops, DefaultRaise(t) PROVE LoopInv'
    <3>1. /\ phase[t] = "reraise" /\ active[t] # <<>> /\ Moves(t, "dispatch") /\ Drops(t)
          /\ Arrive(active[t][1].sig) /\ UNCHANGED <<inhand, printed>>
      BY <2>10, RaiseAgainStep DEF DefaultRaise
    <3>2. active[t][1].sig \in Sigs
      BY <3>1, BusyFacts DEF Busy
    <3>3. t = Main => inhand = 0
      BY <3>1 DEF LoopInv
    <3> QED
      BY <2>a, <2>d, <3>1, <3>2, <3>3
  <2> QED
    BY <1>2, <2>1, <2>2, <2>3, <2>4, <2>5, <2>6, <2>8, <2>9, <2>10, LoopCases
<1> QED
  BY <1>1, <1>2, NextMoves

-----------------------------------------------------------------------------
(* The events on their way.                                                 *)

RegsKept == /\ 1 .. Len(regs) \subseteq 1 .. Len(regs')
            /\ \A k \in 1 .. Len(regs) : regs'[k] = regs[k]

LEMMA HistoryKept ==
  ASSUME Types, LoopInv, EventsInv, [Next]_vars
  PROVE  RegsKept /\ CaughtKept
<1> USE DEF Types
<1>1. ASSUME regs' = regs PROVE RegsKept
  BY <1>1 DEF RegsKept
<1>2. ASSUME NEW t \in Threads, RegisterEnter(t) PROVE RegsKept
  <2> DEFINE new == [by |-> t, sig |-> call[t].sig, kind |-> call[t].kind]
  <2>1. regs' = Append(regs, new) /\ new \in AnyReg /\ Len(regs) \in Nat
    BY <1>2, RegisterEnterStep
  <2> HIDE DEF new
  <2>2. Len(regs') = Len(regs) + 1 /\ \A k \in 1 .. Len(regs) : regs'[k] = regs[k]
    BY <2>1, AppendFacts DEF TableTypes
  <2> QED
    BY <2>1, <2>2 DEF RegsKept
<1>3. CASE ApiMove
  <2>1. regs' = regs \/ \E t \in Threads : RegisterEnter(t)
    BY <1>3 DEF ApiMove, CallApi, BootRegister, ApiStep, RegisterRefused, DeregisterEnter, Store,
       Leave, table
  <2>2. caught' = caught
    BY <1>3, ApiFrame DEF signals
  <2> QED
    BY <1>1, <1>2, <2>1, <2>2, CaughtSame DEF SignalTypes
<1>4. CASE LoopMove \/ UNCHANGED vars
  <2>1. regs' = regs
    BY <1>4, LoopFrame DEF vars, table
  <2>2. ASSUME NEW s \in Sigs, Arrive(s) PROVE CaughtKept
    <3>1. caught' = caught \/ caught' = Append(caught, s)
      BY <2>2, ArriveStep DEF signals
    <3> QED
      BY <3>1, CaughtSame, CaughtGrows DEF SignalTypes
  <2>3. ASSUME NEW t \in Loops, DefaultRaise(t) PROVE CaughtKept
    BY <2>2, <2>3, RaiseAgainStep, BusyFacts DEF Busy
  <2>4. ASSUME NEW s \in Sigs, Raise(s) PROVE CaughtKept
    BY <2>2, <2>4 DEF Raise
  <2>5. \/ caught' = caught
        \/ \E t \in Loops : DefaultRaise(t)
        \/ \E s \in Sigs : Raise(s)
    BY <1>4 DEF LoopMove, AppInitFails, BootPipe, BootDone, SelfPipeRead, SendNothing,
       SendEvent, SelfPipeLookup, EnterLoop, Sleep, LoopEnds, WakeDue, WakeOther, Wake,
       EndIteration, RunCallback, DefaultPrint, DefaultRestore, signals, vars
  <2> QED
    BY <1>1, <2>1, <2>3, <2>4, <2>5, CaughtSame DEF SignalTypes
<1> QED
  BY <1>3, <1>4, NextMoves

LEMMA EventOfKept ==
  ASSUME RegsKept, CaughtKept, NEW e, NEW t, EventOf(e, t)
  PROVE  EventOf(e, t)'
BY DEF RegsKept, CaughtKept, EventOf

\* Every event a loop has was there before, or is e, which is b's.
Carried(e, b) ==
    /\ \A t \in Loops : \A f \in timers'[t] : f \in timers[t] \/ (f = e /\ t = b)
    /\ \A t \in Loops : \A i \in DOMAIN active'[t] :
           \/ active'[t][i] = SelfPipe
           \/ active'[t][i] \in timers[t]
           \/ \E j \in DOMAIN active[t] : active'[t][i] = active[t][j]

LEMMA EventsCarried ==
  ASSUME EventsInv, RegsKept, CaughtKept, NEW e, NEW b, EventOf(e, b) \/ b \notin Loops,
         Carried(e, b),
         \A c \in DOMAIN calls' : /\ calls'[c].n \in Numbers'
                                  /\ calls'[c].cb \in 1 .. Len(regs') /\ calls'[c].ctxt = calls'[c].cb
  PROVE  EventsInv'
<1>1. \A t \in Loops : \A f \in timers'[t] : EventOf(f, t)'
  BY EventOfKept DEF Carried, EventsInv
<1>2. ASSUME NEW t \in Loops, NEW i \in DOMAIN active'[t], active'[t][i] # SelfPipe
      PROVE  EventOf(active[t][i], t)'
  <2>1. EventOf(active'[t][i], t)
    BY <1>2 DEF Carried, EventsInv
  <2> DEFINE f == active'[t][i]
  <2>2. f.n \in Numbers' /\ f.sig = caught'[f.n]
    BY <2>1 DEF EventOf, CaughtKept
  <2>3. /\ f.cb \in 1 .. Len(regs') /\ f.ctxt = f.cb
        /\ regs'[f.cb].by = t /\ regs'[f.cb].sig = f.sig
    BY <2>1 DEF EventOf, RegsKept
  <2> QED
    BY <2>2, <2>3 DEF EventOf
<1> QED
  BY <1>1, <1>2 DEF EventsInv

LEMMA CallsKept ==
  ASSUME EventsInv, RegsKept, CaughtKept, calls' = calls
  PROVE  \A c \in DOMAIN calls' : /\ calls'[c].n \in Numbers'
                                  /\ calls'[c].cb \in 1 .. Len(regs') /\ calls'[c].ctxt = calls'[c].cb
BY DEF EventsInv, RegsKept, CaughtKept

LEMMA StepEvents ==
  ASSUME Types, TableInv, LoopInv, EventsInv, PipeInv, [Next]_vars
  PROVE  EventsInv'
<1> USE DEF Types
<1>0. RegsKept /\ CaughtKept
  BY HistoryKept
<1>1. ASSUME UNCHANGED <<timers, active, calls>> PROVE EventsInv'
  <2>1. Carried(SelfPipe, NoOne)
    BY <1>1 DEF Carried
  <2> QED
    BY <1>0, <1>1, <2>1, CallsKept, EventsCarried, ThreadFacts
<1>2. CASE ApiMove \/ UNCHANGED vars
  BY <1>1, <1>2, ApiFrame DEF vars, loops
<1>3. CASE LoopMove
  <2>d. ASSUME NEW t \in Loops, active[t] # <<>>, Drops(t), NEW e, NEW b,
               \A u \in Loops : \A f \in timers'[u] : f \in timers[u] \/ (f = e /\ u = b)
        PROVE  Carried(e, b)
    <3>1. /\ \A u \in Loops : u # t => active'[u] = active[u]
          /\ \A i \in DOMAIN active'[t] : /\ i + 1 \in DOMAIN active[t]
                                          /\ active'[t][i] = active[t][i + 1]
      BY <2>d, DropStep
    <3> QED
      BY <2>d, <3>1 DEF Carried
  <2>1. AppInitFails => EventsInv'
    BY <1>1 DEF AppInitFails, loops
  <2>2. ASSUME NEW s \in Sigs, Raise(s) PROVE EventsInv'
    BY <1>1, <2>2 DEF Raise, loops
  <2>3. ASSUME NEW t \in Loops, NEW ph \in Resting, Quiet(t, ph) PROVE EventsInv'
    BY <1>1, <2>3 DEF Quiet
  <2>4. ASSUME NEW t \in Loops, phase[t] = "wait", Wake(t) PROVE EventsInv'
    <3>1. /\ timers' = [timers EXCEPT ![t] = {}] /\ calls' = calls
          /\ \A u \in Loops : u # t => active'[u] = active[u]
          /\ \A i \in DOMAIN active'[t] :
                \/ active'[t][i] = SelfPipe
                \/ active'[t][i] \in timers[t]
      BY <2>4, WakeStep, EventFacts
    <3>2. Carried(SelfPipe, NoOne)
      BY <3>1 DEF Carried, LoopTypes
    <3> QED
      BY <1>0, <3>1, <3>2, CallsKept, EventsCarried, ThreadFacts
  <2>5. SelfPipeRead => EventsInv'
    BY <1>1, ReadStep
  <2>6. ASSUME SendNothing PROVE EventsInv'
    <3>1. active[Main] # <<>> /\ Drops(Main) /\ UNCHANGED <<calls, timers>>
      BY <2>6, LookupStep DEF SendNothing
    <3>2. Carried(SelfPipe, NoOne)
      BY <2>d, <3>1, ThreadFacts
    <3> QED
      BY <1>0, <3>1, <3>2, CallsKept, EventsCarried, ThreadFacts
  <2>7. ASSUME SendEvent PROVE EventsInv'
    <3>1. active[Main] # <<>> /\ Drops(Main) /\ calls' = calls
      BY <2>7, LookupStep DEF SendEvent, TimersAfter
    <3>2. PICK b \in Loops, e \in AnyEvent :
             timers' = [timers EXCEPT ![b] = timers[b] \cup {e}] /\ EventOf(e, b)
      BY <2>7, SendEventStep
    <3>3. \A u \in Loops : \A f \in timers'[u] : f \in timers[u] \/ (f = e /\ u = b)
      BY <3>2 DEF LoopTypes
    <3>4. Carried(e, b)
      BY <2>d, <3>1, <3>3, ThreadFacts
    <3> QED
      BY <1>0, <3>1, <3>2, <3>4, CallsKept, EventsCarried
  <2>8. ASSUME NEW t \in Loops, RunCallback(t) \/ DefaultPrint(t) PROVE EventsInv'
    <3> DEFINE e == active[t][1]
    <3> DEFINE run == [n |-> e.n, cb |-> e.cb, ctxt |-> e.ctxt, on |-> t]
    <3>1. /\ active[t] # <<>> /\ e # SelfPipe /\ 1 \in DOMAIN active[t] /\ e \in AnyEvent
          /\ calls' = Append(calls, run) /\ timers' = timers
          /\ Drops(t) \/ active' = active
      BY <2>8, RunStep DEF Ran
    <3>2. EventOf(e, t) /\ run \in AnyRun
      BY <3>1 DEF EventsInv, AnyEvent, AnyRun
    <3>3. /\ run.n \in Numbers' /\ run.cb \in 1 .. Len(regs') /\ run.ctxt = run.cb
      BY <1>0, <3>2 DEF EventOf, RegsKept, CaughtKept
    <3> HIDE DEF run
    <3>4. \A c \in DOMAIN calls' : calls'[c] = run \/ (c \in DOMAIN calls /\ calls'[c] = calls[c])
      BY <3>1, <3>2, AppendFacts DEF LoopTypes
    <3>5. \A c \in DOMAIN calls' : /\ calls'[c].n \in Numbers'
                                   /\ calls'[c].cb \in 1 .. Len(regs')
                                   /\ calls'[c].ctxt = calls'[c].cb
      BY <1>0, <3>3, <3>4 DEF EventsInv, RegsKept, CaughtKept
    <3>6. Carried(SelfPipe, NoOne)
      <4>1. CASE Drops(t)
        BY <2>d, <3>1, <4>1
      <4>2. CASE active' = active
        BY <3>1, <4>2 DEF Carried
      <4> QED
        BY <3>1, <4>1, <4>2
    <3> QED
      BY <1>0, <3>5, <3>6, EventsCarried, ThreadFacts
  <2>9. ASSUME NEW t \in Loops, DefaultRestore(t) PROVE EventsInv'
    BY <1>1, <2>9, RestoreStep
  <2>10. ASSUME NEW t \in Loops, DefaultRaise(t) PROVE EventsInv'
    <3>1. active[t] # <<>> /\ Drops(t) /\ UNCHANGED <<calls, timers>>
      BY <2>10, RaiseAgainStep
    <3>2. Carried(SelfPipe, NoOne)
      BY <2>d, <3>1
    <3> QED
      BY <1>0, <3>1, <3>2, CallsKept, EventsCarried, ThreadFacts
  <2> QED
    BY <1>3, <2>1, <2>2, <2>3, <2>4, <2>5, <2>6, <2>7, <2>8, <2>9, <2>10, LoopCases
<1> QED
  BY <1>2, <1>3, NextMoves

-----------------------------------------------------------------------------
(* The self-pipe.                                                           *)

\* A signal that arrives comes after all those caught before.
LEMMA PipeArrive ==
  ASSUME SignalTypes, PipeInv, NEW s \in Sigs, Arrive(s), inhand' = inhand
  PROVE  /\ PipeInv'
         /\ \A n \in Numbers : Before(n) => Before(n)'
         /\ \A n \in Numbers : n \notin lost => n \notin lost'
<1> DEFINE m == Len(caught) + 1
<1>1. \/ UNCHANGED signals
      \/ /\ caught' = Append(caught, s)
         /\ \/ pipe' = Append(pipe, m) /\ lost' = lost
            \/ lost' = lost \cup {m} /\ pipe' = pipe
  BY ArriveStep
<1>2. CASE UNCHANGED signals
  BY <1>2 DEF signals, PipeInv, Numbers, Before
<1>3. CASE caught' = Append(caught, s)
  <2>1. CaughtKept /\ m \in Numbers' /\ Numbers = 1 .. Len(caught) /\ Len(caught) \in Nat
    BY <1>3, CaughtGrows DEF SignalTypes, CaughtKept
  <2>2. Numbers \subseteq Numbers' /\ m \in Nat /\ m \notin Numbers /\ \A n \in Numbers : n < m
    BY <2>1 DEF CaughtKept
  <2>3. Len(pipe) \in Nat /\ DOMAIN pipe = 1 .. Len(pipe)
    BY LenProperties DEF SignalTypes
  <2> HIDE DEF m
  <2>4. CASE pipe' = Append(pipe, m) /\ lost' = lost
    <3>1. /\ DOMAIN pipe' = 1 .. Len(pipe) + 1 /\ pipe'[Len(pipe) + 1] = m
          /\ \A i \in DOMAIN pipe : pipe'[i] = pipe[i]
      BY <2>2, <2>4, AppendFacts DEF SignalTypes
    <3>2. \A i \in DOMAIN pipe' : i = Len(pipe) + 1 \/ i \in DOMAIN pipe
      BY <2>3, <3>1
    <3>3. \A i \in DOMAIN pipe' : pipe'[i] \in Numbers' /\ pipe'[i] \notin lost'
      BY <2>1, <2>2, <2>4, <3>1, <3>2 DEF PipeInv
    <3>4. ASSUME NEW i \in DOMAIN pipe', NEW j \in DOMAIN pipe', i < j PROVE pipe'[i] < pipe'[j]
      <4>1. i \in DOMAIN pipe /\ pipe'[i] = pipe[i] /\ pipe[i] \in Numbers
        BY <2>3, <3>1, <3>2, <3>4 DEF PipeInv
      <4>2. CASE j = Len(pipe) + 1
        BY <2>2, <3>1, <4>1, <4>2
      <4>3. CASE j \in DOMAIN pipe
        BY <3>1, <3>4, <4>1, <4>3 DEF PipeInv
      <4> QED
        BY <3>2, <4>2, <4>3
    <3>5. \A n \in Numbers : Before(n) => Before(n)'
      BY <2>2, <3>1, <3>2 DEF Before
    <3>6. inhand' # 0 => \A i \in DOMAIN pipe' : inhand' < pipe'[i]
      BY <2>2, <3>1, <3>2 DEF PipeInv
    <3>7. inhand' # 0 => inhand' \in Numbers' /\ inhand' \notin lost'
      BY <2>2, <2>4 DEF PipeInv
    <3>8. lost' \subseteq Numbers'
      BY <2>2, <2>4 DEF PipeInv
    <3> QED
      BY <2>4, <3>3, <3>4, <3>5, <3>6, <3>7, <3>8 DEF PipeInv
  <2>5. CASE lost' = lost \cup {m} /\ pipe' = pipe
    <3>1. \A n \in Numbers : Before(n) => Before(n)'
      BY <2>5 DEF Before
    <3>2. \A n \in Numbers : n \notin lost => n \notin lost'
      BY <2>2, <2>5
    <3> QED
      BY <2>1, <2>2, <2>5, <3>1, <3>2 DEF PipeInv
  <2> QED
    BY <1>1, <2>4, <2>5, <1>2
<1> QED
  BY <1>1, <1>2, <1>3

\* The signal read was the first in the pipe.
LEMMA PipeRead ==
  ASSUME SignalTypes, PipeInv, EventsInv, pipe # <<>>, inhand = 0, inhand' = pipe[1],
         pipe' = Tail(pipe), UNCHANGED <<caught, lost>>
  PROVE  /\ PipeInv'
         /\ \A n \in Numbers : Before(n) => Before(n)'
<1>1. /\ 1 \in DOMAIN pipe /\ DOMAIN pipe' \subseteq Nat \ {0}
      /\ \A i \in DOMAIN pipe' : i + 1 \in DOMAIN pipe /\ i + 1 # 1 /\ pipe'[i] = pipe[i + 1]
  BY TailFacts DEF SignalTypes
<1>2. Numbers' = Numbers
  BY DEF Numbers
<1>3. inhand' \in Numbers /\ inhand' \notin lost /\ lost \subseteq Numbers
  BY <1>1 DEF PipeInv
<1>4. \A i \in DOMAIN pipe' : pipe'[i] \in Numbers /\ pipe'[i] \notin lost
  BY <1>1 DEF PipeInv
<1>5. ASSUME NEW i \in DOMAIN pipe', NEW j \in DOMAIN pipe', i < j PROVE pipe'[i] < pipe'[j]
  <2>1. i + 1 < j + 1
    BY <1>1, <1>5
  <2> QED
    BY <1>1, <2>1 DEF PipeInv
<1>6. ASSUME NEW i \in DOMAIN pipe' PROVE inhand' < pipe'[i]
  <2>1. 1 < i + 1
    BY <1>1
  <2> QED
    BY <1>1, <2>1 DEF PipeInv
<1>7. PipeInv'
  BY <1>2, <1>3, <1>4, <1>5, <1>6 DEF PipeInv
<1> QED
  BY <1>1, <1>7 DEF Before

LEMMA StepPipe ==
  ASSUME Types, TableInv, LoopInv, EventsInv, PipeInv, [Next]_vars
  PROVE  PipeInv'
<1> USE DEF Types
<1>1. ASSUME UNCHANGED <<signals, inhand>> PROVE PipeInv'
  BY <1>1 DEF signals, PipeInv, Numbers
<1>2. CASE ApiMove \/ UNCHANGED vars
  BY <1>1, <1>2, ApiFrame DEF vars
<1>3. CASE LoopMove
  <2>1. AppInitFails => PipeInv'
    BY <1>1 DEF AppInitFails
  <2>2. ASSUME NEW s \in Sigs, Raise(s) PROVE PipeInv'
    BY <2>2, PipeArrive DEF Raise
  <2>3. ASSUME NEW t \in Loops, NEW ph \in Resting, Quiet(t, ph) PROVE PipeInv'
    BY <1>1, <2>3 DEF Quiet
  <2>4. ASSUME NEW t \in Loops, phase[t] = "wait", Wake(t) PROVE PipeInv'
    BY <1>1, <2>4 DEF Wake
  <2>5. ASSUME SelfPipeRead PROVE PipeInv'
    BY <2>5, ReadStep, PipeRead
  <2>6. ASSUME SendNothing PROVE PipeInv'
    <3>1. inhand # 0 /\ inhand' = 0 /\ UNCHANGED <<pipe, caught>> /\ lost' = lost \cup {inhand}
      BY <2>6, LookupStep DEF SendNothing
    <3>2. \A i \in DOMAIN pipe : pipe[i] # inhand
      BY <3>1, EventFacts DEF PipeInv
    <3> QED
      BY <3>1, <3>2 DEF PipeInv, Numbers
  <2>7. ASSUME SendEvent PROVE PipeInv'
    <3>1. inhand' = 0 /\ UNCHANGED <<pipe, caught, lost>>
      BY <2>7, LookupStep DEF SendEvent, TimersAfter
    <3> QED
      BY <3>1 DEF PipeInv, Numbers
  <2>8. ASSUME NEW t \in Loops, RunCallback(t) \/ DefaultPrint(t) PROVE PipeInv'
    BY <1>1, <2>8, RunStep
  <2>9. ASSUME NEW t \in Loops, DefaultRestore(t) PROVE PipeInv'
    BY <1>1, <2>9, RestoreStep
  <2>10. ASSUME NEW t \in Loops, DefaultRaise(t) PROVE PipeInv'
    BY <2>10, RaiseAgainStep, BusyFacts, PipeArrive DEF Busy
  <2> QED
    BY <1>3, <2>1, <2>2, <2>3, <2>4, <2>5, <2>6, <2>7, <2>8, <2>9, <2>10, LoopCases
<1> QED
  BY <1>2, <1>3, NextMoves

-----------------------------------------------------------------------------
(* What was sent to the loops.                                              *)

\* The step gives t nothing more to run: it keeps what was due, or drops the head.
KeepsDue(t) ==
    \/ \A i \in Due(t)' : i \in Due(t) /\ active'[t][i] = active[t][i]
    \/ \A i \in Due(t)' : i \in Nat /\ i + 1 \in Due(t) /\ active'[t][i] = active[t][i + 1]

LEMMA SentShrinks ==
  ASSUME SentOnce, \A t \in Loops : KeepsDue(t) /\ timers'[t] \subseteq timers[t]
  PROVE  SentOnce' /\ \A t \in Loops : Sent(t)' \subseteq Sent(t)
<1>1. ASSUME NEW t \in Loops, NEW i \in Due(t)'
      PROVE  \E j \in Due(t) : active'[t][i] = active[t][j]
  BY DEF KeepsDue
<1>2. ASSUME NEW t \in Loops PROVE Sent(t)' \subseteq Sent(t)
  BY <1>1 DEF Sent
<1>3. ASSUME NEW t \in Loops, NEW i \in Due(t)', NEW j \in Due(t)', active'[t][i] = active'[t][j]
      PROVE  i = j
  <2>1. CASE \A k \in Due(t)' : k \in Due(t) /\ active'[t][k] = active[t][k]
    BY <1>3, <2>1 DEF SentOnce
  <2>2. CASE \A k \in Due(t)' : k \in Nat /\ k + 1 \in Due(t) /\ active'[t][k] = active[t][k + 1]
    <3>1. i + 1 = j + 1 /\ i \in Nat /\ j \in Nat
      BY <1>3, <2>2 DEF SentOnce
    <3> QED
      BY <3>1
  <2> QED
    BY <2>1, <2>2 DEF KeepsDue
<1>4. ASSUME NEW t \in Loops, NEW i \in Due(t)' PROVE active'[t][i] \notin timers'[t]
  <2>1. PICK j \in Due(t) : active'[t][i] = active[t][j]
    BY <1>1
  <2> QED
    BY <2>1 DEF SentOnce
<1>5. \A t, u \in Loops : \A e \in Sent(t)', f \in Sent(u)' : e.n = f.n => t = u /\ e = f
  BY <1>2 DEF SentOnce
<1> QED
  BY <1>2, <1>3, <1>4, <1>5 DEF SentOnce

LEMMA DueSame ==
  ASSUME NEW t \in Loops, active'[t] = active[t], Busy(t) => Busy(t)'
  PROVE  KeepsDue(t)
BY DEF KeepsDue, Due

LEMMA DueTail ==
  ASSUME LoopTypes, NEW t \in Loops, active[t] # <<>>, Drops(t)
  PROVE  \A i \in Due(t)' : i \in Nat /\ i + 1 \in Due(t) /\ i + 1 # 1
                                /\ active'[t][i] = active[t][i + 1]
<1>1. \A i \in DOMAIN active'[t] : /\ i + 1 \in DOMAIN active[t] /\ i + 1 # 1 /\ i \in Nat
                                   /\ active'[t][i] = active[t][i + 1]
  BY DropStep
<1> QED
  BY <1>1 DEF Due

\* A step of t's that moves it, and drops the head of what it has to run.
LEMMA DropKeepsDue ==
  ASSUME LoopTypes, NEW t \in Loops, active[t] # <<>>, Drops(t),
         phase' = phase \/ \E ph \in Phases : Moves(t, ph)
  PROVE  \A u \in Loops : KeepsDue(u)
<1>1. ASSUME NEW u \in Loops, u # t PROVE KeepsDue(u)
  <2>1. active'[u] = active[u]
    BY <1>1, DropStep
  <2>2. phase'[u] = phase[u]
    BY <1>1, ThreadFacts DEF Moves, LoopTypes
  <2> QED
    BY <2>1, <2>2, DueSame DEF Busy
<1> QED
  BY <1>1, DueTail DEF KeepsDue

LEMMA SentIsEvent ==
  ASSUME EventsInv
  PROVE  \A t \in Loops : \A e \in Sent(t) : EventOf(e, t)
BY DEF EventsInv, Sent, Due

\* While no callback runs, what was sent stays fresh.
LEMMA FreshKept ==
  ASSUME SignalTypes, EventsInv, SentFresh, \A t \in Loops : Sent(t)' \subseteq Sent(t),
         \A n \in Numbers : Before(n) => Before(n)',
         \A n \in Numbers : n \in lost' => n \in lost \/ (inhand # 0 /\ n = inhand),
         calls' = calls
  PROVE  SentFresh'
<1>1. ASSUME NEW t \in Loops, NEW e \in Sent(t)'
      PROVE  Before(e.n)' /\ e.n \notin lost' /\ \A c \in DOMAIN calls : calls[c].n # e.n
  <2>1. e \in Sent(t) /\ e.n \in Numbers /\ e.n \in Nat
    BY SentIsEvent, EventFacts DEF EventOf
  <2>2. /\ Before(e.n) /\ e.n \notin lost
        /\ \A c \in DOMAIN calls : calls[c].n # e.n
    BY <2>1 DEF SentFresh
  <2>3. inhand # 0 => e.n < inhand
    BY <2>2 DEF Before
  <2>4. e.n \notin lost'
    BY <2>1, <2>2, <2>3 DEF SignalTypes
  <2> QED
    BY <2>1, <2>2, <2>4
<1>2. \A c \in DOMAIN calls : Before(calls[c].n)'
  BY DEF SentFresh, EventsInv
<1> QED
  BY <1>1, <1>2 DEF SentFresh

\* A callback is run for what is due, which then is not any more.
LEMMA RanOnce ==
  ASSUME Types, SentOnce, NEW t \in Loops, RunCallback(t) \/ DefaultPrint(t)
  PROVE  /\ 1 \in Due(t) /\ active[t][1] \in Sent(t)
         /\ \A u \in Loops : KeepsDue(u)
         /\ \A i \in Due(t)' : \E j \in Due(t) : j # 1 /\ active'[t][i] = active[t][j]
         /\ \A u \in Loops : \A f \in Sent(u)' : f.n # active[t][1].n
<1> USE DEF Types
<1>1. /\ phase[t] = "dispatch" /\ active[t] # <<>> /\ active[t][1] # SelfPipe
      /\ 1 \in DOMAIN active[t] /\ timers' = timers
      /\ \/ Drops(t) /\ UNCHANGED phase
         \/ Moves(t, "restore") /\ active' = active
  BY RunStep
<1>2. 1 \in Due(t) /\ active[t][1] \in Sent(t)
  BY <1>1 DEF Due, Sent, Busy
<1>3. ASSUME Drops(t), UNCHANGED phase
      PROVE  /\ \A u \in Loops : KeepsDue(u)
             /\ \A i \in Due(t)' : \E j \in Due(t) : j # 1 /\ active'[t][i] = active[t][j]
  BY <1>1, <1>3, DropKeepsDue, DueTail
<1>4. ASSUME Moves(t, "restore"), active' = active
      PROVE  /\ \A u \in Loops : KeepsDue(u)
             /\ \A i \in Due(t)' : \E j \in Due(t) : j # 1 /\ active'[t][i] = active[t][j]
  <2>1. \A u \in Loops : phase'[u] = IF u = t THEN "restore" ELSE phase[u]
    BY <1>4, ThreadFacts DEF Moves, LoopTypes
  <2>2. \A u \in Loops : Busy(u) => Busy(u)'
    BY <2>1 DEF Busy
  <2>3. Busy(t)'
    BY <2>1 DEF Busy
  <2> QED
    BY <1>4, <2>2, <2>3, DueSame DEF Due
<1>5. \A u \in Loops : KeepsDue(u)
  BY <1>1, <1>3, <1>4
<1>6. \A i \in Due(t)' : \E j \in Due(t) : j # 1 /\ active'[t][i] = active[t][j]
  BY <1>1, <1>3, <1>4
<1>7. \A u \in Loops : Sent(u)' \subseteq Sent(u)
  BY <1>1, <1>5, SentShrinks
<1>8. ASSUME NEW u \in Loops, NEW f \in Sent(u)', f.n = active[t][1].n PROVE FALSE
  <2>1. u = t /\ f = active[t][1]
    BY <1>2, <1>7, <1>8 DEF SentOnce
  <2>2. f \notin timers'[t]
    BY <1>1, <1>2, <2>1 DEF SentOnce
  <2>3. PICK i \in Due(t)' : f = active'[t][i]
    BY <2>1, <2>2 DEF Sent
  <2>4. PICK j \in Due(t) : j # 1 /\ f = active[t][j]
    BY <1>6, <2>3
  <2> QED
    BY <1>2, <2>1, <2>4 DEF SentOnce
<1> QED
  BY <1>2, <1>5, <1>6, <1>8

LEMMA StepSent ==
  ASSUME Types, TableInv, LoopInv, EventsInv, PipeInv, SentInv, [Next]_vars
  PROVE  SentInv'
<1> USE DEF Types
<1>0. SentFresh /\ SentOnce
  BY DEF SentInv
<1>1. ASSUME \A t \in Loops : KeepsDue(t) /\ timers'[t] \subseteq timers[t],
             \A n \in Numbers : Before(n) => Before(n)',
             \A n \in Numbers : n \in lost' => n \in lost \/ (inhand # 0 /\ n = inhand),
             calls' = calls
      PROVE  SentInv'
  BY <1>0, <1>1, SentShrinks, FreshKept DEF SentInv
<1>2. ASSUME UNCHANGED <<signals, inhand>> \/ UNCHANGED <<pipe, lost, inhand>>
      PROVE  /\ \A n \in Numbers : Before(n) => Before(n)'
             /\ \A n \in Numbers : n \in lost' => n \in lost \/ (inhand # 0 /\ n = inhand)
  BY <1>2 DEF signals, Before
<1>3. ASSUME UNCHANGED <<phase, timers, active>>
      PROVE  \A t \in Loops : KeepsDue(t) /\ timers'[t] \subseteq timers[t]
  BY <1>3, DueSame DEF Busy
<1>4. CASE ApiMove \/ UNCHANGED vars
  <2>1. UNCHANGED <<signals, inhand>> /\ UNCHANGED <<phase, timers, active>> /\ calls' = calls
    BY <1>4, ApiFrame DEF vars, loops
  <2> QED
    BY <1>1, <1>2, <1>3, <2>1
<1>5. CASE LoopMove
  <2>m. ASSUME NEW t \in Loops, NEW ph \in Phases, Moves(t, ph), Busy(t) => ph = "reraise",
               UNCHANGED <<timers, active>>
        PROVE  \A u \in Loops : KeepsDue(u) /\ timers'[u] \subseteq timers[u]
    <3>1. \A u \in Loops : phase'[u] = IF u = t THEN ph ELSE phase[u]
      BY <2>m, ThreadFacts DEF Moves, LoopTypes
    <3>2. \A u \in Loops : Busy(u) => Busy(u)'
      BY <2>m, <3>1 DEF Busy
    <3> QED
      BY <2>m, <3>2, DueSame
  <2>1. ASSUME AppInitFails PROVE SentInv'
    <3>1. UNCHANGED <<signals, inhand>> /\ UNCHANGED <<phase, timers, active>> /\ calls' = calls
      BY <2>1 DEF AppInitFails, loops
    <3> QED
      BY <1>1, <1>2, <1>3, <3>1
  <2>2. ASSUME NEW s \in Sigs, Raise(s) PROVE SentInv'
    <3>1. UNCHANGED <<phase, timers, active>> /\ calls' = calls /\ inhand' = inhand /\ Arrive(s)
      BY <2>2 DEF Raise, loops
    <3> QED
      BY <1>1, <1>3, <3>1, PipeArrive
  <2>3. ASSUME NEW t \in Loops, NEW ph \in Resting, Quiet(t, ph) PROVE SentInv'
    <3>1. /\ Moves(t, ph) /\ ~Busy(t) /\ ph \in Phases /\ UNCHANGED <<timers, active>>
          /\ UNCHANGED <<signals, inhand>> /\ calls' = calls
      BY <2>3 DEF Quiet, Busy, Resting
    <3> QED
      BY <1>1, <1>2, <2>m, <3>1
  <2>4. ASSUME NEW t \in Loops, phase[t] = "wait", Wake(t) PROVE SentInv'
    <3>1. /\ Moves(t, "dispatch") /\ timers' = [timers EXCEPT ![t] = {}]
          /\ \A u \in Loops : u # t => active'[u] = active[u]
          /\ \A i \in DOMAIN active'[t] :
                active'[t][i] = SelfPipe \/ active'[t][i] \in timers[t]
          /\ \A i, j \in DOMAIN active'[t] : active'[t][i] = active'[t][j] => i = j
          /\ UNCHANGED <<signals, inhand, calls>>
      BY <2>4, WakeStep, EventFacts
    <3>2. \A u \in Loops : phase'[u] = IF u = t THEN "dispatch" ELSE phase[u]
      BY <3>1, ThreadFacts DEF Moves, LoopTypes
    <3>3. \A u \in Loops : timers'[u] = IF u = t THEN {} ELSE timers[u]
      BY <3>1 DEF LoopTypes
    <3>4. \A i \in Due(t)' : i \in DOMAIN active'[t] /\ active'[t][i] \in timers[t]
      BY <3>1 DEF Due
    <3>5. \A u \in Loops : u # t => Due(u)' = Due(u) /\ Sent(u)' = Sent(u)
      BY <3>1, <3>2, <3>3 DEF Due, Sent, Busy
    <3>6. Sent(t)' \subseteq Sent(t)
      BY <3>3, <3>4 DEF Sent
    <3>7. \A u \in Loops : Sent(u)' \subseteq Sent(u)
      BY <3>5, <3>6
    <3>8. SentFresh'
      BY <1>0, <1>2, <3>1, <3>7, FreshKept
    <3>9. \A u, v \in Loops : \A e \in Sent(u)', f \in Sent(v)' : e.n = f.n => u = v /\ e = f
      BY <1>0, <3>7 DEF SentOnce
    <3>10. \A u \in Loops : \A i, j \in Due(u)' : active'[u][i] = active'[u][j] => i = j
      BY <1>0, <3>1, <3>4, <3>5 DEF SentOnce
    <3>11. \A u \in Loops : \A i \in Due(u)' : active'[u][i] \notin timers'[u]
      BY <1>0, <3>1, <3>3, <3>5 DEF SentOnce
    <3> QED
      BY <3>8, <3>9, <3>10, <3>11 DEF SentInv, SentOnce
  <2>5. ASSUME SelfPipeRead PROVE SentInv'
    <3>1. /\ phase[Main] = "dispatch" /\ pipe # <<>> /\ inhand = 0 /\ inhand' = pipe[1]
          /\ pipe' = Tail(pipe) /\ Moves(Main, "lookup")
          /\ UNCHANGED <<caught, lost, timers, active, calls>>
      BY <2>5, ReadStep
    <3>2. ~Busy(Main) /\ "lookup" \in Phases
      BY <3>1 DEF Busy, Phases
    <3>3. \A u \in Loops : KeepsDue(u) /\ timers'[u] \subseteq timers[u]
      BY <2>m, <3>1, <3>2, ThreadFacts
    <3>4. \A n \in Numbers : Before(n) => Before(n)'
      BY <3>1, PipeRead
    <3> QED
      BY <1>1, <3>1, <3>3, <3>4
  <2>l. ASSUME SelfPipeLookup
        PROVE  /\ inhand # 0 /\ \A n \in Numbers : Before(n) => Before(n)'
               /\ \A u \in Loops : KeepsDue(u)
               /\ \A i \in Due(Main)' : i + 1 \in Due(Main) /\ active'[Main][i] = active[Main][i + 1]
               /\ calls' = calls
    <3>1. /\ inhand # 0 /\ inhand' = 0 /\ pipe' = pipe /\ calls' = calls
          /\ Moves(Main, "dispatch") /\ Drops(Main) /\ active[Main] # <<>>
      BY <2>l, LookupStep
    <3>2. "dispatch" \in Phases
      BY DEF Phases
    <3> QED
      BY <3>1, <3>2, DropKeepsDue, DueTail, ThreadFacts DEF Before
  <2>6. ASSUME SendNothing PROVE SentInv'
    <3>1. SelfPipeLookup /\ timers' = timers /\ lost' = lost \cup {inhand}
      BY <2>6 DEF SendNothing
    <3> QED
      BY <1>1, <2>l, <3>1
  <2>7. ASSUME SendEvent PROVE SentInv'
    <3>1. PICK b \in Loops, e \in AnyEvent :
             /\ timers' = [timers EXCEPT ![b] = timers[b] \cup {e}]
             /\ e.n = inhand /\ EventOf(e, b) /\ lost' = lost
      BY <2>7, SendEventStep
    <3>2. /\ inhand # 0 /\ \A n \in Numbers : Before(n) => Before(n)'
          /\ \A u \in Loops : KeepsDue(u)
          /\ calls' = calls
      BY <2>7, <2>l DEF SendEvent, TimersAfter
    <3>3. inhand' = 0 /\ pipe' = pipe
      BY <2>7, LookupStep DEF SendEvent, TimersAfter
    <3>4. \A u \in Loops : timers'[u] = IF u = b THEN timers[u] \cup {e} ELSE timers[u]
      BY <3>1 DEF LoopTypes
    <3>5. \A u \in Loops : \A i \in Due(u)' : \E j \in Due(u) : active'[u][i] = active[u][j]
      BY <3>2 DEF KeepsDue
    <3>6. ASSUME NEW u \in Loops, NEW f \in Sent(u)' PROVE f \in Sent(u) \/ (u = b /\ f = e)
      <4>1. CASE f \in timers'[u]
        BY <3>4, <4>1 DEF Sent
      <4>2. CASE f \notin timers'[u]
        <5>1. PICK i \in Due(u)' : f = active'[u][i]
          BY <4>2 DEF Sent
        <5> QED
          BY <3>5, <5>1 DEF Sent
      <4> QED
        BY <4>1, <4>2
    <3>7. \A u \in Loops : \A f \in Sent(u) : f.n \in Numbers /\ f.n < inhand
      BY <1>0, <3>2, SentIsEvent DEF SentFresh, Before, EventOf
    <3>8. \A u \in Loops : \A f \in Sent(u) : f.n # e.n
      BY <3>1, <3>7, EventFacts DEF SignalTypes
    <3>9. /\ Before(e.n)' /\ e.n \notin lost' /\ \A c \in DOMAIN calls : calls[c].n # e.n
      <4>1. Before(e.n)'
        BY <3>1, <3>2, <3>3 DEF Before, PipeInv
      <4>2. e.n \notin lost'
        BY <3>1, <3>2 DEF PipeInv
      <4>3. \A c \in DOMAIN calls : calls[c].n < inhand /\ calls[c].n \in Numbers
        BY <1>0, <3>2 DEF SentFresh, Before, EventsInv
      <4>4. \A c \in DOMAIN calls : calls[c].n # e.n
        BY <3>1, <4>3, EventFacts DEF SignalTypes
      <4> QED
        BY <4>1, <4>2, <4>4
    <3>10. \A u \in Loops : \A f \in Sent(u) :
              Before(f.n)' /\ f.n \notin lost' /\ \A c \in DOMAIN calls : calls[c].n # f.n
      BY <1>0, <3>1, <3>2, <3>7 DEF SentFresh
    <3>11. \A c \in DOMAIN calls : Before(calls[c].n)'
      BY <1>0, <3>2 DEF SentFresh, EventsInv
    <3>12. SentFresh'
      BY <3>2, <3>6, <3>9, <3>10, <3>11 DEF SentFresh
    <3>13. \A u, v \in Loops : \A f \in Sent(u)', g \in Sent(v)' : f.n = g.n => u = v /\ f = g
      BY <1>0, <3>6, <3>8 DEF SentOnce
    <3>14. \A u \in Loops : \A i \in Due(u)' : active'[u][i] \notin timers'[u]
      <4>1. ASSUME NEW u \in Loops, NEW i \in Due(u)' PROVE active'[u][i] \notin timers'[u]
        <5>1. PICK j \in Due(u) : active'[u][i] = active[u][j]
          BY <3>5
        <5>2. active[u][j] \in Sent(u) /\ active[u][j] \notin timers[u]
          BY <1>0 DEF Sent, SentOnce
        <5> QED
          BY <3>4, <3>8, <5>1, <5>2
      <4> QED
        BY <4>1
    <3>15. \A u \in Loops : \A i, j \in Due(u)' : active'[u][i] = active'[u][j] => i = j
      <4>1. ASSUME NEW u \in Loops, NEW i \in Due(u)', NEW j \in Due(u)',
                   active'[u][i] = active'[u][j]
            PROVE  i = j
        <5>1. CASE \A k \in Due(u)' : k \in Due(u) /\ active'[u][k] = active[u][k]
          BY <1>0, <4>1, <5>1 DEF SentOnce
        <5>2. CASE \A k \in Due(u)' : k \in Nat /\ k + 1 \in Due(u) /\ active'[u][k] = active[u][k + 1]
          <6>1. i + 1 = j + 1 /\ i \in Nat /\ j \in Nat
            BY <1>0, <4>1, <5>2 DEF SentOnce
          <6> QED
            BY <6>1
        <5> QED
          BY <3>2, <5>1, <5>2 DEF KeepsDue
      <4> QED
        BY <4>1
    <3> QED
      BY <3>12, <3>13, <3>14, <3>15 DEF SentInv, SentOnce
  <2>8. ASSUME NEW t \in Loops, RunCallback(t) \/ DefaultPrint(t) PROVE SentInv'
    <3> DEFINE e == active[t][1]
    <3> DEFINE run == [n |-> e.n, cb |-> e.cb, ctxt |-> e.ctxt, on |-> t]
    <3>1. /\ UNCHANGED <<signals, inhand, timers>> /\ e \in AnyEvent
          /\ calls' = Append(calls, run)
      BY <2>8, RunStep DEF Ran
    <3>2. /\ e \in Sent(t) /\ \A u \in Loops : KeepsDue(u)
          /\ \A u \in Loops : \A f \in Sent(u)' : f.n # e.n
      BY <1>0, <2>8, RanOnce
    <3>3. SentOnce' /\ \A u \in Loops : Sent(u)' \subseteq Sent(u)
      BY <1>0, <3>1, <3>2, SentShrinks
    <3>4. run \in AnyRun /\ run.n = e.n
      BY <3>1 DEF AnyEvent, AnyRun
    <3> HIDE DEF run
    <3>5. \A c \in DOMAIN calls' : calls'[c] = run \/ (c \in DOMAIN calls /\ calls'[c] = calls[c])
      BY <3>1, <3>4, AppendFacts DEF LoopTypes
    <3>6. \A n : Before(n)' <=> Before(n)
      BY <3>1 DEF Before, signals
    <3>7. Before(e.n)
      BY <1>0, <3>2 DEF SentFresh
    <3>8. \A c \in DOMAIN calls' : Before(calls'[c].n)
      BY <1>0, <3>4, <3>5, <3>7 DEF SentFresh
    <3>9. ASSUME NEW u \in Loops, NEW f \in Sent(u)'
          PROVE  /\ Before(f.n) /\ f.n \notin lost
                 /\ \A c \in DOMAIN calls' : calls'[c].n # f.n
      BY <1>0, <3>2, <3>3, <3>4, <3>5 DEF SentFresh
    <3>10. SentFresh'
      BY <3>1, <3>6, <3>8, <3>9 DEF SentFresh, signals
    <3> QED
      BY <3>3, <3>10 DEF SentInv
  <2>9. ASSUME NEW t \in Loops, DefaultRestore(t) PROVE SentInv'
    <3>1. /\ Moves(t, "reraise") /\ "reraise" \in Phases /\ UNCHANGED <<timers, active>>
          /\ UNCHANGED <<signals, inhand>> /\ calls' = calls
      BY <2>9, RestoreStep DEF Phases
    <3> QED
      BY <1>1, <1>2, <2>m, <3>1
  <2>10. ASSUME NEW t \in Loops, DefaultRaise(t) PROVE SentInv'
    <3>1. /\ Busy(t) /\ active[t] # <<>> /\ Drops(t) /\ Moves(t, "dispatch")
          /\ "dispatch" \in Phases
          /\ Arrive(active[t][1].sig) /\ UNCHANGED <<inhand, timers, calls>>
      BY <2>10, RaiseAgainStep DEF Busy, Phases
    <3>2. active[t][1].sig \in Sigs
      BY <3>1, BusyFacts
    <3>3. \A u \in Loops : KeepsDue(u) /\ timers'[u] \subseteq timers[u]
      BY <3>1, DropKeepsDue
    <3> QED
      BY <1>1, <3>1, <3>2, <3>3, PipeArrive
  <2> QED
    BY <1>5, <2>1, <2>2, <2>3, <2>4, <2>5, <2>6, <2>7, <2>8, <2>9, <2>10, LoopCases
<1> QED
  BY <1>4, <1>5, NextMoves

-----------------------------------------------------------------------------
(* The order of the callbacks in the main loop.                             *)

\* Once the head is dropped the main loop has one event at most, and no self-pipe.
LEMMA MainDropped ==
  ASSUME LoopTypes, LoopInv, MainInv, active[Main] # <<>>, Drops(Main)
  PROVE  /\ \A i \in DOMAIN active'[Main] : active'[Main][i] # SelfPipe
         /\ active'[Main] # <<>> => active'[Main][1] # SelfPipe
         /\ \A i, j \in DOMAIN active'[Main] : i = j
<1>1. /\ \A i \in DOMAIN active'[Main] :
            /\ i + 1 \in DOMAIN active[Main] /\ i + 1 # 1 /\ i \in Nat
            /\ active'[Main][i] = active[Main][i + 1]
      /\ active' \in [Loops -> Seq(AnyEvent)]
  BY DropStep, ThreadFacts
<1>2. \A i \in DOMAIN active'[Main] : active'[Main][i] # SelfPipe
  BY <1>1, ThreadFacts DEF LoopInv
<1>3. active'[Main] # <<>> => 1 \in DOMAIN active'[Main]
  BY <1>1, TailFacts, ThreadFacts
<1>4. ASSUME NEW i \in DOMAIN active'[Main], NEW j \in DOMAIN active'[Main] PROVE i = j
  <2>1. i + 1 = j + 1
    BY <1>1, <1>2 DEF MainInv
  <2> QED
    BY <1>1, <2>1
<1> QED
  BY <1>2, <1>3, <1>4

LEMMA MainKept ==
  ASSUME Types, LoopInv, MainInv, KeepsDue(Main), timers'[Main] \subseteq timers[Main],
         calls' = calls,
         active'[Main] = active[Main] \/ (active[Main] # <<>> /\ Drops(Main))
  PROVE  MainInv'
<1> USE DEF Types
<1>1. \A i \in Due(Main)' : \E j \in Due(Main) : active'[Main][i] = active[Main][j]
  BY DEF KeepsDue
<1>2. \A e \in Sent(Main)' : e \in Sent(Main)
  BY <1>1 DEF Sent
<1>3. \A e, f \in timers'[Main] : e = f
  BY DEF MainInv
<1>4. \A e \in timers'[Main] : \A i \in Due(Main)' : active'[Main][i].n < e.n
  BY <1>1 DEF MainInv
<1>5. \A c \in DOMAIN calls' : calls'[c].on = Main => \A e \in Sent(Main)' : calls'[c].n < e.n
  BY <1>2 DEF MainInv
<1>6. MainInOrder'
  BY DEF MainInv, MainInOrder
<1>7. /\ active'[Main] # <<>> /\ active'[Main][1] = SelfPipe => timers'[Main] = {}
      /\ \A i, j \in DOMAIN active'[Main] :
             active'[Main][i] # SelfPipe /\ active'[Main][j] # SelfPipe => i = j
  <2>1. CASE active'[Main] = active[Main]
    BY <2>1 DEF MainInv
  <2>2. CASE active[Main] # <<>> /\ Drops(Main)
    BY <2>2, MainDropped
  <2> QED
    BY <2>1, <2>2
<1> QED
  BY <1>3, <1>4, <1>5, <1>6, <1>7 DEF MainInv

\* The main loop's one callback that was due is run, after those run before.
LEMMA MainRuns ==
  ASSUME Types, LoopInv, SentInv, MainInv, NEW t \in Loops, RunCallback(t) \/ DefaultPrint(t)
  PROVE  MainInv'
<1> USE DEF Types
<1> DEFINE e == active[t][1]
<1> DEFINE run == [n |-> e.n, cb |-> e.cb, ctxt |-> e.ctxt, on |-> t]
<1>1. /\ timers' = timers /\ e \in AnyEvent /\ e # SelfPipe /\ 1 \in DOMAIN active[t]
      /\ active[t] # <<>> /\ calls' = Append(calls, run)
      /\ Drops(t) \/ active' = active
  BY RunStep DEF Ran
<1>2. /\ 1 \in Due(t) /\ e \in Sent(t) /\ KeepsDue(Main)
      /\ \A i \in Due(t)' : \E j \in Due(t) : j # 1 /\ active'[t][i] = active[t][j]
  BY RanOnce, ThreadFacts DEF SentInv
<1>3. run \in AnyRun /\ run.n = e.n /\ run.on = t
  BY <1>1 DEF AnyEvent, AnyRun
<1> HIDE DEF run
<1>4. /\ DOMAIN calls = 1 .. Len(calls) /\ Len(calls) \in Nat
      /\ DOMAIN calls' = 1 .. Len(calls) + 1 /\ calls'[Len(calls) + 1] = run
      /\ \A c \in DOMAIN calls : calls'[c] = calls[c]
  BY <1>1, <1>3, AppendFacts DEF LoopTypes
<1>5. \A c \in DOMAIN calls' : c \in DOMAIN calls \/ c = Len(calls) + 1
  BY <1>4
<1>6. /\ active'[Main] # <<>> /\ active'[Main][1] = SelfPipe => timers'[Main] = {}
      /\ \A i, j \in DOMAIN active'[Main] :
             active'[Main][i] # SelfPipe /\ active'[Main][j] # SelfPipe => i = j
  <2>1. CASE active'[Main] = active[Main]
    BY <1>1, <2>1 DEF MainInv
  <2>2. CASE t = Main /\ Drops(Main)
    BY <1>1, <2>2, MainDropped
  <2>3. CASE t # Main /\ Drops(t)
    BY <1>1, <2>1, <2>3, DropStep, ThreadFacts
  <2> QED
    BY <1>1, <2>1, <2>2, <2>3
<1>7. \A i \in Due(Main)' : \E j \in Due(Main) : active'[Main][i] = active[Main][j]
  BY <1>2 DEF KeepsDue
<1>8. \A f, g \in timers'[Main] : f = g
  BY <1>1 DEF MainInv
<1>9. \A f \in timers'[Main] : \A i \in Due(Main)' : active'[Main][i].n < f.n
  BY <1>1, <1>7 DEF MainInv
<1>10. \A f \in Sent(Main)' : f \in Sent(Main)
  BY <1>1, <1>7 DEF Sent
<1>11. CASE t # Main
  <2>1. \A c \in DOMAIN calls' : calls'[c].on = Main => c \in DOMAIN calls /\ calls'[c] = calls[c]
    BY <1>3, <1>4, <1>5, <1>11
  <2>2. \A c \in DOMAIN calls' : calls'[c].on = Main => \A f \in Sent(Main)' : calls'[c].n < f.n
    BY <1>10, <2>1 DEF MainInv
  <2>3. MainInOrder'
    BY <2>1 DEF MainInv, MainInOrder
  <2> QED
    BY <1>6, <1>8, <1>9, <2>2, <2>3 DEF MainInv
<1>12. CASE t = Main
  <2>1. \A i \in Due(Main)' : FALSE
    BY <1>1, <1>2, <1>12 DEF MainInv, Due
  <2>2. \A f \in Sent(Main)' : f \in timers[Main]
    BY <1>1, <2>1 DEF Sent
  <2>3. \A f \in Sent(Main)' : e.n < f.n
    BY <1>2, <1>12, <2>2 DEF MainInv
  <2>4. \A c \in DOMAIN calls' : calls'[c].on = Main => \A f \in Sent(Main)' : calls'[c].n < f.n
    BY <1>3, <1>4, <1>5, <1>10, <2>3 DEF MainInv
  <2>5. \A c \in DOMAIN calls : calls[c].on = Main => calls[c].n < e.n
    BY <1>2, <1>12 DEF MainInv
  <2>6. ASSUME NEW i \in DOMAIN calls', NEW j \in DOMAIN calls', i < j,
               calls'[i].on = Main, calls'[j].on = Main
        PROVE  calls'[i].n < calls'[j].n
    <3>1. i \in DOMAIN calls /\ calls'[i] = calls[i]
      BY <1>4, <1>5, <2>6
    <3>2. CASE j \in DOMAIN calls
      BY <1>4, <2>6, <3>1, <3>2 DEF MainInv, MainInOrder
    <3>3. CASE j = Len(calls) + 1
      BY <1>3, <1>4, <2>5, <2>6, <3>1, <3>3
    <3> QED
      BY <1>5, <3>2, <3>3
  <2>7. MainInOrder'
    BY <2>6 DEF MainInOrder
  <2> QED
    BY <1>6, <1>8, <1>9, <2>4, <2>7 DEF MainInv
<1> QED
  BY <1>11, <1>12

LEMMA StepMain ==
  ASSUME Types, TableInv, LoopInv, EventsInv, PipeInv, SentInv, MainInv, [Next]_vars
  PROVE  MainInv'
<1> USE DEF Types
<1>1. ASSUME UNCHANGED <<timers, active, calls>>, Busy(Main) => Busy(Main)'
      PROVE  MainInv'
  BY <1>1, DueSame, MainKept, ThreadFacts
<1>2. CASE ApiMove \/ UNCHANGED vars
  BY <1>1, <1>2, ApiFrame DEF vars, loops, Busy
<1>3. CASE LoopMove
  <2>m. ASSUME NEW t \in Loops, NEW ph \in Phases, Moves(t, ph), Busy(t) => ph = "reraise",
               UNCHANGED <<timers, active, calls>>
        PROVE  MainInv'
    <3>1. phase'[Main] = IF Main = t THEN ph ELSE phase[Main]
      BY <2>m, ThreadFacts DEF Moves, LoopTypes
    <3>2. Busy(Main) => Busy(Main)'
      BY <2>m, <3>1 DEF Busy
    <3> QED
      BY <1>1, <2>m, <3>2
  <2>d. ASSUME NEW t \in Loops, active[t] # <<>>, Drops(t), Moves(t, "dispatch"),
               UNCHANGED <<timers, calls>>
        PROVE  MainInv'
    <3>1. "dispatch" \in Phases
      BY DEF Phases
    <3>2. KeepsDue(Main)
      BY <2>d, <3>1, DropKeepsDue, ThreadFacts
    <3>3. active'[Main] = active[Main] \/ (active[Main] # <<>> /\ Drops(Main))
      BY <2>d, DropStep, ThreadFacts
    <3> QED
      BY <2>d, <3>2, <3>3, MainKept
  <2>1. AppInitFails => MainInv'
    BY <1>1 DEF AppInitFails, loops, Busy
  <2>2. ASSUME NEW s \in Sigs, Raise(s) PROVE MainInv'
    BY <1>1, <2>2 DEF Raise, loops, Busy
  <2>3. ASSUME NEW t \in Loops, NEW ph \in Resting, Quiet(t, ph) PROVE MainInv'
    <3>1. /\ Moves(t, ph) /\ ~Busy(t) /\ ph \in Phases /\ UNCHANGED <<timers, active, calls>>
      BY <2>3 DEF Quiet, Busy, Resting
    <3> QED
      BY <2>m, <3>1
  <2>4. ASSUME NEW t \in Loops, phase[t] = "wait", Wake(t) PROVE MainInv'
    <3>1. /\ Moves(t, "dispatch") /\ timers' = [timers EXCEPT ![t] = {}]
          /\ \A u \in Loops : u # t => active'[u] = active[u]
          /\ \A i \in DOMAIN active'[t] :
                active'[t][i] = SelfPipe \/ active'[t][i] \in timers[t]
          /\ \A i, j \in DOMAIN active'[t] : active'[t][i] = active'[t][j] => i = j
          /\ calls' = calls
      BY <2>4, WakeStep, EventFacts
    <3>2. CASE t # Main
      <4>1. /\ timers'[Main] = timers[Main] /\ active'[Main] = active[Main]
            /\ phase'[Main] = phase[Main]
        BY <3>1, <3>2, ThreadFacts DEF Moves, LoopTypes
      <4>2. KeepsDue(Main)
        BY <4>1, DueSame, ThreadFacts DEF Busy
      <4> QED
        BY <3>1, <4>1, <4>2, MainKept
    <3>3. CASE t = Main
      <4>1. timers'[Main] = {}
        BY <3>1, <3>3 DEF LoopTypes
      <4>2. \A i \in Due(Main)' : i \in DOMAIN active'[Main] /\ active'[Main][i] \in timers[Main]
        BY <3>1, <3>3 DEF Due
      <4>3. \A f \in Sent(Main)' : f \in Sent(Main)
        BY <4>1, <4>2 DEF Sent
      <4>4. \A i, j \in DOMAIN active'[Main] :
               active'[Main][i] # SelfPipe /\ active'[Main][j] # SelfPipe => i = j
        BY <3>1, <3>3 DEF MainInv
      <4>5. \A c \in DOMAIN calls' : calls'[c].on = Main => \A f \in Sent(Main)' : calls'[c].n < f.n
        BY <3>1, <4>3 DEF MainInv
      <4>6. MainInOrder'
        BY <3>1 DEF MainInv, MainInOrder
      <4> QED
        BY <4>1, <4>4, <4>5, <4>6 DEF MainInv
    <3> QED
      BY <3>2, <3>3
  <2>5. ASSUME SelfPipeRead PROVE MainInv'
    <3>1. /\ phase[Main] = "dispatch" /\ Moves(Main, "lookup")
          /\ UNCHANGED <<timers, active, calls>>
      BY <2>5, ReadStep
    <3>2. ~Busy(Main) /\ "lookup" \in Phases
      BY <3>1 DEF Busy, Phases
    <3> QED
      BY <2>m, <3>1, <3>2, ThreadFacts
  <2>6. ASSUME SendNothing PROVE MainInv'
    <3>1. /\ Moves(Main, "dispatch") /\ Drops(Main) /\ active[Main] # <<>>
          /\ UNCHANGED <<timers, calls>>
      BY <2>6, LookupStep DEF SendNothing
    <3> QED
      BY <2>d, <3>1, ThreadFacts
  <2>7. ASSUME SendEvent PROVE MainInv'
    <3>1. PICK b \in Loops, e \in AnyEvent :
             /\ timers' = [timers EXCEPT ![b] = timers[b] \cup {e}]
             /\ e.n = inhand
      BY <2>7, SendEventStep
    <3>2. /\ inhand # 0 /\ Moves(Main, "dispatch") /\ Drops(Main) /\ active[Main] # <<>>
          /\ active[Main][1] = SelfPipe /\ calls' = calls
      BY <2>7, LookupStep DEF SendEvent, TimersAfter
    <3>3. KeepsDue(Main)
      BY <3>2, DropKeepsDue, ThreadFacts DEF Phases
    <3>4. CASE b # Main
      <4>1. timers'[Main] = timers[Main]
        BY <3>1, <3>4, ThreadFacts DEF LoopTypes
      <4> QED
        BY <3>2, <3>3, <4>1, MainKept
    <3>5. CASE b = Main
      <4>1. timers'[Main] = {e}
        BY <3>1, <3>2, <3>5, ThreadFacts DEF LoopTypes, MainInv
      <4>2. \A i \in Due(Main)' : \E j \in Due(Main) : active'[Main][i] = active[Main][j]
        BY <3>3 DEF KeepsDue
      <4>3. \A f \in Sent(Main) : f.n < e.n
        BY <3>1, <3>2, ThreadFacts DEF SentInv, SentFresh, Before
      <4>4. \A i \in Due(Main)' : active'[Main][i].n < e.n
        BY <4>2, <4>3 DEF Sent
      <4>5. \A f \in Sent(Main)' : f \in Sent(Main) \/ f = e
        BY <4>1, <4>2 DEF Sent
      <4>6. \A c \in DOMAIN calls : calls[c].n < e.n
        BY <3>1, <3>2 DEF SentInv, SentFresh, Before
      <4>7. \A c \in DOMAIN calls' :
               calls'[c].on = Main => \A f \in Sent(Main)' : calls'[c].n < f.n
        BY <3>2, <4>5, <4>6 DEF MainInv
      <4>8. /\ active'[Main] # <<>> => active'[Main][1] # SelfPipe
            /\ \A i, j \in DOMAIN active'[Main] : i = j
        BY <3>2, MainDropped
      <4>9. MainInOrder'
        BY <3>2 DEF MainInv, MainInOrder
      <4> QED
        BY <4>1, <4>4, <4>7, <4>8, <4>9 DEF MainInv
    <3> QED
      BY <3>4, <3>5
  <2>8. ASSUME NEW t \in Loops, RunCallback(t) \/ DefaultPrint(t) PROVE MainInv'
    BY <2>8, MainRuns
  <2>9. ASSUME NEW t \in Loops, DefaultRestore(t) PROVE MainInv'
    <3>1. /\ Moves(t, "reraise") /\ "reraise" \in Phases /\ UNCHANGED <<timers, active, calls>>
      BY <2>9, RestoreStep DEF Phases
    <3> QED
      BY <2>m, <3>1
  <2>10. ASSUME NEW t \in Loops, DefaultRaise(t) PROVE MainInv'
    BY <2>d, <2>10, RaiseAgainStep
  <2> QED
    BY <1>3, <2>1, <2>2, <2>3, <2>4, <2>5, <2>6, <2>7, <2>8, <2>9, <2>10, LoopCases
<1> QED
  BY <1>2, <1>3, NextMoves

-----------------------------------------------------------------------------
(* zsignal_init, and death.                                                 *)

\* Only BootPipe and BootDone move the main thread while it boots.
BootStays == /\ selfpipe' = selfpipe
             /\ Booting \/ Booting' => phase'[Main] = phase[Main]

LEMMA BootFrame ==
  ASSUME Types, LoopInv, EventsInv, LoopMove
  PROVE  boot' = boot /\ (BootPipe \/ BootDone \/ BootStays)
<1> USE DEF Types
<1>1. boot' = boot
  BY DEF LoopMove, Raise, AppInitFails, BootPipe, BootDone, SelfPipeRead, SendNothing,
     SendEvent, SelfPipeLookup, EnterLoop, Sleep, LoopEnds, WakeDue, WakeOther, Wake,
     EndIteration, RunCallback, DefaultPrint, DefaultRestore, DefaultRaise
<1>2. ASSUME selfpipe' = selfpipe, phase' = phase PROVE BootStays
  BY <1>2 DEF BootStays
<1>3. ASSUME selfpipe' = selfpipe, NEW t \in Loops, NEW ph \in Phases \ {"boot", "register"},
             Moves(t, ph), phase[t] \notin {"boot", "register"}
      PROVE  BootStays
  <2>1. phase'[Main] = IF Main = t THEN ph ELSE phase[Main]
    BY <1>3, ThreadFacts DEF Moves, LoopTypes
  <2> QED
    BY <1>3, <2>1 DEF BootStays, Booting
<1>4. ASSUME NEW t \in Loops, EnterLoop(t) \/ Sleep(t) \/ LoopEnds(t) \/ EndIteration(t)
      PROVE  BootStays
  <2>1. phase[t] \notin {"boot", "register"} /\ selfpipe' = selfpipe
    BY <1>4 DEF EnterLoop, Sleep, LoopEnds, EndIteration, InLoop
  <2>2. \E ph \in {"poll", "wait", "gone"} : Moves(t, ph)
    BY <1>4 DEF EnterLoop, Sleep, LoopEnds, EndIteration, Phase, Moves
  <2> QED
    BY <1>3, <2>1, <2>2 DEF Phases
<1>5. ASSUME NEW t \in Loops, WakeDue(t) \/ WakeOther(t) PROVE BootStays
  <2>1. phase[t] = "wait" /\ selfpipe' = selfpipe /\ Moves(t, "dispatch")
    BY <1>5 DEF WakeDue, WakeOther, InLoop, Wake, Phase, Moves
  <2> QED
    BY <1>3, <2>1 DEF Phases
<1>6. ASSUME SelfPipeRead PROVE BootStays
  BY <1>3, <1>6, ReadStep, ThreadFacts DEF Phases
<1>7. ASSUME SendNothing \/ SendEvent PROVE BootStays
  <2>1. SelfPipeLookup
    BY <1>7 DEF SendNothing, SendEvent
  <2> QED
    BY <1>3, <2>1, LookupStep, ThreadFacts DEF Phases
<1>8. ASSUME NEW t \in Loops, RunCallback(t) \/ DefaultPrint(t) PROVE BootStays
  BY <1>2, <1>3, <1>8, RunStep DEF Phases
<1>9. ASSUME NEW t \in Loops, DefaultRestore(t) PROVE BootStays
  BY <1>3, <1>9, RestoreStep DEF Phases
<1>10. ASSUME NEW t \in Loops, DefaultRaise(t) PROVE BootStays
  BY <1>3, <1>10, RaiseAgainStep DEF Phases
<1>11. ASSUME AppInitFails \/ \E s \in Sigs : Raise(s) PROVE BootStays
  BY <1>2, <1>11 DEF AppInitFails, Raise, loops
<1> QED
  BY <1>1, <1>4, <1>5, <1>6, <1>7, <1>8, <1>9, <1>10, <1>11 DEF LoopMove

\* While zsignal_init registers, the only steps of the API are its own.
LEMMA BootCall ==
  ASSUME Types, BootInv, Booting, NEW t \in Threads, call[t] # NoCall
  PROVE  /\ t = Main /\ phase[Main] = "register" /\ call[t].op = "register"
         /\ call[t].at \in {"reg_enter", "reg_store"} /\ call[t].sig \notin boot
         /\ call[t].at = "reg_enter" => users[call[t].sig] = NoUser
BY DEF BootInv, Booting

LEMMA BootInvFrame ==
  ASSUME BootInv, UNCHANGED <<call, users>>, boot' = boot, BootStays
  PROVE  BootInv'
BY DEF BootInv, BootStays, Booting

LEMMA StepBoot ==
  ASSUME Types, TableInv, LoopInv, EventsInv, BootInv, [Next]_vars
  PROVE  BootInv'
<1> USE DEF Types
<1>1. CASE ApiMove
  <2>0. phase' = phase /\ selfpipe' = selfpipe /\ (Booting' <=> Booting)
    BY <1>1, ApiFrame DEF loops, Booting
  <2>1. CASE ~Booting
    BY <2>0, <2>1 DEF BootInv, Booting
  <2>2. ASSUME Booting, NEW t \in Threads, NEW s \in Sigs,
               CallApi(t, "register", s) \/ CallApi(t, "deregister", s) \/ CallApi(t, "reset", s)
                 \/ (t = Main /\ BootRegister(s))
        PROVE  BootInv'
    <3>1. t = Main /\ BootRegister(s)
      BY <2>2 DEF CallApi, Application
    <3>2. /\ phase[Main] = "register" /\ s \in boot /\ boot' = boot \ {s} /\ UNCHANGED users
          /\ EnterCall(Main, "register", "reg_enter", s,
                       IF s \in Ignored THEN "nothing" ELSE "default")
      BY <3>1 DEF BootRegister, table
    <3>3. /\ call'[Main].op = "register" /\ call'[Main].at = "reg_enter" /\ call'[Main].sig = s
          /\ Others(Main)
      <4>1. PICK kind \in {"user", "default", "nothing"} :
               EnterCall(Main, "register", "reg_enter", s, kind)
        BY <3>2
      <4>2. call'[Main] = Begun("register", "reg_enter", s, kind) /\ Others(Main)
        BY <4>1, EnterCallStep, ThreadFacts
      <4> QED
        BY <4>2 DEF Begun
    <3>4. users[s] = NoUser
      BY <2>2, <3>2 DEF BootInv
    <3> QED
      BY <2>0, <2>2, <3>2, <3>3, <3>4 DEF BootInv, Booting, Others
  <2>3. ASSUME Booting, NEW t \in Threads, RegisterRefused(t) PROVE BootInv'
    <3>1. call[t] \in AnyCall /\ call[t].at = "reg_enter" /\ users[call[t].sig].cb # Null
      BY <2>3, RefusedStep
    <3>2. users[call[t].sig] = NoUser
      BY <2>3, <3>1, BootCall DEF AnyCall, NoCall
    <3> QED
      BY <3>1, <3>2 DEF NoUser
  <2>4. ASSUME Booting, NEW t \in Threads, RegisterEnter(t) PROVE BootInv'
    <3>1. /\ call[t] \in AnyCall /\ users' = users /\ boot' = boot
          /\ call'[t].op = call[t].op /\ call'[t].at = "reg_store" /\ call'[t].sig = call[t].sig
          /\ Others(t)
      BY <2>4, RegisterEnterStep DEF RegisterEnter
    <3>2. /\ t = Main /\ phase[Main] = "register" /\ call[t].op = "register"
          /\ call[t].sig \notin boot
      BY <2>4, <3>1, BootCall DEF AnyCall, NoCall
    <3> QED
      BY <2>0, <2>4, <3>1, <3>2 DEF BootInv, Others
  <2>5. ASSUME Booting, NEW t \in Threads, DeregisterEnter(t) PROVE BootInv'
    <3>1. call[t] \in AnyCall /\ call[t].at = "dereg_enter"
      BY <2>5, DeregisterEnterStep
    <3> QED
      BY <2>5, <3>1, BootCall DEF AnyCall, NoCall
  <2>6. ASSUME Booting, NEW t \in Threads, Store(t) PROVE BootInv'
    <3>1. /\ call[t] \in AnyCall /\ call[t].at \in {"reg_store", "dereg_store"} /\ boot' = boot
          /\ StoreField(t, Head(call[t].todo)) \/ users' = users
          /\ call'[t].op = call[t].op /\ call'[t].at = call[t].at /\ call'[t].sig = call[t].sig
          /\ Others(t)
      BY <2>6, StoreStep DEF Store
    <3>2. /\ t = Main /\ phase[Main] = "register" /\ call[t].op = "register"
          /\ call[t].at = "reg_store" /\ call[t].sig \notin boot
      BY <2>6, <3>1, BootCall DEF AnyCall, NoCall
    <3>3. \A s \in Sigs : s # call[t].sig => users'[s] = users[s]
      BY <3>1, StoreFieldFacts
    <3>4. boot \subseteq Sigs
      BY DisposFacts DEF ProcTypes, AtBoot
    <3>5. \A s \in boot' : users'[s] = NoUser
      BY <2>6, <3>1, <3>2, <3>3, <3>4 DEF BootInv
    <3> QED
      BY <2>0, <2>6, <3>1, <3>2, <3>5 DEF BootInv, Others
  <2>7. ASSUME Booting, NEW t \in Threads, Leave(t) PROVE BootInv'
    <3>1. /\ call[t] \in AnyCall /\ users' = users /\ boot' = boot
          /\ call'[t] = NoCall \/ call[t].op = "reset"
          /\ Others(t)
      BY <2>7, LeaveStep DEF Leave
    <3>2. t = Main /\ phase[Main] = "register" /\ call[t].op = "register"
      BY <2>7, <3>1, BootCall DEF AnyCall, NoCall
    <3> QED
      BY <2>0, <2>7, <3>1, <3>2 DEF BootInv, Others
  <2>8. CASE Booting
    BY <1>1, <2>2, <2>3, <2>4, <2>5, <2>6, <2>7, <2>8, ApiCases
  <2> QED
    BY <2>1, <2>8
<1>2. CASE UNCHANGED vars
  BY <1>2, BootInvFrame DEF vars, table, loops, BootStays
<1>3. CASE LoopMove
  <2>1. UNCHANGED <<call, users>> /\ boot' = boot
    BY <1>3, LoopFrame, BootFrame DEF table
  <2>2. CASE BootStays
    BY <2>1, <2>2, BootInvFrame
  <2>3. CASE BootPipe \/ BootDone
    <3>1. /\ phase[Main] \in {"boot", "register"} /\ phase'[Main] \in {"register", "start"}
          /\ call[Main] = NoCall
      BY <2>3, ThreadFacts DEF BootPipe, BootDone, Phase, LoopTypes, BootInv
    <3> QED
      BY <2>1, <3>1 DEF BootInv, Booting
  <2> QED
    BY <1>3, <2>2, <2>3, BootFrame
<1> QED
  BY <1>1, <1>2, <1>3, NextMoves

\* A signal of zsignal_init's that is not being installed any more.
Handled(s) == disp[s] = "handler" \/ s \in printed

LEMMA StepHandlers ==
  ASSUME Types, TableInv, LoopInv, EventsInv, BootInv, HandlersInv, [Next]_vars
  PROVE  HandlersInv'
<1> USE DEF Types
<1>1. ASSUME selfpipe = "read", NEW s \in AtBoot
      PROVE  (s \in boot /\ Booting) \/ Installing(s) \/ Handled(s)
  BY <1>1 DEF HandlersInv, Handled
<1>2. CASE ApiMove
  <2>0. /\ proc' = "running" /\ phase' = phase /\ UNCHANGED <<selfpipe, printed>>
        /\ (Booting' <=> Booting)
    BY <1>2, ApiFrame DEF loops, Booting
  <2>1. RecordBeforeDeath'
    BY <2>0 DEF RecordBeforeDeath
  <2> DEFINE Goal == \A s \in AtBoot : selfpipe = "read" =>
                        ((s \in boot /\ Booting) \/ Installing(s) \/ Handled(s))'
  <2>2. ASSUME NEW t \in Threads, NEW r \in Sigs,
               CallApi(t, "register", r) \/ CallApi(t, "deregister", r) \/ CallApi(t, "reset", r)
                 \/ (t = Main /\ BootRegister(r))
        PROVE  Goal
    <3>1. /\ call[t] = NoCall /\ call'[t] \in AnyCall /\ call'[t].sig = r /\ disp' = disp
          /\ Others(t)
      BY <2>2, CallBegins
    <3>2. CASE t = Main /\ BootRegister(r)
      <4>1. /\ phase[Main] = "register" /\ boot' = boot \ {r} /\ call[Main] = NoCall
        BY <3>2 DEF BootRegister
      <4>2. Installing(r)'
        <5>1. EnterCall(Main, "register", "reg_enter", r,
                        IF r \in Ignored THEN "nothing" ELSE "default")
          BY <3>2 DEF BootRegister
        <5>2. PICK kind \in {"user", "default", "nothing"} :
                 EnterCall(Main, "register", "reg_enter", r, kind)
          BY <5>1
        <5>3. call'[Main] = Begun("register", "reg_enter", r, kind)
          BY <5>2, EnterCallStep, ThreadFacts
        <5> QED
          BY <2>0, <3>1, <3>2, <4>1, <5>3 DEF Installing, Begun, AnyCall, NoCall
      <4>3. \A s \in AtBoot : ~Installing(s)
        BY <4>1 DEF Installing
      <4> QED
        BY <1>1, <2>0, <3>1, <4>1, <4>2, <4>3 DEF Handled
    <3>3. CASE ~Booting
      <4>1. \A s \in AtBoot : ~Installing(s)
        BY <3>3 DEF Installing, Booting
      <4> QED
        BY <1>1, <2>0, <3>1, <3>3, <4>1 DEF Handled
    <3> QED
      BY <2>2, <3>2, <3>3 DEF CallApi, Application
  <2>a. ASSUME NEW t \in Threads, call[t] # NoCall, boot' = boot, Others(t),
               \A s \in AtBoot : Handled(s) => Handled(s)',
               Booting => \A s \in AtBoot : Installing(s) => Installing(s)' \/ Handled(s)'
        PROVE  Goal
    <3>1. \A s \in AtBoot : Installing(s) => Booting
      BY DEF Installing, Booting
    <3> QED
      BY <1>1, <2>0, <2>a, <3>1
  <2>h. ASSUME disp' = disp PROVE \A s \in AtBoot : Handled(s) => Handled(s)'
    BY <2>0, <2>h DEF Handled
  <2>3. ASSUME NEW t \in Threads, RegisterRefused(t) PROVE Goal
    <3>1. /\ call[t] \in AnyCall /\ call[t].at = "reg_enter" /\ users[call[t].sig].cb # Null
          /\ Others(t) /\ disp' = disp /\ boot' = boot
      BY <2>3, RefusedStep DEF RegisterRefused
    <3>2. call[t] # NoCall
      BY <3>1 DEF AnyCall, NoCall
    <3>3. ~Booting
      BY <3>1, <3>2, BootCall DEF NoUser
    <3> QED
      BY <2>a, <2>h, <3>1, <3>2, <3>3
  <2>4. ASSUME NEW t \in Threads, RegisterEnter(t) PROVE Goal
    <3>1. /\ call[t] \in AnyCall /\ call'[t] \in AnyCall
          /\ call'[t].todo = <<"cb", "ctxt", "evbase", "install">>
          /\ call'[t].sig = call[t].sig
          /\ Others(t) /\ disp' = disp /\ boot' = boot
      BY <2>4, RegisterEnterStep DEF RegisterEnter
    <3>2. call[t] # NoCall /\ call'[t] # NoCall
      BY <3>1 DEF AnyCall, NoCall
    <3>3. ASSUME Booting, NEW s \in AtBoot, Installing(s) PROVE Installing(s)'
      <4>1. t = Main
        BY <3>2, <3>3, BootCall
      <4>2. 4 \in DOMAIN call'[t].todo /\ call'[t].todo[4] = "install"
        BY <3>1
      <4>3. ToStore(Main, "install")'
        BY <4>1, <4>2 DEF ToStore
      <4> QED
        BY <2>0, <3>1, <3>2, <3>3, <4>1, <4>3 DEF Installing
    <3> QED
      BY <2>a, <2>h, <3>1, <3>2, <3>3
  <2>5. ASSUME NEW t \in Threads, DeregisterEnter(t) PROVE Goal
    <3>1. /\ call[t] \in AnyCall /\ call[t].at = "dereg_enter"
          /\ Others(t) /\ disp' = disp /\ boot' = boot
      BY <2>5, DeregisterEnterStep DEF DeregisterEnter
    <3>2. call[t] # NoCall
      BY <3>1 DEF AnyCall, NoCall
    <3>3. ~Booting
      BY <3>1, <3>2, BootCall
    <3> QED
      BY <2>a, <2>h, <3>1, <3>2, <3>3
  <2>6. ASSUME NEW t \in Threads, Store(t) PROVE Goal
    <3>1. /\ call[t] \in AnyCall /\ call[t].at \in {"reg_store", "dereg_store"}
          /\ call[t].todo # <<>>
          /\ \/ StoreField(t, Head(call[t].todo))
             \/ /\ Head(call[t].todo) = "install"
                /\ disp' = [disp EXCEPT ![call[t].sig] = "handler"]
          /\ call'[t] \in AnyCall /\ call'[t].todo = Tail(call[t].todo)
          /\ call'[t].sig = call[t].sig /\ Others(t) /\ boot' = boot
      BY <2>6, StoreStep DEF Store
    <3>2. call[t] # NoCall /\ call'[t] # NoCall /\ call[t].sig \in Sigs
      BY <3>1 DEF AnyCall, NoCall
    <3>3. disp' = disp \/ disp' = [disp EXCEPT ![call[t].sig] = "handler"]
      BY <3>1 DEF StoreField
    <3>4. \A s \in AtBoot : Handled(s) => Handled(s)'
      BY <2>0, <3>3, DisposFacts DEF Handled, TableTypes
    <3>5. ASSUME Booting, NEW s \in AtBoot, Installing(s) PROVE Installing(s)' \/ Handled(s)'
      <4>1. t = Main /\ s = call[t].sig
        BY <3>2, <3>5, BootCall DEF Installing
      <4>2. CASE Head(call[t].todo) = "install"
        <5>1. disp' = [disp EXCEPT ![call[t].sig] = "handler"]
          BY <3>1, <4>2 DEF StoreField
        <5> QED
          BY <3>2, <4>1, <5>1 DEF Handled, TableTypes
      <4>3. CASE Head(call[t].todo) # "install"
        <5> DEFINE q == call[t].todo
        <5>1. q # <<>> /\ q \in Seq({"cb", "ctxt", "evbase", "install"})
          BY <3>1 DEF AnyCall
        <5>2. PICK i \in DOMAIN q : q[i] = "install"
          BY <3>1, <3>5, <4>1 DEF Installing, ToStore
        <5> HIDE DEF q
        <5>3. i # 1 => i - 1 \in DOMAIN Tail(q) /\ Tail(q)[i - 1] = q[i]
          BY <5>1, TailFacts
        <5>4. i # 1
          BY <4>3, <5>1, <5>2, TailFacts DEF q
        <5>5. ToStore(Main, "install")'
          BY <3>1, <4>1, <5>2, <5>3, <5>4 DEF ToStore, q
        <5> QED
          BY <2>0, <3>1, <3>2, <3>5, <4>1, <5>5 DEF Installing
      <4> QED
        BY <4>2, <4>3
    <3> QED
      BY <2>a, <3>1, <3>2, <3>4, <3>5
  <2>7. ASSUME NEW t \in Threads, Leave(t) PROVE Goal
    <3>1. /\ call[t] \in AnyCall /\ call[t].at \in {"reg_store", "dereg_store"}
          /\ call[t].todo = <<>> /\ disp' = disp /\ Others(t) /\ boot' = boot
      BY <2>7, LeaveStep DEF Leave
    <3>2. call[t] # NoCall
      BY <3>1 DEF AnyCall, NoCall
    <3>3. ASSUME Booting, NEW s \in AtBoot PROVE ~Installing(s)
      <4>1. t = Main
        BY <3>2, <3>3, BootCall
      <4> QED
        BY <3>1, <4>1 DEF Installing, ToStore
    <3> QED
      BY <2>a, <2>h, <3>1, <3>2, <3>3
  <2> HIDE DEF Goal
  <2>8. Goal
    BY <1>2, <2>2, <2>3, <2>4, <2>5, <2>6, <2>7, ApiCases
  <2> QED
    BY <2>0, <2>1, <2>8 DEF Goal, HandlersInv, Handled
<1>3. CASE UNCHANGED vars
  BY <1>3 DEF vars, table, loops, HandlersInv, RecordBeforeDeath, Booting, Installing, ToStore
<1>4. CASE LoopMove
  <2>1. proc = "running" /\ UNCHANGED call /\ boot' = boot
        /\ (BootPipe \/ BootDone \/ BootStays)
    BY <1>4, LoopFrame, BootFrame
  <2>2. printed \subseteq printed' /\ \A s \in AtBoot : Handled(s) => Handled(s)'
    <3>1. ASSUME NEW t \in Loops, DefaultRestore(t)
          PROVE  printed' = printed /\ \A s \in AtBoot : Handled(s) => Handled(s)'
      <4>1. /\ Busy(t) /\ printed' = printed
            /\ disp' = [disp EXCEPT ![active[t][1].sig] = "default"]
        BY <3>1, RestoreStep DEF Busy
      <4>2. active[t][1].sig \in printed
        BY <4>1 DEF LoopInv
      <4> QED
        BY <4>1, <4>2, DisposFacts DEF Handled, TableTypes
    <3>2. ASSUME ~\E t \in Loops : DefaultRestore(t)
          PROVE  disp' = disp /\ printed \subseteq printed'
      BY <1>4, <3>2 DEF LoopMove, Raise, AppInitFails, BootPipe, BootDone, SelfPipeRead,
         SendNothing, SendEvent, SelfPipeLookup, EnterLoop, Sleep, LoopEnds, WakeDue, WakeOther,
         Wake, EndIteration, RunCallback, DefaultPrint, DefaultRaise, Recorded
    <3> QED
      BY <3>1, <3>2 DEF Handled
  <2>3. ASSUME selfpipe' = "read", NEW s \in AtBoot
        PROVE  ((s \in boot /\ Booting) \/ Installing(s) \/ Handled(s))'
    <3>1. CASE BootPipe
      <4>1. boot = AtBoot /\ phase[Main] = "boot" /\ selfpipe = "closed"
        BY <3>1 DEF BootPipe, BootInv
      <4>2. phase'[Main] = "register"
        BY <2>3, <3>1, <4>1, ThreadFacts DEF BootPipe, Phase, LoopTypes
      <4> QED
        BY <2>1, <4>1, <4>2 DEF Booting
    <3>2. CASE BootDone
      <4>1. boot = {} /\ call[Main] = NoCall /\ selfpipe = "read"
        BY <2>3, <3>2 DEF BootDone
      <4> QED
        BY <1>1, <2>2, <4>1 DEF Installing
    <3>3. CASE BootStays
      <4>1. selfpipe = "read" /\ (Booting => Booting' /\ phase'[Main] = phase[Main])
        BY <2>3, <3>3 DEF BootStays, Booting
      <4>2. Installing(s) => Installing(s)'
        BY <2>1, <4>1 DEF Installing, Booting, ToStore
      <4> QED
        BY <1>1, <2>1, <2>2, <4>1, <4>2
    <3> QED
      BY <2>1, <3>1, <3>2, <3>3
  <2>4. RecordBeforeDeath'
    <3>1. ASSUME NEW s \in Sigs, Arrive(s), selfpipe' = selfpipe, printed' = printed,
                 Booting => Booting'
          PROVE  RecordBeforeDeath'
      <4>1. (disp[s] = "default" /\ killer' = s) \/ proc' = proc
        BY <3>1 DEF Arrive
      <4>2. ASSUME disp[s] = "default", selfpipe = "read", ~Booting, s \in AtBoot PROVE s \in printed
        BY <1>1, <4>2 DEF Handled, Installing, Booting
      <4> QED
        BY <2>1, <3>1, <4>1, <4>2 DEF RecordBeforeDeath, AtBoot
    <3>2. ASSUME NEW s \in Sigs, Raise(s) PROVE RecordBeforeDeath'
      BY <3>1, <3>2 DEF Raise, loops, Booting
    <3>3. ASSUME NEW t \in Loops, DefaultRaise(t) PROVE RecordBeforeDeath'
      <4>1. /\ Busy(t) /\ Arrive(active[t][1].sig) /\ UNCHANGED <<selfpipe, printed>>
            /\ Moves(t, "dispatch") /\ phase[t] = "reraise"
        BY <3>3, RaiseAgainStep DEF Busy, DefaultRaise
      <4>2. active[t][1].sig \in Sigs
        BY <4>1, BusyFacts
      <4>3. Booting => Booting'
        BY <4>1, ThreadFacts DEF Booting, Moves, LoopTypes
      <4> QED
        BY <3>1, <4>1, <4>2, <4>3
    <3>4. ASSUME \A t \in Loops : ~DefaultRaise(t), \A s \in Sigs : ~Raise(s)
          PROVE  proc' # "killed"
      BY <1>4, <2>1, <3>4 DEF LoopMove, AppInitFails, BootPipe, BootDone, SelfPipeRead,
         SendNothing, SendEvent, SelfPipeLookup, EnterLoop, Sleep, LoopEnds, WakeDue, WakeOther,
         Wake, EndIteration, RunCallback, DefaultPrint, DefaultRestore
    <3> QED
      BY <3>2, <3>3, <3>4 DEF RecordBeforeDeath
  <2> QED
    BY <2>3, <2>4 DEF HandlersInv, Handled
<1> QED
  BY <1>2, <1>3, <1>4, NextMoves

-----------------------------------------------------------------------------
(* The numbers of the registrations, and the invariant.                     *)

LEMMA StepIds ==
  ASSUME Types, TableInv, LoopInv, EventsInv, IdsInv, [Next]_vars
  PROVE  IdsInv'
<1> USE DEF Types
<1>1. RegsKept /\ Len(regs) \in Nat
  BY HistoryKept, LenProperties DEF TableTypes
<1>2. /\ Ids \subseteq Nat /\ Null \in Ids /\ Users \subseteq AnyUser
      /\ Ids \subseteq Ids' /\ Users \subseteq Users' /\ ApiCalls \subseteq ApiCalls'
  <2>1. Ids \subseteq Ids' /\ Ids \subseteq Nat /\ Null \in Ids
    <3>1. regs' \in Seq(AnyReg)
      BY StepTableTypes DEF TableTypes
    <3>2. Len(regs') \in Nat
      BY <3>1, LenProperties
    <3> QED
      BY <1>1, <3>2 DEF Ids, RegsKept, Null
  <2> QED
    BY <2>1 DEF Users, AnyUser, ApiCalls
<1>3. ASSUME NEW t \in Threads, call[t] \in AnyCall
      PROVE  /\ call[t] \in ApiCalls /\ Entry(t) \in Users
             /\ \A c \in AnyCall : c.id \in Ids' => c \in ApiCalls'
  <2>1. call[t] \in ApiCalls
    BY <1>3 DEF IdsInv, AnyCall, NoCall
  <2>2. Base(t) \in Loops \cup {NoOne} /\ call[t].id \in Ids
    BY <2>1, ThreadFacts DEF ApiCalls
  <2> QED
    BY <1>2, <2>1, <2>2 DEF Entry, NoUser, Users, ApiCalls, AnyCall
<1>4. ASSUME NEW t \in Threads, Others(t), call'[t] \in ApiCalls' \cup {NoCall}
      PROVE  call' \in [Threads -> ApiCalls' \cup {NoCall}]
  <2>1. call' \in [Threads -> AnyCall \cup {NoCall}]
    BY StepTableTypes DEF TableTypes
  <2>2. \A u \in Threads : call'[u] \in ApiCalls' \cup {NoCall}
    BY <1>2, <1>4 DEF Others, IdsInv
  <2> QED
    BY <2>1, <2>2
<1>5. ASSUME users' = users PROVE users' \in [Sigs -> Users']
  BY <1>2, <1>5 DEF IdsInv
<1>6. CASE ApiMove
  <2>1. ASSUME NEW t \in Threads, NEW s \in Sigs,
               CallApi(t, "register", s) \/ CallApi(t, "deregister", s) \/ CallApi(t, "reset", s)
                 \/ (t = Main /\ BootRegister(s))
        PROVE  IdsInv'
    <3>1. Others(t) /\ users' = users
      BY <2>1, CallBegins DEF table
    <3>2. call'[t] \in AnyCall /\ call'[t].id = 0
      <4>1. \E op \in {"register", "deregister", "reset"}, at \in {"reg_enter", "dereg_enter"},
               kind \in {"user", "default", "nothing"} : EnterCall(t, op, at, s, kind)
        BY <2>1 DEF CallApi, BootRegister
      <4>2. PICK op \in {"register", "deregister", "reset"}, at \in {"reg_enter", "dereg_enter"},
               kind \in {"user", "default", "nothing"} : EnterCall(t, op, at, s, kind)
        BY <4>1
      <4>3. call'[t] = Begun(op, at, s, kind) /\ Begun(op, at, s, kind) \in AnyCall
        BY <4>2, EnterCallStep
      <4> QED
        BY <4>3 DEF Begun
    <3>3. call'[t] \in ApiCalls'
      <4>1. 0 \in Ids'
        BY <1>2 DEF Null
      <4> QED
        BY <3>2, <4>1 DEF ApiCalls, AnyCall
    <3> QED
      BY <1>4, <1>5, <3>1, <3>3 DEF IdsInv
  <2>2. ASSUME NEW t \in Threads, RegisterRefused(t) PROVE IdsInv'
    BY <1>4, <1>5, <2>2, RefusedStep DEF IdsInv
  <2>3. ASSUME NEW t \in Threads, RegisterEnter(t) PROVE IdsInv'
    <3>1. /\ call'[t] \in AnyCall /\ call'[t].id = Len(regs) + 1 /\ Others(t) /\ users' = users
          /\ regs' = Append(regs, [by |-> t, sig |-> call[t].sig, kind |-> call[t].kind])
          /\ [by |-> t, sig |-> call[t].sig, kind |-> call[t].kind] \in AnyReg
      BY <2>3, RegisterEnterStep
    <3>2. Len(regs') = Len(regs) + 1
      BY <3>1, AppendFacts DEF TableTypes
    <3>3. call'[t].id \in Ids'
      BY <1>1, <3>1, <3>2 DEF Ids
    <3>4. call'[t] \in ApiCalls'
      BY <3>1, <3>3 DEF ApiCalls, AnyCall
    <3> QED
      BY <1>4, <1>5, <3>1, <3>4 DEF IdsInv
  <2>4. ASSUME NEW t \in Threads, DeregisterEnter(t) PROVE IdsInv'
    <3>1. /\ call[t] \in AnyCall /\ call'[t] \in AnyCall /\ users' = users /\ Others(t)
      BY <2>4, DeregisterEnterStep
    <3>2. call'[t].id = call[t].id
      <4>1. call' = [call EXCEPT ![t].at = "dereg_store", ![t].todo = <<"evbase", "cb", "ctxt">>]
        BY <2>4 DEF DeregisterEnter
      <4> DEFINE td == <<"evbase", "cb", "ctxt">>
      <4> HIDE DEF td
      <4>2. call'[t] = [call[t] EXCEPT !.at = "dereg_store", !.todo = td]
        BY <4>1 DEF TableTypes, td
      <4> QED
        BY <3>1, <4>2 DEF AnyCall
    <3>3. call'[t].id \in Ids'
      BY <1>2, <1>3, <3>1, <3>2 DEF ApiCalls
    <3>4. call'[t] \in ApiCalls'
      BY <3>1, <3>3 DEF ApiCalls, AnyCall
    <3> QED
      BY <1>4, <1>5, <3>1, <3>4 DEF IdsInv
  <2>5. ASSUME NEW t \in Threads, Store(t) PROVE IdsInv'
    <3>1. /\ call[t] \in AnyCall /\ call'[t] \in AnyCall /\ call'[t].id = call[t].id /\ Others(t)
          /\ StoreField(t, Head(call[t].todo)) \/ users' = users
      BY <2>5, StoreStep
    <3>2. call'[t].id \in Ids'
      BY <1>2, <1>3, <3>1 DEF ApiCalls
    <3>3. call'[t] \in ApiCalls'
      BY <3>1, <3>2 DEF ApiCalls, AnyCall
    <3>4. ASSUME NEW field, StoreField(t, field) PROVE users' \in [Sigs -> Users']
      <4> DEFINE s == call[t].sig
      <4>1. s \in Sigs /\ users[s] \in Users /\ Entry(t) \in Users
        BY <1>3, <3>1 DEF AnyCall, IdsInv
      <4>2. /\ users' \in [Sigs -> AnyUser]
            /\ \A r \in Sigs : r # s => users'[r] = users[r]
            /\ users'[s][field] = Entry(t)[field]
            /\ \A g \in {"cb", "ctxt", "evbase"} : g # field => users'[s][g] = users[s][g]
        BY <3>1, <3>4, StoreFieldFacts
      <4>3. field \in {"cb", "ctxt", "evbase"}
        BY <3>4 DEF StoreField
      <4>4. users'[s].cb \in Ids /\ users'[s].ctxt \in Ids /\ users'[s] \in AnyUser
        BY <4>1, <4>2, <4>3 DEF Users
      <4>5. users'[s] \in Users
        BY <4>4 DEF Users, AnyUser
      <4>6. \A r \in Sigs : users'[r] \in Users
        BY <4>2, <4>5 DEF IdsInv
      <4> QED
        BY <1>2, <4>2, <4>6
    <3> QED
      BY <1>4, <1>5, <3>1, <3>3, <3>4 DEF IdsInv
  <2>6. ASSUME NEW t \in Threads, Leave(t) PROVE IdsInv'
    <3>1. /\ call[t] \in AnyCall /\ users' = users /\ Others(t)
          /\ call'[t] = NoCall \/ call'[t] \in AnyCall
      BY <2>6, LeaveStep
    <3>2. call'[t] = NoCall \/ call'[t].id = call[t].id
      <4>1. CASE call' = [call EXCEPT ![t] = NoCall]
        BY <4>1 DEF TableTypes
      <4>2. CASE call' = [call EXCEPT ![t].at = "reg_enter"]
        <5>1. call'[t] = [call[t] EXCEPT !.at = "reg_enter"]
          BY <4>2 DEF TableTypes
        <5> QED
          BY <3>1, <5>1 DEF AnyCall
      <4> QED
        BY <2>6, <4>1, <4>2 DEF Leave
    <3>3. call'[t] = NoCall \/ call'[t].id \in Ids'
      BY <1>2, <1>3, <3>1, <3>2 DEF ApiCalls
    <3>4. call'[t] = NoCall \/ call'[t] \in ApiCalls'
      BY <3>1, <3>3 DEF ApiCalls, AnyCall
    <3> QED
      BY <1>4, <1>5, <3>1, <3>4 DEF IdsInv
  <2> QED
    BY <1>6, <2>1, <2>2, <2>3, <2>4, <2>5, <2>6, ApiCases
<1>7. CASE LoopMove \/ UNCHANGED vars
  <2>1. UNCHANGED <<users, call, regs>>
    BY <1>7, LoopFrame DEF vars, table
  <2> QED
    BY <1>2, <2>1 DEF IdsInv
<1> QED
  BY <1>6, <1>7, NextMoves

LEMMA Invariant == Spec => []IInv
<1>1. IInv /\ [Next]_vars => IInv'
  BY StepTableTypes, StepSignalTypes, StepLoopTypes, StepProcTypes, StepTable, StepLoopInv,
     StepEvents, StepPipe, StepSent, StepMain, StepBoot, StepHandlers, StepIds DEF IInv, Types
<1> QED
  BY InitInv, <1>1, PTL DEF Spec

-----------------------------------------------------------------------------
(* What follows from the invariant.                                         *)

LEMMA TypesHold == IInv => TypeOK
<1> SUFFICES ASSUME IInv PROVE TypeOK
  OBVIOUS
<1> USE DEF IInv, Types
<1>1. Len(caught) \in Nat /\ Len(regs) \in Nat
  BY LenProperties DEF SignalTypes, TableTypes
<1>2. Numbers \subseteq 0 .. Len(caught) /\ 1 .. Len(regs) \subseteq Ids /\ 0 \in Ids
  BY <1>1 DEF Numbers, Ids
<1>3. ASSUME NEW e \in AnyEvent, NEW t \in Loops, e = SelfPipe \/ EventOf(e, t)
      PROVE  e \in Events
  <2>1. CASE e = SelfPipe
    BY <1>1, <1>2, <2>1 DEF SelfPipe, Events, Null
  <2>2. CASE EventOf(e, t)
    BY <1>2, <2>2 DEF EventOf, AnyEvent, Events
  <2> QED
    BY <1>3, <2>1, <2>2
<1>4. timers \in [Loops -> SUBSET Events]
  BY <1>3 DEF LoopTypes, EventsInv
<1>5. active \in [Loops -> Seq(Events)]
  <2>1. ASSUME NEW t \in Loops PROVE active[t] \in Seq(Events)
    <3> DEFINE q == active[t]
    <3>1. q \in Seq(AnyEvent)
      BY DEF LoopTypes
    <3>2. \A i \in DOMAIN q : q[i] = SelfPipe \/ EventOf(q[i], t)
      BY DEF EventsInv
    <3> HIDE DEF q
    <3>3. Len(q) \in Nat /\ DOMAIN q = 1 .. Len(q) /\ q \in [1 .. Len(q) -> AnyEvent]
      BY <3>1, LenProperties
    <3>4. q \in [1 .. Len(q) -> Events]
      BY <1>3, <3>2, <3>3
    <3>5. q \in Seq(Events)
      BY <3>3, <3>4
    <3> QED
      BY <3>5 DEF q
  <2> QED
    BY <2>1 DEF LoopTypes
<1>6. calls \in Seq([n : Numbers, cb : Ids, ctxt : Ids, on : Loops])
  <2> DEFINE Run == [n : Numbers, cb : Ids, ctxt : Ids, on : Loops]
  <2>1. Len(calls) \in Nat /\ DOMAIN calls = 1 .. Len(calls) /\ calls \in [1 .. Len(calls) -> AnyRun]
    BY LenProperties DEF LoopTypes
  <2>2. \A c \in 1 .. Len(calls) : calls[c] \in Run
    BY <1>2, <2>1 DEF EventsInv, AnyRun
  <2> HIDE DEF Run
  <2>3. calls \in [1 .. Len(calls) -> Run]
    BY <2>1, <2>2
  <2>4. calls \in Seq(Run)
    BY <2>1, <2>3
  <2> QED
    BY <2>4 DEF Run
<1>7. pipe \in Seq(Numbers)
  <2>1. Len(pipe) \in Nat /\ DOMAIN pipe = 1 .. Len(pipe) /\ pipe \in [1 .. Len(pipe) -> Nat]
    BY LenProperties DEF SignalTypes
  <2>2. pipe \in [1 .. Len(pipe) -> Numbers]
    BY <2>1 DEF PipeInv
  <2> QED
    BY <2>1, <2>2
<1>8. inhand \in 0 .. Len(caught)
  <2>1. CASE inhand = 0
    BY <1>1, <2>1
  <2>2. CASE inhand # 0
    BY <1>1, <2>2 DEF PipeInv, Numbers
  <2> QED
    BY <2>1, <2>2
<1>9. /\ phase \in [Threads -> {"boot", "register", "start", "poll", "wait", "gone", "dispatch",
                                "lookup", "restore", "reraise"}]
      /\ armed \in [Loops -> BOOLEAN]
  BY DEF LoopTypes, Phases
<1>10. /\ users \in [Sigs -> Users] /\ disp \in [Sigs -> {"default", "handler"}]
       /\ mtx \in Threads \cup {NoOne}
       /\ call \in [Threads -> ApiCalls \cup {NoCall}]
       /\ regs \in Seq([by : Threads, sig : Sigs, kind : {"user", "default", "nothing"}])
  BY DEF IdsInv, TableTypes, AnyReg
<1>11. Len(pipe) <= PipeCap /\ caught \in Seq(Sigs) /\ lost \subseteq Numbers
  BY DEF SignalTypes, PipeInv
<1>12. ProcTypes
  OBVIOUS
<1> QED
  BY <1>4, <1>5, <1>6, <1>7, <1>8, <1>9, <1>10, <1>11, <1>12 DEF TypeOK, ProcTypes

\* Every variable keeps its type, the pipe its capacity, and every registration
\* number in the table, in a call, a timer or a callback that was run is that of
\* a registration made.
THEOREM TypeCorrect == Spec => []TypeOK
BY Invariant, TypesHold, PTL

\* Whoever looks at the table under the mutex sees, for each signal, nothing or
\* one registration for that signal as a whole: its callback, its context and the
\* loop of the thread that made it (zsignal.cc:210-240, 339-381).
THEOREM TableWholeUnderMutex == Spec => [](mtx = NoOne => \A s \in Sigs : Whole(s))
<1>1. IInv => (mtx = NoOne => \A s \in Sigs : Whole(s))
  BY WholeWhenFree DEF IInv
<1> QED
  BY Invariant, <1>1, PTL

\* The callbacks of the main loop run in the order their signals were caught, for
\* any number of signals, threads and loops.
THEOREM MainLoopInOrder == Spec => []MainInOrder
<1>1. IInv => MainInOrder
  BY DEF IInv, MainInv
<1> QED
  BY Invariant, <1>1, PTL

\* Once zsignal_init is done no signal it registered a callback for kills the
\* process before its error record, whatever the application registers,
\* deregisters and resets in however many threads.
THEOREM RecordFirst == Spec => []RecordBeforeDeath
<1>1. IInv => RecordBeforeDeath
  BY DEF IInv, HandlersInv
<1> QED
  BY Invariant, <1>1, PTL

-----------------------------------------------------------------------------
(* ZSignal implements SignalDelivery.                                       *)

\* What SignalDelivery sees.
Regs   == [k \in DOMAIN regs |-> [by |-> regs[k].by, sig |-> regs[k].sig]]
Status == [n \in DOMAIN caught |-> [sig |-> caught[n], state |-> State(n)]]

LEMMA MappedAppend ==
  ASSUME NEW S, NEW n \in Nat, NEW f \in [1 .. n -> S], NEW g \in [1 .. n + 1 -> S],
         \A i \in 1 .. n : g[i] = f[i]
  PROVE  g = Append(f, g[n + 1])
<1>1. f \in Seq(S) /\ g \in Seq(S) /\ g[n + 1] \in S
  OBVIOUS
<1>2. Len(f) = n /\ Len(g) = n + 1
  <2>1. DOMAIN f = 1 .. n /\ DOMAIN g = 1 .. n + 1
    OBVIOUS
  <2>2. Len(f) \in Nat /\ Len(g) \in Nat /\ DOMAIN f = 1 .. Len(f) /\ DOMAIN g = 1 .. Len(g)
    BY <1>1, LenProperties
  <2> QED
    BY <2>1, <2>2
<1> DEFINE h == Append(f, g[n + 1])
<1>3. h \in Seq(S) /\ Len(h) = n + 1 /\ \A i \in 1 .. n : h[i] = f[i]
  BY <1>1, <1>2, AppendFacts
<1>4. h[n + 1] = g[n + 1]
  BY <1>1, <1>2, AppendFacts
<1> HIDE DEF h
<1>5. \A i \in 1 .. n + 1 : g[i] = h[i]
  BY <1>3, <1>4
<1>6. g = h
  BY <1>1, <1>2, <1>3, <1>5, SeqEqual
<1> QED
  BY <1>6 DEF h

LEMMA PromiseStutters ==
  ASSUME UNCHANGED <<regs, caught, calls, lost>>
  PROVE  UNCHANGED Promise!vars
BY DEF Promise!vars, State

Regist   == [by : Threads, sig : Sigs]
Statuses == [sig : Sigs, state : {"pending", "lost", "called"}]

Mapped ==
    /\ Len(regs) \in Nat /\ DOMAIN regs = 1 .. Len(regs)
    /\ Len(caught) \in Nat /\ DOMAIN caught = Numbers /\ Numbers = 1 .. Len(caught)
    /\ Regs \in [1 .. Len(regs) -> Regist]
    /\ Status \in [1 .. Len(caught) -> Statuses]

LEMMA MapTypes == Types => Mapped
<1> SUFFICES ASSUME Types PROVE Mapped
  OBVIOUS
<1>1. Len(regs) \in Nat /\ DOMAIN regs = 1 .. Len(regs) /\ regs \in [1 .. Len(regs) -> AnyReg]
  BY LenProperties DEF Types, TableTypes
<1>2. Len(caught) \in Nat /\ DOMAIN caught = 1 .. Len(caught) /\ caught \in [1 .. Len(caught) -> Sigs]
  BY LenProperties DEF Types, SignalTypes
<1>3. Regs \in [1 .. Len(regs) -> Regist]
  BY <1>1 DEF Regs, Regist, AnyReg
<1>4. \A n : State(n) \in {"pending", "lost", "called"}
  BY DEF State
<1>5. Status \in [1 .. Len(caught) -> Statuses]
  BY <1>2, <1>4 DEF Status, Statuses
<1> QED
  BY <1>1, <1>2, <1>3, <1>5 DEF Numbers, Mapped

LEMMA MapTypesNext == Types' => Mapped'
BY MapTypes, PTL

\* A registration.
LEMMA PromiseRegisters ==
  ASSUME Types, Types', NEW t \in Threads, RegisterEnter(t)
  PROVE  Promise!Next
<1>0. PICK s \in Sigs : s = call[t].sig
  BY RegisterEnterStep DEF Types, AnyCall
<1> DEFINE new == [by |-> t, sig |-> s, kind |-> call[t].kind]
           k == Len(regs) + 1
<1>1. /\ regs' = Append(regs, new) /\ new \in AnyReg /\ UNCHANGED <<caught, calls, lost>>
  BY <1>0, RegisterEnterStep DEF Types, RegisterEnter, signals
<1>3. new.by = t /\ new.sig = s
  OBVIOUS
<1> HIDE DEF new
<1>4. /\ Len(regs') = k /\ Len(regs) \in Nat /\ regs'[k] = new
      /\ \A i \in 1 .. Len(regs) : regs'[i] = regs[i]
  BY <1>1, AppendFacts DEF Types, TableTypes
<1>5. /\ Regs \in [1 .. Len(regs) -> Regist] /\ DOMAIN regs = 1 .. Len(regs)
      /\ Regs' \in [1 .. k -> Regist] /\ DOMAIN regs' = 1 .. k
  BY <1>4, MapTypes, MapTypesNext DEF Mapped
<1>6. Regs'[k] = [by |-> t, sig |-> s] /\ \A i \in 1 .. Len(regs) : Regs'[i] = Regs[i]
  BY <1>3, <1>4, <1>5 DEF Regs
<1>7. Regs' = Append(Regs, [by |-> t, sig |-> s])
  <2> DEFINE f == Regs  g == Regs'
  <2>1. f \in [1 .. Len(regs) -> Regist] /\ g \in [1 .. Len(regs) + 1 -> Regist]
    BY <1>5
  <2>2. \A i \in 1 .. Len(regs) : g[i] = f[i]
    BY <1>6
  <2>3. g[Len(regs) + 1] = [by |-> t, sig |-> s]
    BY <1>6
  <2> HIDE DEF f, g
  <2>4. g = Append(f, g[Len(regs) + 1])
    BY <1>4, <2>1, <2>2, MappedAppend
  <2>5. g = Append(f, [by |-> t, sig |-> s])
    BY <2>3, <2>4
  <2> QED
    BY <2>5 DEF f, g
<1>8. Status' = Status /\ calls' = calls
  BY <1>1 DEF Status, State
<1>9. Promise!Register(t, s)
  BY <1>7, <1>8 DEF Promise!Register, Regs, Status
<1> QED
  BY <1>9 DEF Promise!Next

\* A signal that arrives is caught, for the pipe or for nothing, or kills.
LEMMA PromiseCatches ==
  ASSUME Types, Types', EventsInv, PipeInv, NEW s \in Sigs, Arrive(s), UNCHANGED <<regs, calls>>
  PROVE  [Promise!Next]_(Promise!vars)
<1>0. PICK m \in Nat : m = Len(caught) + 1
  BY MapTypes DEF Mapped
<1>1. CASE UNCHANGED signals
  BY <1>1, PromiseStutters DEF signals
<1>2. CASE /\ caught' = Append(caught, s)
           /\ lost' = lost \/ lost' = lost \cup {m}
  <2>1. /\ Len(caught) \in Nat /\ DOMAIN caught = 1 .. Len(caught) /\ Numbers = 1 .. Len(caught)
        /\ Status \in [1 .. Len(caught) -> Statuses]
    BY MapTypes DEF Mapped
  <2>2. Len(caught') = m /\ caught'[m] = s /\ \A n \in 1 .. Len(caught) : caught'[n] = caught[n]
    BY <1>0, <1>2, AppendFacts DEF Types, SignalTypes
  <2>3. DOMAIN caught' = 1 .. m /\ Status' \in [1 .. m -> Statuses]
    BY <2>2, MapTypesNext DEF Mapped
  <2>4. \A n \in 1 .. Len(caught) : State(n)' = State(n)
    BY <1>0, <1>2, <2>1 DEF State
  <2>5. State(m)' \in {"pending", "lost"}
    <3>1. \A i \in DOMAIN calls' : calls'[i].n # m
      BY <1>0, <2>1 DEF EventsInv
    <3> QED
      BY <3>1 DEF State
  <2>6. \A n \in 1 .. Len(caught) : Status'[n] = Status[n]
    <3>1. ASSUME NEW n \in 1 .. Len(caught) PROVE Status'[n] = Status[n]
      <4>1. n \in DOMAIN caught /\ n \in DOMAIN caught'
        BY <1>0, <2>1, <2>3
      <4>2. Status[n] = [sig |-> caught[n], state |-> State(n)]
        BY <4>1 DEF Status
      <4>3. Status'[n] = [sig |-> caught'[n], state |-> State(n)']
        BY <4>1 DEF Status
      <4> QED
        BY <2>2, <2>4, <4>2, <4>3
    <3> QED
      BY <3>1
  <2>7. Status'[m] = [sig |-> s, state |-> State(m)']
    BY <1>0, <2>1, <2>2, <2>3 DEF Status
  <2>8. \E state \in {"pending", "lost"} : Status' = Append(Status, [sig |-> s, state |-> state])
    <3> DEFINE f == Status  g == Status'  x == State(m)'
    <3>1. f \in [1 .. Len(caught) -> Statuses] /\ g \in [1 .. Len(caught) + 1 -> Statuses]
      BY <1>0, <2>1, <2>3
    <3>2. \A n \in 1 .. Len(caught) : g[n] = f[n]
      BY <2>6
    <3>3. g[Len(caught) + 1] = [sig |-> s, state |-> x] /\ x \in {"pending", "lost"}
      BY <1>0, <2>5, <2>7
    <3> HIDE DEF f, g, x
    <3>4. g = Append(f, g[Len(caught) + 1])
      BY <2>1, <3>1, <3>2, MappedAppend
    <3>5. \E state \in {"pending", "lost"} : g = Append(f, [sig |-> s, state |-> state])
      BY <3>3, <3>4
    <3> QED
      BY <3>5 DEF f, g
  <2>9. Regs' = Regs
    BY DEF Regs
  <2>10. PICK state \in {"pending", "lost"} :
           Status' = Append(Status, [sig |-> s, state |-> state])
    BY <2>8
  <2>11. Promise!Catch(s, state)
    BY <2>9, <2>10 DEF Promise!Catch, Regs, Status
  <2> QED
    BY <2>11 DEF Promise!Next
<1> QED
  BY <1>0, <1>1, <1>2, ArriveStep DEF Types

\* One signal's status changes.
LEMMA StatusChanges ==
  ASSUME Types, UNCHANGED caught, NEW n \in Numbers, NEW x, State(n)' = x,
         \A m \in Numbers : m # n => State(m)' = State(m)
  PROVE  Status' = [Status EXCEPT ![n].state = x] /\ n \in DOMAIN Status
<1>1. DOMAIN caught = Numbers
  BY MapTypes DEF Mapped
<1>2. Status' = [m \in Numbers |-> [sig |-> caught[m], state |-> IF m = n THEN x ELSE State(m)]]
  BY <1>1 DEF Status
<1>3. Status = [m \in Numbers |-> [sig |-> caught[m], state |-> State(m)]]
  BY <1>1 DEF Status
<1>4. [Status EXCEPT ![n].state = x]
        = [m \in Numbers |-> IF m = n THEN [Status[n] EXCEPT !.state = x] ELSE Status[m]]
  BY <1>3
<1>5. [Status[n] EXCEPT !.state = x] = [sig |-> caught[n], state |-> x]
  BY <1>3
<1>6. \A m \in Numbers : Status[m] = [sig |-> caught[m], state |-> State(m)]
  BY <1>3
<1> QED
  BY <1>2, <1>3, <1>4, <1>5, <1>6

\* A signal nobody is sent an event for is lost.
LEMMA PromiseLoses ==
  ASSUME Types, LoopInv, PipeInv, SentInv, SendNothing
  PROVE  Promise!Next
<1>1. PICK n \in Nat : n = inhand
  BY DEF Types, SignalTypes
<1>2. /\ inhand # 0 /\ UNCHANGED <<regs, caught, calls>> /\ lost' = lost \cup {n}
  BY <1>1, LookupStep DEF SendNothing, SelfPipeLookup, table
<1>3. n \in Numbers /\ n \notin lost
  BY <1>1, <1>2 DEF PipeInv
<1>4. \A c \in DOMAIN calls : calls[c].n # n
  <2>1. \A c \in DOMAIN calls : calls[c].n < n
    BY <1>1, <1>2 DEF SentInv, SentFresh, Before
  <2> QED
    BY <1>1, <2>1
<1>5. State(n) = "pending" /\ State(n)' = "lost" /\ \A m \in Numbers : m # n => State(m)' = State(m)
  BY <1>2, <1>3, <1>4 DEF State
<1>6. Status' = [Status EXCEPT ![n].state = "lost"] /\ n \in DOMAIN Status
  <2> DEFINE x == "lost"
  <2>1. State(n)' = x
    BY <1>5
  <2> HIDE DEF x
  <2>2. Status' = [Status EXCEPT ![n].state = x] /\ n \in DOMAIN Status
    BY <1>2, <1>3, <1>5, <2>1, StatusChanges
  <2> QED
    BY <2>2 DEF x
<1>7. Status[n].state = "pending"
  BY <1>3, <1>5, MapTypes DEF Mapped, Status
<1>8. Regs' = Regs /\ calls' = calls
  BY <1>2 DEF Regs
<1>9. Promise!Lose(n)
  BY <1>6, <1>7, <1>8 DEF Promise!Lose, Regs, Status
<1> QED
  BY <1>6, <1>9 DEF Promise!Next, Status

\* A callback that runs is that of one registration for the signal, in the thread
\* that made it.
LEMMA PromiseCalls ==
  ASSUME Types, EventsInv, SentInv, NEW t \in Loops, RunCallback(t) \/ DefaultPrint(t)
  PROVE  Promise!Next
<1> DEFINE e == active[t][1]
           run == [n |-> e.n, cb |-> e.cb, ctxt |-> e.ctxt, on |-> t]
<1>1. /\ e # SelfPipe /\ 1 \in DOMAIN active[t] /\ e \in AnyEvent
      /\ calls' = Append(calls, run) /\ UNCHANGED <<regs, caught, lost>>
  BY RunStep DEF Types, Ran, signals, RunCallback, DefaultPrint, table
<1>2. e \in Sent(t) /\ EventOf(e, t)
  BY <1>1, RanOnce DEF SentInv, EventsInv
<1>3. e.n \in Numbers /\ e.n \notin lost /\ \A c \in DOMAIN calls : calls[c].n # e.n
  BY <1>2 DEF SentInv, SentFresh, EventOf
<1>4. run \in AnyRun
  BY <1>1 DEF AnyRun, AnyEvent
<1>5. PICK n \in Numbers, k \in 1 .. Len(regs) : n = e.n /\ k = e.cb
  BY <1>2 DEF EventOf
<1>6. run = [n |-> n, cb |-> k, ctxt |-> k, on |-> t] /\ regs[k].by = t /\ regs[k].sig = caught[n]
  BY <1>2, <1>5 DEF EventOf
<1>7. run.n = n
  BY <1>6
<1>8. n \notin lost /\ \A c \in DOMAIN calls : calls[c].n # n
  BY <1>3, <1>5
<1>9. calls' = Append(calls, run) /\ calls \in Seq(AnyRun)
  BY <1>1 DEF Types, LoopTypes
<1> HIDE DEF run, e
<1>10. /\ DOMAIN calls = 1 .. Len(calls) /\ Len(calls) \in Nat
       /\ DOMAIN calls' = 1 .. Len(calls) + 1
       /\ \A i \in DOMAIN calls : calls'[i] = calls[i]
       /\ calls'[Len(calls) + 1] = run
  BY <1>4, <1>9, AppendFacts
<1>11. calls' = Append(calls, run)
  BY <1>9
<1>12. State(n) = "pending"
  BY <1>8 DEF State
<1>13. State(n)' = "called"
  <2>1. Len(calls) + 1 \in DOMAIN calls' /\ calls'[Len(calls) + 1].n = n
    BY <1>7, <1>10
  <2> QED
    BY <1>1, <1>8, <2>1 DEF State
<1>14. \A m \in Numbers : m # n => State(m)' = State(m)
  <2>1. ASSUME NEW m \in Numbers, m # n
        PROVE  (\E i \in DOMAIN calls' : calls'[i].n = m) <=> (\E i \in DOMAIN calls : calls[i].n = m)
    <3>1. \A i \in DOMAIN calls' : i \in DOMAIN calls \/ i = Len(calls) + 1
      BY <1>10
    <3>2. \A i \in DOMAIN calls : i \in DOMAIN calls'
      BY <1>10
    <3> QED
      BY <1>7, <1>10, <2>1, <3>1, <3>2
  <2> QED
    BY <1>1, <2>1 DEF State
<1>15. Status' = [Status EXCEPT ![n].state = "called"] /\ n \in DOMAIN Status
  <2> DEFINE x == "called"
  <2>1. State(n)' = x
    BY <1>13
  <2> HIDE DEF x
  <2>2. Status' = [Status EXCEPT ![n].state = x] /\ n \in DOMAIN Status
    BY <1>1, <1>14, <2>1, StatusChanges
  <2> QED
    BY <2>2 DEF x
<1>16. Status[n].state = "pending" /\ Status[n].sig = caught[n]
  BY <1>12, MapTypes DEF Mapped, Status
<1>17. k \in DOMAIN Regs /\ Regs[k].by = t /\ Regs[k].sig = caught[n] /\ Regs' = Regs
  BY <1>1, <1>6, MapTypes DEF Mapped, Regs
<1>18. Promise!Call(n, k)
  BY <1>6, <1>11, <1>15, <1>16, <1>17 DEF Promise!Call, Promise!Callback, Regs, Status
<1> QED
  BY <1>15, <1>17, <1>18 DEF Promise!Next, Regs, Status

LEMMA PromiseStep ==
  ASSUME IInv, IInv', [Next]_vars
  PROVE  [Promise!Next]_(Promise!vars)
<1> USE DEF IInv
<1>1. CASE ApiMove
  <2>1. UNCHANGED <<caught, calls, lost>>
    BY <1>1, ApiFrame DEF signals
  <2>2. regs' = regs \/ \E t \in Threads : RegisterEnter(t)
    BY <1>1 DEF ApiMove, CallApi, BootRegister, ApiStep, RegisterRefused, DeregisterEnter, Store,
       Leave, table
  <2> QED
    BY <2>1, <2>2, PromiseStutters, PromiseRegisters
<1>2. CASE LoopMove
  <2>1. regs' = regs
    BY <1>2, LoopFrame DEF table
  <2>2. ASSUME NEW s \in Sigs, Raise(s) PROVE [Promise!Next]_(Promise!vars)
    BY <2>1, <2>2, PromiseCatches DEF Raise
  <2>3. ASSUME NEW t \in Loops, DefaultRaise(t) PROVE [Promise!Next]_(Promise!vars)
    <3>1. phase[t] = "reraise" /\ Arrive(active[t][1].sig) /\ calls' = calls
      BY <2>3, RaiseAgainStep DEF Types
    <3>2. active[t][1].sig \in Sigs
      BY <3>1, BusyFacts DEF Busy
    <3> QED
      BY <2>1, <3>1, <3>2, PromiseCatches
  <2>4. ASSUME NEW t \in Loops, RunCallback(t) \/ DefaultPrint(t)
        PROVE  [Promise!Next]_(Promise!vars)
    BY <2>4, PromiseCalls
  <2>5. CASE SendNothing
    BY <2>5, PromiseLoses
  <2>6. CASE /\ \A s \in Sigs : ~Raise(s)
             /\ \A t \in Loops : ~DefaultRaise(t) /\ ~RunCallback(t) /\ ~DefaultPrint(t)
             /\ ~SendNothing
    <3>1. UNCHANGED <<caught, calls, lost>>
      BY <1>2, <2>6 DEF LoopMove, AppInitFails, BootPipe, BootDone, SelfPipeRead, SendEvent,
         SelfPipeLookup, EnterLoop, Sleep, LoopEnds, WakeDue, WakeOther, Wake, EndIteration,
         DefaultRestore, signals
    <3> QED
      BY <2>1, <3>1, PromiseStutters
  <2> QED
    BY <2>2, <2>3, <2>4, <2>5, <2>6
<1>3. CASE UNCHANGED vars
  BY <1>3, PromiseStutters DEF vars, table, signals
<1> QED
  BY <1>1, <1>2, <1>3, NextMoves

\* For any threads, loops and signals, ZSignal implements SignalDelivery: a
\* caught signal runs at most one callback, once, with the context it was
\* registered with and in the thread that registered it, though registration,
\* deregistration and lookup run in several threads (zsignal.cc:185-240, 339-381).
THEOREM DeliveryKeepsPromise == Spec => KeepsPromise
<1>1. Init => Promise!Init
  <2>1. ASSUME Init
        PROVE  /\ [k \in DOMAIN regs |-> [by |-> regs[k].by, sig |-> regs[k].sig]] = <<>>
               /\ [n \in DOMAIN caught |-> [sig |-> caught[n], state |-> State(n)]] = <<>>
               /\ calls = <<>>
    BY <2>1 DEF Init
  <2> QED
    BY <2>1 DEF Promise!Init
<1>2. IInv /\ IInv' /\ [Next]_vars => [Promise!Next]_(Promise!vars)
  BY PromiseStep
<1> QED
  BY <1>1, <1>2, Invariant, PTL DEF Spec, KeepsPromise, Promise!Spec

-----------------------------------------------------------------------------
(* What the callbacks run add up to.                                        *)

\* Each signal caught runs at most one callback, once; it has one registration's
\* callback and context, which was made for that signal in the thread it runs in.
OneCallEach ==
    /\ \A i, j \in DOMAIN calls : calls[i].n = calls[j].n => i = j
    /\ \A i \in DOMAIN calls : LET c == calls[i]
                               IN  /\ c.n \in DOMAIN caught /\ c.cb \in DOMAIN regs /\ c.ctxt = c.cb
                                   /\ regs[c.cb].by = c.on /\ regs[c.cb].sig = caught[c.n]

LEMMA RunsOne ==
  ASSUME Types, EventsInv, SentInv, OneCallEach, NEW t \in Loops, RunCallback(t) \/ DefaultPrint(t)
  PROVE  OneCallEach'
<1> DEFINE e == active[t][1]
           run == [n |-> e.n, cb |-> e.cb, ctxt |-> e.ctxt, on |-> t]
<1>1. /\ e # SelfPipe /\ 1 \in DOMAIN active[t] /\ e \in AnyEvent
      /\ calls' = Append(calls, run) /\ UNCHANGED <<regs, caught>>
  BY RunStep DEF Types, Ran, signals, RunCallback, DefaultPrint, table
<1>2. e \in Sent(t) /\ EventOf(e, t)
  BY <1>1, RanOnce DEF SentInv, EventsInv
<1>3. \A c \in DOMAIN calls : calls[c].n # e.n
  BY <1>2 DEF SentInv, SentFresh
<1>4. run \in AnyRun /\ calls \in Seq(AnyRun)
  BY <1>1 DEF AnyRun, AnyEvent, Types, LoopTypes
<1>5. /\ run.n = e.n /\ run.n \in DOMAIN caught
      /\ run.cb \in DOMAIN regs /\ run.ctxt = run.cb
      /\ regs[run.cb].by = run.on /\ regs[run.cb].sig = caught[run.n]
  BY <1>2, MapTypes DEF Mapped, EventOf
<1> HIDE DEF run, e
<1>6. /\ DOMAIN calls = 1 .. Len(calls) /\ Len(calls) \in Nat
      /\ DOMAIN calls' = 1 .. Len(calls) + 1
      /\ \A i \in DOMAIN calls : calls'[i] = calls[i]
      /\ calls'[Len(calls) + 1] = run
  BY <1>1, <1>4, AppendFacts
<1>7. \A i \in DOMAIN calls' : i \in DOMAIN calls \/ i = Len(calls) + 1
  BY <1>6
<1>8. \A i, j \in DOMAIN calls' : calls'[i].n = calls'[j].n => i = j
  BY <1>3, <1>5, <1>6, <1>7 DEF OneCallEach
<1>9. ASSUME NEW i \in DOMAIN calls'
      PROVE  LET c == calls'[i]
             IN  /\ c.n \in DOMAIN caught /\ c.cb \in DOMAIN regs /\ c.ctxt = c.cb
                 /\ regs[c.cb].by = c.on /\ regs[c.cb].sig = caught[c.n]
  BY <1>5, <1>6, <1>7 DEF OneCallEach
<1> QED
  BY <1>1, <1>8, <1>9 DEF OneCallEach

\* What is appended to keeps what it held.
LEMMA Lengthens ==
  ASSUME NEW S, NEW s \in Seq(S), NEW x \in S, NEW r, r = Append(s, x)
  PROVE  \A i \in DOMAIN s : i \in DOMAIN r /\ r[i] = s[i]
BY AppendFacts, LenProperties

LEMMA CallsStay ==
  ASSUME OneCallEach, UNCHANGED calls,
         \A n \in DOMAIN caught : n \in DOMAIN caught' /\ caught'[n] = caught[n],
         \A k \in DOMAIN regs : k \in DOMAIN regs' /\ regs'[k] = regs[k]
  PROVE  OneCallEach'
BY DEF OneCallEach

LEMMA StepCalls ==
  ASSUME IInv, OneCallEach, [Next]_vars
  PROVE  OneCallEach'
<1> USE DEF IInv
<1>1. CASE ApiMove
  <2>1. UNCHANGED <<caught, calls, lost>>
    BY <1>1, ApiFrame DEF signals
  <2>2. regs' = regs \/ \E t \in Threads : RegisterEnter(t)
    BY <1>1 DEF ApiMove, CallApi, BootRegister, ApiStep, RegisterRefused, DeregisterEnter, Store,
       Leave, table
  <2>3. ASSUME NEW t \in Threads, RegisterEnter(t)
        PROVE  \A k \in DOMAIN regs : k \in DOMAIN regs' /\ regs'[k] = regs[k]
    <3>1. PICK new \in AnyReg : regs' = Append(regs, new)
      BY <2>3, RegisterEnterStep DEF Types, RegisterEnter
    <3> QED
      BY <3>1, Lengthens DEF Types, TableTypes
  <2> QED
    BY <2>1, <2>2, <2>3, CallsStay
<1>2. CASE LoopMove
  <2>1. regs' = regs
    BY <1>2, LoopFrame DEF table
  <2>2. ASSUME NEW s \in Sigs, Arrive(s), calls' = calls PROVE OneCallEach'
    <3>1. caught' = caught \/ caught' = Append(caught, s)
      BY <2>2 DEF Arrive, signals
    <3>2. \A n \in DOMAIN caught : n \in DOMAIN caught' /\ caught'[n] = caught[n]
      BY <3>1, Lengthens DEF Types, SignalTypes
    <3> QED
      BY <2>1, <2>2, <3>2, CallsStay
  <2>3. ASSUME NEW s \in Sigs, Raise(s) PROVE OneCallEach'
    BY <2>2, <2>3 DEF Raise
  <2>4. ASSUME NEW t \in Loops, DefaultRaise(t) PROVE OneCallEach'
    <3>1. phase[t] = "reraise" /\ Arrive(active[t][1].sig) /\ calls' = calls
      BY <2>4, RaiseAgainStep DEF Types
    <3>2. active[t][1].sig \in Sigs
      BY <3>1, BusyFacts DEF Busy
    <3> QED
      BY <2>2, <3>1, <3>2
  <2>5. ASSUME NEW t \in Loops, RunCallback(t) \/ DefaultPrint(t) PROVE OneCallEach'
    BY <2>5, RunsOne
  <2>6. CASE /\ \A s \in Sigs : ~Raise(s)
             /\ \A t \in Loops : ~DefaultRaise(t) /\ ~RunCallback(t) /\ ~DefaultPrint(t)
    <3>1. UNCHANGED <<caught, calls>>
      BY <1>2, <2>6 DEF LoopMove, AppInitFails, BootPipe, BootDone, SelfPipeRead, SendEvent,
         SendNothing, SelfPipeLookup, EnterLoop, Sleep, LoopEnds, WakeDue, WakeOther, Wake,
         EndIteration, DefaultRestore, signals
    <3> QED
      BY <2>1, <3>1, CallsStay
  <2> QED
    BY <2>3, <2>4, <2>5, <2>6
<1>3. CASE UNCHANGED vars
  BY <1>3, CallsStay DEF vars, table, signals
<1> QED
  BY <1>1, <1>2, <1>3, NextMoves

\* For any threads, loops and signals: each signal caught runs at most one
\* callback, once, with the context it was registered with and in the thread that
\* registered it, however often it is raised and whoever registers and
\* deregisters meanwhile (zsignal.cc:185-240).
THEOREM CallsAreTheirs == Spec => []OneCallEach
<1>1. Init => OneCallEach
  BY DEF Init, OneCallEach
<1>2. IInv /\ OneCallEach /\ [Next]_vars => OneCallEach'
  BY StepCalls
<1> QED
  BY <1>1, <1>2, Invariant, PTL DEF Spec

-----------------------------------------------------------------------------
(* No signal vanishes.                                                      *)

WasSent(n) == \E t \in Loops : \E e \in Sent(t) : e.n = n
WasRun(n) == \E i \in DOMAIN calls : calls[i].n = n

\* What became of the n-th signal is known, or it is on its way.
Found(n) == n \in lost \/ WasRun(n) \/ n = inhand \/ InPipe(n) \/ WasSent(n)
AllFound == \A n \in Numbers : Found(n)

LEMMA FoundIsSomewhere == AllFound => NoneVanishes
BY DEF AllFound, NoneVanishes, Found, State, WasRun, WasSent, WithLoop, Sent, Due

\* Everything a loop was sent is with it after the step.
SentKept == \A t \in Loops : Sent(t) \subseteq Sent(t)'

LEMMA SentSame ==
  ASSUME NEW t \in Loops, active'[t] = active[t], timers[t] \subseteq timers'[t],
         Busy(t)' => Busy(t)
  PROVE  Sent(t) \subseteq Sent(t)'
<1>1. \A i \in Due(t) : i \in Due(t)' /\ active'[t][i] = active[t][i]
  BY DEF Due
<1> QED
  BY <1>1 DEF Sent

LEMMA SentKeptFrame ==
  ASSUME UNCHANGED <<phase, timers, active>>
  PROVE  SentKept
BY SentSame DEF SentKept, Busy

\* A loop that wakes takes all its timers.
LEMMA WakeTakesAll ==
  ASSUME LoopTypes, NEW t \in Loops, Wake(t), NEW e \in timers[t]
  PROVE  \E i \in DOMAIN active'[t] : active'[t][i] = e
<1> DEFINE card == Cardinality(timers[t])
<1> DEFINE pre == IF t = Main /\ PipeReadable THEN <<SelfPipe>> ELSE <<>>
<1>1. PICK due \in SetToSeqs(timers[t]) : active' = [active EXCEPT ![t] = pre \o due]
  BY DEF Wake
<1>2. card \in Nat /\ IsFiniteSet(timers[t])
  BY FS_CardinalityType DEF LoopTypes
<1>3. /\ due \in [1 .. card -> timers[t]]
      /\ \A i, j \in 1 .. card : due[i] = due[j] => i = j
  BY DEF SetToSeqs
<1>4. timers[t] \subseteq AnyEvent
  BY DEF LoopTypes
<1> HIDE DEF card
<1>5. PICK k \in 1 .. card : due[k] = e
  <2>1. IsFiniteSet(1 .. card) /\ Cardinality(1 .. card) = card
    BY <1>2, FS_Interval
  <2>2. due \in Injection(1 .. card, timers[t])
    BY <1>3 DEF Injection, IsInjective
  <2>3. due \in Surjection(1 .. card, timers[t])
    BY <1>2, <2>1, <2>2, FS_Injection DEF card
  <2> QED
    BY <2>3 DEF Surjection
<1>6. due \in Seq(AnyEvent) /\ Len(due) = card
  <2>1. due \in [1 .. card -> AnyEvent]
    BY <1>3, <1>4
  <2>2. due \in Seq(AnyEvent)
    BY <1>2, <2>1
  <2>3. DOMAIN due = 1 .. card /\ DOMAIN due = 1 .. Len(due) /\ Len(due) \in Nat
    BY <1>3, <2>2, LenProperties
  <2> QED
    BY <1>2, <2>2, <2>3
<1>7. active'[t] = pre \o due
  BY <1>1 DEF LoopTypes
<1>8. pre \in Seq(AnyEvent)
  BY SelfPipeIsEvent DEF SelfPipeType
<1> HIDE DEF pre
<1>9. /\ Len(pre \o due) = Len(pre) + card /\ Len(pre) \in Nat /\ pre \o due \in Seq(AnyEvent)
      /\ (pre \o due)[Len(pre) + k] = due[k]
  <2>1. Len(pre) \in Nat /\ k \in Nat /\ k >= 1 /\ k <= card
    BY <1>2, <1>8, LenProperties
  <2>2. /\ pre \o due \in Seq(AnyEvent) /\ Len(pre \o due) = Len(pre) + Len(due)
        /\ \A i \in 1 .. Len(pre) + Len(due) :
               (pre \o due)[i] = IF i <= Len(pre) THEN pre[i] ELSE due[i - Len(pre)]
    BY <1>6, <1>8, ConcatProperties
  <2>3. /\ Len(pre) + k \in 1 .. Len(pre) + card /\ ~(Len(pre) + k <= Len(pre))
        /\ (Len(pre) + k) - Len(pre) = k
    BY <1>2, <2>1
  <2> QED
    BY <1>6, <2>1, <2>2, <2>3
<1>10. Len(pre) + k \in DOMAIN (pre \o due)
  BY <1>2, <1>9, LenProperties
<1> QED
  BY <1>5, <1>7, <1>9, <1>10

LEMMA WakeKeeps ==
  ASSUME Types, LoopInv, EventsInv, NEW t \in Loops, phase[t] = "wait", Wake(t)
  PROVE  SentKept
<1> USE DEF Types
<1>1. /\ Moves(t, "dispatch") /\ timers' = [timers EXCEPT ![t] = {}]
      /\ \A u \in Loops : u # t => active'[u] = active[u]
  BY WakeStep, EventFacts
<1>2. \A u \in Loops : phase'[u] = IF u = t THEN "dispatch" ELSE phase[u]
  BY <1>1, ThreadFacts DEF Moves, LoopTypes
<1>3. \A u \in Loops : u # t => timers'[u] = timers[u]
  BY <1>1 DEF LoopTypes
<1>4. \A u \in Loops : u # t => Sent(u) \subseteq Sent(u)'
  BY <1>1, <1>2, <1>3, SentSame DEF Busy
<1>5. Sent(t) \subseteq timers[t]
  <2>1. active[t] = <<>>
    BY DEF LoopInv
  <2> QED
    BY <2>1 DEF Sent, Due
<1>6. ASSUME NEW e \in timers[t] PROVE e \in Sent(t)'
  <2>1. PICK i \in DOMAIN active'[t] : active'[t][i] = e
    BY WakeTakesAll
  <2>2. e # SelfPipe
    BY EventFacts
  <2>3. i \in Due(t)'
    BY <1>2, <2>1, <2>2 DEF Due, Busy
  <2> QED
    BY <2>1, <2>3 DEF Sent
<1> QED
  BY <1>4, <1>5, <1>6 DEF SentKept

\* A loop that drops the head of what it has to run keeps the rest.
LEMMA DropKeepsRest ==
  ASSUME LoopTypes, NEW t \in Loops, active[t] # <<>>, Drops(t),
         phase' = phase \/ \E ph \in Phases : Moves(t, ph), ~Busy(t)',
         \A u \in Loops : timers[u] \subseteq timers'[u]
  PROVE  /\ \A u \in Loops : u # t => Sent(u) \subseteq Sent(u)'
         /\ \A e \in Sent(t) : e \in Sent(t)' \/ (1 \in Due(t) /\ e = active[t][1])
<1>1. ASSUME NEW u \in Loops, u # t PROVE Sent(u) \subseteq Sent(u)'
  <2>1. active'[u] = active[u]
    BY <1>1, DropStep
  <2>2. phase'[u] = phase[u]
    BY <1>1, ThreadFacts DEF Moves, LoopTypes
  <2> QED
    BY <2>1, <2>2, SentSame DEF Busy
<1>2. active[t] \in Seq(AnyEvent) /\ active'[t] = Tail(active[t])
  BY DropStep DEF LoopTypes
<1>3. \A i \in DOMAIN active[t] : i # 1 => /\ i - 1 \in DOMAIN active'[t]
                                           /\ active'[t][i - 1] = active[t][i]
  BY <1>2, TailFacts
<1>4. ASSUME NEW e \in Sent(t) PROVE e \in Sent(t)' \/ (1 \in Due(t) /\ e = active[t][1])
  <2>1. CASE e \in timers[t]
    BY <2>1 DEF Sent
  <2>2. CASE e \notin timers[t]
    <3>1. PICK i \in Due(t) : e = active[t][i]
      BY <2>2 DEF Sent
    <3>2. CASE i # 1
      <4>1. i - 1 \in Due(t)' /\ active'[t][i - 1] = e
        BY <1>3, <3>1, <3>2 DEF Due
      <4> QED
        BY <4>1 DEF Sent
    <3> QED
      BY <3>1, <3>2
  <2> QED
    BY <2>1, <2>2
<1> QED
  BY <1>1, <1>4

\* Nothing was caught, and what was found is found again.
LEMMA FoundKept ==
  ASSUME AllFound, UNCHANGED caught, SentKept, calls' = calls,
         lost \subseteq lost', inhand' = inhand, pipe' = pipe
  PROVE  AllFound'
<1>1. \A n \in Numbers : WasSent(n) => WasSent(n)'
  BY DEF WasSent, SentKept
<1> QED
  BY <1>1 DEF AllFound, Found, InPipe, WasRun, Numbers

\* A signal that is caught goes into the pipe, or is lost.
LEMMA FoundArrive ==
  ASSUME Types, AllFound, NEW s \in Sigs, Arrive(s), SentKept, calls' = calls,
         inhand' = inhand
  PROVE  AllFound'
<1> USE DEF Types
<1>0. pipe \in Seq(Nat) /\ caught \in Seq(Sigs) /\ Len(caught) \in Nat
  BY LenProperties DEF SignalTypes
<1>1. CASE UNCHANGED signals
  BY <1>1, FoundKept DEF signals
<1>2. ASSUME caught' = Append(caught, s), NEW n \in Numbers'
      PROVE  n \in Numbers \/ n = Len(caught) + 1
  BY <1>0, <1>2, AppendFacts DEF Numbers
<1>3. CASE /\ caught' = Append(caught, s) /\ lost' = lost
           /\ pipe' = Append(pipe, Len(caught) + 1)
  <2>1. \A i \in DOMAIN pipe : i \in DOMAIN pipe' /\ pipe'[i] = pipe[i]
    BY <1>0, <1>3, Lengthens
  <2>2. Len(pipe) + 1 \in DOMAIN pipe' /\ pipe'[Len(pipe) + 1] = Len(caught) + 1
    BY <1>0, <1>3, AppendFacts
  <2>3. \E i \in DOMAIN pipe' : pipe'[i] = Len(caught) + 1
    BY <2>2
  <2>4. ASSUME NEW n \in Numbers PROVE Found(n)'
    <3>1. WasSent(n) => WasSent(n)'
      BY DEF WasSent, SentKept
    <3>2. InPipe(n) => InPipe(n)'
      BY <2>1 DEF InPipe
    <3> QED
      BY <1>3, <3>1, <3>2 DEF AllFound, Found, WasRun
  <2> QED
    BY <1>2, <1>3, <2>3, <2>4 DEF AllFound, Found, InPipe
<1>4. CASE /\ caught' = Append(caught, s) /\ pipe' = pipe
           /\ lost' = lost \cup {Len(caught) + 1}
  <2>1. ASSUME NEW n \in Numbers PROVE Found(n)'
    <3>1. WasSent(n) => WasSent(n)'
      BY DEF WasSent, SentKept
    <3> QED
      BY <1>4, <3>1 DEF AllFound, Found, WasRun, InPipe
  <2> QED
    BY <1>2, <1>4, <2>1 DEF AllFound, Found
<1> QED
  BY <1>1, <1>3, <1>4, ArriveStep

LEMMA StepFound ==
  ASSUME IInv, AllFound, [Next]_vars
  PROVE  AllFound'
<1> USE DEF IInv, Types
<1>0. 0 \notin Numbers
  BY EventFacts
<1>m. ASSUME NEW t \in Loops, NEW ph \in Phases, Moves(t, ph),
             ph \in {"restore", "reraise"} => Busy(t), UNCHANGED <<timers, active>>
      PROVE  SentKept
  <2>1. \A u \in Loops : phase'[u] = IF u = t THEN ph ELSE phase[u]
    BY <1>m, ThreadFacts DEF Moves, LoopTypes
  <2>2. \A u \in Loops : Busy(u)' => Busy(u)
    BY <1>m, <2>1 DEF Busy
  <2> QED
    BY <1>m, <2>2, SentSame DEF SentKept
<1>1. CASE ApiMove \/ AppInitFails \/ UNCHANGED vars
  <2>1. UNCHANGED <<signals, inhand, phase, timers, active, calls>>
    BY <1>1, ApiFrame DEF AppInitFails, vars, loops
  <2> QED
    BY <2>1, SentKeptFrame, FoundKept DEF signals
<1>2. ASSUME NEW s \in Sigs, Raise(s) PROVE AllFound'
  <2>1. UNCHANGED <<phase, timers, active>> /\ calls' = calls /\ inhand' = inhand /\ Arrive(s)
    BY <1>2 DEF Raise, loops
  <2> QED
    BY <2>1, SentKeptFrame, FoundArrive
<1>3. ASSUME NEW t \in Loops, NEW ph \in Resting, Quiet(t, ph) PROVE AllFound'
  <2>1. /\ Moves(t, ph) /\ ph \in Phases /\ ph \notin {"restore", "reraise"}
        /\ UNCHANGED <<timers, active>> /\ UNCHANGED <<signals, inhand>> /\ calls' = calls
    BY <1>3 DEF Quiet, Resting
  <2> QED
    BY <2>1, <1>m, FoundKept DEF signals
<1>4. ASSUME NEW t \in Loops, phase[t] = "wait", Wake(t) PROVE AllFound'
  <2>1. UNCHANGED <<signals, inhand, calls>>
    BY <1>4, WakeStep, EventFacts
  <2> QED
    BY <1>4, <2>1, WakeKeeps, FoundKept DEF signals
<1>5. ASSUME SelfPipeRead PROVE AllFound'
  <2>1. /\ phase[Main] = "dispatch" /\ pipe # <<>> /\ inhand = 0 /\ inhand' = pipe[1]
        /\ pipe' = Tail(pipe) /\ Moves(Main, "lookup")
        /\ UNCHANGED <<caught, lost, timers, active, calls>>
    BY <1>5, ReadStep
  <2>2. SentKept
    BY <2>1, <1>m, ThreadFacts DEF Phases
  <2>3. pipe \in Seq(Nat)
    BY DEF SignalTypes
  <2>4. \A i \in DOMAIN pipe : i # 1 => i - 1 \in DOMAIN pipe' /\ pipe'[i - 1] = pipe[i]
    BY <2>1, <2>3, TailFacts
  <2>5. ASSUME NEW n \in Numbers PROVE Found(n)'
    <3>1. WasSent(n) => WasSent(n)'
      BY <2>2 DEF WasSent, SentKept
    <3>2. InPipe(n) => n = inhand' \/ InPipe(n)'
      BY <2>1, <2>4 DEF InPipe
    <3> QED
      BY <1>0, <2>1, <3>1, <3>2 DEF AllFound, Found, WasRun
  <2> QED
    BY <2>1, <2>5 DEF AllFound, Numbers
<1>l. ASSUME SelfPipeLookup, \A u \in Loops : timers[u] \subseteq timers'[u], lost \subseteq lost',
             (\E u \in Loops : \E e \in Sent(u)' : e.n = inhand) \/ inhand \in lost'
      PROVE  AllFound'
  <2>1. /\ active[Main] # <<>> /\ active[Main][1] = SelfPipe /\ Moves(Main, "dispatch")
        /\ Drops(Main) /\ UNCHANGED <<pipe, caught, calls>>
    BY <1>l, LookupStep
  <2>2. phase'[Main] = "dispatch"
    BY <2>1, ThreadFacts DEF Moves, LoopTypes
  <2>3. ~Busy(Main)' /\ "dispatch" \in Phases
    BY <2>2 DEF Busy, Phases
  <2>4. 1 \notin Due(Main)
    BY <2>1 DEF Due
  <2>5. SentKept
    BY <1>l, <2>1, <2>3, <2>4, DropKeepsRest, ThreadFacts DEF SentKept
  <2>6. ASSUME NEW n \in Numbers PROVE Found(n)'
    <3>1. WasSent(n) => WasSent(n)'
      BY <2>5 DEF WasSent, SentKept
    <3> QED
      BY <1>l, <2>1, <3>1 DEF AllFound, Found, WasRun, InPipe, WasSent
  <2> QED
    BY <2>1, <2>6 DEF AllFound, Numbers
<1>6. ASSUME SendNothing PROVE AllFound'
  BY <1>6, <1>l DEF SendNothing
<1>7. ASSUME SendEvent PROVE AllFound'
  <2>1. PICK b \in Loops, e \in AnyEvent :
           /\ timers' = [timers EXCEPT ![b] = timers[b] \cup {e}]
           /\ e.n = inhand /\ lost' = lost
    BY <1>7, SendEventStep
  <2>2. \A u \in Loops : timers'[u] = IF u = b THEN timers[u] \cup {e} ELSE timers[u]
    BY <2>1 DEF LoopTypes
  <2>3. \E u \in Loops : \E f \in Sent(u)' : f.n = inhand
    <3>1. e \in Sent(b)'
      BY <2>2 DEF Sent
    <3> QED
      BY <2>1, <3>1
  <2> QED
    BY <1>7, <1>l, <2>1, <2>2, <2>3 DEF SendEvent, TimersAfter
<1>8. ASSUME NEW t \in Loops, RunCallback(t) \/ DefaultPrint(t) PROVE AllFound'
  <2> DEFINE e == active[t][1]
             run == [n |-> e.n, cb |-> e.cb, ctxt |-> e.ctxt, on |-> t]
  <2>1. /\ UNCHANGED <<signals, inhand, timers>> /\ calls' = Append(calls, run)
        /\ phase[t] = "dispatch" /\ active[t] # <<>> /\ e \in AnyEvent
        /\ \/ Drops(t) /\ UNCHANGED phase
           \/ Moves(t, "restore") /\ active' = active
    BY <1>8, RunStep DEF Ran
  <2>2. calls \in Seq(AnyRun) /\ run \in AnyRun
    BY <2>1 DEF LoopTypes, AnyRun, AnyEvent
  <2>3. \E i \in DOMAIN calls' : calls'[i].n = e.n
    <3>1. Len(calls) + 1 \in DOMAIN calls' /\ calls'[Len(calls) + 1].n = e.n
      BY <2>1, <2>2, AppendFacts
    <3> QED
      BY <3>1
  <2>4. \A n : WasRun(n) => WasRun(n)'
    BY <2>1, <2>2, Lengthens DEF WasRun
  <2> HIDE DEF e, run
  <2>5. ASSUME Drops(t), UNCHANGED phase, NEW u \in Loops, NEW f \in Sent(u)
        PROVE  f \in Sent(u)' \/ f.n = e.n
    <3>1. ~Busy(t)'
      BY <2>1, <2>5 DEF Busy
    <3>2. /\ \A v \in Loops : v # t => Sent(v) \subseteq Sent(v)'
          /\ \A g \in Sent(t) : g \in Sent(t)' \/ (1 \in Due(t) /\ g = active[t][1])
      BY <2>1, <2>5, <3>1, DropKeepsRest
    <3> QED
      BY <2>5, <3>2 DEF e
  <2>6. ASSUME Moves(t, "restore"), active' = active, NEW u \in Loops, NEW f \in Sent(u)
        PROVE  f \in Sent(u)' \/ f.n = e.n
    <3>1. \A v \in Loops : phase'[v] = IF v = t THEN "restore" ELSE phase[v]
      BY <2>6, ThreadFacts DEF Moves, LoopTypes
    <3>2. CASE u # t
      <4>1. Busy(u)' => Busy(u)
        BY <3>1, <3>2 DEF Busy
      <4> QED
        BY <2>1, <2>6, <4>1, SentSame
    <3>3. CASE u = t
      <4>1. \A i \in Due(t) : i # 1 => i \in Due(t)'
        BY <2>6 DEF Due
      <4> QED
        BY <2>1, <2>6, <3>3, <4>1 DEF Sent, e
    <3> QED
      BY <3>2, <3>3
  <2>7. ASSUME NEW n \in Numbers PROVE Found(n)'
    <3>1. WasSent(n) => WasSent(n)' \/ n = e.n
      BY <2>1, <2>5, <2>6 DEF WasSent
    <3> QED
      BY <2>1, <2>3, <2>4, <3>1 DEF AllFound, Found, InPipe, WasRun, signals
  <2> QED
    BY <2>1, <2>7 DEF AllFound, Numbers, signals
<1>9. ASSUME NEW t \in Loops, DefaultRestore(t) PROVE AllFound'
  <2>1. /\ Moves(t, "reraise") /\ "reraise" \in Phases /\ Busy(t) /\ UNCHANGED <<timers, active>>
        /\ UNCHANGED <<signals, inhand>> /\ calls' = calls
    BY <1>9, RestoreStep DEF Phases, Busy
  <2> QED
    BY <2>1, <1>m, FoundKept DEF signals
<1>10. ASSUME NEW t \in Loops, DefaultRaise(t) PROVE AllFound'
  <2>1. /\ Busy(t) /\ active[t] # <<>> /\ Drops(t) /\ Moves(t, "dispatch")
        /\ "dispatch" \in Phases
        /\ Arrive(active[t][1].sig) /\ UNCHANGED <<inhand, timers, calls>>
    BY <1>10, RaiseAgainStep DEF Busy, Phases
  <2>2. active[t][1].sig \in Sigs
    BY <2>1, BusyFacts
  <2>3. phase'[t] = "dispatch"
    BY <2>1, ThreadFacts DEF Moves, LoopTypes
  <2>4. ~Busy(t)' /\ 1 \notin Due(t)
    BY <2>1, <2>3 DEF Busy, Due
  <2>5. SentKept
    BY <2>1, <2>4, DropKeepsRest DEF SentKept
  <2> QED
    BY <2>1, <2>2, <2>5, FoundArrive
<1>11. CASE LoopMove
  BY <1>11, <1>1, <1>2, <1>3, <1>4, <1>5, <1>6, <1>7, <1>8, <1>9, <1>10, LoopCases
<1> QED
  BY <1>1, <1>11, NextMoves

\* For any threads, loops, signals and size of the pipe: a signal our handler
\* caught that has not run its callback is in the self-pipe, in selfpipe_cb's
\* hand or with the loop it was sent to, unless the pipe was full or selfpipe_cb
\* found no loop to send it to (zsignal.cc:210-240).
THEOREM SignalsAreSomewhere == Spec => []NoneVanishes
<1>1. Init => AllFound
  BY DEF Init, Numbers, AllFound
<1>2. IInv /\ AllFound /\ [Next]_vars => AllFound'
  BY StepFound
<1> QED
  BY <1>1, <1>2, Invariant, FoundIsSomewhere, PTL DEF Spec
=============================================================================
