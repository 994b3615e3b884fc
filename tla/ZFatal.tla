------------------------------- MODULE ZFatal -------------------------------
(***************************************************************************)
(* The fatal signals of lib/zsignal.cc: the handler that prints an error   *)
(* record before the process dies, and zsignal_abort.  Any thread may      *)
(* fault, also inside a handler; other processes may send a fatal signal;  *)
(* libc's abort may be called (the abort() at the end of zsignal.cc is     *)
(* ZLIB::abort and does not replace it).                                   *)
(*                                                                         *)
(* External, as the flags of install_fatal_signal_handler ask for it:      *)
(* SA_RESETHAND without SA_NODEFER.  The kernel restores the default       *)
(* action when it delivers the signal, blocks the signal while its handler *)
(* runs, keeps a blocked one pending, delivers it when the handler returns,*)
(* and kills the process on a fault whose signal is blocked.  malloc has a *)
(* lock, and backtrace calls malloc, but only the first time.  stdout has  *)
(* another, which the thread that holds it may take again, and the first   *)
(* output calls malloc for stdout's buffer.                                *)
(***************************************************************************)
EXTENDS Naturals, Sequences, SequencesExt

CONSTANTS
    Threads,
    Fatal,       \* fatal_signals
    SIGABRT,
    NoOne,
    MaxSignals   \* bound: how often each signal comes, as a fault, an abort or from outside

ZFatalAssumption ==
    /\ SIGABRT \in Fatal
    /\ NoOne \notin Threads
    /\ MaxSignals \in Nat
    /\ "running" \notin Fatal

VARIABLES
    action,         \* what the kernel does with each signal
    abort_expected,
    pc,             \* where each thread is in zsignal_abort
    frames,         \* the handlers each thread is in, the innermost last
    pending,        \* each thread's blocked signals
    heap,           \* the thread that has malloc's lock
    stdio,          \* the thread that has stdout's lock
    process,        \* running, or the signal that killed it
    records,        \* history: the signals a complete error record is out for
    printed,        \* history: zsignal_abort has printed its line to stdout
    raised          \* history: how often each signal came, but for the handler's own raise

vars == <<action, abort_expected, pc, frames, pending, heap, stdio, process, records, printed, raised>>

Init ==
    /\ action = [s \in Fatal |-> "handler"]
    /\ abort_expected = FALSE
    /\ pc = [t \in Threads |-> "run"]
    /\ frames = [t \in Threads |-> <<>>]
    /\ pending = [t \in Threads |-> {}]
    /\ heap = NoOne
    /\ stdio = NoOne
    /\ process = "running"
    /\ records = {}
    /\ printed = FALSE
    /\ raised = [s \in Fatal |-> 0]

InHandler(t) == frames[t] # <<>>
At(t, at)    == process = "running" /\ InHandler(t) /\ Last(frames[t]).at = at
Blocked(fs, s) == \E i \in DOMAIN fs : fs[i].sig = s

-----------------------------------------------------------------------------
(* The kernel.                                                              *)

\* Mutant: the handler stays installed.
OnDelivery_Keep == "handler"

\* SA_RESETHAND.
OnDelivery == "default"

\* s is delivered to t, which is in the handlers fs.
Deliver(t, s, fs) ==
    \/ /\ action[s] = "default"
       /\ process' = s
       /\ frames' = [frames EXCEPT ![t] = fs]
       /\ UNCHANGED action
    \/ /\ action[s] = "handler"
       /\ action' = [action EXCEPT ![s] = OnDelivery]
       /\ frames' = [frames EXCEPT ![t] = Append(fs, [sig |-> s, at |-> "check"])]
       /\ UNCHANGED process

\* A signal that is blocked waits; a fault does not.
Send(t, s) ==
    \/ /\ Blocked(frames[t], s)
       /\ pending' = [pending EXCEPT ![t] = @ \cup {s}]
       /\ UNCHANGED <<action, frames, process>>
    \/ /\ ~Blocked(frames[t], s)
       /\ Deliver(t, s, frames[t])
       /\ UNCHANGED pending

Force(t, s) ==
    \/ /\ Blocked(frames[t], s)
       /\ process' = s
       /\ UNCHANGED <<action, frames>>
    \/ /\ ~Blocked(frames[t], s)
       /\ Deliver(t, s, frames[t])

Count(s) ==
    /\ raised[s] < MaxSignals
    /\ raised' = [raised EXCEPT ![s] = @ + 1]

-----------------------------------------------------------------------------
(* What happens to the program: a fault, or a failed assertion that calls   *)
(* libc's abort, in the program or while a record is made; a signal from    *)
(* outside.                                                                 *)

Running(t) == process = "running" /\ ~InHandler(t) /\ pc[t] = "run"

\* The program is in malloc for a while, or in printf.
Allocate(t) ==
    /\ Running(t) /\ stdio # t
    /\ heap = NoOne
    /\ heap' = t
    /\ UNCHANGED <<action, abort_expected, pc, frames, pending, stdio, process, records, printed, raised>>

Release(t) ==
    /\ Running(t)
    /\ heap = t
    /\ heap' = NoOne
    /\ UNCHANGED <<action, abort_expected, pc, frames, pending, stdio, process, records, printed, raised>>

StartPrint(t) ==
    /\ Running(t) /\ heap # t
    /\ stdio = NoOne
    /\ stdio' = t
    /\ UNCHANGED <<action, abort_expected, pc, frames, pending, heap, process, records, printed, raised>>

EndPrint(t) ==
    /\ Running(t)
    /\ stdio = t
    /\ stdio' = NoOne
    /\ UNCHANGED <<action, abort_expected, pc, frames, pending, heap, process, records, printed, raised>>

Fault(t, s) ==
    /\ Running(t) \/ At(t, "record")
    /\ Count(s)
    /\ Force(t, s)
    /\ UNCHANGED <<abort_expected, pc, pending, heap, stdio, records, printed>>

\* The kernel takes a thread that does not block s, if there is one.
Kill(t, s) ==
    /\ process = "running"
    /\ Blocked(frames[t], s) => \A u \in Threads : Blocked(frames[u], s)
    /\ Count(s)
    /\ Send(t, s)
    /\ UNCHANGED <<abort_expected, pc, heap, stdio, records, printed>>

-----------------------------------------------------------------------------
(* printf, in the handler and in zsignal_abort.                             *)

\* Mutant: the handler's printf may be the first.
PrintAllocates_First == TRUE

\* main has made stdout's buffer with its first line, before zsignal_init.
PrintAllocates == FALSE

CanPrint(t) ==
    /\ stdio \in {NoOne, t}
    /\ PrintAllocates => heap = NoOne

-----------------------------------------------------------------------------
(* zsignal_abort.  Its exit(-1) is where pc is "exit" outside a handler.    *)

AbortFlag(t) ==
    /\ Running(t) /\ t \notin {heap, stdio}
    /\ Count(SIGABRT)
    /\ abort_expected' = TRUE
    /\ pc' = [pc EXCEPT ![t] = "print"]
    /\ UNCHANGED <<action, frames, pending, heap, stdio, process, records, printed>>

AbortPrint(t) ==
    /\ process = "running" /\ ~InHandler(t) /\ pc[t] = "print"
    /\ CanPrint(t)
    /\ printed' = TRUE
    /\ pc' = [pc EXCEPT ![t] = "raise"]
    /\ UNCHANGED <<action, abort_expected, frames, pending, heap, stdio, process, records, raised>>

AbortRaise(t) ==
    /\ process = "running" /\ ~InHandler(t) /\ pc[t] = "raise"
    /\ pc' = [pc EXCEPT ![t] = "exit"]
    /\ Deliver(t, SIGABRT, <<>>)
    /\ UNCHANGED <<abort_expected, pending, heap, stdio, records, printed, raised>>

-----------------------------------------------------------------------------
(* fatal_signal_handler.                                                    *)

Goto(t, at) == frames' = [frames EXCEPT ![t] = Front(@) \o <<[Last(@) EXCEPT !.at = at]>>]

\* Mutant: any signal is skipped after an abort.
Skips_Any(s) == abort_expected

\* "the error record was already printed there"
Skips(s) == s = SIGABRT /\ abort_expected

\* printf, and the choice whether to make a record.
Check(t) ==
    /\ At(t, "check")
    /\ CanPrint(t)
    /\ Goto(t, IF Skips(Last(frames[t]).sig) THEN "raise" ELSE "record")
    /\ UNCHANGED <<action, abort_expected, pc, pending, heap, stdio, process, records, printed, raised>>

\* Mutant: the handler's backtrace is the first.
Allocates_First == TRUE

\* zsignal_init has called backtrace before it installs the handlers.
Allocates == FALSE

\* Making the record takes long; it is out when it was written to stderr.
Record(t) ==
    /\ At(t, "record")
    /\ Allocates => heap = NoOne
    /\ records' = records \cup {Last(frames[t]).sig}
    /\ Goto(t, "raise")
    /\ UNCHANGED <<action, abort_expected, pc, pending, heap, stdio, process, printed, raised>>

\* Mutant: the handler ends without raising the signal again.
Again_Never(s) == {}

Again(s) == {s}

\* The signal is blocked here, so raise leaves it pending and returns.
Raise(t) ==
    /\ At(t, "raise")
    /\ pending' = [pending EXCEPT ![t] = @ \cup Again(Last(frames[t]).sig)]
    /\ Goto(t, "return")
    /\ UNCHANGED <<action, abort_expected, pc, heap, stdio, process, records, printed, raised>>

Return(t) ==
    /\ At(t, "return")
    /\ LET outer == Front(frames[t])
           due   == {s \in pending[t] : ~Blocked(outer, s)}
       IN  IF due = {}
           THEN /\ frames' = [frames EXCEPT ![t] = outer]
                /\ UNCHANGED <<action, pending, process>>
           ELSE \E s \in due :
                /\ pending' = [pending EXCEPT ![t] = @ \ {s}]
                /\ Deliver(t, s, outer)
    /\ UNCHANGED <<abort_expected, pc, heap, stdio, records, printed, raised>>

Handler(t) == Check(t) \/ Record(t) \/ Raise(t) \/ Return(t)
Abort(t)   == AbortPrint(t) \/ AbortRaise(t)

Next == \E t \in Threads :
    \/ \E s \in Fatal : Fault(t, s) \/ Kill(t, s)
    \/ Allocate(t) \/ Release(t) \/ StartPrint(t) \/ EndPrint(t)
    \/ AbortFlag(t) \/ Abort(t) \/ Handler(t)

Spec == Init /\ [][Next]_vars

\* A thread goes on with what it has begun: the handler, zsignal_abort, malloc,
\* printf.  One that waits for stdout's lock gets it in the end, though others
\* keep printing: they take it again only if they run before it, each time.
Fairness ==
    \A t \in Threads : SF_vars(Handler(t) \/ Abort(t)) /\ WF_vars(Release(t) \/ EndPrint(t))

-----------------------------------------------------------------------------
TypeOK ==
    /\ action \in [Fatal -> {"handler", "default"}]
    /\ abort_expected \in BOOLEAN
    /\ pc \in [Threads -> {"run", "print", "raise", "exit"}]
    /\ frames \in [Threads -> Seq([sig : Fatal, at : {"check", "record", "raise", "return"}])]
    /\ pending \in [Threads -> SUBSET Fatal]
    /\ heap \in Threads \cup {NoOne} /\ stdio \in Threads \cup {NoOne}
    /\ process \in Fatal \cup {"running"}
    /\ records \subseteq Fatal
    /\ printed \in BOOLEAN
    /\ raised \in [Fatal -> 0 .. MaxSignals]

\* A signal's handler is never in two places at once, neither nested in itself,
\* so that a fault of the code that makes the record does not make records
\* without end, nor in two threads that make a record of the same signal
\* (SA_RESETHAND, zsignal.cc:160).
NoReentry ==
    \A t, u \in Threads : \A i \in DOMAIN frames[t], j \in DOMAIN frames[u] :
        frames[t][i].sig = frames[u][j].sig => t = u /\ i = j

\* zsignal_abort ends in the handler's raise: its exit(-1) is never executed,
\* whatever other threads do to SIGABRT meanwhile (zsignal.cc:401-406).
ExitNeverExecuted ==
    \A t \in Threads : process = "running" /\ pc[t] = "exit" => InHandler(t)

\* A process that dies of a signal which came only once leaves a report of
\* it: the record, or the line of zsignal_abort, which stdio may still hold.
\* Handlers of other signals in other threads, or around this one, do not suppress it
\* (zsignal.cc:114-126).
LoneSignalIsReported ==
    process \in Fatal /\ raised[process] = 1 =>
        process \in records \/ (process = SIGABRT /\ printed)

\* zsignal.cc:123-124 "... system default handler ... which will terminate the
\* process": a fatal signal kills, also through a handler that blocks it, and
\* also one that interrupts malloc or printf.  The handler waits for no lock that
\* the thread it interrupted holds: its printf and the record call malloc no more
\* (libmain/main.cc:5, zsignal.cc:320-323), and stdout's lock, which printf takes
\* (zsignal.cc:115), may be taken again.
FatalSignalKills == (\E s \in Fatal : raised[s] > 0) ~> process # "running"
=============================================================================
