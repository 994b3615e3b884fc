----------------------------- MODULE MCThreads -----------------------------
(* Small instances of the parts of lib/ that run in many threads and do not *)
(* meet: thread objects, mutexes, fatal signals.  A behaviour is one part's,*)
(* and the others stay as they began.                                       *)
EXTENDS UThread, TLC

CONSTANTS
    Threads, NoOne,                                          \* of both others
    Fatal, SIGABRT, MaxSignals,                              \* ZFatal
    Start_sec, Start_ns, TickNs, Timeouts, MaxSec, MaxDepth, MaxCalls  \* ZMutex

VARIABLES
    part,
    action, abort_expected, pc, frames, pending, heap, stdio, process, records, printed, raised,
    now, holder, depth, call, ret, calls

F == INSTANCE ZFatal
M == INSTANCE ZMutex WITH Start <- [tv_sec |-> Start_sec, tv_nsec |-> Start_ns]

ASSUME ThreadsAssumption == F!ZFatalAssumption /\ M!ZMutexAssumption

fatal == <<action, abort_expected, pc, frames, pending, heap, stdio, process, records, printed, raised>>
mutex == <<now, holder, depth, call, ret, calls>>

MCInit ==
    /\ part \in {"UThread", "ZFatal", "ZMutex"}
    /\ Init /\ F!Init /\ M!Init

MCNext ==
    /\ \/ part = "UThread" /\ Next   /\ UNCHANGED <<fatal, mutex>>
       \/ part = "ZFatal"  /\ F!Next /\ UNCHANGED <<vars, mutex>>
       \/ part = "ZMutex"  /\ M!Next /\ UNCHANGED <<vars, fatal>>
    /\ UNCHANGED part

MCSpec ==
    /\ MCInit /\ [][MCNext]_<<part, vars, fatal, mutex>>
    /\ Fairness
    /\ F!Fairness
    /\ part = "ZMutex" => M!Fairness

\* A fatal signal's handler is never in two places at once (zsignal.cc:160).
NoReentry == F!NoReentry

\* zsignal_abort never gets as far as its exit(-1) (zsignal.cc:401-406).
ExitNeverExecuted == F!ExitNeverExecuted

\* A process killed by a signal that came once leaves a report (zsignal.cc:114-126).
LoneSignalIsReported == F!LoneSignalIsReported

\* A fatal signal kills, also in malloc and printf (zsignal.cc:115, 123-124, 320-323).
FatalSignalKills == F!FatalSignalKills

\* timedlock is never refused for its deadline (zmutex.cc:65-68).
DeadlineAccepted == M!DeadlineAccepted

\* Nobody is turned away before the time it asked for (zmutex.cc:51-70).
GivesUpInTime == M!GivesUpInTime

\* timedlock returns though the holder never unlocks (zmutex.cc:62-70).
TimedLockReturns == M!TimedLockReturns
=============================================================================
