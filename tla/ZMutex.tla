------------------------------- MODULE ZMutex -------------------------------
(***************************************************************************)
(* lib/zmutex.cc: a recursive mutex with lock, trylock, timedlock and      *)
(* unlock, and the deadline that timedlock computes.  The mutex itself is  *)
(* pthread's (external): a thread that asks for it gets it, waits, or is   *)
(* turned away with EBUSY, ETIMEDOUT, EPERM or, for a deadline whose       *)
(* nanoseconds are not below a second, EINVAL.                             *)
(***************************************************************************)
EXTENDS Integers

CONSTANTS
    Threads,
    NoOne,
    Start,       \* CLOCK_REALTIME at the beginning, [tv_sec, tv_nsec]
    TickNs,      \* how far the clock goes in a step, in nanoseconds
    Timeouts,    \* the timeout_ms callers use
    MaxSec,      \* bound: the clock stops after this second
    MaxDepth,    \* bound: how often a thread locks the mutex it holds
    MaxCalls     \* bound: calls that may wait

Second      == 1000000000
Millisecond == 1000000
Times       == [tv_sec : Nat, tv_nsec : 0 .. Second - 1]

ZMutexAssumption ==
    /\ NoOne \notin Threads
    /\ Start \in Times /\ TickNs \in 1 .. Second
    /\ Timeouts \subseteq Nat
    /\ MaxSec \in Nat /\ MaxDepth \in Nat \ {0} /\ MaxCalls \in Nat

VARIABLES
    now,     \* CLOCK_REALTIME
    holder,  \* who holds the mutex
    depth,   \* how often
    call,    \* each thread's call that waits
    ret,     \* what each thread's last call returned
    calls    \* how many calls that may wait were made

vars == <<now, holder, depth, call, ret, calls>>

NoCall == [op |-> "none"]

\* a is not after b.
NotAfter(a, b) == a.tv_sec < b.tv_sec \/ (a.tv_sec = b.tv_sec /\ a.tv_nsec <= b.tv_nsec)

\* The time ns nanoseconds after a, if ns is at most a second.
Later(a, ns) ==
    IF a.tv_nsec + ns >= Second
    THEN [tv_sec |-> a.tv_sec + 1, tv_nsec |-> a.tv_nsec + ns - Second]
    ELSE [tv_sec |-> a.tv_sec, tv_nsec |-> a.tv_nsec + ns]

Init ==
    /\ now = Start
    /\ holder = NoOne /\ depth = 0
    /\ call = [t \in Threads |-> NoCall]
    /\ ret = [t \in Threads |-> "none"]
    /\ calls = 0

Tick ==
    /\ now.tv_sec < MaxSec
    /\ now' = Later(now, TickNs)
    /\ UNCHANGED <<holder, depth, call, ret, calls>>

-----------------------------------------------------------------------------
\* Mutants: a nanosecond field of exactly one second is kept; the second that
\* was carried is lost.
Carry_Late(sec, nsec) ==
    IF nsec > Second THEN [tv_sec |-> sec + 1, tv_nsec |-> nsec - Second]
                     ELSE [tv_sec |-> sec, tv_nsec |-> nsec]
Carry_Lost(sec, nsec) ==
    IF nsec >= Second THEN [tv_sec |-> sec, tv_nsec |-> nsec - Second]
                      ELSE [tv_sec |-> sec, tv_nsec |-> nsec]

Carry(sec, nsec) ==
    IF nsec >= Second THEN [tv_sec |-> sec + 1, tv_nsec |-> nsec - Second]
                      ELSE [tv_sec |-> sec, tv_nsec |-> nsec]

\* Mutant: the timeout is taken for seconds.
Deadline_Seconds(at, timeout_ms) == Carry(at.tv_sec + timeout_ms, at.tv_nsec)

\* abs_time, when the clock says at.
Deadline(at, timeout_ms) ==
    Carry(at.tv_sec + timeout_ms \div 1000, at.tv_nsec + (timeout_ms % 1000) * Millisecond)

-----------------------------------------------------------------------------
Idle(t) == call[t] = NoCall

\* pthread_mutex_lock: the mutex is free, or t's own and not locked too often.
Takes(t) ==
    /\ holder \in {NoOne, t}
    /\ depth < MaxDepth
    /\ holder' = t
    /\ depth' = depth + 1

Returns(t, rc) == ret' = [ret EXCEPT ![t] = rc]

\* zmutex_timedlock with timeout 0 is zmutex_lock.
Waits(timeout_ms) == timeout_ms # 0

\* zmutex_lock, or zmutex_timedlock as far as pthread_mutex_timedlock.
Begin(t, op) ==
    /\ Idle(t)
    /\ calls < MaxCalls
    /\ holder = t => depth < MaxDepth
    /\ calls' = calls + 1
    /\ call' = [call EXCEPT ![t] = op]
    /\ ret' = [ret EXCEPT ![t] = "none"]
    /\ UNCHANGED <<now, holder, depth>>

Lock(t) == Begin(t, [op |-> "lock"])

TimedLock(t, ms) ==
    Begin(t, IF Waits(ms)
             THEN [op |-> "timedlock", since |-> now, ms |-> ms, deadline |-> Deadline(now, ms)]
             ELSE [op |-> "lock"])

\* The clock cannot be read: timedlock asks pthread for nothing.  It says EINVAL
\* then too; the model keeps it apart from pthread's.
ClockFails(t, ms) ==
    /\ Idle(t)
    /\ Waits(ms)
    /\ Returns(t, "EINVAL, no clock")
    /\ UNCHANGED <<now, holder, depth, call, calls>>

Acquire(t) ==
    /\ ~Idle(t)
    /\ Takes(t)
    /\ call' = [call EXCEPT ![t] = NoCall]
    /\ Returns(t, "0")
    /\ UNCHANGED <<now, calls>>

\* pthread looks at the deadline only if it has to wait.
GiveUp(t) ==
    /\ call[t].op = "timedlock"
    /\ holder \notin {NoOne, t}
    /\ \/ call[t].deadline.tv_nsec >= Second /\ Returns(t, "EINVAL")
       \/ call[t].deadline.tv_nsec < Second /\ NotAfter(call[t].deadline, now) /\ Returns(t, "ETIMEDOUT")
    /\ call' = [call EXCEPT ![t] = NoCall]
    /\ UNCHANGED <<now, holder, depth, calls>>

TryLock(t) ==
    /\ Idle(t)
    /\ \/ Takes(t) /\ Returns(t, "0")
       \/ holder \notin {NoOne, t} /\ Returns(t, "EBUSY") /\ UNCHANGED <<holder, depth>>
    /\ UNCHANGED <<now, call, calls>>

\* PTHREAD_MUTEX_RECURSIVE.
HolderAfterUnlock(t) == IF depth = 1 THEN NoOne ELSE t

Unlock(t) ==
    /\ Idle(t)
    /\ \/ /\ holder = t
          /\ depth' = depth - 1
          /\ holder' = HolderAfterUnlock(t)
          /\ Returns(t, "0")
       \/ holder # t /\ Returns(t, "EPERM") /\ UNCHANGED <<holder, depth>>
    /\ UNCHANGED <<now, call, calls>>

Next ==
    \/ Tick
    \/ \E t \in Threads :
        \/ Lock(t) \/ Acquire(t) \/ GiveUp(t) \/ TryLock(t) \/ Unlock(t)
        \/ \E ms \in Timeouts : TimedLock(t, ms) \/ ClockFails(t, ms)

Spec == Init /\ [][Next]_vars

\* Time passes, and pthread serves who can be served.  Nobody need unlock.
Fairness == WF_vars(Tick) /\ \A t \in Threads : WF_vars(Acquire(t) \/ GiveUp(t))

-----------------------------------------------------------------------------
TypeOK ==
    /\ now \in Times
    /\ holder \in Threads \cup {NoOne}
    /\ depth \in 0 .. MaxDepth /\ (depth = 0 <=> holder = NoOne)
    /\ \A t \in Threads : call[t].op \in {"none", "lock", "timedlock"}
    /\ ret \in [Threads -> {"none", "0", "EBUSY", "ETIMEDOUT", "EPERM", "EINVAL", "EINVAL, no clock"}]
    /\ calls \in 0 .. MaxCalls

\* pthread accepts every deadline: timedlock never fails for its own arithmetic
\* (zmutex.cc:65-68), only for a clock it cannot read.
DeadlineAccepted == \A t \in Threads : ret[t] # "EINVAL"

\* Who is turned away with ETIMEDOUT has waited as long as it asked for, not a
\* nanosecond less, and a timeout of 0 is never turned away (zmutex.cc:51-70).
GivesUpInTime ==
    [][\A t \in Threads : ret'[t] = "ETIMEDOUT" /\ ret[t] # "ETIMEDOUT" =>
           LET ms == call[t].ms
           IN  /\ ms > 0
               /\ (now.tv_sec - call[t].since.tv_sec) * 1000
                    + (now.tv_nsec - call[t].since.tv_nsec) \div Millisecond >= ms]_vars

\* A timedlock with a timeout returns once the clock has gone that far, also if
\* the holder never unlocks (zmutex.cc:62-70).
TimedLockReturns ==
    \A t \in Threads :
        call[t].op = "timedlock" /\ call[t].since.tv_sec + call[t].ms \div 1000 + 2 <= MaxSec
            ~> Idle(t)
=============================================================================
