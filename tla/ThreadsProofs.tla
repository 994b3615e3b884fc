--------------------------- MODULE ThreadsProofs ---------------------------
(***************************************************************************)
(* The thread objects of UThread, the mutex of ZMutex and the fatal        *)
(* signals of ZFatal, proved for any threads, signals, timeouts and clock: *)
(* only ids that can still be joined are joined, and no thread works on a  *)
(* deleted object but one that a second create has lost; no deadline is    *)
(* refused, and none is given up early; no handler is in two places at     *)
(* once, nobody dies unreported of a signal that came once, zsignal_abort  *)
(* does not get to its exit.                                               *)
(***************************************************************************)
EXTENDS MCThreads, SequenceTheorems, TLAPS

-----------------------------------------------------------------------------
(* UThread: the life of a thread object.                                   *)

\* While the object lives, it knows every thread that was not joined, or has
\* lost it to a second create.
Unjoined ==
    object = "alive" =>
        \A t \in Tids : at[t] \in Live \cup {"ended"} => t = m_threadId \/ t \in orphans

\* The flag is set before the body begins.
FlagComesFirst ==
    m_threadId # NoThread /\ at[m_threadId] \in Body \cup {"dispatch"}
        /\ m_threadId \notin exited /\ ~failed => m_isThreadRunning

LifeInv == TypeOK /\ IdIsJoinable /\ Unjoined /\ NoUseAfterDelete /\ FlagComesFirst

LEMMA InitLife == Init => LifeInv
  BY UThreadAssumption DEF Init, LifeInv, TypeOK, IdIsJoinable, Unjoined, NoUseAfterDelete,
     FlagComesFirst, Live, Start, Body

LEMMA StepCreate ==
  ASSUME LifeInv, NEW t \in Tids, NEW callback \in BOOLEAN,
         Create(t, callback) \/ CreateFails(t, callback)
  PROVE  LifeInv'
<1> USE UThreadAssumption DEF LifeInv, Live, Start, Body
<1>1. CASE Create(t, callback)
  <2>1. /\ at' = [at EXCEPT ![t] = "name"] /\ m_threadId' = t /\ object = "alive"
        /\ orphans' = orphans \cup Lost
        /\ UNCHANGED <<m_isThreadRunning, object, owner, cancelled, exited, failed>>
    BY <1>1 DEF Create, OwnerCalls
  <2>2. TypeOK'
    BY <1>1, <2>1 DEF Create, TypeOK, Lost
  <2>3. IdIsJoinable' /\ FlagComesFirst' /\ NoUseAfterDelete'
    BY <2>1 DEF IdIsJoinable, FlagComesFirst, NoUseAfterDelete, TypeOK
  <2>4. Unjoined'
    BY <2>1 DEF Unjoined, Lost, TypeOK
  <2> QED
    BY <2>2, <2>3, <2>4
<1>2. CASE CreateFails(t, callback)
  <2>1. /\ at[t] = "none" /\ at' = [at EXCEPT ![t] = "gone"] /\ object = "alive"
        /\ object' = "alive" /\ failed' = TRUE /\ UNCHANGED <<owner, cancelled, exited>>
    BY <1>2 DEF CreateFails, OwnerCalls
  <2>2. \/ UNCHANGED <<m_threadId, orphans>>
        \/ m_threadId' = t /\ orphans' = orphans \cup Lost
    BY <1>2 DEF CreateFails
  <2>3. TypeOK'
    BY <1>2, <2>1, <2>2 DEF CreateFails, TypeOK, Lost
  <2>4. IdIsJoinable' /\ FlagComesFirst' /\ NoUseAfterDelete'
    BY <2>1 DEF IdIsJoinable, FlagComesFirst, NoUseAfterDelete
  <2>5. \A s \in Tids : at'[s] \in Live \cup {"ended"} => at[s] \in Live \cup {"ended"}
    BY <2>1 DEF TypeOK
  <2>6. Unjoined'
    BY <2>1, <2>2, <2>5 DEF Unjoined, Lost
  <2> QED
    BY <2>3, <2>4, <2>6
<1> QED
  BY <1>1, <1>2

LEMMA StepExitOther == LifeInv /\ ExitOther => LifeInv'
<1> SUFFICES ASSUME LifeInv, ExitOther PROVE LifeInv'
  OBVIOUS
<1> USE DEF LifeInv, ExitOther, HasThread, Cancels
<1>1. TypeOK'
  BY DEF TypeOK
<1>2. IdIsJoinable' /\ Unjoined' /\ NoUseAfterDelete' /\ FlagComesFirst'
  BY DEF IdIsJoinable, Unjoined, NoUseAfterDelete, FlagComesFirst
<1> QED
  BY <1>1, <1>2

LEMMA StepWait == \A c \in {"join", "delete"} : LifeInv /\ Wait(c) => LifeInv'
  BY DEF LifeInv, Wait, TypeOK, IdIsJoinable, Unjoined, NoUseAfterDelete, FlagComesFirst

\* The thread that was waited for is gone, and the id with it.
LEMMA StepJoined == LifeInv /\ Joined => LifeInv'
<1> SUFFICES ASSUME LifeInv, Joined PROVE LifeInv'
  OBVIOUS
<1> USE DEF LifeInv, Live, Start, Body
<1>1. /\ at' = [at EXCEPT ![m_threadId] = "gone"] /\ m_threadId' = NoThread
      /\ owner' = "none"
      /\ UNCHANGED <<m_isThreadRunning, m_create_cb, object, cancelled, exited, orphans, failed>>
  BY DEF Joined, IdAfterJoin
<1>2. TypeOK'
  BY <1>1 DEF TypeOK
<1>3. \A t \in Tids : at'[t] = IF t = m_threadId THEN "gone" ELSE at[t]
  BY <1>1 DEF TypeOK
<1>4. IdIsJoinable' /\ Unjoined' /\ NoUseAfterDelete' /\ FlagComesFirst'
  BY <1>1, <1>3 DEF IdIsJoinable, Unjoined, NoUseAfterDelete, FlagComesFirst
<1> QED
  BY <1>2, <1>4

\* The object is deleted when every thread has ended, but those lost.
LEMMA StepDelete ==
  ASSUME LifeInv, Delete \/ Deleted \/ \E t \in Tids : DeleteSelf(t)
  PROVE  LifeInv'
<1> USE UThreadAssumption DEF LifeInv, Live, Start, Body
<1>1. CASE DeleteWaits /\ Wait("delete")
  BY <1>1, StepWait
<1>2. CASE OwnerCalls /\ ~DeleteWaits /\ object' = "deleted"
           /\ UNCHANGED <<m_threadId, m_isThreadRunning, m_create_cb, owner, at, cancelled,
                          exited, orphans, failed>>
  BY <1>2 DEF OwnerCalls, DeleteWaits, TypeOK, IdIsJoinable, Unjoined, NoUseAfterDelete, FlagComesFirst
<1>3. CASE Deleted
  <2>1. /\ at' = [at EXCEPT ![m_threadId] = "gone"] /\ object' = "deleted" /\ owner' = "none"
        /\ at[m_threadId] = "ended"
        /\ UNCHANGED <<m_threadId, m_isThreadRunning, m_create_cb, cancelled, exited, orphans, failed>>
    BY <1>3 DEF Deleted
  <2>2. TypeOK'
    BY <2>1 DEF TypeOK
  <2>3. \A t \in Tids : at'[t] = IF t = m_threadId THEN "gone" ELSE at[t]
    BY <2>1 DEF TypeOK
  <2>4. NoUseAfterDelete'
    BY <2>1, <2>3 DEF Unjoined, NoUseAfterDelete, TypeOK
  <2>5. IdIsJoinable' /\ Unjoined' /\ FlagComesFirst'
    BY <2>1, <2>3 DEF IdIsJoinable, Unjoined, FlagComesFirst, TypeOK
  <2> QED
    BY <2>2, <2>4, <2>5
<1>4. ASSUME NEW t \in Tids, DeleteSelf(t) PROVE LifeInv'
  <2>1. /\ at' = [at EXCEPT ![t] = "leaving"] /\ object = "alive" /\ object' = "deleted"
        /\ m_threadId = t /\ at[t] \in {"callback", "onExit"}
        /\ UNCHANGED <<m_threadId, m_isThreadRunning, m_create_cb, owner, cancelled, exited,
                       orphans, failed>>
    BY <1>4 DEF DeleteSelf, OwnerCalls
  <2>2. TypeOK'
    BY <2>1 DEF TypeOK
  <2>3. \A u \in Tids : at'[u] = IF u = t THEN "leaving" ELSE at[u]
    BY <2>1 DEF TypeOK
  <2>4. IdIsJoinable' /\ Unjoined' /\ NoUseAfterDelete' /\ FlagComesFirst'
    BY <2>1, <2>3 DEF IdIsJoinable, Unjoined, NoUseAfterDelete, FlagComesFirst
  <2> QED
    BY <2>2, <2>4
<1> QED
  BY <1>1, <1>2, <1>3, <1>4 DEF Delete

-----------------------------------------------------------------------------
(* UThread: a thread's steps.                                              *)

\* A thread that goes on, or ends, changes nothing but where it is.
LEMMA StepMoves ==
  ASSUME LifeInv, NEW t \in Tids, NEW to \in Live \cup {"ended"},
         at[t] \in Live, at' = [at EXCEPT ![t] = to],
         to \in Live \ {"callback", "leaving"} => at[t] \in Live \ {"callback", "leaving"},
         to \in Body \cup {"dispatch"} => at[t] \in Body \cup {"dispatch"},
         UNCHANGED <<m_threadId, m_isThreadRunning, m_create_cb, object, owner, cancelled,
                     orphans, failed>>,
         exited' \in {exited, exited \cup {t}}
  PROVE  LifeInv'
<1> USE DEF LifeInv
<1>1. TypeOK'
  BY DEF TypeOK
<1>2. \A u \in Tids : at'[u] = IF u = t THEN to ELSE at[u]
  BY DEF TypeOK
<1>3. IdIsJoinable'
  BY <1>2 DEF IdIsJoinable, TypeOK
<1>4. Unjoined' /\ NoUseAfterDelete'
  BY <1>2 DEF Unjoined, NoUseAfterDelete
<1>5. FlagComesFirst'
  BY <1>2 DEF FlagComesFirst, TypeOK
<1> QED
  BY <1>1, <1>3, <1>4, <1>5

LEMMA StepSetFlag == ASSUME LifeInv, NEW t \in Tids, SetFlag(t) PROVE LifeInv'
<1> USE DEF LifeInv, Live, Start, Body
<1>1. /\ at[t] = "flag" /\ at' = [at EXCEPT ![t] = "dispatch"] /\ m_isThreadRunning' = TRUE
      /\ UNCHANGED <<m_threadId, m_create_cb, object, owner, cancelled, exited, orphans, failed>>
  BY DEF SetFlag, Goto, FlagAtStart
<1>2. TypeOK'
  BY <1>1 DEF TypeOK
<1>3. \A u \in Tids : at'[u] = IF u = t THEN "dispatch" ELSE at[u]
  BY <1>1 DEF TypeOK
<1>4. IdIsJoinable' /\ Unjoined' /\ NoUseAfterDelete' /\ FlagComesFirst'
  BY <1>1, <1>3 DEF IdIsJoinable, Unjoined, NoUseAfterDelete, FlagComesFirst, TypeOK
<1> QED
  BY <1>2, <1>4

LEMMA StepThread ==
  ASSUME LifeInv, NEW t \in Tids, Thread(t) \/ Finish(t) \/ ExitSelf(t)
  PROVE  LifeInv'
<1>1. CASE SetName(t)
  BY <1>1, StepMoves DEF SetName, Goto, Live, Start, Body
<1>2. CASE SetFlag(t)
  BY <1>2, StepSetFlag
<1>3. CASE Proceed(t)
  BY <1>3, StepMoves DEF Proceed, Goto, Live, Start, Body
<1>4. CASE Finish(t)
  BY <1>4, StepMoves DEF Finish, Goto, Live, Start, Body
<1>5. CASE Cancelled(t)
  BY <1>5, StepMoves DEF Cancelled, Live, Start, Body
<1>6. CASE ExitSelf(t) /\ m_threadId = t
  BY <1>6, StepMoves DEF ExitSelf, Live, Start, Body
<1>7. CASE ExitSelf(t) /\ m_threadId # t
  BY <1>7, StepExitOther DEF ExitSelf
<1> QED
  BY <1>1, <1>2, <1>3, <1>4, <1>5, <1>6, <1>7 DEF Thread

LEMMA StepLife == LifeInv /\ [Next]_vars => LifeInv'
<1> SUFFICES ASSUME LifeInv, [Next]_vars PROVE LifeInv'
  OBVIOUS
<1>1. CASE UNCHANGED vars
  BY <1>1 DEF vars, LifeInv, TypeOK, IdIsJoinable, Unjoined, NoUseAfterDelete, FlagComesFirst
<1>2. CASE Exit
  BY <1>2, StepExitOther DEF Exit
<1>3. CASE Join
  BY <1>3, StepWait DEF Join
<1> QED
  BY <1>1, <1>2, <1>3, StepCreate, StepJoined, StepDelete, StepThread DEF Next

LEMMA LifeInvariant == Spec => []LifeInv
  BY InitLife, StepLife, PTL DEF Spec

-----------------------------------------------------------------------------
\* pthread_join and pthread_cancel get ids that are still good, in any order of
\* the owner's calls (uthread.cc:55-65, 96-124).
THEOREM IdsAreJoinable == Spec => []IdIsJoinable
  BY LifeInvariant, PTL DEF LifeInv

\* After the destructor no thread works on the object, except one that a second
\* create has lost (uthread.cc:22-40, 59-69, 88).
THEOREM DeletedIsUnused == Spec => []NoUseAfterDelete
  BY LifeInvariant, PTL DEF LifeInv

\* A thread that runs its body is said to run (uthread.cc:29, 91, 110).
THEOREM RunningThreadIsTold == Spec => []RunningIsTold
<1>1. LifeInv => RunningIsTold
  BY DEF LifeInv, FlagComesFirst, RunningIsTold
<1> QED
  BY <1>1, LifeInvariant, PTL


-----------------------------------------------------------------------------
(* ZMutex: deadlines.                                                       *)

TimedCall == [op : {"timedlock"}, since : M!Times, ms : Nat, deadline : M!Times]
LockCall  == [op |-> "lock"]
Answers   == {"none", "0", "EBUSY", "ETIMEDOUT", "EPERM", "EINVAL, no clock"}

\* A call waits for the deadline it computed when it began.
DeadlineInv ==
    /\ now \in M!Times
    /\ call \in [Threads -> {M!NoCall, LockCall} \cup TimedCall]
    /\ \A t \in Threads : call[t].op = "timedlock" =>
           call[t].ms > 0 /\ call[t].deadline = M!Deadline(call[t].since, call[t].ms)
    /\ ret \in [Threads -> Answers]

LEMMA Units == M!Second = 1000000000 /\ M!Millisecond = 1000000
BY DEF M!Second, M!Millisecond

\* The same without the numbers, which the provers do not like in an interval.
LEMMA SecondFacts == M!Second \in Nat /\ M!Millisecond \in Nat /\ M!Second > 0
BY Units, SMT

\* Adding a time to a time carries at most one second.
LEMMA CarryCarries ==
  ASSUME NEW sec \in Nat, NEW nsec \in Nat, nsec < 2 * M!Second
  PROVE  /\ M!Carry(sec, nsec) \in M!Times
         /\ M!Carry(sec, nsec).tv_sec * M!Second + M!Carry(sec, nsec).tv_nsec
              = sec * M!Second + nsec
<1>1. CASE nsec >= M!Second
  <2>1. M!Carry(sec, nsec) = [tv_sec |-> sec + 1, tv_nsec |-> nsec - M!Second]
    BY <1>1 DEF M!Carry
  <2>2. nsec - M!Second \in 0 .. M!Second - 1
    BY <1>1, SecondFacts
  <2>3. (sec + 1) * M!Second + (nsec - M!Second) = sec * M!Second + nsec
    BY Units, SMT
  <2> QED
    BY <2>1, <2>2, <2>3 DEF M!Times
<1>2. CASE ~(nsec >= M!Second)
  <2>1. M!Carry(sec, nsec) = [tv_sec |-> sec, tv_nsec |-> nsec]
    BY <1>2 DEF M!Carry
  <2>2. nsec \in 0 .. M!Second - 1
    BY <1>2, SecondFacts
  <2> QED
    BY <2>1, <2>2 DEF M!Times
<1> QED
  BY <1>1, <1>2

LEMMA TimeFacts ==
  ASSUME NEW from \in M!Times
  PROVE  from.tv_sec \in Nat /\ from.tv_nsec \in Nat /\ from.tv_nsec < M!Second
BY SecondFacts DEF M!Times

\* A deadline is a time pthread accepts, as far away as was asked for.
LEMMA DeadlineIsTime ==
  ASSUME NEW from \in M!Times, NEW ms \in Nat
  PROVE  /\ M!Deadline(from, ms) \in M!Times
         /\ M!Deadline(from, ms).tv_sec * M!Second + M!Deadline(from, ms).tv_nsec
              = from.tv_sec * M!Second + from.tv_nsec + ms * M!Millisecond
<1> DEFINE q == ms \div 1000
           r == ms % 1000
           sec == from.tv_sec + q
           nsec == from.tv_nsec + r * M!Millisecond
<1>1. from.tv_sec \in Nat /\ from.tv_nsec \in Nat /\ from.tv_nsec < M!Second
  BY TimeFacts
<1>2. q \in Nat /\ r \in Nat /\ r < 1000 /\ ms = (1000 * q) + r
  OBVIOUS
<1>3. M!Deadline(from, ms) = M!Carry(sec, nsec)
  BY DEF M!Deadline
<1> HIDE DEF q, r
<1>4. sec \in Nat /\ nsec \in Nat /\ nsec < 2 * M!Second
  BY <1>1, <1>2, Units, SMT
<1>5. sec * M!Second + nsec = from.tv_sec * M!Second + from.tv_nsec + ms * M!Millisecond
  BY <1>1, <1>2, Units, SMT
<1> HIDE DEF sec, nsec
<1> QED
  BY <1>3, <1>4, <1>5, CarryCarries

LEMMA DeadlineInit == M!Init => DeadlineInv
BY ThreadsAssumption DEF M!Init, DeadlineInv, M!ZMutexAssumption, M!NoCall, Answers

LEMMA DeadlineStep == DeadlineInv /\ [M!Next]_(M!vars) => DeadlineInv'
<1> SUFFICES ASSUME DeadlineInv, [M!Next]_(M!vars) PROVE DeadlineInv'
  OBVIOUS
<1> USE DEF DeadlineInv
<1>1. CASE M!Tick
  <2>1. TickNs \in 1 .. M!Second
    BY ThreadsAssumption DEF M!ZMutexAssumption
  <2>2. TickNs \in Nat /\ TickNs <= M!Second
    BY <2>1, SecondFacts
  <2>3. now.tv_sec \in Nat /\ now.tv_nsec \in Nat /\ now.tv_nsec < M!Second
    BY TimeFacts
  <2>4. M!Later(now, TickNs) \in M!Times
    <3>1. CASE now.tv_nsec + TickNs >= M!Second
      <4>1. now.tv_nsec + TickNs - M!Second \in 0 .. M!Second - 1
        BY <2>2, <2>3, <3>1, SecondFacts
      <4> QED
        BY <2>3, <3>1, <4>1 DEF M!Later, M!Times
    <3>2. CASE ~(now.tv_nsec + TickNs >= M!Second)
      <4>1. now.tv_nsec + TickNs \in 0 .. M!Second - 1
        BY <2>2, <2>3, <3>2, SecondFacts
      <4> QED
        BY <2>3, <3>2, <4>1 DEF M!Later, M!Times
    <3> QED
      BY <3>1, <3>2
  <2> QED
    BY <1>1, <2>4 DEF M!Tick
<1>2. ASSUME NEW t \in Threads, NEW op \in {LockCall} \cup TimedCall, M!Begin(t, op),
             op.op = "timedlock" => op.ms > 0 /\ op.deadline = M!Deadline(op.since, op.ms)
      PROVE  DeadlineInv'
  BY <1>2 DEF M!Begin, Answers
<1>3. ASSUME NEW t \in Threads, M!Lock(t) PROVE DeadlineInv'
  <2>1. M!Begin(t, LockCall) /\ LockCall.op # "timedlock"
    BY <1>3 DEF M!Lock, LockCall
  <2> QED
    BY <1>2, <2>1
<1>4. ASSUME NEW t \in Threads, NEW ms \in Timeouts, M!TimedLock(t, ms) PROVE DeadlineInv'
  <2>1. ms \in Nat
    BY ThreadsAssumption DEF M!ZMutexAssumption
  <2>2. CASE ms = 0
    <3>1. M!Begin(t, LockCall) /\ LockCall.op # "timedlock"
      BY <1>4, <2>2 DEF M!TimedLock, M!Waits, LockCall
    <3> QED
      BY <1>2, <3>1
  <2>3. CASE ms # 0
    <3> DEFINE op == [op |-> "timedlock", since |-> now, ms |-> ms,
                      deadline |-> M!Deadline(now, ms)]
    <3>1. M!Begin(t, op)
      BY <1>4, <2>3 DEF M!TimedLock, M!Waits
    <3>2. op \in TimedCall /\ op.ms > 0 /\ op.deadline = M!Deadline(op.since, op.ms)
      BY <2>1, <2>3, DeadlineIsTime DEF TimedCall
    <3> HIDE DEF op
    <3> QED
      BY <1>2, <3>1, <3>2
  <2> QED
    BY <2>2, <2>3
<1>5. ASSUME NEW t \in Threads, M!Acquire(t) PROVE DeadlineInv'
  BY <1>5 DEF M!Acquire, M!Returns, Answers, M!NoCall
<1>6. ASSUME NEW t \in Threads, M!GiveUp(t) PROVE DeadlineInv'
  <2>0. call[t] \in TimedCall
    BY <1>6 DEF M!GiveUp, M!NoCall, LockCall
  <2>1. call[t].deadline.tv_nsec \in Nat /\ call[t].deadline.tv_nsec < M!Second
    BY <2>0, TimeFacts DEF TimedCall
  <2>2. M!Returns(t, "ETIMEDOUT")
    BY <1>6, <2>1, SecondFacts DEF M!GiveUp
  <2>3. call' = [call EXCEPT ![t] = M!NoCall] /\ now' = now
    BY <1>6 DEF M!GiveUp
  <2> QED
    BY <2>2, <2>3 DEF M!Returns, Answers, M!NoCall
<1>7. ASSUME NEW t \in Threads, M!TryLock(t) \/ M!Unlock(t) PROVE DeadlineInv'
  BY <1>7 DEF M!TryLock, M!Unlock, M!Returns, Answers
<1>8. ASSUME NEW t \in Threads, NEW ms \in Timeouts, M!ClockFails(t, ms) PROVE DeadlineInv'
  BY <1>8 DEF M!ClockFails, M!Returns, Answers
<1>9. CASE UNCHANGED M!vars
  BY <1>9 DEF M!vars
<1> QED
  BY <1>1, <1>3, <1>4, <1>5, <1>6, <1>7, <1>8, <1>9 DEF M!Next

LEMMA DeadlinesHold == M!Spec => []DeadlineInv
BY DeadlineInit, DeadlineStep, PTL DEF M!Spec

\* Whatever the clock says and the timeout is, pthread accepts the deadline:
\* the carry in zmutex.cc:65-68 leaves less than a second of nanoseconds.
THEOREM DeadlinesAreAccepted == M!Spec => []DeadlineAccepted
<1>1. DeadlineInv => DeadlineAccepted
  BY DEF DeadlineInv, DeadlineAccepted, M!DeadlineAccepted, Answers
<1> QED
  BY <1>1, DeadlinesHold, PTL

\* Nobody is turned away a nanosecond before the time it asked for has passed on
\* the clock.
THEOREM WaitsAsLongAsAsked == M!Spec => GivesUpInTime
<1> DEFINE InTime == \A t \in Threads : ret'[t] = "ETIMEDOUT" /\ ret[t] # "ETIMEDOUT" =>
               LET ms == call[t].ms
               IN  /\ ms > 0
                   /\ (now.tv_sec - call[t].since.tv_sec) * 1000
                        + (now.tv_nsec - call[t].since.tv_nsec) \div M!Millisecond >= ms
<1>1. DeadlineInv /\ [M!Next]_(M!vars) => [InTime]_(M!vars)
  <2> SUFFICES ASSUME DeadlineInv, M!Next, NEW t \in Threads,
                      ret'[t] = "ETIMEDOUT", ret[t] # "ETIMEDOUT"
               PROVE  /\ call[t].ms > 0
                      /\ (now.tv_sec - call[t].since.tv_sec) * 1000
                           + (now.tv_nsec - call[t].since.tv_nsec) \div M!Millisecond >= call[t].ms
    OBVIOUS
  <2> USE DEF DeadlineInv
  <2>1. M!GiveUp(t)
    <3>1. ASSUME NEW u \in Threads, M!Lock(u) \/ (\E ms \in Timeouts : M!TimedLock(u, ms))
                   \/ M!Acquire(u) \/ M!TryLock(u) \/ M!Unlock(u)
                   \/ (\E ms \in Timeouts : M!ClockFails(u, ms))
          PROVE  ret'[t] = ret[t] \/ ret'[t] \in Answers \ {"ETIMEDOUT"}
      <4>1. \E r \in Answers \ {"ETIMEDOUT"} : ret' = [ret EXCEPT ![u] = r]
        BY <3>1 DEF M!Lock, M!TimedLock, M!Begin, M!Acquire, M!TryLock, M!Unlock, M!Returns,
                      M!ClockFails, Answers
      <4> QED
        BY <4>1
    <3>2. ASSUME NEW u \in Threads, M!GiveUp(u) PROVE u = t
      <4>1. \E r : ret' = [ret EXCEPT ![u] = r]
        BY <3>2 DEF M!GiveUp, M!Returns
      <4> QED
        BY <4>1
    <3>3. ~M!Tick
      BY DEF M!Tick
    <3> QED
      BY <3>1, <3>2, <3>3 DEF M!Next, Answers
  <2> DEFINE from == call[t].since  ms == call[t].ms  due == call[t].deadline
  <2>2. call[t] \in TimedCall /\ M!NotAfter(due, now)
    <3>1. call[t] \in TimedCall
      BY <2>1 DEF M!GiveUp, M!NoCall, LockCall
    <3>2. due.tv_nsec \in Nat /\ due.tv_nsec < M!Second
      BY <3>1, TimeFacts DEF TimedCall
    <3>3. ~(due.tv_nsec >= M!Second)
      BY <3>2, SecondFacts
    <3> QED
      BY <2>1, <3>1, <3>3 DEF M!GiveUp
  <2>3. ms > 0 /\ ms \in Nat /\ due = M!Deadline(from, ms) /\ from \in M!Times /\ now \in M!Times
    BY <2>2 DEF TimedCall
  <2>4. /\ from.tv_sec \in Nat /\ from.tv_nsec \in Nat /\ now.tv_sec \in Nat /\ now.tv_nsec \in Nat
        /\ due.tv_sec \in Nat /\ due.tv_nsec \in Nat
        /\ due.tv_nsec < M!Second /\ now.tv_nsec < M!Second
    BY <2>2, <2>3, TimeFacts DEF TimedCall
  <2>5. due.tv_sec * M!Second + due.tv_nsec
          = from.tv_sec * M!Second + from.tv_nsec + ms * M!Millisecond
    BY <2>3, DeadlineIsTime
  <2> HIDE DEF from, ms, due
  <2>6. now.tv_sec * M!Second + now.tv_nsec
          >= from.tv_sec * M!Second + from.tv_nsec + ms * M!Millisecond
    BY <2>2, <2>3, <2>4, <2>5, Units, SMT DEF M!NotAfter
  <2>7. (now.tv_nsec - from.tv_nsec) \div M!Millisecond >= ms - (now.tv_sec - from.tv_sec) * 1000
    BY <2>3, <2>4, <2>6, Units, SMT
  <2>8. (now.tv_nsec - from.tv_nsec) \div M!Millisecond \in Int
    BY <2>4, Units, SMT
  <2>9. (now.tv_sec - from.tv_sec) * 1000 + (now.tv_nsec - from.tv_nsec) \div M!Millisecond >= ms
    BY <2>3, <2>4, <2>7, <2>8
  <2> QED
    BY <2>3, <2>9 DEF from, ms
<1>2. M!Spec => [][InTime]_(M!vars)
  BY <1>1, DeadlinesHold, PTL DEF M!Spec
<1> QED
  BY <1>2 DEF GivesUpInTime, M!GivesUpInTime

-----------------------------------------------------------------------------
(* ZFatal: the handler of a fatal signal.                                   *)

Frame == [sig : Fatal, at : {"check", "record", "raise", "return"}]

\* A signal that a handler runs for, or that waits for one to end, has the system
\* default again: it came before.
CameBefore ==
    /\ \A t \in Threads : \A i \in DOMAIN frames[t] : action[frames[t][i].sig] = "default"
    /\ \A t \in Threads : \A s \in pending[t] : action[s] = "default"
    /\ \A s \in Fatal : action[s] = "default" => raised[s] # 0

\* A handler that returns has raised its signal again.
RaisedAgain ==
    \A t \in Threads : \A i \in DOMAIN frames[t] :
        frames[t][i].at = "return" => frames[t][i].sig \in pending[t]

\* zsignal_abort raises what it has announced.
Announced ==
    /\ abort_expected => raised[SIGABRT] # 0
    /\ \A t \in Threads : pc[t] \in {"print", "raise"} => abort_expected
    /\ \A t \in Threads : pc[t] = "raise" => printed

Reported(s) == s \in records \/ (s = SIGABRT /\ printed)

\* A signal that came once is reported before its handler raises it again.
ReportedFirst ==
    /\ abort_expected /\ action[SIGABRT] = "default" /\ raised[SIGABRT] = 1 => printed
    /\ \A t \in Threads : \A i \in DOMAIN frames[t] :
           frames[t][i].at \in {"raise", "return"} /\ raised[frames[t][i].sig] = 1 =>
               Reported(frames[t][i].sig)
    /\ \A t \in Threads : \A s \in pending[t] : raised[s] = 1 => Reported(s)

FatalInv ==
    /\ F!TypeOK /\ CameBefore /\ NoReentry /\ RaisedAgain /\ Announced /\ ExitNeverExecuted
    /\ ReportedFirst /\ LoneSignalIsReported

LEMMA FatalInit == F!Init => FatalInv
<1> SUFFICES ASSUME F!Init PROVE FatalInv
  OBVIOUS
<1> USE DEF F!Init
<1>1. \A t \in Threads : frames[t] = <<>> /\ pending[t] = {} /\ pc[t] = "run"
  OBVIOUS
<1>2. F!TypeOK
  <2>1. raised \in [Fatal -> 0 .. MaxSignals]
    BY ThreadsAssumption DEF F!ZFatalAssumption
  <2>2. frames \in [Threads -> Seq(Frame)]
    BY EmptySeq
  <2>3. SIGABRT \in Fatal /\ action \in [Fatal -> {"handler", "default"}]
    BY ThreadsAssumption DEF F!ZFatalAssumption
  <2> QED
    BY <2>1, <2>2, <2>3 DEF F!TypeOK, Frame
<1>3. CameBefore /\ NoReentry /\ RaisedAgain /\ Announced /\ ReportedFirst
  BY <1>1 DEF CameBefore, NoReentry, F!NoReentry, RaisedAgain, Announced, ReportedFirst
<1>4. ExitNeverExecuted /\ LoneSignalIsReported
  BY <1>1, ThreadsAssumption DEF ExitNeverExecuted, F!ExitNeverExecuted, LoneSignalIsReported,
     F!LoneSignalIsReported, F!ZFatalAssumption
<1> QED
  BY <1>2, <1>3, <1>4 DEF FatalInv

-----------------------------------------------------------------------------
(* What a signal does when it comes.                                        *)

Dies(s) ==
    /\ action[s] = "default" /\ process' = s
    /\ UNCHANGED <<action, frames, pending>>

StaysPending(t, s) ==
    /\ action[s] = "default" /\ pending' = [pending EXCEPT ![t] = @ \cup {s}]
    /\ UNCHANGED <<action, frames, process>>

Interrupts(t, s) ==
    /\ action[s] = "handler" /\ action' = [action EXCEPT ![s] = "default"]
    /\ frames' = [frames EXCEPT ![t] = Append(frames[t], [sig |-> s, at |-> "check"])]
    /\ UNCHANGED <<pending, process>>

Comes(t, s) == Dies(s) \/ StaysPending(t, s) \/ Interrupts(t, s)

\* A blocked signal has the system default, so that Send, Force and Deliver do one
\* of three things.
LEMMA HowItComes ==
  ASSUME FatalInv, NEW t \in Threads, NEW s \in Fatal,
         \/ F!Send(t, s)
         \/ F!Force(t, s) /\ pending' = pending
         \/ F!Deliver(t, s, frames[t]) /\ pending' = pending
  PROVE  Comes(t, s)
<1> USE DEF FatalInv, Comes, Dies, StaysPending, Interrupts
<1>1. F!Blocked(frames[t], s) => action[s] = "default"
  BY DEF F!Blocked, CameBefore
<1>2. ASSUME F!Deliver(t, s, frames[t]), pending' = pending PROVE Comes(t, s)
  <2>1. CASE action[s] = "default" /\ process' = s /\ frames' = [frames EXCEPT ![t] = frames[t]]
             /\ UNCHANGED action
    <3>1. frames' = frames
      BY <2>1 DEF F!TypeOK
    <3> QED
      BY <1>2, <2>1, <3>1
  <2>2. CASE /\ action[s] = "handler" /\ action' = [action EXCEPT ![s] = F!OnDelivery]
             /\ frames' = [frames EXCEPT ![t] = Append(frames[t], [sig |-> s, at |-> "check"])]
             /\ UNCHANGED process
    BY <1>2, <2>2 DEF F!OnDelivery
  <2> QED
    BY <1>2, <2>1, <2>2 DEF F!Deliver
<1>3. ASSUME F!Send(t, s) PROVE Comes(t, s)
  BY <1>1, <1>2, <1>3 DEF F!Send
<1>4. ASSUME F!Force(t, s), pending' = pending PROVE Comes(t, s)
  BY <1>1, <1>2, <1>4 DEF F!Force
<1> QED
  BY <1>2, <1>3, <1>4

\* A handler that begins is the innermost.
LEMMA InterruptStep ==
  ASSUME F!TypeOK, NEW t \in Threads, NEW s \in Fatal, Interrupts(t, s)
  PROVE  /\ frames' \in [Threads -> Seq(Frame)] /\ action' \in [Fatal -> {"handler", "default"}]
         /\ action'[s] = "default" /\ \A r \in Fatal : r # s => action'[r] = action[r]
         /\ frames'[t] # <<>> /\ \A u \in Threads : u # t => frames'[u] = frames[u]
         /\ \A i \in DOMAIN frames'[t] :
                \/ i \in DOMAIN frames[t] /\ frames'[t][i] = frames[t][i]
                \/ i = Len(frames[t]) + 1 /\ frames'[t][i] = [sig |-> s, at |-> "check"]
<1> DEFINE q == frames[t]
           new == [sig |-> s, at |-> "check"]
<1>1. q \in Seq(Frame) /\ new \in Frame
  BY DEF F!TypeOK, Frame
<1>2. /\ frames'[t] = Append(q, new) /\ \A u \in Threads : u # t => frames'[u] = frames[u]
      /\ frames' = [frames EXCEPT ![t] = Append(q, new)]
  BY DEF Interrupts, F!TypeOK
<1> HIDE DEF q, new
<1>3. /\ Append(q, new) \in Seq(Frame) /\ Len(q) \in Nat
      /\ DOMAIN q = 1 .. Len(q) /\ DOMAIN Append(q, new) = 1 .. Len(q) + 1
      /\ \A i \in DOMAIN q : Append(q, new)[i] = q[i]
      /\ Append(q, new)[Len(q) + 1] = new
  BY <1>1, AppendProperties, LenProperties
<1>4. Append(q, new) # <<>>
  BY <1>3
<1>5. \A i \in DOMAIN Append(q, new) : \/ i \in DOMAIN q /\ Append(q, new)[i] = q[i]
                                       \/ i = Len(q) + 1 /\ Append(q, new)[i] = new
  <2>1. \A i \in 1 .. Len(q) + 1 : i \in 1 .. Len(q) \/ i = Len(q) + 1
    BY <1>3
  <2> QED
    BY <1>3, <2>1
<1>6. frames' \in [Threads -> Seq(Frame)]
  BY <1>2, <1>3 DEF F!TypeOK, Frame
<1>7. /\ action' \in [Fatal -> {"handler", "default"}] /\ action'[s] = "default"
      /\ \A r \in Fatal : r # s => action'[r] = action[r]
  BY DEF Interrupts, F!TypeOK
<1> QED
  BY <1>2, <1>4, <1>5, <1>6, <1>7 DEF q, new

\* The innermost handler of t goes from one place to another.
LEMMA GotoStep ==
  ASSUME F!TypeOK, NEW t \in Threads, frames[t] # <<>>,
         NEW place \in {"check", "record", "raise", "return"}, F!Goto(t, place)
  PROVE  /\ frames' \in [Threads -> Seq(Frame)]
         /\ \A u \in Threads : u # t => frames'[u] = frames[u]
         /\ DOMAIN frames'[t] = DOMAIN frames[t] /\ Len(frames[t]) \in DOMAIN frames[t]
         /\ F!Last(frames[t]) = frames[t][Len(frames[t])] /\ F!Last(frames[t]) \in Frame
         /\ \A i \in DOMAIN frames[t] :
                IF i = Len(frames[t])
                THEN frames'[t][i] = [sig |-> frames[t][i].sig, at |-> place]
                ELSE frames'[t][i] = frames[t][i]
<1> DEFINE q == frames[t]
           k == Len(q)
           e == [q[k] EXCEPT !.at = place]
           g == F!Front(q) \o <<e>>
<1>1. q \in Seq(Frame) /\ q # <<>>
  BY DEF F!TypeOK, Frame
<1>2. /\ frames'[t] = g /\ \A u \in Threads : u # t => frames'[u] = frames[u]
      /\ frames' = [frames EXCEPT ![t] = g]
  BY DEF F!Goto, F!TypeOK, F!Last
<1> HIDE DEF q
<1>3. k \in Nat \ {0} /\ DOMAIN q = 1 .. k /\ \A i \in 1 .. k : q[i] \in Frame
  BY <1>1, EmptySeq, LenProperties, ElementOfSeq
<1>4. e = [sig |-> q[k].sig, at |-> place] /\ e \in Frame
  BY <1>3 DEF Frame
<1>5. /\ F!Front(q) \in Seq(Frame) /\ Len(F!Front(q)) = k - 1
      /\ \A i \in 1 .. k - 1 : F!Front(q)[i] = q[i]
  <2>1. F!Front(q) = SubSeq(q, 1, k - 1)
    BY DEF F!Front
  <2>2. \A i \in 1 .. k - 1 : q[i] \in Frame
    BY <1>3
  <2>3. /\ SubSeq(q, 1, k - 1) \in Seq(Frame)
        /\ Len(SubSeq(q, 1, k - 1)) = IF 1 <= k - 1 THEN k - 1 - 1 + 1 ELSE 0
        /\ \A i \in 1 .. k - 1 - 1 + 1 : SubSeq(q, 1, k - 1)[i] = q[1 + i - 1]
    BY <1>3, <2>2, SubSeqProperties
  <2>4. \A i \in 1 .. k - 1 : SubSeq(q, 1, k - 1)[i] = q[i]
    BY <1>3, <2>3
  <2>5. Len(SubSeq(q, 1, k - 1)) = k - 1
    BY <1>3, <2>3
  <2> QED
    BY <2>1, <2>3, <2>4, <2>5
<1> HIDE DEF e
<1>6. <<e>> \in Seq(Frame) /\ Len(<<e>>) = 1 /\ <<e>>[1] = e
  BY <1>4
<1>7. /\ g \in Seq(Frame) /\ Len(g) = k /\ DOMAIN g = 1 .. k
      /\ \A i \in 1 .. k : g[i] = IF i <= k - 1 THEN F!Front(q)[i] ELSE <<e>>[i - (k - 1)]
  <2> DEFINE f == F!Front(q)
  <2>1. f \in Seq(Frame) /\ <<e>> \in Seq(Frame) /\ Len(f) = k - 1 /\ Len(<<e>>) = 1
    BY <1>5, <1>6
  <2> HIDE DEF f
  <2>2. /\ f \o <<e>> \in Seq(Frame) /\ Len(f \o <<e>>) = (k - 1) + 1
        /\ \A i \in 1 .. (k - 1) + 1 :
               (f \o <<e>>)[i] = IF i <= k - 1 THEN f[i] ELSE <<e>>[i - (k - 1)]
    BY <2>1, ConcatProperties
  <2>3. (k - 1) + 1 = k
    BY <1>3
  <2>4. DOMAIN (f \o <<e>>) = 1 .. k
    BY <2>2, <2>3, LenProperties
  <2> QED
    BY <2>2, <2>3, <2>4 DEF f
<1>8. \A i \in 1 .. k : IF i = k THEN g[i] = e ELSE g[i] = q[i]
  <2>1. ASSUME NEW i \in 1 .. k, i # k PROVE g[i] = q[i]
    <3> HIDE DEF k
    <3>0. k \in Nat /\ i \in 1 .. k /\ i # k
      BY <1>3, <2>1
    <3>1. i \in 1 .. k - 1 /\ i <= k - 1
      BY <3>0
    <3> QED
      BY <1>5, <1>7, <3>1
  <2>2. g[k] = e
    <3>1. k \in 1 .. k /\ ~(k <= k - 1) /\ k - (k - 1) = 1
      BY <1>3
    <3> QED
      BY <1>6, <1>7, <3>1
  <2> QED
    BY <2>1, <2>2
<1>9. frames' \in [Threads -> Seq(Frame)]
  BY <1>2, <1>7 DEF F!TypeOK, Frame
<1>10. F!Last(q) = q[k] /\ q[k] \in Frame /\ k \in DOMAIN q
  BY <1>3 DEF F!Last
<1> HIDE DEF g
<1> QED
  BY <1>2, <1>3, <1>4, <1>7, <1>8, <1>9, <1>10 DEF q

LEMMA FrameFacts ==
  ASSUME F!TypeOK
  PROVE  \A u \in Threads : \A i \in DOMAIN frames[u] : frames[u][i] \in Frame /\ frames[u][i].sig \in Fatal
<1> TAKE u \in Threads
<1>1. frames[u] \in Seq(Frame)
  BY DEF F!TypeOK, Frame
<1> DEFINE q == frames[u]
<1> HIDE DEF q
<1>2. \A i \in DOMAIN q : q[i] \in Frame
  <2>1. q \in Seq(Frame)
    BY <1>1 DEF q
  <2> QED
    BY <2>1, LenProperties, ElementOfSeq
<1>3. \A f \in Frame : f.sig \in Fatal
  BY DEF Frame
<1> QED
  BY <1>2, <1>3 DEF q

\* A signal comes: as a fault, from outside, or from zsignal_abort, which has
\* counted and announced it.
LEMMA ComesStep ==
  ASSUME FatalInv, process = "running", NEW t \in Threads, NEW s \in Fatal, Comes(t, s),
         UNCHANGED <<abort_expected, heap, stdio, records, printed>>,
         raised' \in [Fatal -> 0 .. MaxSignals], \A r \in Fatal : r # s => raised'[r] = raised[r],
         raised'[s] = raised[s] + 1 \/ (raised'[s] = raised[s] /\ raised[s] # 0 /\ s = SIGABRT /\ printed),
         pc' \in [Threads -> {"run", "print", "raise", "exit"}],
         \A u \in Threads : pc'[u] \in {"print", "raise"} => pc[u] = pc'[u],
         \A u \in Threads : pc'[u] = "exit" => pc[u] = "exit" \/ (u = t /\ ~StaysPending(t, s))
  PROVE  FatalInv'
<1> USE DEF FatalInv
<1>1. /\ action \in [Fatal -> {"handler", "default"}] /\ process \in Fatal \cup {"running"}
      /\ frames \in [Threads -> Seq(Frame)] /\ pending \in [Threads -> SUBSET Fatal]
      /\ raised \in [Fatal -> 0 .. MaxSignals] /\ SIGABRT \in Fatal /\ "running" \notin Fatal
  BY ThreadsAssumption DEF F!TypeOK, Frame, F!ZFatalAssumption
<1>2. \A r \in Fatal : raised[r] \in Nat /\ raised'[r] \in Nat
  BY <1>1
<1>3. raised'[s] # 0 /\ \A r \in Fatal : raised[r] # 0 => raised'[r] # 0
  BY <1>2
<1>4. \A r \in Fatal : raised[r] # 0 /\ raised'[r] = 1 => raised[r] = 1
  BY <1>2
<1>10. raised[s] # 0 /\ raised'[s] = 1 => s = SIGABRT /\ printed
  BY <1>2
<1>11. \A u \in Threads : \A i \in DOMAIN frames[u] : frames[u][i].sig \in Fatal
  BY FrameFacts
<1>5. \A r : Reported(r)' <=> Reported(r)
  BY DEF Reported
<1>6. Announced'
  BY <1>1, <1>3 DEF Announced
<1>8. CASE Dies(s) \/ StaysPending(t, s)
  <2>1. /\ UNCHANGED <<action, frames>> /\ action[s] = "default" /\ raised[s] # 0
    BY <1>8 DEF Dies, StaysPending, CameBefore
  <2>2. /\ pending' \in [Threads -> SUBSET Fatal]
        /\ \A u \in Threads : /\ pending[u] \subseteq pending'[u]
                              /\ \A r \in pending'[u] : r \in pending[u] \/ r = s
    <3>1. CASE pending' = pending
      BY <1>1, <3>1
    <3>2. CASE pending' = [pending EXCEPT ![t] = @ \cup {s}]
      <4>1. pending[t] \cup {s} \in SUBSET Fatal
        BY <1>1
      <4>2. /\ pending'[t] = pending[t] \cup {s}
            /\ \A u \in Threads : u # t => pending'[u] = pending[u]
        BY <1>1, <3>2
      <4>3. pending' \in [Threads -> SUBSET Fatal]
        BY <1>1, <3>2, <4>1
      <4> QED
        BY <4>2, <4>3
    <3> QED
      BY <1>8, <3>1, <3>2 DEF Dies, StaysPending
  <2>3. pending' \in [Threads -> SUBSET Fatal]
    BY <2>2
  <2>4. F!TypeOK'
    BY <1>8, <2>1, <2>3 DEF Dies, StaysPending, F!TypeOK
  <2>5. CameBefore' /\ NoReentry' /\ RaisedAgain'
    BY <1>3, <2>1, <2>2 DEF CameBefore, NoReentry, F!NoReentry, RaisedAgain
  <2>6. ExitNeverExecuted'
    <3>1. CASE Dies(s)
      BY <1>1, <3>1 DEF Dies, ExitNeverExecuted, F!ExitNeverExecuted
    <3>2. CASE StaysPending(t, s)
      BY <2>1, <3>2 DEF StaysPending, ExitNeverExecuted, F!ExitNeverExecuted, F!InHandler
    <3> QED
      BY <1>8, <3>1, <3>2
  <2>7. ReportedFirst'
    <3>1. abort_expected' /\ action'[SIGABRT] = "default" /\ raised'[SIGABRT] = 1 => printed'
      <4>1. abort_expected /\ raised[SIGABRT] = 1 /\ action[SIGABRT] = "default" => printed
        BY DEF ReportedFirst
      <4>2. abort_expected => raised[SIGABRT] # 0
        BY DEF Announced
      <4>4. s = SIGABRT /\ abort_expected /\ raised'[SIGABRT] = 1 => raised[SIGABRT] = 1
        BY <1>1, <1>4, <4>2
      <4>5. s # SIGABRT => raised'[SIGABRT] = raised[SIGABRT]
        BY <1>1
      <4> QED
        BY <2>1, <4>1, <4>4, <4>5
    <3>2. ASSUME NEW u \in Threads, NEW i \in DOMAIN frames[u],
                 frames[u][i].at \in {"raise", "return"}, raised'[frames[u][i].sig] = 1
          PROVE  Reported(frames[u][i].sig)
      <4>1. frames[u][i].sig \in Fatal
        BY <1>11
      <4>2. raised[frames[u][i].sig] # 0
        BY <4>1 DEF CameBefore
      <4> QED
        BY <1>4, <3>2, <4>1, <4>2 DEF ReportedFirst
    <3>3. ASSUME NEW u \in Threads, NEW r \in pending'[u], raised'[r] = 1 PROVE Reported(r)
      <4>1. r \in Fatal /\ raised[r] # 0
        <5>1. r \in Fatal
          BY <2>3
        <5>2. r \in pending[u] \/ r = s
          BY <2>2
        <5>3. r \in pending[u] => raised[r] # 0
          BY <5>1 DEF CameBefore
        <5> QED
          BY <2>1, <5>1, <5>2, <5>3
      <4>2. CASE r \in pending[u]
        BY <1>4, <3>3, <4>1, <4>2 DEF ReportedFirst
      <4>3. CASE r = s
        BY <1>10, <3>3, <4>1, <4>3 DEF Reported
      <4> QED
        BY <2>2, <4>2, <4>3
    <3> QED
      BY <1>5, <2>1, <3>1, <3>2, <3>3 DEF ReportedFirst
  <2>8. LoneSignalIsReported'
    <3>1. CASE Dies(s)
      <4>1. raised'[s] = 1 => Reported(s)
        BY <1>10, <2>1 DEF Reported
      <4> QED
        BY <1>5, <3>1, <4>1 DEF Dies, LoneSignalIsReported, F!LoneSignalIsReported, Reported
    <3>2. CASE process' = process
      BY <1>1, <3>2 DEF LoneSignalIsReported, F!LoneSignalIsReported
    <3> QED
      BY <1>8, <3>1, <3>2 DEF StaysPending
  <2> QED
    BY <1>6, <2>4, <2>5, <2>6, <2>7, <2>8
<1>9. CASE Interrupts(t, s)
  <2>1. action[s] = "handler" /\ UNCHANGED <<pending, process>>
    BY <1>9 DEF Interrupts
  <2>2. /\ frames' \in [Threads -> Seq(Frame)] /\ action' \in [Fatal -> {"handler", "default"}]
        /\ action'[s] = "default" /\ \A r \in Fatal : r # s => action'[r] = action[r]
        /\ frames'[t] # <<>> /\ \A u \in Threads : u # t => frames'[u] = frames[u]
        /\ \A i \in DOMAIN frames'[t] :
               \/ i \in DOMAIN frames[t] /\ frames'[t][i] = frames[t][i]
               \/ i = Len(frames[t]) + 1 /\ frames'[t][i] = [sig |-> s, at |-> "check"]
    BY <1>9, InterruptStep
  <2>3. \A u \in Threads : \A i \in DOMAIN frames[u] : frames[u][i].sig \in Fatal \ {s}
    <3>1. \A u \in Threads : \A i \in DOMAIN frames[u] : frames[u][i].sig # s
      BY <2>1 DEF CameBefore
    <3> QED
      BY <1>11, <3>1
  <2>4. \A u \in Threads : \A i \in DOMAIN frames'[u] :
            \/ i \in DOMAIN frames[u] /\ frames'[u][i] = frames[u][i]
            \/ u = t /\ i = Len(frames[t]) + 1 /\ frames'[u][i] = [sig |-> s, at |-> "check"]
    BY <2>2
  <2>5. \A r \in Fatal : action[r] = "default" => action'[r] = "default"
    BY <2>2
  <2>6. F!TypeOK'
    BY <2>1, <2>2 DEF F!TypeOK, Frame
  <2>7. CameBefore'
    <3>1. ASSUME NEW u \in Threads, NEW i \in DOMAIN frames'[u]
          PROVE  action'[frames'[u][i].sig] = "default"
      <4>1. CASE i \in DOMAIN frames[u] /\ frames'[u][i] = frames[u][i]
        <5>1. frames[u][i].sig \in Fatal /\ action[frames[u][i].sig] = "default"
          BY <1>11, <4>1 DEF CameBefore
        <5> QED
          BY <2>5, <4>1, <5>1
      <4>2. CASE frames'[u][i] = [sig |-> s, at |-> "check"]
        BY <2>2, <4>2
      <4> QED
        BY <2>4, <4>1, <4>2
    <3>2. \A u \in Threads : \A r \in pending'[u] : action'[r] = "default"
      BY <1>1, <2>1, <2>5 DEF CameBefore
    <3>3. \A r \in Fatal : action'[r] = "default" => raised'[r] # 0
      BY <1>3, <2>2 DEF CameBefore
    <3> QED
      BY <3>1, <3>2, <3>3 DEF CameBefore
  <2>8. NoReentry'
    <3>1. ASSUME NEW u \in Threads, NEW v \in Threads,
                 NEW i \in DOMAIN frames'[u], NEW j \in DOMAIN frames'[v],
                 frames'[u][i].sig = frames'[v][j].sig
          PROVE  u = v /\ i = j
      <4>1. CASE /\ i \in DOMAIN frames[u] /\ frames'[u][i] = frames[u][i]
                 /\ j \in DOMAIN frames[v] /\ frames'[v][j] = frames[v][j]
        BY <3>1, <4>1 DEF NoReentry, F!NoReentry
      <4>2. CASE frames'[u][i].sig = s
        <5>1. frames'[v][j].sig = s
          BY <3>1, <4>2
        <5>2. u = t /\ i = Len(frames[t]) + 1 /\ v = t /\ j = Len(frames[t]) + 1
          BY <2>3, <2>4, <4>2, <5>1
        <5> QED
          BY <5>2
      <4>3. frames'[u][i].sig # s => /\ i \in DOMAIN frames[u] /\ frames'[u][i] = frames[u][i]
                                     /\ j \in DOMAIN frames[v] /\ frames'[v][j] = frames[v][j]
        BY <2>4, <3>1
      <4> QED
        BY <4>1, <4>2, <4>3
    <3> QED
      BY <3>1 DEF NoReentry, F!NoReentry
  <2>9. \A u \in Threads : \A i \in DOMAIN frames'[u] : frames'[u][i].at # "check" =>
            i \in DOMAIN frames[u] /\ frames'[u][i] = frames[u][i]
    BY <2>4
  <2>10. RaisedAgain'
    BY <2>1, <2>9 DEF RaisedAgain
  <2>11. ExitNeverExecuted'
    <3>1. \A u \in Threads : frames[u] # <<>> => frames'[u] # <<>>
      BY <2>2
    <3> QED
      BY <2>1, <2>2, <3>1 DEF ExitNeverExecuted, F!ExitNeverExecuted, F!InHandler
  <2>12. ReportedFirst'
    <3>1. abort_expected' /\ action'[SIGABRT] = "default" /\ raised'[SIGABRT] = 1 => printed'
      <4>1. CASE s = SIGABRT
        <5>1. abort_expected => raised[SIGABRT] # 0
          BY DEF Announced
        <5> QED
          BY <1>10, <4>1, <5>1
      <4>2. CASE s # SIGABRT
        BY <1>1, <2>2, <4>2 DEF ReportedFirst
      <4> QED
        BY <4>1, <4>2
    <3>2. ASSUME NEW u \in Threads, NEW i \in DOMAIN frames'[u],
                 frames'[u][i].at \in {"raise", "return"}, raised'[frames'[u][i].sig] = 1
          PROVE  Reported(frames'[u][i].sig)
      <4>1. i \in DOMAIN frames[u] /\ frames'[u][i] = frames[u][i]
        BY <2>9, <3>2
      <4>2. raised'[frames[u][i].sig] = raised[frames[u][i].sig]
        BY <2>3, <4>1
      <4> QED
        BY <3>2, <4>1, <4>2 DEF ReportedFirst
    <3>3. ASSUME NEW u \in Threads, NEW r \in pending'[u], raised'[r] = 1 PROVE Reported(r)
      <4>1. r \in Fatal \ {s} /\ r \in pending[u]
        BY <1>1, <2>1 DEF CameBefore
      <4> QED
        BY <3>3, <4>1 DEF ReportedFirst
    <3> QED
      BY <1>5, <3>1, <3>2, <3>3 DEF ReportedFirst
  <2>13. LoneSignalIsReported'
    BY <1>1, <2>1 DEF LoneSignalIsReported, F!LoneSignalIsReported
  <2> QED
    BY <1>6, <2>6, <2>7, <2>8, <2>10, <2>11, <2>12, <2>13
<1> QED
  BY <1>8, <1>9 DEF Comes

\* The innermost handler of t goes on: it has the signal g.
LEMMA GoesOn ==
  ASSUME FatalInv, process = "running", NEW t \in Threads, frames[t] # <<>>,
         NEW place \in {"record", "raise", "return"}, F!Goto(t, place),
         NEW g, g = F!Last(frames[t]).sig,
         UNCHANGED <<action, abort_expected, pc, heap, stdio, process, printed, raised>>,
         records \subseteq records', records' \subseteq Fatal,
         pending' \in [Threads -> SUBSET Fatal],
         \A u \in Threads : pending[u] \subseteq pending'[u],
         \A u \in Threads : \A r \in pending'[u] :
             r \in pending[u] \/ (r = g /\ (raised[g] = 1 => Reported(g)')),
         place = "return" => g \in pending'[t],
         place \in {"raise", "return"} /\ raised[g] = 1 => Reported(g)'
  PROVE  FatalInv'
<1> USE DEF FatalInv
<1> DEFINE k == Len(frames[t])
<1>1. /\ frames' \in [Threads -> Seq(Frame)]
      /\ \A u \in Threads : u # t => frames'[u] = frames[u]
      /\ DOMAIN frames'[t] = DOMAIN frames[t] /\ k \in DOMAIN frames[t]
      /\ F!Last(frames[t]) = frames[t][k]
      /\ \A i \in DOMAIN frames[t] :
             IF i = k THEN frames'[t][i] = [sig |-> frames[t][i].sig, at |-> place]
                      ELSE frames'[t][i] = frames[t][i]
  <2>1. place \in {"check", "record", "raise", "return"} /\ F!TypeOK
    OBVIOUS
  <2> QED
    BY <2>1, GotoStep
<1>2. g = frames[t][k].sig /\ g \in Fatal /\ action[g] = "default"
  BY <1>1, FrameFacts DEF CameBefore
<1> HIDE DEF k
<1>3. \A u \in Threads : DOMAIN frames'[u] = DOMAIN frames[u]
  BY <1>1
<1>4. \A u \in Threads : \A i \in DOMAIN frames[u] :
          \/ u = t /\ i = k /\ frames'[u][i].sig = g /\ frames'[u][i].at = place
          \/ frames'[u][i] = frames[u][i]
  <2>1. frames'[t][k].sig = g /\ frames'[t][k].at = place
    <3>1. k \in DOMAIN frames[t]
      BY <1>1
    <3>2. frames'[t][k] = [sig |-> frames[t][k].sig, at |-> place]
      BY <1>1, <3>1
    <3> QED
      BY <1>2, <3>2
  <2>2. \A i \in DOMAIN frames[t] : i = k \/ frames'[t][i] = frames[t][i]
    BY <1>1
  <2> QED
    BY <1>1, <2>1, <2>2
<1>5. \A u \in Threads : \A i \in DOMAIN frames[u] : frames'[u][i].sig = frames[u][i].sig
  BY <1>2, <1>4
<1> DEFINE Known(r) == r \in records' \/ (r = SIGABRT /\ printed')
<1>6. /\ \A r : Reported(r) => Known(r)
      /\ \A u \in Threads : \A r \in pending'[u] :
             r \in pending[u] \/ (r = g /\ (raised[g] = 1 => Known(g)))
      /\ place \in {"raise", "return"} /\ raised[g] = 1 => Known(g)
  BY DEF Reported
<1> HIDE DEF Known
<1>7. F!TypeOK'
  BY <1>1 DEF F!TypeOK, Frame
<1>8. CameBefore'
  <2>1. \A u \in Threads : \A i \in DOMAIN frames'[u] : action'[frames'[u][i].sig] = "default"
    BY <1>3, <1>5 DEF CameBefore
  <2>2. \A u \in Threads : \A r \in pending'[u] : action'[r] = "default"
    BY <1>2 DEF CameBefore
  <2> QED
    BY <2>1, <2>2 DEF CameBefore
<1>9. NoReentry'
  BY <1>3, <1>5 DEF NoReentry, F!NoReentry
<1>10. RaisedAgain'
  <2>1. ASSUME NEW u \in Threads, NEW i \in DOMAIN frames'[u], frames'[u][i].at = "return"
        PROVE  frames'[u][i].sig \in pending'[u]
    <3>1. CASE u = t /\ i = k /\ frames'[u][i].sig = g /\ frames'[u][i].at = place
      BY <2>1, <3>1
    <3>2. CASE frames'[u][i] = frames[u][i]
      BY <1>3, <2>1, <3>2 DEF RaisedAgain
    <3> QED
      BY <1>3, <1>4, <3>1, <3>2
  <2> QED
    BY <2>1 DEF RaisedAgain
<1>11. Announced'
  BY DEF Announced
<1>12. ExitNeverExecuted'
  <2>1. frames'[t] # <<>>
    BY <1>1
  <2> QED
    BY <1>1, <2>1 DEF ExitNeverExecuted, F!ExitNeverExecuted, F!InHandler
<1>13. ReportedFirst'
  <2>1. ASSUME NEW u \in Threads, NEW i \in DOMAIN frames'[u],
               frames'[u][i].at \in {"raise", "return"}, raised'[frames'[u][i].sig] = 1
        PROVE  Known(frames'[u][i].sig)
    <3>1. CASE u = t /\ i = k /\ frames'[u][i].sig = g /\ frames'[u][i].at = place
      BY <1>6, <2>1, <3>1
    <3>2. CASE frames'[u][i] = frames[u][i]
      <4>1. Reported(frames[u][i].sig)
        BY <1>3, <2>1, <3>2 DEF ReportedFirst
      <4> QED
        BY <1>6, <3>2, <4>1
    <3> QED
      BY <1>3, <1>4, <3>1, <3>2
  <2>2. ASSUME NEW u \in Threads, NEW r \in pending'[u], raised'[r] = 1 PROVE Known(r)
    BY <1>6, <2>2 DEF ReportedFirst
  <2>3. abort_expected' /\ action'[SIGABRT] = "default" /\ raised'[SIGABRT] = 1 => printed'
    BY DEF ReportedFirst
  <2> QED
    BY <2>1, <2>2, <2>3 DEF Known, ReportedFirst, Reported
<1>14. LoneSignalIsReported'
  BY ThreadsAssumption DEF LoneSignalIsReported, F!LoneSignalIsReported, F!ZFatalAssumption
<1> QED
  BY <1>7, <1>8, <1>9, <1>10, <1>11, <1>12, <1>13, <1>14

LEMMA CheckStep ==
  ASSUME FatalInv, NEW t \in Threads, F!Check(t)
  PROVE  FatalInv'
<1> USE DEF FatalInv
<1> DEFINE g == F!Last(frames[t]).sig
           place == IF F!Skips(g) THEN "raise" ELSE "record"
<1>1. process = "running" /\ frames[t] # <<>> /\ F!Goto(t, place)
  BY DEF F!Check, F!At, F!InHandler
<1>2. /\ UNCHANGED <<action, abort_expected, pc, heap, stdio, process, printed, raised>>
      /\ UNCHANGED <<pending, records>>
  BY DEF F!Check
<1>3. \E h : h = g
  OBVIOUS
<1>4. PICK h : h = g
  BY <1>3
<1>5. \E i \in DOMAIN frames[t] : frames[t][i].sig = h
  <2>1. Len(frames[t]) \in DOMAIN frames[t]
    <3>1. frames[t] \in Seq(Frame) /\ frames[t] # <<>>
      BY <1>1 DEF F!TypeOK, Frame
    <3> QED
      BY <3>1, EmptySeq, LenProperties
  <2> QED
    BY <1>4, <2>1 DEF F!Last
<1>6. F!Skips(h) => h = SIGABRT /\ abort_expected /\ action[h] = "default"
  BY <1>5 DEF F!Skips, CameBefore
<1>7. F!Skips(h) /\ raised[h] = 1 => h = SIGABRT /\ printed'
  BY <1>2, <1>6 DEF ReportedFirst
<1>8. PICK a : a = place
  OBVIOUS
<1>9. a \in {"record", "raise"} /\ (a = "raise" => F!Skips(h)) /\ F!Goto(t, a)
  BY <1>1, <1>4, <1>8
<1> HIDE DEF g, place
<1>10. a \in {"record", "raise", "return"} /\ a # "return"
  BY <1>9
<1>11. a \in {"raise", "return"} /\ raised[h] = 1 => Reported(h)'
  BY <1>7, <1>9 DEF Reported
<1>12. h = F!Last(frames[t]).sig
  BY <1>4 DEF g
<1>13. pending' \in [Threads -> SUBSET Fatal] /\ records' \subseteq Fatal /\ records \subseteq records'
  BY <1>2 DEF F!TypeOK
<1>14. /\ \A u \in Threads : pending[u] \subseteq pending'[u]
       /\ \A u \in Threads : \A r \in pending'[u] :
              r \in pending[u] \/ (r = h /\ (raised[h] = 1 => Reported(h)'))
       /\ a = "return" => h \in pending'[t]
  BY <1>2, <1>10
<1>15. process = "running" /\ frames[t] # <<>>
  BY <1>1
<1>16. a \in {"record", "raise", "return"} /\ F!Goto(t, a)
  BY <1>9, <1>10
<1> QED
  BY <1>2, <1>11, <1>12, <1>13, <1>14, <1>15, <1>16, GoesOn

LEMMA RecordStep ==
  ASSUME FatalInv, NEW t \in Threads, F!Record(t)
  PROVE  FatalInv'
<1> USE DEF FatalInv
<1>1. process = "running" /\ frames[t] # <<>> /\ F!Goto(t, "raise")
  BY DEF F!Record, F!At, F!InHandler
<1>2. UNCHANGED <<action, abort_expected, pc, pending, heap, stdio, process, printed, raised>>
  BY DEF F!Record
<1>3. PICK g : g = F!Last(frames[t]).sig
  OBVIOUS
<1>4. records' = records \cup {g}
  BY <1>3 DEF F!Record
<1>5. g \in Fatal
  <2>1. Len(frames[t]) \in DOMAIN frames[t]
    <3>1. frames[t] \in Seq(Frame) /\ frames[t] # <<>>
      BY <1>1 DEF F!TypeOK, Frame
    <3> QED
      BY <3>1, EmptySeq, LenProperties
  <2> QED
    BY <1>3, <2>1, FrameFacts DEF F!Last
<1>6. Reported(g)'
  BY <1>4 DEF Reported
<1>7. pending' \in [Threads -> SUBSET Fatal] /\ records' \subseteq Fatal /\ records \subseteq records'
  BY <1>2, <1>4, <1>5 DEF F!TypeOK
<1>8. \A u \in Threads : pending'[u] = pending[u]
  BY <1>2
<1>9. "raise" \in {"record", "raise", "return"} /\ "raise" # "return"
  OBVIOUS
<1> QED
  BY <1>1, <1>2, <1>3, <1>6, <1>7, <1>8, <1>9, GoesOn

LEMMA RaiseStep ==
  ASSUME FatalInv, NEW t \in Threads, F!Raise(t)
  PROVE  FatalInv'
<1> USE DEF FatalInv
<1>1. process = "running" /\ frames[t] # <<>> /\ F!Last(frames[t]).at = "raise" /\ F!Goto(t, "return")
  BY DEF F!Raise, F!At, F!InHandler
<1>2. UNCHANGED <<action, abort_expected, pc, heap, stdio, process, records, printed, raised>>
  BY DEF F!Raise
<1>3. PICK g : g = F!Last(frames[t]).sig
  OBVIOUS
<1>4. pending' = [pending EXCEPT ![t] = @ \cup {g}]
  BY <1>3 DEF F!Raise, F!Again
<1>5. g \in Fatal /\ (raised[g] = 1 => Reported(g))
  <2>1. Len(frames[t]) \in DOMAIN frames[t]
    <3>1. frames[t] \in Seq(Frame) /\ frames[t] # <<>>
      BY <1>1 DEF F!TypeOK, Frame
    <3> QED
      BY <3>1, EmptySeq, LenProperties
  <2>2. PICK i \in DOMAIN frames[t] : frames[t][i].sig = g /\ frames[t][i].at = "raise"
    BY <1>1, <1>3, <2>1 DEF F!Last
  <2> QED
    BY <2>2, FrameFacts DEF ReportedFirst
<1>6. raised[g] = 1 => Reported(g)'
  BY <1>2, <1>5 DEF Reported
<1>7. /\ pending' \in [Threads -> SUBSET Fatal] /\ pending'[t] = pending[t] \cup {g}
      /\ \A u \in Threads : u # t => pending'[u] = pending[u]
  <2>1. pending \in [Threads -> SUBSET Fatal] /\ pending[t] \cup {g} \in SUBSET Fatal
    BY <1>5 DEF F!TypeOK
  <2> QED
    BY <1>4, <2>1
<1>8. /\ \A u \in Threads : pending[u] \subseteq pending'[u]
      /\ \A u \in Threads : \A r \in pending'[u] : r \in pending[u] \/ r = g
      /\ g \in pending'[t]
  BY <1>7
<1>9. records' \subseteq Fatal /\ records \subseteq records'
  BY <1>2 DEF F!TypeOK
<1>10. "return" \in {"record", "raise", "return"}
  OBVIOUS
<1> QED
  BY <1>1, <1>2, <1>3, <1>6, <1>7, <1>8, <1>9, <1>10, GoesOn

LEMMA FrontFacts ==
  ASSUME F!TypeOK, NEW t \in Threads, frames[t] # <<>>
  PROVE  /\ F!Front(frames[t]) \in Seq(Frame) /\ Len(frames[t]) \in DOMAIN frames[t]
         /\ F!Last(frames[t]) = frames[t][Len(frames[t])]
         /\ \A i \in DOMAIN F!Front(frames[t]) :
                /\ i \in DOMAIN frames[t] /\ i # Len(frames[t])
                /\ F!Front(frames[t])[i] = frames[t][i]
<1> DEFINE q == frames[t]
           k == Len(q)
           f == F!Front(q)
<1>1. q \in Seq(Frame) /\ q # <<>> /\ f = SubSeq(q, 1, k - 1) /\ F!Last(q) = q[k]
  BY DEF F!TypeOK, Frame, F!Front, F!Last
<1> HIDE DEF q, f
<1>2. k \in Nat \ {0} /\ DOMAIN q = 1 .. k /\ \A i \in 1 .. k : q[i] \in Frame
  BY <1>1, EmptySeq, LenProperties, ElementOfSeq
<1> HIDE DEF k
<1>3. \A i \in 1 .. k - 1 : q[i] \in Frame
  BY <1>2
<1>4. /\ f \in Seq(Frame) /\ Len(f) = IF 1 <= k - 1 THEN k - 1 - 1 + 1 ELSE 0
      /\ \A i \in 1 .. k - 1 - 1 + 1 : f[i] = q[1 + i - 1]
  BY <1>1, <1>2, <1>3, SubSeqProperties
<1>5. Len(f) = k - 1
  BY <1>2, <1>4
<1>6. DOMAIN f = 1 .. k - 1
  BY <1>4, <1>5, LenProperties
<1>7. \A i \in 1 .. k - 1 : i \in DOMAIN q /\ i # k /\ f[i] = q[i]
  <2>1. \A i \in 1 .. k - 1 : i \in 1 .. k /\ i # k /\ i \in 1 .. k - 1 - 1 + 1 /\ 1 + i - 1 = i
    BY <1>2
  <2> QED
    BY <1>2, <1>4, <2>1
<1>8. /\ f \in Seq(Frame) /\ k \in DOMAIN q /\ F!Last(q) = q[k]
      /\ \A i \in DOMAIN f : i \in DOMAIN q /\ i # k /\ f[i] = q[i]
  BY <1>1, <1>2, <1>4, <1>6, <1>7
<1> QED
  BY <1>8 DEF q, f, k

\* A handler that returns is the end of the process: its signal has the system
\* default and waits for nothing else.
LEMMA ReturnStep ==
  ASSUME FatalInv, NEW t \in Threads, F!Return(t)
  PROVE  FatalInv'
<1> USE DEF FatalInv
<1> DEFINE q == frames[t]
           k == Len(q)
           outer == F!Front(q)
           due == {s \in pending[t] : ~F!Blocked(outer, s)}
<1>1. /\ process = "running" /\ q # <<>> /\ F!Last(q).at = "return"
      /\ UNCHANGED <<abort_expected, pc, heap, stdio, records, printed, raised>>
  BY DEF F!Return, F!At, F!InHandler
<1>2. /\ outer \in Seq(Frame) /\ k \in DOMAIN q /\ q[k].at = "return"
      /\ \A i \in DOMAIN outer : i \in DOMAIN q /\ i # k /\ outer[i] = q[i]
  BY <1>1, FrontFacts
<1>3. due # {}
  <2>1. q[k].sig \in pending[t]
    BY <1>2 DEF RaisedAgain
  <2>2. \A i \in DOMAIN q : q[i].sig = q[k].sig => i = k
    BY <1>2 DEF NoReentry, F!NoReentry
  <2>3. ~F!Blocked(outer, q[k].sig)
    BY <1>2, <2>2 DEF F!Blocked
  <2> QED
    BY <2>1, <2>3
<1>4. PICK s \in due : pending' = [pending EXCEPT ![t] = @ \ {s}] /\ F!Deliver(t, s, outer)
  BY <1>3 DEF F!Return
<1>5. s \in Fatal /\ s \in pending[t] /\ action[s] = "default" /\ s # "running"
  BY ThreadsAssumption DEF F!TypeOK, CameBefore, F!ZFatalAssumption
<1>6. process' = s /\ frames' = [frames EXCEPT ![t] = outer] /\ UNCHANGED action
  BY <1>4, <1>5 DEF F!Deliver
<1>7. \A i \in DOMAIN outer : outer[i].sig # s
  BY DEF F!Blocked
<1> HIDE DEF outer, due, k
<1>8. frames'[t] = outer /\ \A u \in Threads : u # t => frames'[u] = frames[u]
  BY <1>6 DEF F!TypeOK
<1>9. \A u \in Threads : \A i \in DOMAIN frames'[u] :
          i \in DOMAIN frames[u] /\ frames'[u][i] = frames[u][i]
  BY <1>2, <1>8
<1>10. /\ pending' \in [Threads -> SUBSET Fatal] /\ pending'[t] = pending[t] \ {s}
       /\ \A u \in Threads : u # t => pending'[u] = pending[u]
  <2>1. pending \in [Threads -> SUBSET Fatal] /\ pending[t] \ {s} \in SUBSET Fatal
    BY DEF F!TypeOK
  <2> QED
    BY <1>4, <2>1
<1>11. \A u \in Threads : \A r \in pending'[u] : r \in pending[u]
  BY <1>10
<1>12. F!TypeOK'
  <2>1. frames' \in [Threads -> Seq(Frame)]
    BY <1>2, <1>6 DEF F!TypeOK, Frame
  <2> QED
    BY <1>1, <1>5, <1>6, <1>10, <2>1 DEF F!TypeOK, Frame
<1>13. CameBefore'
  BY <1>1, <1>6, <1>9, <1>11 DEF CameBefore
<1>14. NoReentry'
  BY <1>9 DEF NoReentry, F!NoReentry
<1>15. RaisedAgain'
  <2>1. ASSUME NEW u \in Threads, NEW i \in DOMAIN frames'[u], frames'[u][i].at = "return"
        PROVE  frames'[u][i].sig \in pending'[u]
    <3>1. frames'[u][i].sig \in pending[u]
      BY <1>9, <2>1 DEF RaisedAgain
    <3>2. u = t => frames'[u][i].sig # s
      BY <1>7, <1>8
    <3> QED
      BY <1>10, <3>1, <3>2
  <2> QED
    BY <2>1 DEF RaisedAgain
<1>16. Announced' /\ ExitNeverExecuted'
  BY <1>1, <1>5, <1>6 DEF Announced, ExitNeverExecuted, F!ExitNeverExecuted
<1>17. \A r : Reported(r)' <=> Reported(r)
  BY <1>1 DEF Reported
<1>18. ReportedFirst'
  <2>1. \A u \in Threads : \A i \in DOMAIN frames'[u] :
            frames'[u][i].at \in {"raise", "return"} /\ raised[frames'[u][i].sig] = 1 =>
                Reported(frames'[u][i].sig)
    BY <1>9 DEF ReportedFirst
  <2>2. \A u \in Threads : \A r \in pending'[u] : raised[r] = 1 => Reported(r)
    BY <1>11 DEF ReportedFirst
  <2> QED
    BY <1>1, <1>6, <2>1, <2>2 DEF ReportedFirst, Reported
<1>19. LoneSignalIsReported'
  BY <1>1, <1>5, <1>6 DEF ReportedFirst, Reported, LoneSignalIsReported, F!LoneSignalIsReported
<1> QED
  BY <1>12, <1>13, <1>14, <1>15, <1>16, <1>18, <1>19

-----------------------------------------------------------------------------
(* The other steps of ZFatal.                                               *)

LEMMA Counted ==
  ASSUME F!TypeOK, NEW s \in Fatal, F!Count(s)
  PROVE  /\ raised' \in [Fatal -> 0 .. MaxSignals] /\ raised'[s] = raised[s] + 1
         /\ \A r \in Fatal : r # s => raised'[r] = raised[r]
<1>1. raised \in [Fatal -> 0 .. MaxSignals] /\ MaxSignals \in Nat
  BY ThreadsAssumption DEF F!TypeOK, F!ZFatalAssumption
<1>2. raised[s] \in 0 .. MaxSignals /\ raised[s] < MaxSignals
  BY <1>1 DEF F!Count
<1>3. raised[s] + 1 \in 0 .. MaxSignals
  BY <1>1, <1>2
<1>4. raised' = [raised EXCEPT ![s] = raised[s] + 1]
  BY DEF F!Count
<1> QED
  BY <1>1, <1>3, <1>4

LEMMA SignalStep ==
  ASSUME FatalInv, NEW t \in Threads, NEW s \in Fatal, F!Fault(t, s) \/ F!Kill(t, s)
  PROVE  FatalInv'
<1>1. process = "running" /\ F!Count(s) /\ UNCHANGED <<abort_expected, pc, heap, stdio, records, printed>>
  BY DEF F!Fault, F!Kill, F!Running, F!At
<1>2. F!Send(t, s) \/ (F!Force(t, s) /\ pending' = pending)
  BY DEF F!Fault, F!Kill
<1>3. Comes(t, s)
  BY <1>2, HowItComes
<1>4. /\ raised' \in [Fatal -> 0 .. MaxSignals] /\ raised'[s] = raised[s] + 1
      /\ \A r \in Fatal : r # s => raised'[r] = raised[r]
  BY <1>1, Counted DEF FatalInv
<1>5. pc' \in [Threads -> {"run", "print", "raise", "exit"}] /\ \A u \in Threads : pc'[u] = pc[u]
  BY <1>1 DEF FatalInv, F!TypeOK
<1> QED
  BY <1>1, <1>3, <1>4, <1>5, ComesStep

LEMMA LockStep ==
  ASSUME FatalInv, NEW t \in Threads, F!Allocate(t) \/ F!Release(t) \/ F!StartPrint(t) \/ F!EndPrint(t)
  PROVE  FatalInv'
<1> USE DEF FatalInv
<1>1. /\ heap' \in Threads \cup {NoOne} /\ stdio' \in Threads \cup {NoOne}
      /\ UNCHANGED <<action, abort_expected, pc, frames, pending, process, records, printed, raised>>
  BY DEF F!Allocate, F!Release, F!StartPrint, F!EndPrint, F!TypeOK
<1>2. F!TypeOK'
  BY <1>1 DEF F!TypeOK
<1>3. CameBefore' /\ NoReentry' /\ RaisedAgain' /\ Announced'
  BY <1>1 DEF CameBefore, NoReentry, F!NoReentry, RaisedAgain, Announced
<1>4. ExitNeverExecuted'
  BY <1>1 DEF ExitNeverExecuted, F!ExitNeverExecuted, F!InHandler
<1>5. ReportedFirst' /\ LoneSignalIsReported'
  BY <1>1 DEF ReportedFirst, Reported, LoneSignalIsReported, F!LoneSignalIsReported
<1> QED
  BY <1>2, <1>3, <1>4, <1>5

LEMMA AbortFlagStep ==
  ASSUME FatalInv, NEW t \in Threads, F!AbortFlag(t)
  PROVE  FatalInv'
<1> USE DEF FatalInv
<1>0. SIGABRT \in Fatal /\ "running" \notin Fatal
  BY ThreadsAssumption DEF F!ZFatalAssumption
<1>1. /\ process = "running" /\ abort_expected' = TRUE /\ pc' = [pc EXCEPT ![t] = "print"]
      /\ F!Count(SIGABRT)
      /\ UNCHANGED <<action, frames, pending, heap, stdio, process, records, printed>>
  BY DEF F!AbortFlag, F!Running
<1>2. /\ raised' \in [Fatal -> 0 .. MaxSignals] /\ raised'[SIGABRT] = raised[SIGABRT] + 1
      /\ \A r \in Fatal : r # SIGABRT => raised'[r] = raised[r]
  BY <1>0, <1>1, Counted
<1>3. \A r \in Fatal : raised[r] \in Nat /\ raised'[r] \in Nat
  BY <1>2 DEF F!TypeOK
<1>4. /\ pc' \in [Threads -> {"run", "print", "raise", "exit"}] /\ pc'[t] = "print"
      /\ \A u \in Threads : u # t => pc'[u] = pc[u]
  BY <1>1 DEF F!TypeOK
<1>5. \A r \in Fatal : raised[r] # 0 => raised'[r] # 0 /\ (raised'[r] = 1 => raised[r] = 1)
  BY <1>2, <1>3
<1>6. raised'[SIGABRT] # 0
  BY <1>0, <1>2, <1>3
<1>7. F!TypeOK'
  BY <1>1, <1>2, <1>4 DEF F!TypeOK
<1>8. CameBefore' /\ NoReentry' /\ RaisedAgain'
  BY <1>1, <1>5 DEF CameBefore, NoReentry, F!NoReentry, RaisedAgain
<1>9. Announced'
  BY <1>1, <1>4, <1>6 DEF Announced
<1>10. ExitNeverExecuted'
  BY <1>1, <1>4 DEF ExitNeverExecuted, F!ExitNeverExecuted, F!InHandler
<1>11. ReportedFirst'
  <2>1. action[SIGABRT] = "default" => raised'[SIGABRT] # 1
    BY <1>0, <1>2, <1>3 DEF CameBefore
  <2>2. ASSUME NEW u \in Threads, NEW i \in DOMAIN frames[u],
               frames[u][i].at \in {"raise", "return"}, raised'[frames[u][i].sig] = 1
        PROVE  Reported(frames[u][i].sig)
    <3>1. frames[u][i].sig \in Fatal
      BY FrameFacts
    <3>2. raised[frames[u][i].sig] # 0
      BY <3>1 DEF CameBefore
    <3> QED
      BY <1>5, <2>2, <3>1, <3>2 DEF ReportedFirst
  <2>3. ASSUME NEW u \in Threads, NEW r \in pending[u], raised'[r] = 1 PROVE Reported(r)
    <3>1. r \in Fatal
      BY DEF F!TypeOK
    <3>2. raised[r] # 0
      BY <3>1 DEF CameBefore
    <3> QED
      BY <1>5, <2>3, <3>1, <3>2 DEF ReportedFirst
  <2> QED
    BY <1>1, <2>1, <2>2, <2>3 DEF ReportedFirst, Reported
<1>12. LoneSignalIsReported'
  BY <1>0, <1>1 DEF LoneSignalIsReported, F!LoneSignalIsReported
<1> QED
  BY <1>7, <1>8, <1>9, <1>10, <1>11, <1>12

LEMMA AbortPrintStep ==
  ASSUME FatalInv, NEW t \in Threads, F!AbortPrint(t)
  PROVE  FatalInv'
<1> USE DEF FatalInv
<1>1. /\ process = "running" /\ pc[t] = "print" /\ printed' = TRUE /\ pc' = [pc EXCEPT ![t] = "raise"]
      /\ UNCHANGED <<action, abort_expected, frames, pending, heap, stdio, process, records, raised>>
  BY DEF F!AbortPrint
<1>2. /\ pc' \in [Threads -> {"run", "print", "raise", "exit"}] /\ pc'[t] = "raise"
      /\ \A u \in Threads : u # t => pc'[u] = pc[u]
  BY <1>1 DEF F!TypeOK
<1>3. F!TypeOK'
  BY <1>1, <1>2 DEF F!TypeOK
<1>4. CameBefore' /\ NoReentry' /\ RaisedAgain'
  BY <1>1 DEF CameBefore, NoReentry, F!NoReentry, RaisedAgain
<1>5. Announced'
  BY <1>1, <1>2 DEF Announced
<1>6. ExitNeverExecuted'
  BY <1>1, <1>2 DEF ExitNeverExecuted, F!ExitNeverExecuted, F!InHandler
<1>7. ReportedFirst' /\ LoneSignalIsReported'
  BY <1>1 DEF ReportedFirst, Reported, LoneSignalIsReported, F!LoneSignalIsReported
<1> QED
  BY <1>3, <1>4, <1>5, <1>6, <1>7

LEMMA AbortRaiseStep ==
  ASSUME FatalInv, NEW t \in Threads, F!AbortRaise(t)
  PROVE  FatalInv'
<1>1. /\ process = "running" /\ frames[t] = <<>> /\ pc[t] = "raise" /\ pc' = [pc EXCEPT ![t] = "exit"]
      /\ F!Deliver(t, SIGABRT, frames[t])
      /\ UNCHANGED <<abort_expected, pending, heap, stdio, records, printed, raised>>
  BY DEF F!AbortRaise, F!InHandler
<1>2. SIGABRT \in Fatal /\ "running" \notin Fatal
  BY ThreadsAssumption DEF F!ZFatalAssumption
<1>3. Comes(t, SIGABRT)
  BY <1>1, <1>2, HowItComes
<1>4. ~StaysPending(t, SIGABRT)
  BY <1>1, <1>2 DEF StaysPending, F!Deliver
<1>5. raised[SIGABRT] # 0 /\ printed
  BY <1>1 DEF FatalInv, Announced
<1>6. raised' \in [Fatal -> 0 .. MaxSignals] /\ \A r \in Fatal : raised'[r] = raised[r]
  BY <1>1 DEF FatalInv, F!TypeOK
<1>7. /\ pc' \in [Threads -> {"run", "print", "raise", "exit"}] /\ pc'[t] = "exit"
      /\ \A u \in Threads : u # t => pc'[u] = pc[u]
  BY <1>1 DEF FatalInv, F!TypeOK
<1>8. /\ \A u \in Threads : pc'[u] \in {"print", "raise"} => pc[u] = pc'[u]
      /\ \A u \in Threads : pc'[u] = "exit" => pc[u] = "exit" \/ (u = t /\ ~StaysPending(t, SIGABRT))
  BY <1>4, <1>7
<1> QED
  BY <1>1, <1>2, <1>3, <1>5, <1>6, <1>7, <1>8, ComesStep

LEMMA FatalStep == FatalInv /\ [F!Next]_(F!vars) => FatalInv'
<1> SUFFICES ASSUME FatalInv, [F!Next]_(F!vars) PROVE FatalInv'
  OBVIOUS
<1>1. ASSUME NEW t \in Threads, NEW s \in Fatal, F!Fault(t, s) \/ F!Kill(t, s) PROVE FatalInv'
  BY <1>1, SignalStep
<1>2. ASSUME NEW t \in Threads, F!Allocate(t) \/ F!Release(t)
                                   \/ F!StartPrint(t) \/ F!EndPrint(t) PROVE FatalInv'
  BY <1>2, LockStep
<1>3. ASSUME NEW t \in Threads, F!AbortFlag(t) \/ F!Abort(t) PROVE FatalInv'
  BY <1>3, AbortFlagStep, AbortPrintStep, AbortRaiseStep DEF F!Abort
<1>4. ASSUME NEW t \in Threads, F!Handler(t) PROVE FatalInv'
  BY <1>4, CheckStep, RecordStep, RaiseStep, ReturnStep DEF F!Handler
<1>5. CASE UNCHANGED F!vars
  <2> USE <1>5 DEF FatalInv, F!vars
  <2>1. F!TypeOK'
    BY DEF F!TypeOK
  <2>4. CameBefore' /\ NoReentry'
    BY DEF CameBefore, NoReentry, F!NoReentry
  <2>2. RaisedAgain' /\ Announced' /\ ExitNeverExecuted'
    BY DEF RaisedAgain, Announced, ExitNeverExecuted, F!ExitNeverExecuted, F!InHandler
  <2>3. ReportedFirst' /\ LoneSignalIsReported'
    BY DEF ReportedFirst, Reported, LoneSignalIsReported, F!LoneSignalIsReported
  <2> QED
    BY <2>1, <2>2, <2>3, <2>4
<1> QED
  BY <1>1, <1>2, <1>3, <1>4, <1>5 DEF F!Next

LEMMA FatalHolds == F!Spec => []FatalInv
BY FatalInit, FatalStep, PTL DEF F!Spec

\* The handler of a fatal signal is never in two places at once, whoever raises the
\* signal, wherever and how often: the kernel takes the handler away with the first
\* delivery (SA_RESETHAND, zsignal.cc:160).
THEOREM HandlersRunOnce == F!Spec => []NoReentry
BY FatalHolds, PTL DEF FatalInv

\* zsignal_abort never reaches its exit(-1): the raise before it kills the process or
\* starts a handler that does, whatever other threads do to SIGABRT (zsignal.cc:401-406).
THEOREM AbortEndsInRaise == F!Spec => []ExitNeverExecuted
BY FatalHolds, PTL DEF FatalInv

\* A process killed by a signal that came once has reported it, by a complete record or by
\* the line of zsignal_abort, with any number of threads and of other signals around it
\* (zsignal.cc:114-126).
THEOREM LoneSignalsAreReported == F!Spec => []LoneSignalIsReported
BY FatalHolds, PTL DEF FatalInv
=============================================================================
