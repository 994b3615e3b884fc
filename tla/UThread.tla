------------------------------ MODULE UThread ------------------------------
(***************************************************************************)
(* One UThread object (lib/uthread.cc), or a loopThread derived from it:   *)
(* the thread that owns it calls create, exit, join and the destructor in  *)
(* any order, and the threads it started run UThreadStartFun on it.        *)
(*                                                                         *)
(* External, as glibc has it: pthread_create stores the new id before the  *)
(* thread runs, also when it then fails; a cancelled thread ends at its    *)
(* next cancellation point, which the bodies have and the start function   *)
(* does not; an id is good for pthread_join and pthread_cancel until the   *)
(* thread was joined.                                                      *)
(***************************************************************************)
EXTENDS Naturals, FiniteSets

CONSTANTS
    Tids,      \* the ids pthread_create hands out, each once
    NoThread   \* the id 0

ASSUME UThreadAssumption == NoThread \notin Tids

VARIABLES
    m_threadId,
    m_isThreadRunning,
    m_create_cb,   \* create was given a callback
    object,        \* alive, or deleted
    owner,         \* the owner's call that waits: none, join or delete
    at,            \* where each thread is
    cancelled,     \* the threads pthread_cancel was called for
    exited,        \* history: the threads exit was called for, or that called it
    orphans,       \* history: threads that ran when create was called again
    failed         \* history: a create has failed

vars == <<m_threadId, m_isThreadRunning, m_create_cb, object, owner, at, cancelled,
          exited, orphans, failed>>

\* A thread is in UThreadStartFun, then in a body; "leaving" is a callback or
\* onExit that has deleted the object.
Start == {"name", "flag", "dispatch"}
Body  == {"callback", "onInit", "run", "onExit", "leaving"}
Live  == Start \cup Body

Init ==
    /\ m_threadId = NoThread
    /\ m_isThreadRunning = FALSE
    /\ m_create_cb = FALSE
    /\ object = "alive"
    /\ owner = "none"
    /\ at = [t \in Tids |-> "none"]
    /\ cancelled = {} /\ exited = {} /\ orphans = {}
    /\ failed = FALSE

-----------------------------------------------------------------------------
(* The owner.                                                               *)

OwnerCalls == owner = "none" /\ object = "alive"

HasThread == m_threadId # NoThread

\* The threads a second create loses.
Lost == {t \in Tids : t = m_threadId /\ at[t] \in Live \cup {"ended"}}

\* A call that fails for its attributes returns before it changes anything here.
Create(t, callback) ==
    /\ OwnerCalls
    /\ at[t] = "none"
    /\ m_create_cb' = callback
    /\ m_threadId' = t
    /\ at' = [at EXCEPT ![t] = "name"]
    /\ orphans' = orphans \cup Lost
    /\ UNCHANGED <<m_isThreadRunning, object, owner, cancelled, exited, failed>>

\* No memory for the stack: the id is as before.  No thread to be had: the id
\* is that of a thread that never ran.
CreateFails(t, callback) ==
    /\ OwnerCalls
    /\ at[t] = "none"
    /\ m_create_cb' = callback
    /\ m_isThreadRunning' = FALSE
    /\ at' = [at EXCEPT ![t] = "gone"]
    /\ \/ UNCHANGED <<m_threadId, orphans>>
       \/ m_threadId' = t /\ orphans' = orphans \cup Lost
    /\ failed' = TRUE
    /\ UNCHANGED <<object, owner, cancelled, exited>>

\* Mutant: exit waits for the thread to find out by itself.
Cancels_None(t) == {}

Cancels(t) == {t}

\* The caller is not the thread of m_threadId.
ExitOther ==
    /\ HasThread
    /\ cancelled' = cancelled \cup Cancels(m_threadId)
    /\ exited' = exited \cup {m_threadId}
    /\ m_isThreadRunning' = FALSE
    /\ UNCHANGED <<m_threadId, m_create_cb, object, owner, at, orphans, failed>>

Exit == OwnerCalls /\ ExitOther

Wait(call) ==
    /\ OwnerCalls
    /\ HasThread
    /\ owner' = call
    /\ UNCHANGED <<m_threadId, m_isThreadRunning, m_create_cb, object, at, cancelled,
                   exited, orphans, failed>>

Join == Wait("join")

\* Mutant: the id stays.
IdAfterJoin_Kept == m_threadId

IdAfterJoin == NoThread

Joined ==
    /\ owner = "join"
    /\ at[m_threadId] = "ended"
    /\ at' = [at EXCEPT ![m_threadId] = "gone"]
    /\ m_threadId' = IdAfterJoin
    /\ owner' = "none"
    /\ UNCHANGED <<m_isThreadRunning, m_create_cb, object, cancelled, exited, orphans, failed>>

\* Mutant: the destructor does not wait.
DeleteWaits_Never == FALSE

DeleteWaits == m_threadId # NoThread

Delete ==
    \/ DeleteWaits /\ Wait("delete")
    \/ /\ OwnerCalls /\ ~DeleteWaits
       /\ object' = "deleted"
       /\ UNCHANGED <<m_threadId, m_isThreadRunning, m_create_cb, owner, at, cancelled,
                      exited, orphans, failed>>

Deleted ==
    /\ owner = "delete"
    /\ at[m_threadId] = "ended"
    /\ at' = [at EXCEPT ![m_threadId] = "gone"]
    /\ object' = "deleted"
    /\ owner' = "none"
    /\ UNCHANGED <<m_threadId, m_isThreadRunning, m_create_cb, cancelled, exited, orphans, failed>>

-----------------------------------------------------------------------------
(* A thread: UThreadStartFun, then the callback, or onInit, run and onExit. *)

Goto(t, from, to) == at[t] = from /\ at' = [at EXCEPT ![t] = to]

SetName(t) ==
    /\ Goto(t, "name", "flag")
    /\ UNCHANGED <<m_threadId, m_isThreadRunning, m_create_cb, object, owner, cancelled,
                   exited, orphans, failed>>

\* Mutant: the start function leaves the flag to create.
FlagAtStart_Kept == m_isThreadRunning

FlagAtStart == TRUE

SetFlag(t) ==
    /\ Goto(t, "flag", "dispatch")
    /\ m_isThreadRunning' = FlagAtStart
    /\ UNCHANGED <<m_threadId, m_create_cb, object, owner, cancelled, exited, orphans, failed>>

\* It goes on after the callback, onInit and run return; run need not.
Proceed(t) ==
    /\ \/ m_create_cb /\ Goto(t, "dispatch", "callback")
       \/ ~m_create_cb /\ Goto(t, "dispatch", "onInit")
       \/ Goto(t, "onInit", "run")
    /\ UNCHANGED <<m_threadId, m_isThreadRunning, m_create_cb, object, owner, cancelled,
                   exited, orphans, failed>>

Finish(t) ==
    /\ \/ Goto(t, "callback", "ended")
       \/ Goto(t, "run", "onExit")
       \/ Goto(t, "onExit", "ended")
       \/ Goto(t, "leaving", "ended")
    /\ UNCHANGED <<m_threadId, m_isThreadRunning, m_create_cb, object, owner, cancelled,
                   exited, orphans, failed>>

\* A cancelled thread reaches a cancellation point.
Cancelled(t) ==
    /\ t \in cancelled
    /\ at[t] \in Body
    /\ at' = [at EXCEPT ![t] = "ended"]
    /\ UNCHANGED <<m_threadId, m_isThreadRunning, m_create_cb, object, owner, cancelled,
                   exited, orphans, failed>>

\* The body calls exit on its object.  pthread_exit does not return.
ExitSelf(t) ==
    /\ object = "alive"
    /\ at[t] \in Body
    /\ IF m_threadId = t
       THEN /\ at' = [at EXCEPT ![t] = "ended"]
            /\ exited' = exited \cup {t}
            /\ UNCHANGED <<m_threadId, m_isThreadRunning, m_create_cb, object, owner,
                           cancelled, orphans, failed>>
       ELSE ExitOther

\* The callback, or onExit, deletes its own object, which nobody else uses any
\* more: the destructor does not wait for itself.
DeleteSelf(t) ==
    /\ OwnerCalls
    /\ at[t] \in {"callback", "onExit"}
    /\ m_threadId = t
    /\ object' = "deleted"
    /\ at' = [at EXCEPT ![t] = "leaving"]
    /\ UNCHANGED <<m_threadId, m_isThreadRunning, m_create_cb, owner, cancelled,
                   exited, orphans, failed>>

Thread(t) == SetName(t) \/ SetFlag(t) \/ Proceed(t) \/ Cancelled(t)

Next ==
    \/ \E t \in Tids, callback \in BOOLEAN : Create(t, callback) \/ CreateFails(t, callback)
    \/ Exit \/ Join \/ Joined \/ Delete \/ Deleted
    \/ \E t \in Tids : Thread(t) \/ Finish(t) \/ ExitSelf(t) \/ DeleteSelf(t)

Spec == Init /\ [][Next]_vars

\* Threads run, and bodies reach cancellation points (sleep, read, epoll_wait);
\* pthread_join returns when the thread has ended.  No body need return.
Fairness ==
    /\ \A t \in Tids : WF_vars(Thread(t))
    /\ WF_vars(Joined) /\ WF_vars(Deleted)

-----------------------------------------------------------------------------
TypeOK ==
    /\ m_threadId \in Tids \cup {NoThread}
    /\ m_isThreadRunning \in BOOLEAN
    /\ m_create_cb \in BOOLEAN
    /\ object \in {"alive", "deleted"}
    /\ owner \in {"none", "join", "delete"}
    /\ at \in [Tids -> {"none", "ended", "gone"} \cup Live]
    /\ cancelled \subseteq Tids /\ exited \subseteq Tids /\ orphans \subseteq Tids
    /\ failed \in BOOLEAN

\* pthread_join and pthread_cancel are only called with the id of a thread that
\* was not joined yet, in whatever order the owner calls join, exit and the
\* destructor; only a create that failed can leave the id of no thread
\* (uthread.cc:55-65, 88-93, 96-124).
IdIsJoinable ==
    object = "alive" /\ m_threadId # NoThread /\ ~failed => at[m_threadId] \in Live \cup {"ended"}

\* The destructor leaves no thread that still works on the object, except one
\* a second create has lost (uthread.cc:22-40, 55-65).
NoUseAfterDelete ==
    \A t \in Tids : object = "deleted" /\ at[t] \in Live \ {"callback", "leaving"} => t \in orphans

\* While the thread runs its body isRunning() says so, unless exit was called
\* for it or a second create failed: neither an earlier thread of the object
\* nor a late start of this one switches it off (uthread.cc:29, 91, 110).
RunningIsTold ==
    m_threadId # NoThread /\ at[m_threadId] \in Body /\ m_threadId \notin exited /\ ~failed =>
        m_isThreadRunning

\* A thread that exit was called for ends, wherever it was when it was
\* cancelled, even before its body began (uthread.cc:96-112).
ExitEndsThread == \A t \in Tids : t \in exited /\ at[t] \in Live ~> at[t] \notin Live

\* After exit the owner's join or delete returns, also on a loopThread whose
\* loop would never end (libtest.cc:124-127, 146-150).
OwnerReturns == owner # "none" /\ m_threadId \in exited /\ ~failed ~> owner = "none"
=============================================================================
