SPECIFICATION MCSpec
CONSTANTS
    Tids = {u1, u2}
    NoThread = NoThread
    Threads = {t1, t2}
    NoOne = NoOne
    Fatal = {SIGABRT, SIGSEGV, SIGFPE}
    SIGABRT = SIGABRT
    MaxSignals = 2
    Start_sec = 10
    Start_ns = 400000000
    TickNs = 200000000
    Timeouts = {0, 600, 1400}
    MaxSec = 13
    MaxDepth = 2
    MaxCalls = 2
INVARIANTS
    IdIsJoinable
    NoUseAfterDelete
    RunningIsTold
    NoReentry
    ExitNeverExecuted
    LoneSignalIsReported
    DeadlineAccepted
PROPERTIES
    ExitEndsThread
    OwnerReturns
    FatalSignalKills
    GivesUpInTime
    TimedLockReturns
CHECK_DEADLOCK FALSE
