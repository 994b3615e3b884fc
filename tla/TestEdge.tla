------------------------------ MODULE TestEdge ------------------------------
(***************************************************************************)
(* test_edge (tmp/tmp.cc): called with the level of a signal, it catches   *)
(* two falling edges that are no more than 3 seconds apart, and sends one  *)
(* event to the application.  It reads the system clock, which somebody    *)
(* may set.                                                                *)
(***************************************************************************)
EXTENDS Naturals, FiniteSets

CONSTANTS
    Timeout,     \* 3000 ms
    Wrap,        \* 2^64: times are uint64_t
    Start,       \* the clock at the beginning
    MaxTime,     \* bound: the clock stops here
    MaxSets,     \* bound: how often somebody sets the clock
    MaxFalls     \* bound: falling edges

ASSUME TestEdgeAssumption ==
    /\ Timeout \in Nat /\ MaxSets \in Nat /\ MaxFalls \in Nat
    /\ Start \in Nat \ {0} /\ MaxTime \in Nat /\ Start <= MaxTime
    /\ Wrap \in Nat /\ Wrap > MaxTime + Timeout

VARIABLES
    now,                             \* the system clock
    passed,                          \* the time that has passed since the beginning
    sets,                            \* how often the clock was set
    active_saving_,
    not_auto_mode,
    last_active_save_falling_time_,  \* of a falling edge that is in no pair, or 0
    result,                          \* what the last call returned
    falls,                           \* history: how many falling edges there were
    time,                            \* history: the time that had passed at each
    pairs,                           \* history: the second edge of each pair caught
    events                           \* history: events sent to the application

vars == <<now, passed, sets, active_saving_, not_auto_mode, last_active_save_falling_time_, result,
          falls, time, pairs, events>>

\* Nothing in the repository assigns these two.
has_obstacle_  == TRUE
emergency_stop == FALSE

Init ==
    /\ now = Start /\ passed = 0 /\ sets = 0
    /\ active_saving_ = FALSE
    /\ not_auto_mode = FALSE
    /\ last_active_save_falling_time_ = 0
    /\ result = 0
    /\ falls = 0
    /\ time = [k \in 1 .. MaxFalls |-> 0]
    /\ pairs = {}
    /\ events = 0

detector == <<active_saving_, not_auto_mode, last_active_save_falling_time_, result,
              falls, time, pairs, events>>

Tick ==
    /\ now < MaxTime /\ passed < MaxTime
    /\ now' = now + 1 /\ passed' = passed + 1
    /\ UNCHANGED <<sets, detector>>

SetClock ==
    /\ sets < MaxSets
    /\ now' \in 1 .. MaxTime
    /\ sets' = sets + 1
    /\ UNCHANGED <<passed, detector>>

clock == <<now, passed, sets>>

Return(r) == result' = r

RisingEdge ==
    /\ ~active_saving_
    /\ active_saving_' = TRUE
    /\ Return(0)
    /\ UNCHANGED <<clock, not_auto_mode, last_active_save_falling_time_, falls, time, pairs, events>>

\* The level is as it was: test_edge(true) while active, test_edge(false) while not.
NoEdge ==
    /\ Return(0)
    /\ UNCHANGED <<clock, active_saving_, not_auto_mode, last_active_save_falling_time_,
                   falls, time, pairs, events>>

-----------------------------------------------------------------------------
FallingEdge ==
    /\ active_saving_
    /\ falls < MaxFalls
    /\ active_saving_' = FALSE
    /\ falls' = falls + 1
    /\ time' = [time EXCEPT ![falls + 1] = passed]
    /\ UNCHANGED clock

FirstFall ==
    /\ FallingEdge
    /\ last_active_save_falling_time_ = 0
    /\ last_active_save_falling_time_' = now
    /\ Return(0)
    /\ UNCHANGED <<not_auto_mode, pairs, events>>

\* current_time - last_active_save_falling_time_, in uint64_t.
Elapsed ==
    IF now >= last_active_save_falling_time_
    THEN now - last_active_save_falling_time_
    ELSE now + Wrap - last_active_save_falling_time_

\* Mutant: an edge at the very end of the timeout is too late.
TimedOut_AtEnd == Elapsed >= Timeout

TimedOut == Elapsed > Timeout

LastAfterTimeout == now

LateFall ==
    /\ FallingEdge
    /\ last_active_save_falling_time_ # 0
    /\ TimedOut
    /\ last_active_save_falling_time_' = LastAfterTimeout
    /\ Return(1)
    /\ UNCHANGED <<not_auto_mode, pairs, events>>

\* Mutant: the second edge of a pair begins the next one.
LastAfterPair_Second == now

LastAfterPair == 0

\* Mutant: the mode stays automatic.
ModeAfterEvent_Auto == FALSE

ModeAfterEvent == TRUE

SecondFall ==
    /\ FallingEdge
    /\ last_active_save_falling_time_ # 0
    /\ ~TimedOut
    /\ last_active_save_falling_time_' = LastAfterPair
    /\ pairs' = pairs \cup {falls + 1}
    /\ \/ /\ has_obstacle_ /\ ~not_auto_mode /\ ~emergency_stop
          /\ not_auto_mode' = ModeAfterEvent
          /\ events' = events + 1
          /\ Return(3)
       \/ /\ has_obstacle_ /\ ~not_auto_mode /\ emergency_stop
          /\ Return(2)
          /\ UNCHANGED <<not_auto_mode, events>>
       \/ /\ ~has_obstacle_ \/ not_auto_mode
          /\ Return(4)
          /\ UNCHANGED <<not_auto_mode, events>>

Next == Tick \/ SetClock \/ RisingEdge \/ NoEdge \/ FirstFall \/ LateFall \/ SecondFall

Spec == Init /\ [][Next]_vars

-----------------------------------------------------------------------------
\* The static time is that of the last falling edge, if there is one, on a
\* clock nobody has set.
TypeOK ==
    /\ now \in 1 .. MaxTime /\ passed \in 0 .. MaxTime /\ sets \in 0 .. MaxSets
    /\ active_saving_ \in BOOLEAN /\ not_auto_mode \in BOOLEAN
    /\ result \in 0 .. 4
    /\ falls \in 0 .. MaxFalls
    /\ time \in [1 .. MaxFalls -> 0 .. MaxTime]
    /\ pairs \subseteq 2 .. falls
    /\ events \in Nat
    /\ last_active_save_falling_time_ \in 0 .. MaxTime
    /\ last_active_save_falling_time_ # 0 /\ sets = 0 =>
           falls > 0 /\ last_active_save_falling_time_ = time[falls] + Start

Close(k) == time[k] - time[k - 1] <= Timeout

\* A pair is two falling edges in a row, no more than the timeout apart, and no
\* edge is in two pairs, as long as nobody has set the clock (tmp.cc:80-92).
PairsAreClose == sets = 0 => \A k \in pairs : Close(k) /\ k - 1 \notin pairs

\* tmp.cc:93 "catch two falling edge with-in timeout": of two falling edges in a
\* row, no more than the timeout apart, one at least is in a pair, as long as
\* nobody has set the clock; the clock is system_clock, not steady_clock.
NoPairMissed == sets = 0 => \A k \in 2 .. falls : Close(k) => {k - 1, k} \cap pairs # {}

\* The application gets one event, for the first pair, and the call that catches
\* it returns 3; each call that catches another pair returns 4 and sends nothing,
\* and a falling edge that makes no pair returns neither, also when somebody sets
\* the clock (tmp.cc:98-114, test.cc:25-33).
OneEvent ==
    [][/\ events' = IF pairs' = {} THEN 0 ELSE 1
       /\ falls' # falls =>
              result' \in IF pairs' = pairs THEN {0, 1}
                         ELSE IF pairs = {} THEN {3} ELSE {4}]_vars
=============================================================================
