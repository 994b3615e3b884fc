--------------------------- MODULE ProgramsProofs ---------------------------
(***************************************************************************)
(* The programs that run alone.  The edge detector of TestEdge, for every  *)
(* timeout and any number of edges: one event, also when the clock is set; *)
(* and, as long as nobody has set the clock, the pairs caught are the      *)
(* right ones.  The crossing rules of CrossMap, for any rules and files:   *)
(* what test_cross_map answers is the reference's way.                     *)
(* The path server of JwServer, for any clients, messages and number of    *)
(* turns: each request is answered at its client, and paths and block      *)
(* results go out in their rounds.                                         *)
(***************************************************************************)
EXTENDS MCPrograms, SequenceTheorems, Recursion

-----------------------------------------------------------------------------
(* TestEdge.                                                                *)

\* The event was sent exactly when the mode left automatic.
EventInv ==
    /\ events = IF pairs = {} THEN 0 ELSE 1
    /\ not_auto_mode <=> pairs # {}

LEMMA EventStep == EventInv /\ [Next]_vars => EventInv'
<1> SUFFICES ASSUME EventInv, [Next]_vars PROVE EventInv'
  OBVIOUS
<1> USE DEF EventInv
<1>1. ASSUME UNCHANGED <<not_auto_mode, pairs, events>> PROVE EventInv'
  BY <1>1
<1>2. CASE SecondFall
  <2>1. pairs' # {}
    BY <1>2 DEF SecondFall
  <2>2. CASE not_auto_mode
    BY <1>2, <2>1, <2>2 DEF SecondFall, has_obstacle_
  <2>3. CASE ~not_auto_mode
    <3>1. events = 0 /\ events' = events + 1 /\ not_auto_mode'
      BY <1>2, <2>3 DEF SecondFall, has_obstacle_, emergency_stop, ModeAfterEvent
    <3> QED BY <2>1, <3>1
  <2> QED BY <2>2, <2>3
<1>3. CASE Tick \/ SetClock \/ RisingEdge \/ NoEdge \/ FirstFall \/ LateFall \/ UNCHANGED vars
  BY <1>1, <1>3 DEF Tick, SetClock, RisingEdge, NoEdge, FirstFall, LateFall, detector, vars
<1> QED BY <1>2, <1>3 DEF Next

\* A pair ends with a falling edge after those there were.
PairsPast == falls \in Nat /\ pairs \subseteq 0 .. falls

LEMMA PastStep == PairsPast /\ [Next]_vars => PairsPast'
<1> SUFFICES ASSUME PairsPast, [Next]_vars PROVE PairsPast'
  OBVIOUS
<1>1. CASE SecondFall
  <2>1. falls' = falls + 1 /\ pairs' = pairs \cup {falls + 1}
    BY <1>1 DEF SecondFall, FallingEdge
  <2> QED BY <2>1 DEF PairsPast
<1>2. CASE FirstFall \/ LateFall
  <2>1. falls' = falls + 1 /\ pairs' = pairs
    BY <1>2 DEF FirstFall, LateFall, FallingEdge
  <2> QED BY <2>1 DEF PairsPast
<1>3. CASE Tick \/ SetClock \/ RisingEdge \/ NoEdge \/ UNCHANGED vars
  BY <1>3 DEF PairsPast, Tick, SetClock, RisingEdge, NoEdge, detector, vars
<1> QED BY <1>1, <1>2, <1>3 DEF Next

\* The application is sent one event, for the first pair, however often the clock
\* is set, and each call returns what it did.
THEOREM SendsOneEvent == Spec => OneEvent
<1>1. Init => EventInv /\ PairsPast
  BY DEF Init, EventInv, PairsPast
<1>2. ASSUME EventInv, PairsPast, [Next]_vars, ~UNCHANGED vars
      PROVE  /\ events' = IF pairs' = {} THEN 0 ELSE 1
             /\ falls' # falls =>
                    result' \in IF pairs' = pairs THEN {0, 1}
                               ELSE IF pairs = {} THEN {3} ELSE {4}
  <2>1. events' = IF pairs' = {} THEN 0 ELSE 1
    BY <1>2, EventStep DEF EventInv
  <2>2. CASE SecondFall
    <3>1. pairs' # pairs
      <4>1. falls + 1 \in pairs' /\ falls + 1 \notin pairs
        BY <1>2, <2>2 DEF SecondFall, PairsPast
      <4> QED BY <4>1
    <3>2. result' = IF pairs = {} THEN 3 ELSE 4
      BY <1>2, <2>2 DEF SecondFall, EventInv, Return, has_obstacle_, emergency_stop
    <3> QED BY <2>1, <3>1, <3>2
  <2>3. CASE FirstFall \/ LateFall
    <3>1. pairs' = pairs /\ result' \in {0, 1}
      BY <2>3 DEF FirstFall, LateFall, Return
    <3> QED BY <2>1, <3>1
  <2>4. CASE Tick \/ SetClock \/ RisingEdge \/ NoEdge
    <3>1. falls' = falls
      BY <2>4 DEF Tick, SetClock, RisingEdge, NoEdge, detector
    <3> QED BY <2>1, <3>1
  <2> QED BY <1>2, <2>2, <2>3, <2>4 DEF Next
<1>3. EventInv /\ PairsPast /\ [Next]_vars =>
          [/\ events' = IF pairs' = {} THEN 0 ELSE 1
           /\ falls' # falls =>
                  result' \in IF pairs' = pairs THEN {0, 1}
                             ELSE IF pairs = {} THEN {3} ELSE {4}]_vars
  BY <1>2
<1>4. EventInv /\ PairsPast /\ [Next]_vars => EventInv' /\ PairsPast'
  BY EventStep, PastStep
<1> QED BY <1>1, <1>3, <1>4, PTL DEF Spec, OneEvent

-----------------------------------------------------------------------------
(* As long as nobody has set the clock.                                     *)

AllClose   == \A n \in pairs : Close(n) /\ n - 1 \notin pairs
NoneMissed == \A n \in 2 .. falls : Close(n) => {n - 1, n} \cap pairs # {}

\* The inductive invariant: the static time is 0 exactly when the last falling
\* edge is in a pair, else it is that edge's.
EdgeInv ==
    /\ TypeOK
    /\ now = Start + passed
    /\ \A n \in 1 .. falls : time[n] <= passed
    /\ last_active_save_falling_time_ = 0 <=> falls = 0 \/ falls \in pairs
    /\ AllClose
    /\ NoneMissed

LEMMA EdgeInit ==
    ASSUME Init
    PROVE  EdgeInv
<1>1. /\ now = Start /\ passed = 0 /\ sets = 0 /\ falls = 0 /\ pairs = {}
      /\ last_active_save_falling_time_ = 0 /\ result = 0 /\ events = 0
      /\ time = [n \in 1 .. MaxFalls |-> 0]
  BY DEF Init
<1>2. TypeOK
  <2>1. active_saving_ \in BOOLEAN /\ not_auto_mode \in BOOLEAN
    BY DEF Init
  <2>2. time \in [1 .. MaxFalls -> 0 .. MaxTime]
    BY <1>1, TestEdgeAssumption
  <2> QED BY <1>1, <2>1, <2>2, TestEdgeAssumption DEF TypeOK
<1>3. AllClose /\ NoneMissed
  BY <1>1 DEF AllClose, NoneMissed
<1> QED BY <1>1, <1>2, <1>3, TestEdgeAssumption DEF EdgeInv

\* What a falling edge does to the history.
LEMMA FallingTime ==
    ASSUME EdgeInv, FallingEdge
    PROVE  /\ falls \in Nat /\ falls' = falls + 1 /\ falls' \in 1 .. MaxFalls
           /\ time' \in [1 .. MaxFalls -> 0 .. MaxTime]
           /\ time'[falls + 1] = passed /\ time'[falls'] = passed
           /\ \A n \in 1 .. falls : time'[n] = time[n]
           /\ \A n \in 1 .. falls' : time'[n] <= passed'
  BY TestEdgeAssumption DEF EdgeInv, TypeOK, FallingEdge, clock

\* The edge is late exactly when it is too far from the one before.
LEMMA LateIsFar ==
    ASSUME sets = 0, EdgeInv, FallingEdge, last_active_save_falling_time_ # 0
    PROVE  /\ falls \in 1 .. MaxFalls /\ falls \notin pairs
           /\ Elapsed = time'[falls + 1] - time'[falls]
<1>1. /\ sets = 0 /\ falls \in 1 .. MaxFalls /\ falls \notin pairs
      /\ last_active_save_falling_time_ = time[falls] + Start
      /\ time[falls] \in Nat /\ passed \in Nat
      /\ time[falls] <= passed /\ now = Start + passed /\ Start \in Nat
  BY TestEdgeAssumption DEF EdgeInv, TypeOK
<1>2. Elapsed = passed - time[falls]
  BY <1>1 DEF Elapsed
<1>3. time'[falls + 1] = passed /\ time'[falls] = time[falls]
  BY <1>1, FallingTime
<1> QED BY <1>1, <1>2, <1>3

\* Falling edges that leave the earlier pairs as they are keep what is said of them.
LEMMA EarlierPairs ==
    ASSUME EdgeInv, FallingEdge, NEW n \in 2 .. falls
    PROVE  Close(n)' = Close(n)
  BY FallingTime DEF Close

\* A falling edge keeps the types, if it keeps the few it decides upon.
LEMMA FallingType ==
    ASSUME EdgeInv, FallingEdge,
           not_auto_mode' \in BOOLEAN, result' \in 0 .. 4, events' \in Nat,
           pairs' \subseteq 2 .. falls',
           last_active_save_falling_time_' \in {0, now}, sets = 0
    PROVE  TypeOK'
<1>1. /\ now' = now /\ passed' = passed /\ sets' = sets /\ active_saving_' = FALSE
  BY DEF FallingEdge, clock
<1>2. /\ now \in 1 .. MaxTime /\ passed \in 0 .. MaxTime /\ sets \in 0 .. MaxSets
      /\ now = Start + passed
  BY DEF EdgeInv, TypeOK
<1>3. /\ falls' \in 1 .. MaxFalls /\ time' \in [1 .. MaxFalls -> 0 .. MaxTime]
      /\ time'[falls'] = passed
  BY FallingTime
<1>4. active_saving_' \in BOOLEAN
  BY <1>1
<1>5. /\ now' \in 1 .. MaxTime /\ passed' \in 0 .. MaxTime /\ sets' \in 0 .. MaxSets
      /\ falls' \in 0 .. MaxFalls
      /\ last_active_save_falling_time_' \in 0 .. MaxTime
      /\ last_active_save_falling_time_' # 0 =>
             falls' > 0 /\ last_active_save_falling_time_' = time'[falls'] + Start
  BY <1>1, <1>2, <1>3, TestEdgeAssumption
<1> QED BY <1>3, <1>4, <1>5 DEF TypeOK

LEMMA EdgeStep ==
    ASSUME sets = 0, sets' = 0, EdgeInv, [Next]_vars
    PROVE  EdgeInv'
<1>0. /\ Timeout \in Nat /\ Start \in Nat \ {0} /\ MaxTime \in Nat /\ MaxFalls \in Nat
      /\ sets = 0 /\ falls \in 0 .. MaxFalls /\ pairs \subseteq 2 .. falls
      /\ now \in 1 .. MaxTime /\ now = Start + passed
  BY TestEdgeAssumption DEF EdgeInv, TypeOK
<1>1. ASSUME UNCHANGED <<sets, passed, now>>,
             UNCHANGED <<not_auto_mode, last_active_save_falling_time_, falls, time, pairs, events>>,
             active_saving_' \in BOOLEAN, result' \in 0 .. 4
      PROVE  EdgeInv'
  BY <1>1 DEF EdgeInv, TypeOK, AllClose, NoneMissed, Close
<1>2. CASE Tick
  BY <1>2, TestEdgeAssumption DEF Tick, detector, EdgeInv, TypeOK, AllClose, NoneMissed, Close
<1>3. CASE SetClock
  BY <1>0, <1>3 DEF SetClock
<1>4. CASE RisingEdge
  BY <1>1, <1>4 DEF RisingEdge, Return, clock
<1>5. CASE NoEdge
  BY <1>1, <1>5 DEF NoEdge, Return, clock, EdgeInv, TypeOK
<1>6. CASE FirstFall
  <2>1. FallingEdge /\ pairs' = pairs /\ last_active_save_falling_time_' = now
        /\ UNCHANGED <<clock, not_auto_mode, events>> /\ result' = 0 /\ active_saving_' = FALSE
    BY <1>6 DEF FirstFall, FallingEdge, Return
  <2>2. falls = 0 \/ falls \in pairs
    BY <1>6 DEF FirstFall, EdgeInv
  <2>3. AllClose'
    BY <1>0, <2>1, EarlierPairs DEF EdgeInv, AllClose
  <2>4. NoneMissed'
    <3>1. ASSUME NEW n \in 2 .. falls', Close(n)' PROVE {n - 1, n} \cap pairs' # {}
      <4>1. CASE n = falls + 1
        BY <1>0, <2>1, <2>2, <4>1
      <4>2. CASE n \in 2 .. falls
        BY <2>1, <3>1, <4>2, EarlierPairs DEF EdgeInv, NoneMissed
      <4> QED BY <1>0, <2>1, <4>1, <4>2, FallingTime
    <3> QED BY <3>1 DEF NoneMissed
  <2>5. TypeOK'
    <3>1. not_auto_mode' \in BOOLEAN
      BY <2>1 DEF EdgeInv, TypeOK
    <3>2. result' \in 0 .. 4 /\ events' \in Nat /\ pairs' \subseteq 2 .. falls'
      BY <1>0, <2>1, FallingTime DEF EdgeInv, TypeOK
    <3> QED BY <2>1, <3>1, <3>2, FallingType
  <2>6. falls' \notin pairs' /\ falls' # 0
    BY <1>0, <2>1, FallingTime
  <2> QED BY <1>0, <2>1, <2>3, <2>4, <2>5, <2>6, FallingTime DEF EdgeInv, clock
<1>7. CASE LateFall
  <2>1. FallingEdge /\ last_active_save_falling_time_ # 0 /\ Elapsed > Timeout
        /\ pairs' = pairs /\ last_active_save_falling_time_' = now
        /\ UNCHANGED <<clock, not_auto_mode, events>> /\ result' = 1 /\ active_saving_' = FALSE
    BY <1>7 DEF LateFall, FallingEdge, Return, TimedOut, LastAfterTimeout
  <2>2. \A n : n = falls + 1 => ~Close(n)'
    BY <1>0, <2>1, LateIsFar, FallingTime DEF Close
  <2>3. AllClose'
    BY <1>0, <2>1, EarlierPairs DEF EdgeInv, AllClose
  <2>4. NoneMissed'
    <3>1. ASSUME NEW n \in 2 .. falls', Close(n)' PROVE {n - 1, n} \cap pairs' # {}
      <4>1. n \in 2 .. falls
        BY <1>0, <2>1, <2>2, <3>1, FallingTime
      <4> QED BY <2>1, <3>1, <4>1, EarlierPairs DEF EdgeInv, NoneMissed
    <3> QED BY <3>1 DEF NoneMissed
  <2>5. TypeOK'
    <3>1. not_auto_mode' \in BOOLEAN
      BY <2>1 DEF EdgeInv, TypeOK
    <3>2. result' \in 0 .. 4 /\ events' \in Nat /\ pairs' \subseteq 2 .. falls'
      BY <1>0, <2>1, FallingTime DEF EdgeInv, TypeOK
    <3> QED BY <2>1, <3>1, <3>2, FallingType
  <2>6. falls' \notin pairs' /\ falls' # 0
    BY <1>0, <2>1, FallingTime
  <2> QED BY <1>0, <2>1, <2>3, <2>4, <2>5, <2>6, FallingTime DEF EdgeInv, clock
<1>8. CASE SecondFall
  <2>1. FallingEdge /\ last_active_save_falling_time_ # 0 /\ ~(Elapsed > Timeout)
        /\ pairs' = pairs \cup {falls'} /\ last_active_save_falling_time_' = 0
        /\ UNCHANGED clock /\ active_saving_' = FALSE
    BY <1>8 DEF SecondFall, FallingEdge, TimedOut, LastAfterPair
  <2>2. result' \in 0 .. 4 /\ events' \in Nat /\ not_auto_mode' \in BOOLEAN
    <3>1. not_auto_mode' \in BOOLEAN
      BY <1>8 DEF SecondFall, ModeAfterEvent, EdgeInv, TypeOK
    <3>2. events \in Nat /\ (events' = events + 1 \/ events' = events) /\ result' \in {2, 3, 4}
      BY <1>8 DEF SecondFall, Return, EdgeInv, TypeOK
    <3> QED BY <3>1, <3>2
  <2>3. falls' \in 2 .. MaxFalls /\ falls' = falls + 1 /\ falls \notin pairs
        /\ \A n : n = falls + 1 => Close(n)'
    <3>1. falls \in 1 .. MaxFalls /\ falls \notin pairs /\ Elapsed = time'[falls + 1] - time'[falls]
      BY <2>1, LateIsFar
    <3>2. time'[falls + 1] - time'[falls] <= Timeout
      <4>1. time'[falls + 1] \in Int /\ time'[falls] \in Int
        BY <1>0, <2>1, <3>1, FallingTime
      <4> QED BY <1>0, <2>1, <3>1, <4>1
    <3>3. \A n : n = falls + 1 => Close(n)'
      <4> SUFFICES ASSUME NEW n, n = falls + 1 PROVE time'[n] - time'[n - 1] <= Timeout
        BY DEF Close
      <4> QED BY <3>1, <3>2
    <3> QED BY <1>0, <2>1, <3>1, <3>3, FallingTime
  <2>4. AllClose'
    <3>1. ASSUME NEW n \in pairs' PROVE Close(n)' /\ n - 1 \notin pairs'
      <4>1. CASE n = falls'
        BY <1>0, <2>1, <2>3, <4>1
      <4>2. CASE n \in pairs
        BY <1>0, <2>1, <2>3, <4>2, EarlierPairs DEF EdgeInv, AllClose
      <4> QED BY <2>1, <4>1, <4>2
    <3> QED BY <3>1 DEF AllClose
  <2>5. NoneMissed'
    <3>1. ASSUME NEW n \in 2 .. falls', Close(n)' PROVE {n - 1, n} \cap pairs' # {}
      <4>1. CASE n = falls'
        BY <2>1, <4>1
      <4>2. CASE n \in 2 .. falls
        BY <2>1, <3>1, <4>2, EarlierPairs DEF EdgeInv, NoneMissed
      <4> QED BY <1>0, <2>3, <4>1, <4>2
    <3> QED BY <3>1 DEF NoneMissed
  <2>6. TypeOK'
    <3>1. pairs' \subseteq 2 .. falls'
      BY <1>0, <2>1, <2>3
    <3> QED BY <2>1, <2>2, <3>1, FallingType
  <2> QED BY <1>0, <2>1, <2>3, <2>4, <2>5, <2>6, FallingTime DEF EdgeInv, clock
<1>9. CASE UNCHANGED vars
  BY <1>1, <1>9 DEF vars, EdgeInv, TypeOK
<1> QED BY <1>2, <1>3, <1>4, <1>5, <1>6, <1>7, <1>8, <1>9 DEF Next

LEMMA EdgesHold == Spec => [](sets = 0 => EdgeInv)
<1> DEFINE Inv == sets \in Nat /\ (sets = 0 => EdgeInv)
<1>1. Init => Inv
  <2>1. Init => sets \in Nat
    BY DEF Init
  <2> QED BY <2>1, EdgeInit
<1>2. Inv /\ [Next]_vars => Inv'
  <2> SUFFICES ASSUME Inv, [Next]_vars PROVE Inv'
    OBVIOUS
  <2>1. sets' = sets \/ sets' = sets + 1
    BY DEF Next, Tick, SetClock, RisingEdge, NoEdge, FirstFall, LateFall, SecondFall, FallingEdge,
       clock, vars
  <2>2. sets' \in Nat /\ (sets' = 0 => sets = 0)
    BY <2>1
  <2> QED BY <2>2, EdgeStep
<1> QED BY <1>1, <1>2, PTL DEF Spec

\* As long as nobody has set the clock, the pairs caught are falling edges in a
\* row within the timeout, none in two pairs.
THEOREM CatchesClosePairs == Spec => []PairsAreClose
<1>1. (sets = 0 => EdgeInv) => PairsAreClose
  BY DEF EdgeInv, AllClose, PairsAreClose
<1> QED BY <1>1, EdgesHold, PTL

\* And of two falling edges in a row within the timeout one at least is in a pair.
THEOREM CatchesEveryPair == Spec => []NoPairMissed
<1>1. (sets = 0 => EdgeInv) => NoPairMissed
  BY DEF EdgeInv, NoneMissed, NoPairMissed
<1> QED BY <1>1, EdgesHold, PTL

-----------------------------------------------------------------------------
(* CrossMap: the reference's way, place by place.                           *)

\* How many steps it is from place a to place b, and the n-th place on the way.
Steps(a, b)       == IF a <= b THEN b - a ELSE a - b
PlaceOn(a, b, n)  == IF a <= b THEN a + n - 1 ELSE a - n + 1

LEMMA PlacesOnWay ==
  ASSUME NEW m \in Nat, NEW a \in 1 .. m, NEW b \in 1 .. m
  PROVE  /\ Steps(a, b) \in Nat
         /\ \A n \in 1 .. Steps(a, b) + 1 : PlaceOn(a, b, n) \in 1 .. m
         /\ PlaceOn(a, b, 1) = a
BY DEF Steps, PlaceOn

LEMMA Mirror ==
  ASSUME NEW a \in Nat, NEW b \in Nat, NEW n \in Nat, 1 <= n, n <= a - b + 1
  PROVE  /\ ((a - b + 1) - n) + 1 \in 1 .. a - b + 1
         /\ b + (((a - b + 1) - n) + 1) - 1 = a - n + 1
OBVIOUS

LEMMA WayFacts ==
  ASSUME NEW S, NEW r \in Seq(S), NEW x, NEW y,
         NEW a \in DOMAIN r, NEW b \in DOMAIN r, a = C!Place(r, x), b = C!Place(r, y)
  PROVE  /\ Len(C!Way(r, x, y)) = Steps(a, b) + 1
         /\ \A n \in 1 .. Steps(a, b) + 1 : C!Way(r, x, y)[n] = r[PlaceOn(a, b, n)]
<1>1. Len(r) \in Nat /\ DOMAIN r = 1 .. Len(r) /\ \A p \in 1 .. Len(r) : r[p] \in S
  BY LenProperties, ElementOfSeq
<1>2. a \in 1 .. Len(r) /\ b \in 1 .. Len(r)
  BY <1>1
<1>3. ASSUME NEW c \in 1 .. Len(r), NEW d \in 1 .. Len(r), c <= d
      PROVE  /\ Len(SubSeq(r, c, d)) = d - c + 1
             /\ \A n \in 1 .. d - c + 1 : SubSeq(r, c, d)[n] = r[c + n - 1]
  <2>1. \A p \in c .. d : r[p] \in S
    BY <1>1
  <2>2. /\ Len(SubSeq(r, c, d)) = IF c <= d THEN d - c + 1 ELSE 0
        /\ \A n \in 1 .. d - c + 1 : SubSeq(r, c, d)[n] = r[c + n - 1]
    BY <1>1, <2>1, SubSeqProperties
  <2> QED
    BY <1>3, <2>2
<1>4. CASE a <= b
  <2>1. C!Way(r, x, y) = SubSeq(r, a, b)
    BY <1>4 DEF C!Way
  <2> QED
    BY <1>2, <1>3, <1>4, <2>1 DEF Steps, PlaceOn
<1>5. CASE ~(a <= b)
  <2> DEFINE s == SubSeq(r, b, a)
  <2>1. b <= a
    BY <1>2, <1>5
  <2>2. Len(s) = a - b + 1 /\ \A n \in 1 .. a - b + 1 : s[n] = r[b + n - 1]
    BY <1>2, <1>3, <2>1
  <2>3. C!Way(r, x, y) = [n \in 1 .. Len(s) |-> s[(Len(s) - n) + 1]]
    BY <1>5 DEF C!Way, C!Reverse
  <2> HIDE DEF s
  <2> DEFINE w == [n \in 1 .. Len(s) |-> s[(Len(s) - n) + 1]]
  <2>4. Len(s) \in Nat
    BY <1>2, <2>1, <2>2
  <2>5. Len(w) = Len(s) /\ \A n \in 1 .. Len(s) : w[n] = s[(Len(s) - n) + 1]
    BY <2>4
  <2>6. C!Way(r, x, y) = w
    BY <2>3
  <2> HIDE DEF w
  <2>7. ASSUME NEW n \in 1 .. a - b + 1 PROVE w[n] = r[a - n + 1]
    <3>1. a \in Nat /\ b \in Nat /\ n \in Nat /\ 1 <= n /\ n <= a - b + 1
      BY <1>2, <2>1, <2>7
    <3>2. n \in 1 .. Len(s) /\ w[n] = s[((a - b + 1) - n) + 1]
      BY <2>2, <2>5
    <3>3. /\ ((a - b + 1) - n) + 1 \in 1 .. a - b + 1
          /\ b + (((a - b + 1) - n) + 1) - 1 = a - n + 1
      BY <3>1, Mirror
    <3> QED
      BY <2>2, <3>2, <3>3
  <2> QED
    BY <1>5, <2>2, <2>5, <2>6, <2>7 DEF Steps, PlaceOn
<1> QED
  BY <1>4, <1>5

\* p is x's last place among the first m places of r, or 0 if it has none.
LastPlace(r, x, m, p) ==
    IF p = 0 THEN \A q \in 1 .. m : r[q] # x
             ELSE p \in 1 .. m /\ r[p] = x /\ \A q \in p + 1 .. m : r[q] # x

LEMMA PlaceIsLast ==
  ASSUME NEW S, NEW r \in Seq(S), NEW x, NEW p \in Nat, LastPlace(r, x, Len(r), p)
  PROVE  IF p = 0 THEN ~C!Has(r, x)
                  ELSE p \in DOMAIN r /\ C!Has(r, x) /\ C!Place(r, x) = p
<1>1. Len(r) \in Nat /\ DOMAIN r = 1 .. Len(r)
  BY LenProperties
<1>2. CASE p = 0
  BY <1>1, <1>2 DEF LastPlace, C!Has
<1>3. CASE p # 0
  <2>1. p \in DOMAIN r /\ r[p] = x /\ \A q \in p + 1 .. Len(r) : r[q] # x
    BY <1>1, <1>3 DEF LastPlace
  <2>2. \A c, d \in DOMAIN r :
            /\ r[c] = x /\ \A q \in c + 1 .. Len(r) : r[q] # x
            /\ r[d] = x /\ \A q \in d + 1 .. Len(r) : r[q] # x
            => c = d
    <3> SUFFICES ASSUME NEW c \in 1 .. Len(r), NEW d \in 1 .. Len(r),
                        r[c] = x, \A q \in c + 1 .. Len(r) : r[q] # x,
                        r[d] = x, \A q \in d + 1 .. Len(r) : r[q] # x
                 PROVE  c = d
      BY <1>1
    <3>1. ~(c < d) /\ ~(d < c)
      BY <1>1
    <3> QED
      BY <1>1, <3>1
  <2>3. C!Place(r, x) = p
    BY <2>1, <2>2 DEF C!Place
  <2> QED
    BY <1>3, <2>1, <2>3 DEF C!Has
<1> QED
  BY <1>2, <1>3

\* The first of an array's entries for y is what the reference calls the point.
LEMMA PointIsFirst ==
  ASSUME cross \in Maps, NEW x \in Crossings, NEW y, cross[x].kind = "array",
         NEW e \in DOMAIN cross[x].entries, cross[x].entries[e].neighbor = y,
         \A f \in DOMAIN cross[x].entries : cross[x].entries[f].neighbor = y => e <= f
  PROVE  C!HasPoint(x, y) /\ C!Point(x, y) = cross[x].entries[e].info
<1> DEFINE es == cross[x].entries
<1>1. es \in Seq(C!ToSet(es))
  BY ProgramsAssumption DEF C!CrossMapAssumption
<1>2. C!HasPoint(x, y)
  BY DEF C!HasPoint, C!ToSet
<1>3. C!Point(x, y) = es[CHOOSE p \in DOMAIN es : es[p].neighbor = y
                                                /\ \A q \in 1 .. p - 1 : es[q].neighbor # y].info
  BY DEF C!Point
<1> HIDE DEF es
<1>4. Len(es) \in Nat /\ DOMAIN es = 1 .. Len(es)
  BY <1>1, LenProperties
<1>5. e \in 1 .. Len(es) /\ es[e].neighbor = y /\ \A f \in 1 .. Len(es) : es[f].neighbor = y => e <= f
  BY <1>4 DEF es
<1>6. \A q \in 1 .. e - 1 : es[q].neighbor # y
  BY <1>4, <1>5
<1>7. ASSUME NEW p \in 1 .. Len(es), es[p].neighbor = y, \A q \in 1 .. p - 1 : es[q].neighbor # y
      PROVE  p = e
  <2>1. e <= p /\ ~(e \in 1 .. p - 1)
    BY <1>5, <1>7
  <2> QED
    BY <1>4, <1>5, <2>1
<1>8. (CHOOSE p \in DOMAIN es : es[p].neighbor = y /\ \A q \in 1 .. p - 1 : es[q].neighbor # y) = e
  BY <1>4, <1>5, <1>6, <1>7
<1> QED
  BY <1>2, <1>3, <1>8 DEF es

-----------------------------------------------------------------------------
(* CrossMap: what test_cross_map knows as it goes on.                       *)

Rules == cross_rule.entries

\* What a rule may hold.
Elements == Crossings \cup {Broken}

Points == {C!Point(x, y) : x, y \in Crossings}

\* The rules passed did not have both; in this one, the places up to j are seen.
Scanning ==
    /\ cross_rule.kind = "array"
    /\ i \in 1 .. Len(Rules) + 1
    /\ \A q \in 1 .. i - 1 : ~(C!Has(Rules[q], from) /\ C!Has(Rules[q], to))
    /\ i <= Len(Rules) =>
           /\ j \in 1 .. Len(Rules[i]) + 1
           /\ from_index \in Nat /\ LastPlace(Rules[i], from, j - 1, from_index)
           /\ to_index \in Nat /\ LastPlace(Rules[i], to, j - 1, to_index)
           /\ \A q \in 1 .. j - 1 : Rules[i][q] # Broken
    /\ points = <<>>

\* In the first rule that has both, the points as far as k are collected.
Walking ==
    /\ cross_rule.kind = "array"
    /\ i \in DOMAIN Rules /\ C!First(i)
    /\ \A q \in DOMAIN Rules[i] : Rules[i][q] # Broken
    /\ from_index \in DOMAIN Rules[i] /\ from_index = C!Place(Rules[i], from)
    /\ to_index \in DOMAIN Rules[i] /\ to_index = C!Place(Rules[i], to)
    /\ points \in Seq(Points) /\ Len(points) <= Steps(from_index, to_index)
    /\ k = PlaceOn(from_index, to_index, Len(points) + 1)
    /\ \A n \in 1 .. Len(points) :
           LET x == Rules[i][PlaceOn(from_index, to_index, n)]
               y == Rules[i][PlaceOn(from_index, to_index, n + 1)]
           IN  C!HasPoint(x, y) /\ points[n] = C!Point(x, y)

CrossInv ==
    /\ cross_rule \in Documents /\ cross \in Maps
    /\ pc = "rules" => Scanning
    /\ pc = "walk" => Walking
    /\ AnswerIsWay

LEMMA RuleFacts ==
  ASSUME cross_rule \in Documents
  PROVE  /\ Rules \in Seq(Seq(Elements)) /\ Len(Rules) \in Nat /\ DOMAIN Rules = 1 .. Len(Rules)
         /\ \A p \in 1 .. Len(Rules) :
                /\ Rules[p] \in Seq(Elements)
                /\ Len(Rules[p]) \in Nat /\ DOMAIN Rules[p] = 1 .. Len(Rules[p])
                /\ \A q \in 1 .. Len(Rules[p]) : Rules[p][q] \in Elements
<1>1. Rules \in Seq(Seq(Elements))
  BY ProgramsAssumption DEF C!CrossMapAssumption, Rules, Elements
<1>2. Len(Rules) \in Nat /\ DOMAIN Rules = 1 .. Len(Rules)
  BY <1>1, LenProperties
<1>3. ASSUME NEW p \in 1 .. Len(Rules)
      PROVE  /\ Rules[p] \in Seq(Elements)
             /\ Len(Rules[p]) \in Nat /\ DOMAIN Rules[p] = 1 .. Len(Rules[p])
             /\ \A q \in 1 .. Len(Rules[p]) : Rules[p][q] \in Elements
  <2>1. Rules[p] \in Seq(Elements)
    BY <1>1, ElementOfSeq
  <2>2. PICK r \in Seq(Elements) : r = Rules[p]
    BY <2>1
  <2>3. Len(r) \in Nat /\ DOMAIN r = 1 .. Len(r) /\ \A q \in 1 .. Len(r) : r[q] \in Elements
    BY LenProperties, ElementOfSeq
  <2> QED
    BY <2>2, <2>3
<1> QED
  BY <1>1, <1>2, <1>3

\* Only one rule is the first.
LEMMA OneFirst ==
  ASSUME NEW p \in Nat, NEW q \in Nat, p > 0, q > 0, C!First(p), C!First(q)
  PROVE  p = q
<1>1. ~(p \in 1 .. q - 1) /\ ~(q \in 1 .. p - 1)
  BY DEF C!First
<1> QED
  BY <1>1

\* The files of the other programs, and of this one before its first call.
LEMMA CrossInit == C!Init => CrossInv
BY DEF C!Init, CrossInv, AnswerIsWay, C!AnswerIsWay

\* A step from one place in the rules or on the way to another.
LEMMA CallStep ==
  ASSUME CrossInv, NEW x \in Crossings, NEW y \in Crossings, C!Call(x, y)
  PROVE  CrossInv'
<1> USE DEF CrossInv
<1>1. cross_rule \in Documents /\ cross \in Maps /\ UNCHANGED <<cross_rule, cross>>
  BY DEF C!Call, C!files
<1>2. CASE cross_rule.kind # "array" \/ (pc' = "idle" /\ answer' = "false" /\ full' = TRUE)
  <2>1. pc' = "idle"
    BY <1>2 DEF C!Call, C!Return
  <2> QED
    BY <1>1, <1>2, <2>1 DEF AnswerIsWay, C!AnswerIsWay
<1>3. CASE cross_rule.kind = "array" /\ pc' = "rules"
  <2>1. /\ i' = 1 /\ j' = 1 /\ from_index' = 0 /\ to_index' = 0 /\ points' = <<>>
    BY DEF C!Call
  <2>2. Rules' = Rules
    BY <1>1 DEF Rules
  <2>3. Len(Rules) \in Nat /\ (1 <= Len(Rules) => Len(Rules[1]) \in Nat)
    BY <1>1, RuleFacts
  <2>4. \A r, z : LastPlace(r, z, 0, 0)
    BY DEF LastPlace
  <2>5. Scanning'
    BY <1>1, <1>3, <2>1, <2>2, <2>3, <2>4 DEF Scanning
  <2> QED
    BY <1>1, <1>3, <2>5 DEF AnswerIsWay, C!AnswerIsWay
<1> QED
  BY <1>2, <1>3 DEF C!Call, C!Return

LEMMA ScanStep ==
  ASSUME CrossInv, C!Scan
  PROVE  CrossInv'
<1> USE DEF CrossInv
<1>1. /\ pc = "rules" /\ i <= Len(Rules) /\ j <= Len(Rules[i]) /\ j' = j + 1
      /\ Rules[i][j] # Broken
      /\ from_index' = IF Rules[i][j] = from THEN j ELSE from_index
      /\ to_index' = IF Rules[i][j] = to THEN j ELSE to_index
      /\ UNCHANGED <<cross_rule, cross, pc, from, to, i, points>>
  BY DEF C!Scan, C!files, C!rule, Rules
<1>2. Scanning /\ Rules' = Rules
  BY <1>1 DEF Rules
<1>3. Len(Rules) \in Nat /\ i \in 1 .. Len(Rules) /\ Len(Rules[i]) \in Nat
  BY <1>1, <1>2, RuleFacts DEF Scanning
<1>4. j \in Nat /\ j > 0 /\ j' \in 1 .. Len(Rules[i]) + 1 /\ j' - 1 = j
  <2>1. PICK m \in Nat : m = Len(Rules[i])
    BY <1>3
  <2>2. j \in 1 .. m + 1 /\ j <= m /\ j' = j + 1
    BY <1>1, <1>2, <1>3, <2>1 DEF Scanning
  <2>3. j \in Nat /\ j > 0 /\ j' \in 1 .. m + 1 /\ j' - 1 = j
    BY <2>2
  <2> QED
    BY <2>1, <2>3
<1>5. ASSUME NEW z, NEW p \in Nat, LastPlace(Rules[i], z, j - 1, p),
             NEW q, q = IF Rules[i][j] = z THEN j ELSE p
      PROVE  q \in Nat /\ LastPlace(Rules[i], z, j, q)
  <2>1. CASE Rules[i][j] = z
    BY <1>4, <1>5, <2>1 DEF LastPlace
  <2>2. CASE Rules[i][j] # z
    <3>1. \A m \in 1 .. j : m \in 1 .. j - 1 \/ m = j
      BY <1>4
    <3>2. \A m \in p + 1 .. j : m \in p + 1 .. j - 1 \/ m = j
      BY <1>4
    <3>3. q = p /\ \A m : m = j => Rules[i][m] # z
      BY <1>5, <2>2
    <3> QED
      BY <1>4, <1>5, <3>1, <3>2, <3>3 DEF LastPlace
  <2> QED
    BY <2>1, <2>2
<1>6. \A q \in 1 .. j' - 1 : Rules[i][q] # Broken
  <2>1. \A q \in 1 .. j : q \in 1 .. j - 1 \/ q = j
    BY <1>4
  <2>2. \A q \in 1 .. j - 1 : Rules[i][q] # Broken
    BY <1>2, <1>3 DEF Scanning
  <2> QED
    BY <1>1, <1>4, <2>1, <2>2
<1>7. Scanning'
  BY <1>1, <1>2, <1>3, <1>4, <1>5, <1>6 DEF Scanning
<1> QED
  BY <1>1, <1>7 DEF AnswerIsWay, C!AnswerIsWay

\* Nothing is known, nor need be, of a call that ended in an assertion.
LEMMA AbortStep ==
  ASSUME CrossInv, pc' = "aborted", UNCHANGED <<cross_rule, cross>>
  PROVE  CrossInv'
BY DEF CrossInv, AnswerIsWay, C!AnswerIsWay

\* The last place of each is known when the rule is through.
LEMMA RuleThrough ==
  ASSUME cross_rule \in Documents, Scanning, i <= Len(Rules), j > Len(Rules[i])
  PROVE  /\ i \in 1 .. Len(Rules)
         /\ IF from_index = 0 THEN ~C!Has(Rules[i], from)
            ELSE /\ from_index \in DOMAIN Rules[i] /\ C!Has(Rules[i], from)
                 /\ C!Place(Rules[i], from) = from_index
         /\ IF to_index = 0 THEN ~C!Has(Rules[i], to)
            ELSE /\ to_index \in DOMAIN Rules[i] /\ C!Has(Rules[i], to)
                 /\ C!Place(Rules[i], to) = to_index
         /\ \A q \in DOMAIN Rules[i] : Rules[i][q] # Broken
<1>1. Len(Rules) \in Nat /\ i \in 1 .. Len(Rules)
  BY RuleFacts DEF Scanning
<1>2. PICK r \in Seq(Elements) : r = Rules[i]
  BY <1>1, RuleFacts
<1>3. PICK m \in Nat : m = Len(r)
  BY LenProperties
<1>4. j \in 1 .. m + 1 /\ j > m
  BY <1>2, <1>3 DEF Scanning
<1>5. j - 1 = m
  BY <1>4
<1>6. /\ from_index \in Nat /\ LastPlace(r, from, Len(r), from_index)
      /\ to_index \in Nat /\ LastPlace(r, to, Len(r), to_index)
  BY <1>2, <1>3, <1>5 DEF Scanning
<1>7. \A q \in DOMAIN r : r[q] # Broken
  <2>1. DOMAIN r = 1 .. j - 1
    BY <1>3, <1>5, LenProperties
  <2> QED
    BY <1>1, <1>2, <2>1 DEF Scanning
<1> QED
  BY <1>1, <1>2, <1>6, <1>7, PlaceIsLast

LEMMA NoMatchStep ==
  ASSUME CrossInv, C!NoMatch
  PROVE  CrossInv'
<1> USE DEF CrossInv
<1>1. /\ pc = "rules" /\ i <= Len(Rules) /\ j > Len(Rules[i])
      /\ from_index = 0 \/ to_index = 0
      /\ i' = i + 1 /\ j' = 1 /\ from_index' = 0 /\ to_index' = 0
      /\ UNCHANGED <<cross_rule, cross, pc, from, to, points>>
  BY DEF C!NoMatch, C!files, C!rule, Rules, C!Matches, C!RuleAfter, C!IndexOfNextRule
<1>2. Scanning /\ Rules' = Rules /\ Len(Rules) \in Nat
  BY <1>1, RuleFacts DEF Rules
<1>3. i \in 1 .. Len(Rules) /\ ~(C!Has(Rules[i], from) /\ C!Has(Rules[i], to))
  BY <1>1, <1>2, RuleThrough
<1>4. \A q \in 1 .. i' - 1 : ~(C!Has(Rules[q], from) /\ C!Has(Rules[q], to))
  <2>1. \A q \in 1 .. i' - 1 : q \in 1 .. i - 1 \/ q = i
    BY <1>1, <1>2, <1>3
  <2> QED
    BY <1>2, <1>3, <2>1 DEF Scanning
<1>5. i' \in 1 .. Len(Rules) + 1
  BY <1>1, <1>2, <1>3
<1>6. i' <= Len(Rules) => Len(Rules[i']) \in Nat
  BY <1>2, <1>5, RuleFacts
<1>7. i' <= Len(Rules) => j' \in 1 .. Len(Rules[i']) + 1
  BY <1>1, <1>6
<1>8. \A r, z : LastPlace(r, z, j' - 1, 0)
  BY <1>1 DEF LastPlace
<1>9. \A q \in 1 .. j' - 1 : FALSE
  BY <1>1
<1>10. Scanning'
  BY <1>1, <1>2, <1>4, <1>5, <1>7, <1>8, <1>9 DEF Scanning
<1> QED
  BY <1>1, <1>10 DEF AnswerIsWay, C!AnswerIsWay

LEMMA NoRuleStep ==
  ASSUME CrossInv, C!NoRule
  PROVE  CrossInv'
<1> USE DEF CrossInv
<1>1. /\ pc = "rules" /\ i > Len(Rules) /\ answer' = "false" /\ pc' = "idle"
      /\ UNCHANGED <<cross_rule, cross, from, to, points, full>>
  BY DEF C!NoRule, C!files, Rules, C!Return
<1>2. Scanning /\ Len(Rules) \in Nat /\ DOMAIN Rules = 1 .. Len(Rules)
  BY <1>1, RuleFacts
<1>3. \A p \in DOMAIN Rules : p \in 1 .. i - 1
  BY <1>1, <1>2 DEF Scanning
<1>4. \A p \in DOMAIN cross_rule.entries : ~C!First(p)
  BY <1>2, <1>3 DEF Scanning, C!First, Rules
<1>5. C!NoAnswer'
  BY <1>1, <1>4 DEF C!NoAnswer, C!First
<1> QED
  BY <1>1, <1>5 DEF AnswerIsWay, C!AnswerIsWay

LEMMA MatchStep ==
  ASSUME CrossInv, C!Match
  PROVE  CrossInv'
<1> USE DEF CrossInv
<1>1. /\ pc = "rules" /\ i <= Len(Rules) /\ j > Len(Rules[i])
      /\ from_index # 0 /\ to_index # 0
      /\ k' = from_index /\ pc' = "walk"
      /\ UNCHANGED <<cross_rule, cross, from, to, i, from_index, to_index, points>>
  BY DEF C!Match, C!files, C!rule, Rules, C!Matches
<1>2. Scanning /\ Rules' = Rules /\ points = <<>> /\ cross_rule.kind = "array"
  BY <1>1 DEF Rules, Scanning
<1>3. /\ i \in 1 .. Len(Rules)
      /\ from_index \in DOMAIN Rules[i] /\ C!Has(Rules[i], from)
      /\ C!Place(Rules[i], from) = from_index
      /\ to_index \in DOMAIN Rules[i] /\ C!Has(Rules[i], to)
      /\ C!Place(Rules[i], to) = to_index
      /\ \A q \in DOMAIN Rules[i] : Rules[i][q] # Broken
  BY <1>1, <1>2, RuleThrough
<1>4. i \in DOMAIN Rules /\ C!First(i)
  BY <1>2, <1>3, RuleFacts DEF Scanning, C!First, Rules
<1>5. PICK m \in Nat : DOMAIN Rules[i] = 1 .. m
  BY <1>3, RuleFacts
<1>6. PICK a \in 1 .. m, b \in 1 .. m : a = from_index /\ b = to_index
  BY <1>3, <1>5
<1>7. 0 <= Steps(a, b) /\ PlaceOn(a, b, 0 + 1) = a
  BY PlacesOnWay
<1>8. Walking'
  <2>1. C!First(i)'
    BY <1>1, <1>4 DEF C!First
  <2>2. points' \in Seq(Points)' /\ Len(points') = 0
    BY <1>1, <1>2
  <2>3. \A n \in 1 .. 0 : FALSE
    OBVIOUS
  <2> QED
    BY <1>1, <1>2, <1>3, <1>4, <1>6, <1>7, <2>1, <2>2, <2>3 DEF Walking
<1> QED
  BY <1>1, <1>8 DEF AnswerIsWay, C!AnswerIsWay

\* Where the walk is, and where it goes next.
LEMMA WalkPlace ==
  ASSUME cross_rule \in Documents, Walking
  PROVE  /\ Len(points) \in Nat /\ Steps(from_index, to_index) \in Nat
         /\ i \in 1 .. Len(Rules) /\ Rules[i] \in Seq(Elements)
         /\ k \in DOMAIN Rules[i]
         /\ k = to_index <=> Len(points) = Steps(from_index, to_index)
         /\ k # to_index =>
                /\ Len(points) + 1 <= Steps(from_index, to_index)
                /\ C!NextPlace = PlaceOn(from_index, to_index, Len(points) + 2)
                /\ C!NextPlace \in DOMAIN Rules[i]
                /\ Rules[i][k] \in Crossings /\ Rules[i][C!NextPlace] \in Crossings
<1>1. i \in 1 .. Len(Rules) /\ Rules[i] \in Seq(Elements)
  BY RuleFacts DEF Walking
<1>2. PICK m \in Nat : DOMAIN Rules[i] = 1 .. m /\ \A q \in 1 .. m : Rules[i][q] \in Crossings
  <2>1. PICK m \in Nat : DOMAIN Rules[i] = 1 .. m /\ \A q \in 1 .. m : Rules[i][q] \in Elements
    BY <1>1, RuleFacts
  <2>2. \A q \in 1 .. m : Rules[i][q] # Broken
    BY <2>1 DEF Walking
  <2> QED
    BY <2>1, <2>2 DEF Elements
<1>3. PICK a \in 1 .. m, b \in 1 .. m : a = from_index /\ b = to_index
  BY <1>2 DEF Walking
<1>4. PICK n \in Nat : n = Len(points)
  BY LenProperties DEF Walking
<1>5. /\ Steps(a, b) \in Nat
      /\ \A q \in 1 .. Steps(a, b) + 1 : PlaceOn(a, b, q) \in 1 .. m
      /\ \A q \in 0 .. Steps(a, b) : PlaceOn(a, b, q + 1) = b <=> q = Steps(a, b)
  <2>1. m \in Nat /\ a \in 1 .. m /\ b \in 1 .. m
    OBVIOUS
  <2>2. Steps(a, b) \in Nat /\ \A q \in 1 .. Steps(a, b) + 1 : PlaceOn(a, b, q) \in 1 .. m
    BY <2>1, PlacesOnWay, Zenon
  <2>3. \A q \in 0 .. Steps(a, b) : PlaceOn(a, b, q + 1) = b <=> q = Steps(a, b)
    BY <2>1 DEF Steps, PlaceOn
  <2> QED
    BY <2>2, <2>3
<1>6. n <= Steps(a, b) /\ k = PlaceOn(a, b, n + 1)
  BY <1>3, <1>4 DEF Walking
<1>7. k \in 1 .. m /\ (k = b <=> n = Steps(a, b))
  <2>1. n + 1 \in 1 .. Steps(a, b) + 1 /\ n \in 0 .. Steps(a, b)
    BY <1>5, <1>6
  <2> QED
    BY <1>5, <1>6, <2>1
<1>8. ASSUME k # b
      PROVE  n + 1 <= Steps(a, b) /\ C!NextPlace = PlaceOn(a, b, n + 2) /\ C!NextPlace \in 1 .. m
  <2>1. n # Steps(a, b) /\ n + 1 <= Steps(a, b) /\ n + 2 \in 1 .. Steps(a, b) + 1
    BY <1>5, <1>6, <1>7, <1>8
  <2>2. C!NextPlace = IF a < b THEN k + 1 ELSE k - 1
    BY <1>3 DEF C!NextPlace
  <2>3. a # b
    <3>1. Steps(a, a) = 0
      BY DEF Steps
    <3> QED
      BY <2>1, <3>1
  <2>4. k = IF a <= b THEN a + (n + 1) - 1 ELSE a - (n + 1) + 1
    BY <1>6 DEF PlaceOn
  <2>5. C!NextPlace = IF a <= b THEN a + (n + 2) - 1 ELSE a - (n + 2) + 1
    BY <2>2, <2>3, <2>4
  <2>6. C!NextPlace = PlaceOn(a, b, n + 2)
    BY <2>5 DEF PlaceOn
  <2> QED
    BY <1>5, <2>1, <2>6
<1> QED
  BY <1>1, <1>2, <1>3, <1>4, <1>5, <1>7, <1>8

\* The way that the answer is measured by is the one that is walked.
LEMMA WayWalked ==
  ASSUME cross_rule \in Documents, Walking
  PROVE  LET way == C!Way(Rules[i], from, to)
         IN  /\ Len(way) = Steps(from_index, to_index) + 1
             /\ \A n \in 1 .. Steps(from_index, to_index) + 1 :
                    way[n] = Rules[i][PlaceOn(from_index, to_index, n)]
<1>1. PICK r \in Seq(Elements) : r = Rules[i]
  BY WalkPlace
<1>2. PICK a \in DOMAIN r, b \in DOMAIN r :
          a = from_index /\ b = to_index /\ a = C!Place(r, from) /\ b = C!Place(r, to)
  BY <1>1 DEF Walking
<1> QED
  BY <1>1, <1>2, WayFacts

LEMMA ArriveStep ==
  ASSUME CrossInv, C!Arrive
  PROVE  CrossInv'
<1> USE DEF CrossInv
<1>1. /\ pc = "walk" /\ k = to_index /\ answer' = "true" /\ pc' = "idle"
      /\ UNCHANGED <<cross_rule, cross, from, to, points, full>>
  BY DEF C!Arrive, C!files, C!Return
<1>2. Walking
  BY <1>1
<1>3. PICK s \in Nat : s = Steps(from_index, to_index) /\ Len(points) = s
  BY <1>1, <1>2, WalkPlace
<1>4. PICK way : way = C!Way(Rules[i], from, to)
  OBVIOUS
<1>5. /\ Len(way) = s + 1
      /\ \A n \in 1 .. s + 1 : way[n] = Rules[i][PlaceOn(from_index, to_index, n)]
  BY <1>2, <1>3, <1>4, WayWalked
<1>6. DOMAIN points = 1 .. s
  BY <1>2, <1>3, LenProperties DEF Walking
<1>7. \A n \in 1 .. s : C!HasPoint(way[n], way[n + 1]) /\ points[n] = C!Point(way[n], way[n + 1])
  <2>1. TAKE n \in 1 .. s
  <2>2. n \in 1 .. s + 1 /\ n + 1 \in 1 .. s + 1
    OBVIOUS
  <2>3. /\ C!HasPoint(Rules[i][PlaceOn(from_index, to_index, n)],
                      Rules[i][PlaceOn(from_index, to_index, n + 1)])
        /\ points[n] = C!Point(Rules[i][PlaceOn(from_index, to_index, n)],
                               Rules[i][PlaceOn(from_index, to_index, n + 1)])
    BY <1>2, <1>3 DEF Walking
  <2> QED
    BY <1>5, <2>2, <2>3
<1>8. Len(points) = Len(way) - 1
  BY <1>3, <1>5
<1>9. C!IsAnswer(points)
  <2>1. i \in DOMAIN cross_rule.entries /\ C!First(i)
    BY <1>2 DEF Walking, Rules
  <2>2. way = C!Way(cross_rule.entries[i], from, to)
    BY <1>4 DEF Rules
  <2> QED
    BY <1>6, <1>7, <1>8, <2>1, <2>2 DEF C!IsAnswer
<1>10. C!IsAnswer(points)'
  <2>1. /\ \A p : C!First(p)' <=> C!First(p)
        /\ \A x, y : (C!HasPoint(x, y)' <=> C!HasPoint(x, y)) /\ C!Point(x, y)' = C!Point(x, y)
    BY <1>1 DEF C!First, C!HasPoint, C!Point
  <2> QED
    BY <1>1, <1>9, <2>1 DEF C!IsAnswer
<1> QED
  BY <1>1, <1>10 DEF AnswerIsWay, C!AnswerIsWay

\* A way with a place that has no point is no way.
LEMMA NoPointNoWay ==
  ASSUME cross_rule \in Documents, Walking, k # to_index,
         ~C!HasPoint(Rules[i][k], Rules[i][C!NextPlace])
  PROVE  C!NoAnswer
<1>1. PICK n \in Nat : n = Len(points)
  BY WalkPlace
<1>2. PICK s \in Nat : s = Steps(from_index, to_index)
  BY WalkPlace
<1>3. /\ n + 1 <= s /\ k = PlaceOn(from_index, to_index, n + 1)
      /\ C!NextPlace = PlaceOn(from_index, to_index, n + 2)
  BY <1>1, <1>2, WalkPlace DEF Walking
<1>4. PICK way : way = C!Way(Rules[i], from, to)
  OBVIOUS
<1>5. /\ Len(way) = s + 1
      /\ \A q \in 1 .. s + 1 : way[q] = Rules[i][PlaceOn(from_index, to_index, q)]
  BY <1>2, <1>4, WayWalked
<1>6. n + 1 \in 1 .. s + 1 /\ n + 2 \in 1 .. s + 1 /\ n + 1 \in 1 .. Len(way) - 1 /\ (n + 1) + 1 = n + 2
  BY <1>3, <1>5
<1>7. ~C!HasPoint(way[n + 1], way[(n + 1) + 1])
  BY <1>3, <1>5, <1>6
<1>8. ASSUME NEW p \in DOMAIN cross_rule.entries, C!First(p)
      PROVE  LET w == C!Way(cross_rule.entries[p], from, to)
             IN  \E q \in 1 .. Len(w) - 1 : ~C!HasPoint(w[q], w[q + 1])
  <2>1. p = i
    <3>1. p \in 1 .. Len(Rules) /\ i \in 1 .. Len(Rules) /\ Len(Rules) \in Nat
      BY RuleFacts, WalkPlace DEF Rules
    <3>2. p \in Nat /\ i \in Nat /\ p > 0 /\ i > 0
      BY <3>1
    <3>3. C!First(p) /\ C!First(i)
      BY <1>8 DEF Walking
    <3> QED
      BY <3>2, <3>3, OneFirst
  <2>2. way = C!Way(cross_rule.entries[p], from, to)
    BY <1>4, <2>1 DEF Rules
  <2> QED
    BY <1>6, <1>7, <2>2
<1> QED
  BY <1>8 DEF C!NoAnswer

\* The answer is false while no answer can be given, or a descriptor is missing.
LEMMA FalseAnswer ==
  ASSUME CrossInv, pc = "walk", k # to_index, pc' = "idle", answer' = "false",
         UNCHANGED <<cross_rule, cross, from, to>>,
         full' \/ ~C!HasPoint(Rules[i][k], Rules[i][C!NextPlace])
  PROVE  CrossInv'
<1> USE DEF CrossInv
<1>1. CASE full'
  BY <1>1 DEF AnswerIsWay, C!AnswerIsWay
<1>2. CASE ~C!HasPoint(Rules[i][k], Rules[i][C!NextPlace])
  <2>1. C!NoAnswer
    BY <1>2, NoPointNoWay
  <2>2. \A p : C!First(p)' <=> C!First(p)
    BY DEF C!First
  <2>3. \A x, y : C!HasPoint(x, y)' <=> C!HasPoint(x, y)
    BY DEF C!HasPoint
  <2>4. C!NoAnswer'
    BY <2>1, <2>2, <2>3 DEF C!NoAnswer
  <2> QED
    BY <2>4 DEF AnswerIsWay, C!AnswerIsWay
<1> QED
  BY <1>1, <1>2

LEMMA CannotOpenStep ==
  ASSUME CrossInv, C!CannotOpen
  PROVE  CrossInv'
<1>1. /\ pc = "walk" /\ k # to_index /\ pc' = "idle" /\ answer' = "false"
      /\ UNCHANGED <<cross_rule, cross, from, to>>
      /\ full' \/ cross[Rules[i][k]].kind = "missing"
  BY DEF C!CannotOpen, C!Return, C!files, C!rule, Rules
<1>2. cross[Rules[i][k]].kind = "missing" => ~C!HasPoint(Rules[i][k], Rules[i][C!NextPlace])
  BY DEF C!HasPoint
<1> QED
  BY <1>1, <1>2, FalseAnswer

\* One more point, and one place further.
LEMMA WalkFurther ==
  ASSUME cross_rule \in Documents, cross \in Maps, Walking, k # to_index,
         UNCHANGED <<cross_rule, cross, from, to, i, from_index, to_index>>,
         k' = C!NextPlace,
         C!HasPoint(Rules[i][k], Rules[i][C!NextPlace]),
         points' = Append(points, C!Point(Rules[i][k], Rules[i][C!NextPlace]))
  PROVE  Walking'
<1>1. PICK n \in Nat : n = Len(points)
  BY WalkPlace
<1>2. PICK s \in Nat : s = Steps(from_index, to_index)
  BY WalkPlace
<1>3. PICK x \in Crossings, y \in Crossings : x = Rules[i][k] /\ y = Rules[i][C!NextPlace]
  BY WalkPlace
<1>4. /\ n + 1 <= s /\ k = PlaceOn(from_index, to_index, n + 1)
      /\ C!NextPlace = PlaceOn(from_index, to_index, n + 2)
  BY <1>1, <1>2, WalkPlace DEF Walking
<1>5. PICK z : z = C!Point(x, y)
  OBVIOUS
<1>6. z \in Points /\ Points' = Points
  <2>1. C!Point(x, y) \in Points
    BY DEF Points
  <2>2. \A u, v : C!Point(u, v)' = C!Point(u, v)
    BY DEF C!Point
  <2> QED
    BY <1>5, <2>1, <2>2 DEF Points
<1>7. points \in Seq(Points) /\ points' = Append(points, z)
  BY <1>3, <1>5 DEF Walking
<1>8. /\ points' \in Seq(Points) /\ Len(points') = n + 1
      /\ \A q \in 1 .. n : points'[q] = points[q]
      /\ points'[n + 1] = z
  BY <1>1, <1>6, <1>7, AppendProperties, LenProperties
<1>9. Rules' = Rules /\ C!First(i)'
  BY DEF Rules, Walking, C!First
<1>10. \A u, v : (C!HasPoint(u, v)' <=> C!HasPoint(u, v)) /\ C!Point(u, v)' = C!Point(u, v)
  BY DEF C!HasPoint, C!Point
<1>11. ASSUME NEW q \in 1 .. n + 1
       PROVE  LET u == Rules[i][PlaceOn(from_index, to_index, q)]
                  v == Rules[i][PlaceOn(from_index, to_index, q + 1)]
              IN  C!HasPoint(u, v) /\ points'[q] = C!Point(u, v)
  <2>1. CASE q \in 1 .. n
    BY <1>1, <1>8, <2>1 DEF Walking
  <2>2. CASE q = n + 1
    <3>1. q + 1 = n + 2
      BY <2>2
    <3> QED
      BY <1>3, <1>4, <1>5, <1>8, <2>2, <3>1
  <2>3. q \in 1 .. n \/ q = n + 1
    OBVIOUS
  <2> QED
    BY <2>1, <2>2, <2>3
<1>12. Len(points') <= s /\ k' = PlaceOn(from_index, to_index, Len(points') + 1)
  <2>1. (n + 1) + 1 = n + 2
    OBVIOUS
  <2> QED
    BY <1>4, <1>8, <2>1
<1>13. Walking' <=>
           /\ cross_rule.kind = "array"
           /\ i \in DOMAIN Rules /\ C!First(i)'
           /\ \A q \in DOMAIN Rules[i] : Rules[i][q] # Broken
           /\ from_index \in DOMAIN Rules[i] /\ from_index = C!Place(Rules[i], from)
           /\ to_index \in DOMAIN Rules[i] /\ to_index = C!Place(Rules[i], to)
           /\ points' \in Seq(Points) /\ Len(points') <= s
           /\ k' = PlaceOn(from_index, to_index, Len(points') + 1)
           /\ \A q \in 1 .. Len(points') :
                  LET u == Rules[i][PlaceOn(from_index, to_index, q)]
                      v == Rules[i][PlaceOn(from_index, to_index, q + 1)]
                  IN  C!HasPoint(u, v)' /\ points'[q] = C!Point(u, v)'
  BY <1>2, <1>6, <1>9 DEF Walking
<1>14. \A q \in 1 .. Len(points') :
           LET u == Rules[i][PlaceOn(from_index, to_index, q)]
               v == Rules[i][PlaceOn(from_index, to_index, q + 1)]
           IN  C!HasPoint(u, v)' /\ points'[q] = C!Point(u, v)'
  <2>1. TAKE q \in 1 .. Len(points')
  <2> DEFINE u == Rules[i][PlaceOn(from_index, to_index, q)]
             v == Rules[i][PlaceOn(from_index, to_index, q + 1)]
  <2>2. q \in 1 .. n + 1
    BY <1>8
  <2>3. C!HasPoint(u, v) /\ points'[q] = C!Point(u, v)
    BY <1>11, <2>2
  <2>4. u' = u /\ v' = v
    BY <1>9
  <2> HIDE DEF u, v
  <2>5. C!HasPoint(u, v)' /\ points'[q] = C!Point(u, v)'
    <3>1. PICK c, d : c = u /\ d = v
      OBVIOUS
    <3>2. C!HasPoint(c, d)' /\ points'[q] = C!Point(c, d)'
      BY <1>10, <2>3, <3>1
    <3>3. c = u' /\ d = v'
      BY <2>4, <3>1
    <3> QED
      BY <3>2, <3>3 DEF C!HasPoint, C!Point
  <2> QED
    BY <2>5 DEF u, v
<1> QED
  BY <1>8, <1>9, <1>12, <1>13, <1>14 DEF Walking

LEMMA WalkStep ==
  ASSUME CrossInv, C!Walk
  PROVE  CrossInv'
<1> USE DEF CrossInv
<1>1. pc = "walk" /\ k # to_index /\ UNCHANGED <<cross_rule, cross, from, to, i, from_index, to_index>>
  BY DEF C!Walk, C!files
<1>2. PICK x \in Crossings, y \in Crossings : x = Rules[i][k] /\ y = Rules[i][C!NextPlace]
  BY <1>1, WalkPlace
<1>3. C!Found = IF cross[x].kind = "array"
                THEN {e \in DOMAIN cross[x].entries :
                          cross[x].entries[e].neighbor = y \/ cross[x].entries[e].neighbor = Broken}
                ELSE {}
  BY <1>2 DEF C!Found, C!rule, Rules
<1>4. CASE \E e \in C!Found :
               /\ \A f \in C!Found : e <= f
               /\ ~C!IsBroken(cross[x].entries[e])
               /\ points' = Append(points, cross[x].entries[e].info)
               /\ k' = C!NextPlace
               /\ UNCHANGED pc
  <2>1. PICK e \in C!Found :
               /\ \A f \in C!Found : e <= f
               /\ ~C!IsBroken(cross[x].entries[e])
               /\ points' = Append(points, cross[x].entries[e].info)
               /\ k' = C!NextPlace
               /\ UNCHANGED pc
    BY <1>4
  <2>2. /\ cross[x].kind = "array" /\ e \in DOMAIN cross[x].entries
        /\ cross[x].entries[e].neighbor = y
        /\ \A f \in DOMAIN cross[x].entries : cross[x].entries[f].neighbor = y => e <= f
    BY <1>3, <2>1 DEF C!IsBroken
  <2>3. C!HasPoint(x, y) /\ C!Point(x, y) = cross[x].entries[e].info
    BY <2>2, PointIsFirst
  <2>4. Walking'
    BY <1>1, <1>2, <2>1, <2>3, WalkFurther
  <2> QED
    BY <1>1, <2>1, <2>4 DEF AnswerIsWay, C!AnswerIsWay
<1>5. CASE C!Found = {} /\ pc' = "idle" /\ answer' = "false"
  <2>1. ~C!HasPoint(x, y)
    BY <1>3, <1>5 DEF C!HasPoint, C!ToSet
  <2> QED
    BY <1>1, <1>2, <1>5, <2>1, FalseAnswer
<1>6. CASE pc' = "aborted"
  BY <1>1, <1>6, AbortStep
<1> QED
  BY <1>2, <1>4, <1>5, <1>6 DEF C!Walk, C!Return, C!Abort, C!rule, Rules

LEMMA CrossStep == CrossInv /\ [C!Next]_(C!vars) => CrossInv'
<1> SUFFICES ASSUME CrossInv, [C!Next]_(C!vars) PROVE CrossInv'
  OBVIOUS
<1>1. CASE UNCHANGED C!vars
  <2>1. UNCHANGED <<cross_rule, cross, pc, from, to, i, j, k, from_index, to_index, points, answer, full>>
    BY <1>1 DEF C!vars, C!files
  <2>2. \A p : C!First(p)' <=> C!First(p)
    BY <2>1 DEF C!First
  <2>3. \A x, y : (C!HasPoint(x, y)' <=> C!HasPoint(x, y)) /\ C!Point(x, y)' = C!Point(x, y)
    BY <2>1 DEF C!HasPoint, C!Point
  <2>4. Scanning' <=> Scanning
    BY <2>1 DEF Scanning, Rules
  <2>5. Walking' <=> Walking
    BY <2>1, <2>2, <2>3 DEF Walking, Rules, Points
  <2>6. AnswerIsWay' <=> AnswerIsWay
    BY <2>1, <2>2, <2>3 DEF AnswerIsWay, C!AnswerIsWay, C!IsAnswer, C!NoAnswer
  <2> QED
    BY <2>1, <2>4, <2>5, <2>6 DEF CrossInv
<1>2. ASSUME C!RuleAssertion PROVE CrossInv'
  BY <1>2, AbortStep DEF C!RuleAssertion, C!Abort, C!files
<1> QED
  BY <1>1, <1>2, CallStep, ScanStep, NoMatchStep, NoRuleStep, MatchStep, WalkStep, CannotOpenStep, ArriveStep
  DEF C!Next, C!Step

\* Whatever the rules and the crossings' files hold, an answer of test_cross_map
\* is the points on the way along the first rule that has both crossings, and it
\* is false only if there is no such way or no descriptor (tmp.cc:153-230); a call
\* that meets no string where it needs one answers nothing.
THEOREM AnswersAreWays == C!Spec => []AnswerIsWay
<1>1. CrossInv => AnswerIsWay
  BY DEF CrossInv
<1> QED
  BY <1>1, CrossInit, CrossStep, PTL DEF C!Spec

-----------------------------------------------------------------------------
(* JwServer: what Select chooses.                                           *)

\* f is the recursive function by which Select chooses, as far as place N.
Chosen(f, s, T, N) ==
    f = [n \in 0 .. N |-> IF n = 0 THEN <<>>
                          ELSE IF s[n] \in T THEN Append(f[n - 1], s[n]) ELSE f[n - 1]]

LEMMA ChosenFacts ==
  ASSUME NEW f, NEW s, NEW T, NEW N \in Nat, Chosen(f, s, T, N)
  PROVE  /\ f[0] = <<>>
         /\ \A n \in 0 .. N - 1 :
                f[n + 1] = IF s[n + 1] \in T THEN Append(f[n], s[n + 1]) ELSE f[n]
<1>1. f[0] = <<>>
  BY DEF Chosen
<1>2. ASSUME NEW n \in 0 .. N - 1
      PROVE  f[n + 1] = IF s[n + 1] \in T THEN Append(f[n], s[n + 1]) ELSE f[n]
  <2>1. n + 1 \in 0 .. N /\ n + 1 # 0 /\ (n + 1) - 1 = n
    OBVIOUS
  <2> QED
    BY <2>1 DEF Chosen
<1> QED
  BY <1>1, <1>2

LEMMA ChosenExists ==
  ASSUME NEW s, NEW T, NEW N \in Nat
  PROVE  \E f : Chosen(f, s, T, N)
<1> DEFINE U == {n \in 0 .. N : \E f : Chosen(f, s, T, n)}
<1>1. 0 \in U
  <2>1. Chosen([n \in 0 .. 0 |-> <<>>], s, T, 0)
    BY DEF Chosen
  <2> QED
    BY <2>1
<1>2. ASSUME NEW n \in 0 .. N - 1, n \in U PROVE n + 1 \in U
  <2>1. PICK f : Chosen(f, s, T, n)
    BY <1>2
  <2> DEFINE g == [m \in 0 .. n + 1 |->
                      IF m = n + 1 THEN IF s[n + 1] \in T THEN Append(f[n], s[n + 1]) ELSE f[n]
                      ELSE f[m]]
  <2>2. ASSUME NEW m \in 0 .. n + 1
        PROVE  g[m] = IF m = 0 THEN <<>>
                      ELSE IF s[m] \in T THEN Append(g[m - 1], s[m]) ELSE g[m - 1]
    <3>1. CASE m = 0
      BY <2>1, <3>1, ChosenFacts
    <3>2. CASE m = n + 1
      <4>1. g[n] = f[n] /\ m - 1 = n /\ m # 0
        BY <3>2
      <4> QED
        BY <3>2, <4>1
    <3>3. CASE m \in 1 .. n
      <4>1. m - 1 \in 0 .. n - 1 /\ (m - 1) + 1 = m /\ m # 0 /\ m # n + 1 /\ m - 1 # n + 1
        BY <3>3
      <4>2. f[(m - 1) + 1] = IF s[(m - 1) + 1] \in T THEN Append(f[m - 1], s[(m - 1) + 1]) ELSE f[m - 1]
        BY <2>1, <4>1, ChosenFacts
      <4>3. g[m] = f[m] /\ g[m - 1] = f[m - 1]
        BY <4>1
      <4> QED
        BY <4>1, <4>2, <4>3
    <3> QED
      BY <3>1, <3>2, <3>3
  <2>3. Chosen(g, s, T, n + 1)
    <3>1. g = [m \in 0 .. n + 1 |-> g[m]]
      OBVIOUS
    <3> HIDE DEF g
    <3> QED
      BY <2>2, <3>1 DEF Chosen
  <2> QED
    BY <2>3
<1>3. \A n \in 0 .. N : n \in U
  <2> HIDE DEF U
  <2> QED
    BY <1>1, <1>2, UpTo
<1> QED
  BY <1>3

LEMMA SelectChooses ==
  ASSUME NEW s, NEW T, Len(s) \in Nat
  PROVE  \E f : Chosen(f, s, T, Len(s)) /\ J!Select(s, T) = f[Len(s)]
<1> DEFINE f == CHOOSE f : Chosen(f, s, T, Len(s))
<1>1. Chosen(f, s, T, Len(s))
  BY ChosenExists
<1>2. J!Select(s, T) = f[Len(s)]
  BY DEF J!Select, Chosen
<1> QED
  BY <1>1, <1>2

\* Select takes what is appended if it is one of those, and it takes only those.
LEMMA SelectAppend ==
  ASSUME NEW S, NEW s \in Seq(S), NEW x \in S, NEW T
  PROVE  J!Select(Append(s, x), T)
           = IF x \in T THEN Append(J!Select(s, T), x) ELSE J!Select(s, T)
<1> DEFINE r == Append(s, x)
<1>1. PICK N \in Nat : N = Len(s)
  BY LenProperties
<1>2. Len(r) = N + 1 /\ r[N + 1] = x /\ \A n \in 1 .. N : r[n] = s[n]
  BY <1>1, AppendProperties
<1> HIDE DEF r
<1>3. PICK f : Chosen(f, s, T, N) /\ J!Select(s, T) = f[N]
  BY <1>1, SelectChooses
<1>4. PICK g : Chosen(g, r, T, N + 1) /\ J!Select(r, T) = g[N + 1]
  BY <1>2, SelectChooses
<1>5. f[N] = g[N]
  <2> DEFINE U == {n \in 0 .. N : f[n] = g[n]}
  <2>1. 0 \in U
    BY <1>3, <1>4, ChosenFacts
  <2>2. ASSUME NEW n \in 0 .. N - 1, n \in U PROVE n + 1 \in U
    <3>1. n \in 0 .. (N + 1) - 1 /\ n + 1 \in 1 .. N
      OBVIOUS
    <3>2. f[n + 1] = IF s[n + 1] \in T THEN Append(f[n], s[n + 1]) ELSE f[n]
      BY <1>3, ChosenFacts
    <3>3. g[n + 1] = IF r[n + 1] \in T THEN Append(g[n], r[n + 1]) ELSE g[n]
      BY <1>4, <3>1, ChosenFacts
    <3> QED
      BY <1>2, <2>2, <3>1, <3>2, <3>3
  <2>3. \A n \in 0 .. N : n \in U
    <3> HIDE DEF U
    <3> QED
      BY <2>1, <2>2, UpTo
  <2> QED
    BY <2>3
<1>6. g[N + 1] = IF r[N + 1] \in T THEN Append(g[N], r[N + 1]) ELSE g[N]
  <2>1. N \in 0 .. (N + 1) - 1
    OBVIOUS
  <2> QED
    BY <1>4, <2>1, ChosenFacts
<1> QED
  BY <1>2, <1>3, <1>4, <1>5, <1>6 DEF r

LEMMA SelectNone == ASSUME NEW T PROVE J!Select(<<>>, T) = <<>>
<1>1. Len(<<>>) = 0
  OBVIOUS
<1>2. PICK f : Chosen(f, <<>>, T, 0) /\ J!Select(<<>>, T) = f[0]
  BY <1>1, SelectChooses
<1> QED
  BY <1>2, ChosenFacts

LEMMA SelectType ==
  ASSUME NEW S, NEW s \in Seq(S), NEW T
  PROVE  J!Select(s, T) \in Seq(T)
<1>1. PICK N \in Nat : N = Len(s)
  BY LenProperties
<1>2. PICK f : Chosen(f, s, T, N) /\ J!Select(s, T) = f[N]
  BY <1>1, SelectChooses
<1> DEFINE U == {n \in 0 .. N : f[n] \in Seq(T)}
<1>3. 0 \in U
  <2>1. f[0] = <<>> /\ <<>> \in Seq(T)
    BY <1>2, ChosenFacts
  <2>2. 0 \in 0 .. N
    OBVIOUS
  <2> QED
    BY <2>1, <2>2
<1>4. ASSUME NEW n \in 0 .. N - 1, n \in U PROVE n + 1 \in U
  <2>1. f[n + 1] = IF s[n + 1] \in T THEN Append(f[n], s[n + 1]) ELSE f[n]
    BY <1>2, ChosenFacts
  <2>2. f[n + 1] \in Seq(T)
    BY <1>4, <2>1, AppendProperties
  <2> QED
    BY <2>2
<1>5. \A n \in 0 .. N : n \in U
  <2> HIDE DEF U
  <2> QED
    BY <1>3, <1>4, UpTo
<1> QED
  BY <1>2, <1>5

-----------------------------------------------------------------------------
(* JwServer: what the server has sent for what it got.                      *)

Datagrams == [from : Clients, msg : J!Messages]
HotInfos  == [to : J!Addresses, type : {"hotInfo"}]
Sendings  == J!Responses(J!Addresses) \cup J!Paths \cup HotInfos

Asking(c) == [from : {c}, msg : J!Requests]

Response(id, tick, a) ==
    [to |-> a, type |-> "pathResp", id |-> id, result |-> J!Result(tick), block |-> J!Block(tick)]
Path(tick, a) == [to |-> a, type |-> "globalpath", serverpathid |-> tick]
Info(a)       == [to |-> a, type |-> "hotInfo"]

LEMMA Kinds ==
  ASSUME NEW a \in J!Addresses, NEW tick \in Nat, NEW id \in RequestIds
  PROVE  /\ Response(id, tick, a) \in Sendings /\ Path(tick, a) \in Sendings /\ Info(a) \in Sendings
         /\ Path(tick, a) \in J!Paths /\ Response(id, tick, a) \notin J!Paths /\ Info(a) \notin J!Paths
         /\ \A A : /\ Response(id, tick, a) \in J!Responses(A) <=> a \in A
                   /\ Path(tick, a) \notin J!Responses(A) /\ Info(a) \notin J!Responses(A)
<1>1. J!Result(tick) \in Nat /\ J!Block(tick) \in BOOLEAN
  BY DEF J!Result, J!Block
<1>2. \A A : Response(id, tick, a) \in J!Responses(A) <=> a \in A
  BY <1>1 DEF Response, J!Responses
<1>3. Path(tick, a) \in J!Paths /\ Info(a) \in HotInfos
  BY DEF Path, J!Paths, Info, HotInfos
<1>4. /\ \A x \in J!Paths : x.type = "globalpath"
      /\ \A A : \A x \in J!Responses(A) : x.type = "pathResp"
      /\ Response(id, tick, a).type = "pathResp"
      /\ Path(tick, a).type = "globalpath" /\ Info(a).type = "hotInfo"
  BY DEF Path, J!Paths, Info, Response, J!Responses
<1> QED
  BY <1>2, <1>3, <1>4 DEF Sendings

\* What a typed datagram adds to what was sent: t is s and its answers.
Adds(m, a, tick, s, t) ==
    /\ t \in Seq(Sendings)
    /\ \A A : J!Select(t, J!Responses(A)) =
           IF m.type = "pathReq" /\ a \in A
           THEN Append(J!Select(s, J!Responses(A)), Response(m.id, block_tick, a))
           ELSE J!Select(s, J!Responses(A))
    /\ J!Select(t, J!Paths) =
           IF tick % 3 = 0 THEN Append(J!Select(s, J!Paths), Path(tick, a)) ELSE J!Select(s, J!Paths)

LEMMA Added ==
  ASSUME NEW s \in Seq(Sendings), NEW m \in J!Messages, J!Typed(m), NEW a \in J!Addresses,
         block_tick \in Nat, NEW tick \in Nat
  PROVE  Adds(m, a, tick, s, s \o J!Answer(m, a) \o J!GlobalPath(tick, a))
<1>0. PICK t : t = s \o J!Answer(m, a) \o J!GlobalPath(tick, a)
  OBVIOUS
<1> SUFFICES Adds(m, a, tick, s, t)
  BY <1>0
<1> USE DEF Adds
<1>1. m.type = "pathReq" => m.id \in RequestIds
  BY DEF J!Messages, J!Requests
<1>2. PICK u : u = s \o J!Answer(m, a)
  OBVIOUS
<1>3. /\ u \in Seq(Sendings)
      /\ \A A : J!Select(u, J!Responses(A)) =
             IF m.type = "pathReq" /\ a \in A
             THEN Append(J!Select(s, J!Responses(A)), Response(m.id, block_tick, a))
             ELSE J!Select(s, J!Responses(A))
      /\ J!Select(u, J!Paths) = J!Select(s, J!Paths)
  <2>1. CASE m.type = "pathReq"
    <3> DEFINE x == Response(m.id, block_tick, a)
    <3>1. J!Answer(m, a) = <<x>>
      BY <2>1 DEF J!Answer, Response
    <3>2. x \in Sendings /\ x \notin J!Paths /\ \A A : x \in J!Responses(A) <=> a \in A
      <4>1. \A id \in RequestIds :
                /\ Response(id, block_tick, a) \in Sendings
                /\ Response(id, block_tick, a) \notin J!Paths
                /\ \A A : Response(id, block_tick, a) \in J!Responses(A) <=> a \in A
        BY Kinds
      <4> QED
        BY <1>1, <2>1, <4>1
    <3> HIDE DEF x
    <3>3. u = Append(s, x)
      BY <1>2, <3>1, <3>2, AppendIsConcat
    <3>4. u \in Seq(Sendings)
      BY <3>2, <3>3, AppendProperties
    <3>5. \A T : J!Select(u, T) = IF x \in T THEN Append(J!Select(s, T), x) ELSE J!Select(s, T)
      BY <3>2, <3>3, SelectAppend
    <3>6. \A A : J!Select(u, J!Responses(A)) =
              IF a \in A THEN Append(J!Select(s, J!Responses(A)), x) ELSE J!Select(s, J!Responses(A))
      BY <3>2, <3>5
    <3>7. J!Select(u, J!Paths) = J!Select(s, J!Paths)
      BY <3>2, <3>5
    <3> QED
      BY <2>1, <3>4, <3>6, <3>7 DEF x
  <2>2. CASE m.type = "info"
    <3>1. J!Answer(m, a) = <<Info(a)>>
      BY <2>2 DEF J!Answer, Info
    <3>2. Info(a) \in Sendings /\ Info(a) \notin J!Paths /\ \A A : Info(a) \notin J!Responses(A)
      BY DEF Info, Sendings, HotInfos, J!Paths, J!Responses
    <3>3. u = Append(s, Info(a))
      BY <1>2, <3>1, <3>2, AppendIsConcat
    <3>4. u \in Seq(Sendings)
      BY <3>2, <3>3, AppendProperties
    <3> QED
      BY <2>2, <3>2, <3>3, <3>4, SelectAppend
  <2>3. CASE m.type \notin {"pathReq", "info"}
    <3>1. J!Answer(m, a) = <<>>
      BY <2>3 DEF J!Answer
    <3>2. u = s
      BY <1>2, <3>1, ConcatEmptySeq
    <3> QED
      BY <2>3, <3>2
  <2> QED
    BY <2>1, <2>2, <2>3
<1>4. t = u \o J!GlobalPath(tick, a)
  BY <1>0, <1>2
<1>5. CASE tick % 3 = 0
  <2> DEFINE x == Path(tick, a)
  <2>1. J!GlobalPath(tick, a) = <<x>>
    BY <1>5 DEF J!GlobalPath, Path
  <2>2. x \in Sendings /\ x \in J!Paths /\ \A A : x \notin J!Responses(A)
    BY DEF Path, Sendings, J!Paths, J!Responses
  <2> HIDE DEF x
  <2>3. t = Append(u, x)
    BY <1>3, <1>4, <2>1, <2>2, AppendIsConcat
  <2>4. t \in Seq(Sendings)
    BY <1>3, <2>2, <2>3, AppendProperties
  <2> QED
    BY <1>3, <1>5, <2>2, <2>3, <2>4, SelectAppend DEF x
<1>6. CASE tick % 3 # 0
  <2>1. t = u
    BY <1>3, <1>4, <1>6, ConcatEmptySeq DEF J!GlobalPath
  <2> QED
    BY <1>3, <1>6, <2>1
<1> QED
  BY <1>5, <1>6

\* The path requests of client c, but for the very first datagram.
AskedData(c) == IF received = <<>> THEN <<>> ELSE J!Select(Tail(received), Asking(c))

ResponsesTo(c) == J!Select(sent, J!Responses({c}))
AllResponses   == J!Select(sent, J!Responses(J!Addresses))
AllPaths       == J!Select(sent, J!Paths)
AllTyped       == J!Select(received, J!TypedData)

\* Only the first datagram's answers have no address.
AddressKept ==
    /\ received \in Seq(Datagrams) /\ sent \in Seq(Sendings)
    /\ client_addr \in J!Addresses
    /\ IF received = <<>> THEN client_len = 0 /\ client_addr = Nowhere ELSE client_len = 16

\* A client's requests and the answers to it come in pairs.
InPairs ==
    \A c \in Clients :
        /\ Len(ResponsesTo(c)) = Len(AskedData(c))
        /\ \A n \in 1 .. Len(ResponsesTo(c)) : ResponsesTo(c)[n].id = AskedData(c)[n].msg.id

\* One counter counts the path answers.
InRounds ==
    /\ block_tick \in Nat /\ Len(AllResponses) = block_tick
    /\ \A n \in 1 .. block_tick :
           /\ AllResponses[n].result = J!Result(n - 1)
           /\ AllResponses[n].block = J!Block(n - 1)

\* The other counts the typed datagrams, and every third of them has its path.
InThrees ==
    /\ global_path_tick \in Nat /\ Len(AllTyped) = global_path_tick
    /\ received = <<>> => global_path_tick = 0
    /\ Len(AllPaths) = global_path_tick \div 3
    /\ \A n \in 1 .. Len(AllPaths) :
           AllPaths[n].serverpathid = 3 * n /\ AllPaths[n].to = AllTyped[3 * n].from

PathInv == AddressKept /\ InPairs /\ InRounds /\ InThrees

LEMMA PathInit == J!Init => PathInv
<1> SUFFICES ASSUME J!Init PROVE PathInv
  OBVIOUS
<1>1. /\ received = <<>> /\ sent = <<>> /\ client_addr = Nowhere /\ client_len = 0
      /\ global_path_tick = 0 /\ block_tick = 0
  BY DEF J!Init
<1>2. AddressKept
  BY <1>1 DEF AddressKept, J!Addresses
<1>3. /\ \A c : ResponsesTo(c) = <<>> /\ AskedData(c) = <<>>
      /\ AllResponses = <<>> /\ AllPaths = <<>> /\ AllTyped = <<>>
  BY <1>1, SelectNone DEF ResponsesTo, AskedData, AllResponses, AllPaths, AllTyped
<1>4. Len(<<>>) = 0 /\ 0 \div 3 = 0 /\ \A n \in 1 .. 0 : FALSE
  OBVIOUS
<1>5. InPairs
  BY <1>3, <1>4 DEF InPairs
<1>6. InRounds /\ InThrees
  BY <1>1, <1>3, <1>4 DEF InRounds, InThrees
<1> QED
  BY <1>2, <1>5, <1>6 DEF PathInv

\* What a datagram adds to what was received.
LEMMA Received ==
  ASSUME AddressKept, NEW c \in Clients, NEW m \in J!Messages, J!Receive(c, m)
  PROVE  LET d == [from |-> c, msg |-> m]
         IN  /\ received' \in Seq(Datagrams) /\ received' # <<>> /\ client_len' = 16
             /\ client_addr' = IF received = <<>> THEN Nowhere ELSE c
             /\ AllTyped' = IF J!Typed(m) THEN Append(AllTyped, d) ELSE AllTyped
             /\ \A e \in Clients : AskedData(e)' =
                    IF received # <<>> /\ e = c /\ m.type = "pathReq"
                    THEN Append(AskedData(e), d) ELSE AskedData(e)
<1> DEFINE d == [from |-> c, msg |-> m]
<1>1. received \in Seq(Datagrams) /\ received' = Append(received, d) /\ d \in Datagrams
  BY DEF AddressKept, J!Receive, Datagrams
<1>2. client_len' = 16 /\ client_addr' = IF received = <<>> THEN Nowhere ELSE c
  BY DEF J!Receive, J!Sender, AddressKept
<1>3. d \in J!TypedData <=> J!Typed(m)
  BY DEF J!TypedData
<1>4. \A e \in Clients : d \in Asking(e) <=> (e = c /\ m.type = "pathReq")
  BY DEF Asking, J!Messages, J!Requests
<1> HIDE DEF d
<1>5. received' \in Seq(Datagrams) /\ received' # <<>>
  BY <1>1, AppendProperties
<1>6. AllTyped' = IF J!Typed(m) THEN Append(AllTyped, d) ELSE AllTyped
  BY <1>1, <1>3, SelectAppend DEF AllTyped
<1>7. ASSUME NEW e \in Clients
      PROVE  AskedData(e)' = IF received # <<>> /\ e = c /\ m.type = "pathReq"
                             THEN Append(AskedData(e), d) ELSE AskedData(e)
  <2>1. CASE received = <<>>
    <3>1. Tail(received') = <<>>
      BY <1>1, <2>1, HeadTailAppend
    <3> QED
      BY <1>5, <2>1, <3>1, SelectNone DEF AskedData
  <2>2. CASE received # <<>>
    <3>1. Tail(received) \in Seq(Datagrams) /\ Tail(received') = Append(Tail(received), d)
      BY <1>1, <2>2, HeadTailAppend, HeadTailProperties
    <3>2. J!Select(Tail(received'), Asking(e)) =
              IF d \in Asking(e) THEN Append(J!Select(Tail(received), Asking(e)), d)
              ELSE J!Select(Tail(received), Asking(e))
      <4>1. PICK s \in Seq(Datagrams) : s = Tail(received)
        BY <3>1
      <4>2. J!Select(Append(s, d), Asking(e)) =
                IF d \in Asking(e) THEN Append(J!Select(s, Asking(e)), d) ELSE J!Select(s, Asking(e))
        BY <1>1, SelectAppend
      <4> QED
        BY <3>1, <4>1, <4>2
    <3>3. AskedData(e)' = J!Select(Tail(received'), Asking(e))
      BY <1>5 DEF AskedData
    <3> QED
      BY <1>4, <2>2, <3>2, <3>3 DEF AskedData
  <2> QED
    BY <2>1, <2>2
<1> QED
  BY <1>2, <1>5, <1>6, <1>7 DEF d

\* One more of two sequences that come in pairs, or that a counter counts.
LEMMA OneMore ==
  ASSUME NEW S, NEW s \in Seq(S), NEW x \in S
  PROVE  /\ Len(s) \in Nat /\ Len(Append(s, x)) = Len(s) + 1
         /\ \A n \in 1 .. Len(s) : Append(s, x)[n] = s[n]
         /\ Append(s, x)[Len(s) + 1] = x
         /\ \A n \in 1 .. Len(s) + 1 : n \in 1 .. Len(s) \/ n = Len(s) + 1
<1>1. Len(s) \in Nat
  BY LenProperties
<1>2. \A n \in 1 .. Len(s) + 1 : n \in 1 .. Len(s) \/ n = Len(s) + 1
  BY <1>1
<1> QED
  BY <1>1, <1>2, AppendProperties

LEMMA SeqWider == ASSUME NEW S, NEW s \in Seq(S), NEW x PROVE s \in Seq(S \cup {x})
<1>1. Len(s) \in Nat /\ s \in [1 .. Len(s) -> S]
  BY LenProperties
<1> QED
  BY <1>1, SeqDef

LEMMA PairsStep ==
  ASSUME AddressKept, InPairs, NEW c \in Clients, NEW m \in J!Messages,
         NEW to_client \in BOOLEAN,
         \A e \in Clients : ResponsesTo(e)' =
             IF to_client /\ e = c /\ m.type = "pathReq"
             THEN Append(ResponsesTo(e), Response(m.id, block_tick, c)) ELSE ResponsesTo(e),
         \A e \in Clients : AskedData(e)' =
             IF to_client /\ e = c /\ m.type = "pathReq"
             THEN Append(AskedData(e), [from |-> c, msg |-> m]) ELSE AskedData(e)
  PROVE  InPairs'
<1> SUFFICES ASSUME NEW e \in Clients
             PROVE  /\ Len(ResponsesTo(e)') = Len(AskedData(e)')
                    /\ \A n \in 1 .. Len(ResponsesTo(e)') :
                           ResponsesTo(e)'[n].id = AskedData(e)'[n].msg.id
  BY DEF InPairs
<1>1. CASE ~(to_client /\ e = c /\ m.type = "pathReq")
  BY <1>1 DEF InPairs
<1>2. CASE to_client /\ e = c /\ m.type = "pathReq"
  <2> DEFINE x == Response(m.id, block_tick, c)
             d == [from |-> c, msg |-> m]
  <2>1. PICK r \in Seq(J!Responses({e}) \cup {x}) : r = ResponsesTo(e)
    <3>1. ResponsesTo(e) \in Seq(J!Responses({e}))
      BY SelectType DEF AddressKept, ResponsesTo
    <3> QED
      BY <3>1, SeqWider
  <2>2. PICK a \in Seq(Asking(e) \cup {d}) : a = AskedData(e)
    <3>1. CASE received = <<>>
      <4>1. AskedData(e) = <<>>
        BY <3>1 DEF AskedData
      <4>2. \A T : <<>> \in Seq(T)
        OBVIOUS
      <4> QED
        BY <4>1, <4>2
    <3>2. CASE received # <<>>
      <4>1. Tail(received) \in Seq(Datagrams)
        BY <3>2, HeadTailProperties DEF AddressKept
      <4>2. AskedData(e) \in Seq(Asking(e))
        BY <3>2, <4>1, SelectType DEF AskedData
      <4> QED
        BY <4>2, SeqWider
    <3> QED
      BY <3>1, <3>2
  <2>3. x.id = m.id /\ d.msg.id = m.id
    BY DEF Response
  <2>4. ResponsesTo(e)' = Append(r, x) /\ AskedData(e)' = Append(a, d)
    BY <1>2, <2>1, <2>2
  <2> HIDE DEF x, d
  <2>5. Len(r) = Len(a) /\ \A n \in 1 .. Len(r) : r[n].id = a[n].msg.id
    BY <2>1, <2>2 DEF InPairs
  <2>6. /\ Len(r) \in Nat /\ Len(Append(r, x)) = Len(r) + 1
        /\ \A n \in 1 .. Len(r) : Append(r, x)[n] = r[n]
        /\ Append(r, x)[Len(r) + 1] = x
        /\ \A n \in 1 .. Len(r) + 1 : n \in 1 .. Len(r) \/ n = Len(r) + 1
    BY OneMore
  <2>7. /\ Len(Append(a, d)) = Len(a) + 1
        /\ \A n \in 1 .. Len(a) : Append(a, d)[n] = a[n]
        /\ Append(a, d)[Len(a) + 1] = d
    BY OneMore
  <2>8. \A n \in 1 .. Len(r) + 1 : Append(r, x)[n].id = Append(a, d)[n].msg.id
    BY <2>3, <2>5, <2>6, <2>7
  <2> QED
    BY <2>4, <2>5, <2>6, <2>7, <2>8
<1> QED
  BY <1>1, <1>2

LEMMA RoundsStep ==
  ASSUME AddressKept, InRounds, NEW id, NEW a,
         \/ UNCHANGED <<block_tick, AllResponses>>
         \/ /\ block_tick' = block_tick + 1
            /\ AllResponses' = Append(AllResponses, Response(id, block_tick, a))
  PROVE  InRounds'
<1>1. CASE UNCHANGED <<block_tick, AllResponses>>
  BY <1>1 DEF InRounds
<1>2. CASE /\ block_tick' = block_tick + 1
           /\ AllResponses' = Append(AllResponses, Response(id, block_tick, a))
  <2> DEFINE x == Response(id, block_tick, a)
  <2>1. PICK r \in Seq(J!Responses(J!Addresses) \cup {x}) : r = AllResponses
    <3>1. AllResponses \in Seq(J!Responses(J!Addresses))
      BY SelectType DEF AddressKept, AllResponses
    <3> QED
      BY <3>1, SeqWider
  <2>2. x.result = J!Result(block_tick) /\ x.block = J!Block(block_tick)
    BY DEF Response
  <2>3. PICK b \in Nat : b = block_tick /\ Len(r) = b
    BY <2>1 DEF InRounds
  <2>4. AllResponses' = Append(r, x)
    BY <1>2, <2>1
  <2> HIDE DEF x
  <2>5. \A n \in 1 .. b : r[n].result = J!Result(n - 1) /\ r[n].block = J!Block(n - 1)
    BY <2>1, <2>3 DEF InRounds
  <2>6. /\ Len(Append(r, x)) = b + 1
        /\ \A n \in 1 .. b : Append(r, x)[n] = r[n]
        /\ Append(r, x)[b + 1] = x
        /\ \A n \in 1 .. b + 1 : n \in 1 .. b \/ n = b + 1
    BY <2>3, OneMore
  <2>7. (b + 1) - 1 = b
    OBVIOUS
  <2>8. \A n \in 1 .. b + 1 : /\ Append(r, x)[n].result = J!Result(n - 1)
                              /\ Append(r, x)[n].block = J!Block(n - 1)
    BY <2>2, <2>3, <2>5, <2>6, <2>7
  <2>9. \A n : (J!Result(n)' = J!Result(n)) /\ (J!Block(n)' = J!Block(n))
    BY DEF J!Result, J!Block
  <2> QED
    BY <1>2, <2>3, <2>4, <2>6, <2>8, <2>9 DEF InRounds
<1> QED
  BY <1>1, <1>2

\* The third of three.
LEMMA Thirds ==
  ASSUME NEW g \in Nat
  PROVE  /\ (g + 1) % 3 = 0 => (g + 1) \div 3 = g \div 3 + 1 /\ 3 * (g \div 3 + 1) = g + 1 /\ g > 0
         /\ (g + 1) % 3 # 0 => (g + 1) \div 3 = g \div 3
         /\ g \div 3 \in Nat
         /\ \A n \in 1 .. g \div 3 : 3 * n \in 1 .. g
OBVIOUS

LEMMA ThreesStep ==
  ASSUME AddressKept, InThrees, NEW c \in Clients, NEW d, d.from = c, NEW a,
         received # <<>> => a = c, received' # <<>>,
         global_path_tick' = global_path_tick + 1,
         AllTyped' = Append(AllTyped, d),
         AllPaths' = IF (global_path_tick + 1) % 3 = 0
                     THEN Append(AllPaths, Path(global_path_tick + 1, a)) ELSE AllPaths
  PROVE  InThrees'
<1> DEFINE x == Path(global_path_tick + 1, a)
<1>1. PICK g \in Nat : g = global_path_tick
  BY DEF InThrees
<1>2. PICK r \in Seq(J!Paths \cup {x}) : r = AllPaths
  <2>1. AllPaths \in Seq(J!Paths)
    BY SelectType DEF AddressKept, AllPaths
  <2> QED
    BY <2>1, SeqWider
<1>3. PICK t \in Seq(J!TypedData \cup {d}) : t = AllTyped
  <2>1. AllTyped \in Seq(J!TypedData)
    BY SelectType DEF AddressKept, AllTyped
  <2> QED
    BY <2>1, SeqWider
<1>4. x.serverpathid = g + 1 /\ x.to = a
  BY <1>1 DEF Path
<1>5. /\ AllTyped' = Append(t, d)
      /\ AllPaths' = IF (g + 1) % 3 = 0 THEN Append(r, x) ELSE r
  BY <1>1, <1>2, <1>3
<1> HIDE DEF x
<1>6. /\ Len(t) = g /\ Len(r) = g \div 3 /\ (received = <<>> => g = 0)
      /\ \A n \in 1 .. Len(r) : r[n].serverpathid = 3 * n /\ r[n].to = t[3 * n].from
  BY <1>1, <1>2, <1>3 DEF InThrees
<1>7. /\ Len(Append(t, d)) = g + 1
      /\ \A n \in 1 .. g : Append(t, d)[n] = t[n]
      /\ Append(t, d)[g + 1] = d
  BY <1>6, OneMore
<1>8. /\ Len(r) \in Nat /\ Len(Append(r, x)) = Len(r) + 1
      /\ \A n \in 1 .. Len(r) : Append(r, x)[n] = r[n]
      /\ Append(r, x)[Len(r) + 1] = x
      /\ \A n \in 1 .. Len(r) + 1 : n \in 1 .. Len(r) \/ n = Len(r) + 1
  BY OneMore
<1>9. /\ (g + 1) % 3 = 0 => (g + 1) \div 3 = g \div 3 + 1 /\ 3 * (g \div 3 + 1) = g + 1 /\ g > 0
      /\ (g + 1) % 3 # 0 => (g + 1) \div 3 = g \div 3
      /\ \A n \in 1 .. g \div 3 : 3 * n \in 1 .. g
  BY Thirds
<1>10. \A n \in 1 .. Len(r) : /\ r[n].serverpathid = 3 * n
                              /\ r[n].to = Append(t, d)[3 * n].from
  BY <1>6, <1>7, <1>9
<1>11. CASE (g + 1) % 3 = 0
  <2>1. a = c /\ 3 * (Len(r) + 1) = g + 1 /\ Len(Append(r, x)) = (g + 1) \div 3
    <3>1. g # 0
      BY <1>9, <1>11
    <3> QED
      BY <1>6, <1>8, <1>9, <1>11, <3>1
  <2>2. \A n : n = Len(r) + 1 => /\ Append(r, x)[n].serverpathid = 3 * n
                                 /\ Append(r, x)[n].to = Append(t, d)[3 * n].from
    BY <1>4, <1>7, <1>8, <2>1
  <2>3. \A n \in 1 .. Len(r) + 1 : /\ Append(r, x)[n].serverpathid = 3 * n
                                   /\ Append(r, x)[n].to = Append(t, d)[3 * n].from
    BY <1>8, <1>10, <2>2
  <2>4. PICK p, q : p = Append(r, x) /\ q = Append(t, d)
    OBVIOUS
  <2>5. AllPaths' = p /\ AllTyped' = q /\ global_path_tick' = g + 1
    BY <1>1, <1>5, <1>11, <2>4
  <2>6. /\ Len(q) = g + 1 /\ Len(p) = (g + 1) \div 3
        /\ \A n \in 1 .. Len(p) : p[n].serverpathid = 3 * n /\ p[n].to = q[3 * n].from
    BY <1>7, <1>8, <2>1, <2>3, <2>4
  <2>7. /\ global_path_tick' \in Nat /\ Len(AllTyped') = global_path_tick'
        /\ Len(AllPaths') = global_path_tick' \div 3
    BY <2>5, <2>6
  <2>8. \A n \in 1 .. Len(AllPaths') :
            AllPaths'[n].serverpathid = 3 * n /\ AllPaths'[n].to = AllTyped'[3 * n].from
    BY <2>5, <2>6
  <2> QED
    BY <2>7, <2>8 DEF InThrees
<1>12. CASE (g + 1) % 3 # 0
  BY <1>1, <1>5, <1>6, <1>7, <1>9, <1>10, <1>12 DEF InThrees
<1> QED
  BY <1>11, <1>12

\* A datagram that is not typed is received, and that is all.
LEMMA UntypedStep ==
  ASSUME PathInv, NEW c \in Clients, NEW m \in J!Messages, ~J!Typed(m), J!Receive(c, m),
         UNCHANGED <<sent, global_path_tick, block_tick>>
  PROVE  PathInv'
<1> USE DEF PathInv
<1>1. m.type # "pathReq"
  BY DEF J!Typed
<1>2. /\ received' \in Seq(Datagrams) /\ received' # <<>> /\ client_len' = 16
      /\ client_addr' = IF received = <<>> THEN Nowhere ELSE c
      /\ AllTyped' = AllTyped
      /\ \A e \in Clients : AskedData(e)' = AskedData(e)
  BY <1>1, Received
<1>3. AddressKept'
  BY <1>2 DEF AddressKept, J!Addresses
<1>4. /\ UNCHANGED <<AllResponses, AllPaths>>
      /\ \A e \in Clients : ResponsesTo(e)' = ResponsesTo(e)
  BY DEF AllResponses, AllPaths, ResponsesTo
<1>5. InPairs'
  BY <1>2, <1>4 DEF InPairs
<1>6. InRounds' /\ InThrees'
  BY <1>2, <1>4 DEF InRounds, InThrees, J!Result, J!Block
<1> QED
  BY <1>3, <1>5, <1>6

LEMMA PathStep ==
  ASSUME PathInv, NEW c \in Clients, NEW m \in J!Messages, J!Turn(c, m)
  PROVE  PathInv'
<1> USE DEF PathInv
<1> DEFINE d == [from |-> c, msg |-> m]
           a == client_addr'
<1>1. /\ received' \in Seq(Datagrams) /\ received' # <<>> /\ client_len' = 16
      /\ a = IF received = <<>> THEN Nowhere ELSE c
      /\ AllTyped' = IF J!Typed(m) THEN Append(AllTyped, d) ELSE AllTyped
      /\ \A e \in Clients : AskedData(e)' =
             IF received # <<>> /\ e = c /\ m.type = "pathReq"
             THEN Append(AskedData(e), d) ELSE AskedData(e)
  BY Received DEF J!Turn
<1>2. a \in J!Addresses /\ Nowhere \notin Clients
  BY <1>1, ProgramsAssumption DEF J!Addresses, J!JwServerAssumption
<1>3. block_tick \in Nat /\ global_path_tick \in Nat
  BY DEF InRounds, InThrees
<1>4. block_tick' = IF m.type = "pathReq" THEN block_tick + 1 ELSE block_tick
  BY DEF J!Turn
<1>5. CASE J!Typed(m)
  <2>1. global_path_tick' = global_path_tick + 1
        /\ sent' = sent \o J!Answer(m, a) \o J!GlobalPath(global_path_tick + 1, a)
    BY <1>5 DEF J!Turn, J!Counts
  <2>2. /\ sent' \in Seq(Sendings)
        /\ \A A : J!Select(sent', J!Responses(A)) =
               IF m.type = "pathReq" /\ a \in A
               THEN Append(J!Select(sent, J!Responses(A)), Response(m.id, block_tick, a))
               ELSE J!Select(sent, J!Responses(A))
        /\ J!Select(sent', J!Paths) =
               IF (global_path_tick + 1) % 3 = 0
               THEN Append(J!Select(sent, J!Paths), Path(global_path_tick + 1, a))
               ELSE J!Select(sent, J!Paths)
    <3>1. PICK w \in J!Addresses : w = a
      BY <1>2
    <3>2. global_path_tick + 1 \in Nat
      BY <1>3
    <3>3. PICK s \in Seq(Sendings) : s = sent
      BY DEF AddressKept
    <3>4. PICK h \in Nat : h = global_path_tick + 1
      BY <3>2
    <3>5. Adds(m, w, h, s, s \o J!Answer(m, w) \o J!GlobalPath(h, w))
      BY <1>3, <1>5, Added
    <3>6. sent' = s \o J!Answer(m, w) \o J!GlobalPath(h, w)
      BY <2>1, <3>1, <3>3, <3>4
    <3>7. Adds(m, w, h, s, sent')
      BY <3>5, <3>6
    <3>8. Adds(m, a, global_path_tick + 1, sent, sent')
      BY <3>1, <3>3, <3>4, <3>7
    <3> HIDE DEF a
    <3> QED
      BY <3>8 DEF Adds
  <2>3. AddressKept'
    BY <1>1, <1>2, <2>2 DEF AddressKept
  <2>4. InPairs'
    <3>1. PICK known \in BOOLEAN : known <=> received # <<>>
      OBVIOUS
    <3>2. ASSUME NEW e \in Clients
          PROVE  ResponsesTo(e)' = IF known /\ e = c /\ m.type = "pathReq"
                                   THEN Append(ResponsesTo(e), Response(m.id, block_tick, c))
                                   ELSE ResponsesTo(e)
      <4>1. a \in {e} <=> known /\ e = c
        BY <1>1, <1>2, <3>1
      <4>2. a \in {e} => a = c
        BY <1>1, <1>2
      <4> HIDE DEF a
      <4> QED
        BY <2>2, <4>1, <4>2 DEF ResponsesTo
    <3> QED
      BY <1>1, <3>1, <3>2, PairsStep
  <2>5. InRounds'
    <3>1. AllResponses' = IF m.type = "pathReq"
                          THEN Append(AllResponses, Response(m.id, block_tick, a))
                          ELSE AllResponses
      BY <1>2, <2>2 DEF AllResponses
    <3> QED
      BY <1>4, <3>1, RoundsStep
  <2>6. InThrees'
    <3>1. AllPaths' = IF (global_path_tick + 1) % 3 = 0
                      THEN Append(AllPaths, Path(global_path_tick + 1, a)) ELSE AllPaths
      BY <2>2 DEF AllPaths
    <3>2. d.from = c /\ AllTyped' = Append(AllTyped, d) /\ (received # <<>> => a = c)
      BY <1>1, <1>5
    <3> HIDE DEF d, a
    <3> QED
      BY <1>1, <2>1, <3>1, <3>2, ThreesStep
  <2> QED
    BY <2>3, <2>4, <2>5, <2>6
<1>6. CASE ~J!Typed(m)
  <2>1. UNCHANGED <<sent, global_path_tick>>
    BY <1>6 DEF J!Turn, J!Counts
  <2>2. UNCHANGED block_tick
    BY <1>4, <1>6 DEF J!Typed
  <2> QED
    BY <1>6, <2>1, <2>2, UntypedStep DEF J!Turn
<1> QED
  BY <1>5, <1>6

LEMMA PathHolds == J!Spec => []PathInv
<1>1. PathInv /\ [J!Next]_(J!vars) => PathInv'
  <2> SUFFICES ASSUME PathInv, [J!Next]_(J!vars) PROVE PathInv'
    OBVIOUS
  <2>1. ASSUME NEW c \in Clients, NEW m \in J!Messages, J!Assertion(c, m) PROVE PathInv'
    <3>1. ~J!Typed(m) /\ J!Receive(c, m) /\ UNCHANGED <<sent, global_path_tick, block_tick>>
      BY <2>1 DEF J!Assertion, J!Typed
    <3> QED
      BY <3>1, UntypedStep
  <2>2. CASE UNCHANGED J!vars
    <3>1. UNCHANGED <<received, sent, client_addr, client_len, block_tick, global_path_tick>>
      BY <2>2 DEF J!vars
    <3>2. /\ UNCHANGED <<AllResponses, AllPaths, AllTyped>>
          /\ \A e : ResponsesTo(e)' = ResponsesTo(e) /\ AskedData(e)' = AskedData(e)
      BY <3>1 DEF AllResponses, AllPaths, AllTyped, ResponsesTo, AskedData
    <3>3. AddressKept' /\ InPairs'
      BY <3>1, <3>2 DEF PathInv, AddressKept, InPairs
    <3>4. InRounds' /\ InThrees'
      BY <3>1, <3>2 DEF PathInv, InRounds, InThrees, J!Result, J!Block
    <3> QED
      BY <3>3, <3>4 DEF PathInv
  <2> QED
    BY <2>1, <2>2, PathStep DEF J!Next
<1> QED
  BY <1>1, PathInit, PTL DEF J!Spec

\* For any clients and any number of datagrams, each client gets the answers to
\* its own path requests, in order, and nobody else's, but for the very first
\* datagram (jw/srv.cc:52-89, 199-204).
THEOREM EachClientIsAnswered == J!Spec => []RequestsAnswered
<1>1. PathInv => RequestsAnswered
  <2> SUFFICES ASSUME PathInv, received # <<>>, NEW c \in Clients
               PROVE  [n \in DOMAIN ResponsesTo(c) |-> ResponsesTo(c)[n].id] = J!Asked(c)
    BY DEF RequestsAnswered, J!RequestsAnswered, ResponsesTo
  <2>1. ResponsesTo(c) \in Seq(J!Responses({c}))
    BY SelectType DEF PathInv, AddressKept, ResponsesTo
  <2>2. AskedData(c) \in Seq(Asking(c))
    <3>1. Tail(received) \in Seq(Datagrams)
      BY HeadTailProperties DEF PathInv, AddressKept
    <3> QED
      BY <3>1, SelectType DEF AskedData
  <2>3. PICK r \in Seq(J!Responses({c})), a \in Seq(Asking(c)) : r = ResponsesTo(c) /\ a = AskedData(c)
    BY <2>1, <2>2
  <2>4. DOMAIN r = 1 .. Len(r) /\ DOMAIN a = 1 .. Len(a)
    BY LenProperties
  <2>5. Len(r) = Len(a) /\ \A n \in 1 .. Len(r) : r[n].id = a[n].msg.id
    BY <2>3 DEF PathInv, InPairs
  <2>6. J!Asked(c) = [n \in DOMAIN a |-> a[n].msg.id]
    BY <2>3 DEF J!Asked, AskedData, Asking
  <2> QED
    BY <2>3, <2>4, <2>5, <2>6
<1> QED
  BY <1>1, PathHolds, PTL

\* The results go round without a gap however the clients take turns, and the
\* answers with blocked points say so (jw/srv.cc:58-80).
THEOREM ResultsGoRound == J!Spec => []BlockedTold
<1>1. PathInv => BlockedTold
  <2> SUFFICES ASSUME PathInv, NEW n \in DOMAIN AllResponses
               PROVE  /\ AllResponses[n].result = (n - 1) % 4
                      /\ AllResponses[n].block <=> AllResponses[n].result \in {1, 3}
    BY DEF BlockedTold, J!BlockedTold, AllResponses
  <2>1. AllResponses \in Seq(J!Responses(J!Addresses))
    BY SelectType DEF PathInv, AddressKept, AllResponses
  <2>2. n \in 1 .. block_tick /\ block_tick \in Nat
    BY <2>1, LenProperties DEF PathInv, InRounds
  <2>3. AllResponses[n].result = (n - 1) % 4 /\ AllResponses[n].block = (((n - 1) + 1) % 2 = 0)
    BY <2>2 DEF PathInv, InRounds, J!Result, J!Block
  <2>4. ((n - 1) + 1) % 2 = 0 <=> (n - 1) % 4 \in {1, 3}
    <3>1. PICK p \in Nat : p = n - 1
      BY <2>2
    <3>2. (p + 1) % 2 = 0 <=> (p % 4 = 1 \/ p % 4 = 3)
      OBVIOUS
    <3> QED
      BY <3>1, <3>2
  <2> QED
    BY <2>3, <2>4
<1> QED
  BY <1>1, PathHolds, PTL

\* A global path follows every third typed datagram and goes to its sender,
\* however many clients there are (jw/srv.cc:139-173).
THEOREM EveryThirdHasPath == J!Spec => []PathEveryThird
<1>1. PathInv => PathEveryThird
  <2> SUFFICES ASSUME PathInv
               PROVE  /\ Len(AllPaths) = Len(AllTyped) \div 3
                      /\ \A n \in DOMAIN AllPaths :
                             AllPaths[n].serverpathid = 3 * n /\ AllPaths[n].to = AllTyped[3 * n].from
    BY DEF PathEveryThird, J!PathEveryThird, AllPaths, AllTyped
  <2>1. AllPaths \in Seq(J!Paths)
    BY SelectType DEF PathInv, AddressKept, AllPaths
  <2>2. DOMAIN AllPaths = 1 .. Len(AllPaths)
    BY <2>1, LenProperties
  <2> QED
    BY <2>2 DEF PathInv, InThrees
<1> QED
  BY <1>1, PathHolds, PTL
=============================================================================
