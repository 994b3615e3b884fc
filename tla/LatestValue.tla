----------------------------- MODULE LatestValue -----------------------------
(***************************************************************************)
(* What Hk_Shm promises its users (tmp/tmp.h:91-95), without ring, checksum*)
(* or retry: a register that one writer sets to newer and newer values, and*)
(* any number of readers.  A value the writer offers shows at once or, if  *)
(* the writer is killed, never.  A reader gets the value that showed when  *)
(* it began, provided that it is young enough; one that too many values    *)
(* overtake may get none, or a newer one, never an older one.              *)
(***************************************************************************)
EXTENDS Integers

CONSTANTS
    Readers,
    MaxPuts,     \* bound: values offered
    Value,       \* the values, by number
    Young,       \* how old a value may be that a reader gets
    Start,       \* the clock at the beginning
    Lead         \* a read that at most so many values overtake gets its value

VARIABLES
    now,         \* the clock
    puts, born,  \* the values offered, and when
    published,   \* the one that shows
    reading,     \* the readers that are reading
    seen,        \* what showed when it began
    laps,        \* how many values have overtaken it, up to Lead + 2
    stamp,       \* when it looked at the clock
    answer       \* what it got at last: one value, or none

vars == <<now, puts, born, published, reading, seen, laps, stamp, answer>>

Init ==
    /\ now = Start
    /\ puts = 0 /\ born = [k \in 1 .. MaxPuts |-> 0]
    /\ published = 0
    /\ reading = {}
    /\ seen = [r \in Readers |-> 0]
    /\ laps = [r \in Readers |-> 0]
    /\ stamp = [r \in Readers |-> 0]
    /\ answer = [r \in Readers |-> {}]

Tick ==
    /\ now' = now + 1
    /\ UNCHANGED <<puts, born, published, reading, seen, laps, stamp, answer>>

Offer ==
    /\ puts < MaxPuts
    /\ puts' = puts + 1
    /\ born' = [born EXCEPT ![puts + 1] = now]
    /\ UNCHANGED <<now, published, reading, seen, laps, stamp, answer>>

\* The last value offered shows, whatever became of those before it.
Publish ==
    /\ published < puts
    /\ published' = puts
    /\ laps' = [r \in Readers |-> IF laps[r] < Lead + 2 THEN laps[r] + 1 ELSE Lead + 2]
    /\ UNCHANGED <<now, puts, born, reading, seen, stamp, answer>>

Begin(r) ==
    /\ r \notin reading
    /\ seen' = [seen EXCEPT ![r] = published]
    /\ laps' = [laps EXCEPT ![r] = 0]
    /\ \/ reading' = reading \cup {r} /\ UNCHANGED answer
       \/ published = 0 /\ answer' = [answer EXCEPT ![r] = {}] /\ UNCHANGED reading
    /\ UNCHANGED <<now, puts, born, published, stamp>>

Look(r) ==
    /\ r \in reading
    /\ stamp' = [stamp EXCEPT ![r] = now]
    /\ UNCHANGED <<now, puts, born, published, reading, seen, laps, answer>>

IsYoung(r) == seen[r] # 0 /\ stamp[r] - born[seen[r]] <= Young

Answer(r) ==
    /\ r \in reading
    /\ reading' = reading \ {r}
    /\ \E a \in {{}} \cup {{Value[k]} : k \in {n \in 1 .. puts : n >= seen[r]}} :
         /\ answer' = [answer EXCEPT ![r] = a]
         /\ laps[r] <= Lead => a = IF IsYoung(r) THEN {Value[seen[r]]} ELSE {}
    /\ UNCHANGED <<now, puts, born, published, seen, laps, stamp>>

\* A reader is killed.
Die(r) ==
    /\ r \in reading
    /\ reading' = reading \ {r}
    /\ UNCHANGED <<now, puts, born, published, seen, laps, stamp, answer>>

Next ==
    \/ Tick \/ Offer \/ Publish
    \/ \E r \in Readers : Begin(r) \/ Look(r) \/ Answer(r) \/ Die(r)

Spec == Init /\ [][Next]_vars
=============================================================================
