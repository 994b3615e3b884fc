------------------------------- MODULE HkShm -------------------------------
(***************************************************************************)
(* The shared-memory ring Hk_Shm (tmp/tmp.h, tmp/tmp.cc) through which one *)
(* process hands the latest robot positions to others: a helper block      *)
(* (tag1, tag2, version, index) and N = cache_buf_max slots, each a        *)
(* timestamp, a CRC and a payload.  There is no lock: processes attach     *)
(* (constructor), Put and Get at any speed, and may be killed and restarted*)
(* between any two stores.                                                 *)
(*                                                                         *)
(* A payload is the number of the Put that wrote it; memcpy moves it word  *)
(* by word in any order, so a slot can hold words of several Puts.  Stores *)
(* and loads take effect in program order, and a word, a timestamp, a CRC  *)
(* or the index is read and written in one step.                           *)
(*                                                                         *)
(* helper.index is a uint32_t that both calls put in an int.  A call whose *)
(* int is no slot goes astray: it accesses memory outside the ring, what   *)
(* becomes of it and of the segment is undefined, and the model ends there.*)
(***************************************************************************)
EXTENDS Integers, FiniteSets

CONSTANTS
    N,            \* cache_buf_max: slots in the ring
    Writers,      \* processes that call Put
    Readers,      \* processes that call Get
    Words,        \* the words of a payload that memcpy moves one at a time
    MaxPuts,      \* bound: Puts in a behaviour
    TimeRange,    \* Get's parameter time_range, in seconds
    Start,        \* the clock when the behaviour begins
    MaxTime,      \* bound: the clock stops there
    Wrap,         \* 2^32: the index and timestamps are uint32_t
    Crc32(_),     \* the checksum of a payload
    ZeroCrc,      \* the checksum field of a zeroed slot
    MaxCrashes,   \* bound: processes killed in a behaviour
    Fresh,        \* TRUE: the segment is new (all zero); FALSE: it has its tags
    InitIndexes   \* what helper.index may be in a segment that has its tags

Procs == Writers \cup Readers
Slots == 0 .. N-1
Data  == [Words -> 0 .. MaxPuts]
Crcs  == {Crc32(d) : d \in Data} \cup {ZeroCrc}
Times == 0 .. MaxTime

\* The payload of the k-th Put, whole; number 0 is zeroed memory.
Whole(k) == [w \in Words |-> k]

ASSUME RingAssumption ==
    /\ N \in Nat \ {0, 1, 2}
    /\ Writers \cap Readers = {}
    /\ MaxPuts \in Nat /\ MaxCrashes \in Nat
    /\ Fresh \in BOOLEAN
    /\ InitIndexes \subseteq 0 .. Wrap-1 /\ InitIndexes # {}

\* The size of the ring is an int.
ASSUME SizeAssumption == Wrap \in Nat /\ 2 * N < Wrap

\* The clock is far from the epoch (a zero timestamp is too old) and from 2^32.
ASSUME TimeAssumption ==
    /\ TimeRange \in Nat /\ Start \in Nat /\ MaxTime \in Nat
    /\ TimeRange < Start /\ Start <= MaxTime
    /\ MaxTime + TimeRange < Wrap

\* No mixture of payloads has the checksum of a whole one, nor has zero.
ASSUME CrcAssumption ==
    \A d \in Data :
        /\ Crc32(d) # ZeroCrc
        /\ \A k \in 0 .. MaxPuts : Crc32(d) = Crc32(Whole(k)) => d = Whole(k)

Tags == {"tag1", "tag2", "version"}

\* Where a process is: not attached, in the constructor, between calls, in a call,
\* in an access outside the ring.
PutSteps == {"p_index", "p_stamp", "p_crc", "p_copy"}
GetSteps == {"g_time", "g_stamp", "g_copy"}
PCs == {"out", "wipe", "tag1", "tag2", "version", "idle", "astray"}
         \cup PutSteps \cup GetSteps

VARIABLES
    now,        \* the system clock, in seconds
    tags,       \* the fields among Tags that hold the expected constant
    index,      \* helper.index
    slot,       \* agvs.wrapper
    pc, at, todo, stamp, buf, retry, mine,  \* the locals of the calls under way
    got,        \* what each reader's last Get returned
    puts, born, \* history: Puts begun, and the time each one read
    published,  \* history: the Put that stored helper.index last
    seen, laps, \* history: published at a Get's start, publications since
    crashes     \* how many processes were killed

shared == <<tags, index, slot>>
locals == <<pc, at, todo, stamp, buf, retry, mine>>
history == <<puts, born, published, seen, laps>>
vars == <<now, shared, locals, got, history, crashes>>

ZeroSlot == [ts |-> 0, crc |-> ZeroCrc, data |-> Whole(0)]

\* The pieces memset clears one at a time: the helper block and each slot.
Helper == -1
Pieces == Slots \cup {Helper}

NoResult == [tag |-> -2, payload |-> Whole(0)]

Init ==
    /\ now = Start
    /\ tags = IF Fresh THEN {} ELSE Tags
    /\ IF Fresh THEN index = 0 ELSE index \in InitIndexes
    /\ slot = [i \in Slots |-> ZeroSlot]
    /\ pc = [p \in Procs |-> "out"]
    /\ at = [p \in Procs |-> 0]
    /\ todo = [p \in Procs |-> {}]
    /\ stamp = [p \in Procs |-> 0]
    /\ buf = [r \in Readers |-> Whole(0)]
    /\ retry = [r \in Readers |-> FALSE]
    /\ mine = [w \in Writers |-> 0]
    /\ got = [r \in Readers |-> NoResult]
    /\ puts = 0
    /\ born = [k \in 1 .. MaxPuts |-> 0]
    /\ published = 0
    /\ seen = [r \in Readers |-> 0]
    /\ laps = [r \in Readers |-> 0]
    /\ crashes = 0

\* A uint32_t put in an int, and the remainder of an int by the ring's size, which
\* C rounds towards zero.
ToInt(u) == IF 2 * u < Wrap THEN u ELSE u - Wrap
Rem(n) == IF n >= 0 THEN n % N ELSE -((-n) % N)

-----------------------------------------------------------------------------
(* The clock, and processes that are killed. *)

Tick ==
    /\ now < MaxTime
    /\ now' = now + 1
    /\ UNCHANGED <<shared, locals, got, history, crashes>>

Crash(p) ==
    /\ pc[p] # "out"
    /\ crashes < MaxCrashes
    /\ crashes' = crashes + 1
    /\ pc' = [pc EXCEPT ![p] = "out"]
    /\ UNCHANGED <<now, shared, at, todo, stamp, buf, retry, mine, got, history>>

-----------------------------------------------------------------------------
(* The constructor: check the tags; if any is wrong clear the segment and   *)
(* then write the tags.                                                     *)

CtorCheck(p) ==
    /\ pc[p] = "out"
    /\ \/ /\ tags = Tags
          /\ pc' = [pc EXCEPT ![p] = "idle"]
          /\ UNCHANGED todo
       \/ /\ tags # Tags
          /\ pc' = [pc EXCEPT ![p] = "wipe"]
          /\ todo' = [todo EXCEPT ![p] = Pieces]
    /\ UNCHANGED <<now, shared, at, stamp, buf, retry, mine, got, history, crashes>>

CtorWipe(p, piece) ==
    /\ pc[p] = "wipe"
    /\ piece \in todo[p]
    /\ IF piece = Helper
       THEN tags' = {} /\ index' = 0 /\ UNCHANGED slot
       ELSE slot' = [slot EXCEPT ![piece] = ZeroSlot] /\ UNCHANGED <<tags, index>>
    /\ todo' = [todo EXCEPT ![p] = @ \ {piece}]
    /\ pc' = [pc EXCEPT ![p] = IF todo'[p] = {} THEN "tag1" ELSE "wipe"]
    /\ UNCHANGED <<now, at, stamp, buf, retry, mine, got, history, crashes>>

\* Mutant: the version is never written.
TagAfter_NoVersion(t) == IF t = "tag1" THEN "tag2" ELSE "idle"

\* What is written after a tag field.
TagAfter(t) == CASE t = "tag1" -> "tag2" [] t = "tag2" -> "version" [] OTHER -> "idle"

CtorTag(p) ==
    /\ pc[p] \in Tags
    /\ tags' = tags \cup {pc[p]}
    /\ pc' = [pc EXCEPT ![p] = TagAfter(pc[p])]
    /\ UNCHANGED <<now, index, slot, at, todo, stamp, buf, retry, mine, got,
                   history, crashes>>

-----------------------------------------------------------------------------
(* Put: checksum the payload and read the clock, read helper.index, fill    *)
(* the slot after it (timestamp, checksum, payload), store helper.index.    *)

PutStart(w) ==
    /\ pc[w] = "idle"
    /\ puts < MaxPuts
    /\ puts' = puts + 1
    /\ mine' = [mine EXCEPT ![w] = puts + 1]
    /\ stamp' = [stamp EXCEPT ![w] = now]
    /\ born' = [born EXCEPT ![puts + 1] = now]
    /\ pc' = [pc EXCEPT ![w] = "p_index"]
    /\ UNCHANGED <<now, shared, at, todo, buf, retry, got, published, seen, laps, crashes>>

\* Mutants: the index does not wrap, does not advance, advances by two.
SlotToFill_NoWrap  == ToInt((index + 1) % Wrap)
SlotToFill_Current == Rem(ToInt(index))
SlotToFill_Skip    == Rem(ToInt((index + 2) % Wrap))

SlotToFill == Rem(ToInt((index + 1) % Wrap))

PutIndex(w) ==
    /\ pc[w] = "p_index"
    /\ SlotToFill \in Slots
    /\ at' = [at EXCEPT ![w] = SlotToFill]
    /\ pc' = [pc EXCEPT ![w] = "p_stamp"]
    /\ UNCHANGED <<now, shared, todo, stamp, buf, retry, mine, got, history, crashes>>

PutAstray(w) ==
    /\ pc[w] = "p_index"
    /\ SlotToFill \notin Slots
    /\ pc' = [pc EXCEPT ![w] = "astray"]
    /\ UNCHANGED <<now, shared, at, todo, stamp, buf, retry, mine, got, history, crashes>>

PutStamp(w) ==
    /\ pc[w] = "p_stamp"
    /\ slot' = [slot EXCEPT ![at[w]].ts = stamp[w]]
    /\ pc' = [pc EXCEPT ![w] = "p_crc"]
    /\ UNCHANGED <<now, tags, index, at, todo, stamp, buf, retry, mine, got, history, crashes>>

PutCrc(w) ==
    /\ pc[w] = "p_crc"
    /\ slot' = [slot EXCEPT ![at[w]].crc = Crc32(Whole(mine[w]))]
    /\ todo' = [todo EXCEPT ![w] = Words]
    /\ pc' = [pc EXCEPT ![w] = "p_copy"]
    /\ UNCHANGED <<now, tags, index, at, stamp, buf, retry, mine, got, history, crashes>>

PutCopy(w, word) ==
    /\ pc[w] = "p_copy"
    /\ word \in todo[w]
    /\ slot' = [slot EXCEPT ![at[w]].data[word] = mine[w]]
    /\ todo' = [todo EXCEPT ![w] = @ \ {word}]
    /\ UNCHANGED <<now, tags, index, pc, at, stamp, buf, retry, mine, got, history, crashes>>

PutPublish(w) ==
    /\ pc[w] = "p_copy"
    /\ todo[w] = {}
    /\ index' = at[w]
    /\ pc' = [pc EXCEPT ![w] = "idle"]
    /\ published' = mine[w]
    /\ laps' = [r \in Readers |-> IF laps[r] < N THEN laps[r] + 1 ELSE N]
    /\ UNCHANGED <<now, tags, slot, at, todo, stamp, buf, retry, mine, got,
                   puts, born, seen, crashes>>

-----------------------------------------------------------------------------
(* Get: read helper.index, read the clock, check the slot's age, copy its   *)
(* payload and compare checksums; on a mismatch do the same, once, with the *)
(* slot before it.                                                          *)

Return(r, tag) ==
    /\ got' = [got EXCEPT ![r] = [tag |-> tag, payload |-> buf[r]]]
    /\ pc' = [pc EXCEPT ![r] = "idle"]

GetIndex(r) ==
    /\ pc[r] = "idle"
    /\ seen' = [seen EXCEPT ![r] = published]
    /\ laps' = [laps EXCEPT ![r] = 0]
    /\ retry' = [retry EXCEPT ![r] = FALSE]
    /\ \/ /\ ToInt(index) >= N
          /\ Return(r, -1)
          /\ UNCHANGED at
       \/ /\ ToInt(index) \in Slots
          /\ at' = [at EXCEPT ![r] = ToInt(index)]
          /\ pc' = [pc EXCEPT ![r] = "g_time"]
          /\ UNCHANGED got
    /\ UNCHANGED <<now, shared, todo, stamp, buf, mine, puts, born, published, crashes>>

\* The check at the start of Get lets a negative index pass.
GetAstray(r) ==
    /\ pc[r] = "idle"
    /\ ToInt(index) < 0
    /\ pc' = [pc EXCEPT ![r] = "astray"]
    /\ UNCHANGED <<now, shared, at, todo, stamp, buf, retry, mine, got, history, crashes>>

GetTime(r) ==
    /\ pc[r] = "g_time"
    /\ stamp' = [stamp EXCEPT ![r] = now]
    /\ pc' = [pc EXCEPT ![r] = "g_stamp"]
    /\ UNCHANGED <<now, shared, at, todo, buf, retry, mine, got, history, crashes>>

\* uint32_t subtraction: a timestamp later than the reader's clock is very old.
Age(r) == (stamp[r] - slot[at[r]].ts) % Wrap

GetStale(r) ==
    /\ pc[r] = "g_stamp"
    /\ Age(r) > TimeRange
    /\ Return(r, -1)
    /\ UNCHANGED <<now, shared, at, todo, stamp, buf, retry, mine, history, crashes>>

GetStamp(r) ==
    /\ pc[r] = "g_stamp"
    /\ Age(r) <= TimeRange
    /\ todo' = [todo EXCEPT ![r] = Words]
    /\ pc' = [pc EXCEPT ![r] = "g_copy"]
    /\ UNCHANGED <<now, shared, at, stamp, buf, retry, mine, got, history, crashes>>

GetCopy(r, word) ==
    /\ pc[r] = "g_copy"
    /\ word \in todo[r]
    /\ buf' = [buf EXCEPT ![r][word] = slot[at[r]].data[word]]
    /\ todo' = [todo EXCEPT ![r] = @ \ {word}]
    /\ UNCHANGED <<now, shared, pc, at, stamp, retry, mine, got, history, crashes>>

\* Mutants: the second checksum is not compared; neither is.
CrcMatches_OnceOnly(r) == retry[r] \/ Crc32(buf[r]) = slot[at[r]].crc
CrcMatches_Never(r)    == r \in Readers

CrcMatches(r) == Crc32(buf[r]) = slot[at[r]].crc

GetOk(r) ==
    /\ pc[r] = "g_copy"
    /\ todo[r] = {}
    /\ CrcMatches(r)
    /\ Return(r, 0)
    /\ UNCHANGED <<now, shared, at, todo, stamp, buf, retry, mine, history, crashes>>

GetRetry(r) ==
    /\ pc[r] = "g_copy"
    /\ todo[r] = {}
    /\ ~CrcMatches(r)
    /\ ~retry[r]
    /\ retry' = [retry EXCEPT ![r] = TRUE]
    /\ at' = [at EXCEPT ![r] = IF @ = 0 THEN N-1 ELSE @ - 1]
    /\ pc' = [pc EXCEPT ![r] = "g_stamp"]
    /\ UNCHANGED <<now, shared, todo, stamp, buf, mine, got, history, crashes>>

GetFail(r) ==
    /\ pc[r] = "g_copy"
    /\ todo[r] = {}
    /\ ~CrcMatches(r)
    /\ retry[r]
    /\ Return(r, -1)
    /\ UNCHANGED <<now, shared, at, todo, stamp, buf, retry, mine, history, crashes>>

-----------------------------------------------------------------------------
Ctor(p) == CtorCheck(p) \/ (\E piece \in Pieces : CtorWipe(p, piece)) \/ CtorTag(p)

Put(w) ==
    \/ PutStart(w) \/ PutIndex(w) \/ PutAstray(w) \/ PutStamp(w) \/ PutCrc(w)
    \/ \E word \in Words : PutCopy(w, word)
    \/ PutPublish(w)

Get(r) ==
    \/ GetIndex(r) \/ GetAstray(r) \/ GetTime(r) \/ GetStale(r) \/ GetStamp(r)
    \/ \E word \in Words : GetCopy(r, word)
    \/ GetOk(r) \/ GetRetry(r) \/ GetFail(r)

\* What follows an access outside the ring is not modelled.
Next ==
    /\ \A p \in Procs : pc[p] # "astray"
    /\ \/ Tick
       \/ \E p \in Procs : Ctor(p) \/ Crash(p)
       \/ \E w \in Writers : Put(w)
       \/ \E r \in Readers : Get(r)

Spec == Init /\ [][Next]_vars

-----------------------------------------------------------------------------
(* Properties. *)

\* Every variable holds a value of its type.
TypeOK ==
    /\ now \in Times
    /\ tags \subseteq Tags
    /\ index \in 0 .. Wrap-1
    /\ slot \in [Slots -> [ts : Times, crc : Crcs, data : Data]]
    /\ pc \in [Procs -> PCs]
    /\ at \in [Procs -> Slots]
    /\ todo \in [Procs -> SUBSET (Pieces \cup Words)]
    /\ stamp \in [Procs -> Times]
    /\ buf \in [Readers -> Data]
    /\ retry \in [Readers -> BOOLEAN]
    /\ mine \in [Writers -> 0 .. MaxPuts]
    /\ got \in [Readers -> [tag : {-2, -1, 0}, payload : Data]]
    /\ puts \in 0 .. MaxPuts
    /\ born \in [1 .. MaxPuts -> Times]
    /\ published \in 0 .. MaxPuts
    /\ seen \in [Readers -> 0 .. MaxPuts]
    /\ laps \in [Readers -> 0 .. N]
    /\ crashes \in 0 .. MaxCrashes

\* No Put and no Get accesses memory outside the ring, as long as the segment was
\* written by builds of this code: whatever the size of their ring was, an int,
\* the index they left and the one after it fit in an int, so neither call makes
\* a negative number of it (tmp.cc:276-277, 329-330).
StaysInRing == \A p \in Procs : pc[p] # "astray"

\* What Get returns with 0 is a payload one Put wrote, whole: never zeroed
\* memory, never words of two Puts, whatever the number of writers, the
\* constructors that clear the segment meanwhile and the processes killed in
\* the middle of a Put (the checksum and the retry, tmp.cc:293-314).
NoTornRead ==
    \A r \in Readers :
        got[r].tag = 0 => \E k \in 1 .. puts : got[r].payload = Whole(k)

\* One slot back in the ring.
Before(i) == IF i = 0 THEN N-1 ELSE i - 1

\* With one writer no step stores into the slot helper.index names, nor into
\* the one before it, which a Get falls back to: the two slots a reader may
\* turn to are complete, also after the writer is killed in a Put and attaches
\* again (tmp.cc:329-337).
PublishedStable ==
    [][index < N => /\ slot'[index] = slot[index]
                    /\ slot'[Before(index)] = slot[Before(index)]]_vars

\* A Get of r that found a slot to look at returns in this step.
Returns(r) == pc[r] \in GetSteps /\ pc'[r] = "idle"

\* What Get promises (tmp.h:91-95), with one writer and a segment that has its
\* tags: if at most N-2 Puts were published since it read helper.index, then it
\* returns 0 and exactly the payload published when it began, provided that is
\* no older than time_range, and -1 if that is older or nothing was published.
GetContract ==
    [][\A r \in Readers : Returns(r) /\ laps[r] <= N-2 =>
         IF seen[r] # 0 /\ stamp[r] - born[seen[r]] <= TimeRange
         THEN got'[r] = [tag |-> 0, payload |-> Whole(seen[r])]
         ELSE got'[r].tag = -1]_vars

\* What a reader's last Get gave it.
Given(r) == IF got[r].tag = 0 THEN {got[r].payload} ELSE {}

Latest == INSTANCE LatestValue WITH
    Value   <- [k \in 1 .. MaxPuts |-> Whole(k)],
    Young   <- TimeRange,
    Lead    <- N - 2,
    reading <- {r \in Readers : pc[r] \in GetSteps},
    stamp   <- [r \in Readers |-> stamp[r]],
    answer  <- [r \in Readers |-> Given(r)]

\* One writer and any number of readers, killed and restarted at any step,
\* implement LatestValue: in the ring each publication shows at once and stays,
\* nothing half written or older ever shows, and every Get, also one that was
\* lapped, ends in a whole payload that was Put, none older than what was
\* published when it began, or in -1 (tmp.cc:273-340).
ActsAsLatestValue == Latest!Spec

\* Constructors that race over a new segment (tmp.h:78-85): each may undo what
\* the other wrote, yet once none is under way and none was killed, every
\* process that attached finds the tags of a valid segment.
TagsSettle ==
    (/\ crashes = 0
     /\ \E p \in Procs : pc[p] # "out"
     /\ \A p \in Procs : pc[p] \notin Tags \cup {"wipe"})
    => tags = Tags

\* tmp.h:93 "time_range ... how many seconds old the data may be": a payload
\* returned with 0 was Put at most time_range seconds before Get read the clock.
FreshPayload ==
    [][\A r \in Readers : Returns(r) /\ got'[r].tag = 0 =>
         \E k \in 1 .. puts : /\ got'[r].payload = Whole(k)
                              /\ stamp[r] - born[k] <= TimeRange]_vars

=============================================================================
