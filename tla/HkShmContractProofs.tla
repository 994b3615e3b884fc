------------------------ MODULE HkShmContractProofs ------------------------
(***************************************************************************)
(* What Get promises when one process Puts and the segment already has its *)
(* tags, for every ring size, number of readers, words, Puts and crashes.  *)
(*                                                                         *)
(* GetContract is not inductive.  SoloInv adds what makes it so: where the *)
(* writer is filling (Filling), that the slot helper.index names is always *)
(* complete (Current), and how far the ring has moved under a Get: while at*)
(* most N-2 Puts were published, the reader's slot is laps slots behind    *)
(* helper.index and still holds what was published at the start (Reading). *)
(* With it, and with AheadInv for Gets that were lapped, the ring is shown *)
(* to implement the register LatestValue.                                  *)
(***************************************************************************)
EXTENDS HkShmProofs

\* The slot the k-th Put leaves behind; k = 0 is the zeroed slot.
Complete(k) == IF k = 0 THEN ZeroSlot
               ELSE [ts |-> born[k], crc |-> Crc32(Whole(k)), data |-> Whole(k)]

\* Nobody constructs over a segment that has its tags.
Settled == tags = Tags /\ \A p \in Procs : pc[p] \notin Tags \cup {"wipe"}

\* The clock never runs behind what was stamped with it.
Clock == /\ now >= Start
         /\ published <= puts
         /\ \A r \in Readers : seen[r] <= puts
         /\ \A k \in 1 .. puts : born[k] <= now

\* The slot helper.index names is complete.
Current == /\ published # 0 => index < N
           /\ index < N => slot[index] = Complete(published)

\* A writer fills the slot after helper.index, field by field.
Filling ==
    \A w \in Writers :
        /\ pc[w] \in PutSteps => mine[w] \in 1 .. puts /\ stamp[w] = born[mine[w]]
        /\ pc[w] \in PutSteps \ {"p_index"} => at[w] = SlotToFill
        /\ pc[w] \in {"p_crc", "p_copy"} => slot[at[w]].ts = stamp[w]
        /\ pc[w] = "p_copy" =>
              /\ slot[at[w]].crc = Crc32(Whole(mine[w]))
              /\ \A x \in Words \ todo[w] : slot[at[w]].data[x] = mine[w]

\* A Get under way that was not lapped looks at the payload published when it
\* began, and has copied words of that payload only.
NotLapped(r) == pc[r] \in GetSteps /\ laps[r] <= N-2

Reading ==
    \A r \in Readers : NotLapped(r) =>
        /\ index = IF at[r] + laps[r] < N THEN at[r] + laps[r] ELSE at[r] + laps[r] - N
        /\ slot[at[r]] = Complete(seen[r])
        /\ ~retry[r]
        /\ pc[r] # "g_time" => stamp[r] >= IF seen[r] = 0 THEN Start ELSE born[seen[r]]
        /\ pc[r] = "g_copy" =>
              /\ seen[r] # 0 /\ stamp[r] - born[seen[r]] <= TimeRange
              /\ \A x \in Words \ todo[r] : buf[r][x] = seen[r]

SoloInv == Settled /\ Clock /\ Current /\ Filling /\ Reading

-----------------------------------------------------------------------------
\* The slot after the last one is the first.
LEMMA NextSlot ==
  ASSUME index \in Slots
  PROVE  SlotToFill = IF index = N-1 THEN 0 ELSE index + 1
<1>1. index \in 0 .. N-1 /\ index + 1 \in Nat /\ N \in Nat \ {0}
  BY RingAssumption DEF Slots
<1>2. ToInt((index + 1) % Wrap) = index + 1
  BY IndexArithmetic
<1>3. SlotToFill = (index + 1) % N
  BY <1>1, <1>2, RemArithmetic DEF SlotToFill
<1> QED
  BY <1>1, <1>3

\* An age that is not negative is not wrapped.
LEMMA NoWrap == \A a \in Times : a % Wrap = a
  BY TimeAssumption, SizeAssumption DEF Times

\* The two ways a Get goes on from helper.index.
LEMMA GetIndexCases ==
  ASSUME TypeOK, NEW r \in Readers, GetIndex(r)
  PROVE  \/ /\ index >= N
            /\ Return(r, -1) /\ UNCHANGED at
         \/ /\ index < N /\ index \in Slots
            /\ at' = [at EXCEPT ![r] = index]
            /\ pc' = [pc EXCEPT ![r] = "g_time"]
            /\ UNCHANGED got
<1>1. CASE /\ ToInt(index) >= N
           /\ Return(r, -1) /\ UNCHANGED at
  <2>1. index >= N
    BY <1>1, RingAssumption, SizeAssumption DEF ToInt, TypeOK
  <2> QED
    BY <1>1, <2>1
<1>2. CASE /\ ToInt(index) \in Slots
           /\ at' = [at EXCEPT ![r] = ToInt(index)]
           /\ pc' = [pc EXCEPT ![r] = "g_time"]
           /\ UNCHANGED got
  <2>1. ToInt(index) = index /\ index \in 0 .. N-1
    BY <1>2, IndexArithmetic DEF TypeOK, Slots
  <2> QED
    BY <1>2, <2>1, RingAssumption
<1> QED
  BY <1>1, <1>2 DEF GetIndex

\* The writer's slot is neither the current one nor that of a Get not lapped.
LEMMA Elsewhere ==
  ASSUME TypeOK, SoloInv, NEW w \in Writers, pc[w] \in PutSteps \ {"p_index"}
  PROVE  /\ index < N => at[w] # index /\ at[w] # Before(index)
         /\ \A r \in Readers : NotLapped(r) => at[w] # at[r]
<1>1. at[w] = SlotToFill
  BY DEF SoloInv, Filling
<1>2. index < N => index \in Slots /\ at[w] = IF index = N-1 THEN 0 ELSE index + 1
  BY <1>1, NextSlot, RingAssumption DEF TypeOK, Slots
<1>3. index < N => at[w] # index /\ at[w] # Before(index)
  BY <1>2, RingAssumption DEF Before, Slots
<1>4. ASSUME NEW r \in Readers, NotLapped(r) PROVE at[w] # at[r]
  <2>1. /\ at[r] \in 0 .. N-1 /\ laps[r] \in 0 .. N-2 /\ N \in Nat
        /\ index = IF at[r] + laps[r] < N THEN at[r] + laps[r] ELSE at[r] + laps[r] - N
    BY <1>4, RingAssumption DEF TypeOK, SoloInv, Reading, NotLapped, Slots, Procs
  <2>2. index < N
    BY <2>1
  <2> QED
    BY <1>2, <2>1, <2>2
<1> QED
  BY <1>3, <1>4

LEMMA InitSolo == ASSUME ~Fresh PROVE Init => SoloInv
<1> SUFFICES ASSUME Init PROVE SoloInv
  OBVIOUS
<1> USE DEF Init
<1>1. Settled
  <2>1. tags = Tags
    OBVIOUS
  <2> QED
    BY <2>1 DEF Settled, Tags
<1>2. Clock
  BY TimeAssumption DEF Clock
<1>3. Current
  <2>1. index \in Nat
    BY InitType, SizeAssumption DEF TypeOK, Init
  <2>2. index < N => index \in Slots
    BY <2>1, RingAssumption DEF Slots
  <2> QED
    BY <2>2 DEF Current, Complete
<1>4. Filling
  BY DEF Filling, PutSteps, Procs
<1>5. Reading
  BY DEF Reading, NotLapped, GetSteps, Procs
<1> QED
  BY <1>1, <1>2, <1>3, <1>4, <1>5 DEF SoloInv

\* Steps that leave the ring, the history and every Put and Get under way alone.
LEMMA Frame ==
  ASSUME TypeOK, SoloInv,
         UNCHANGED <<shared, history, at, stamp, buf, retry, mine>>,
         now' >= now, now' \in Times,
         \A p \in Procs : \/ pc'[p] = pc[p] /\ todo'[p] = todo[p]
                          \/ pc'[p] \in {"out", "idle", "astray"}
  PROVE  SoloInv'
<1> USE DEF SoloInv, shared, history
<1>1. Settled'
  <2>1. \A p \in Procs : pc'[p] = pc[p] \/ pc'[p] \in {"out", "idle", "astray"}
    OBVIOUS
  <2> QED
    BY <2>1 DEF Settled, Tags
<1>2. Clock'
  <2>1. \A k \in 1 .. puts : born[k] \in Nat
    BY RingAssumption, TimeAssumption DEF TypeOK, Times
  <2>2. now \in Nat /\ now' \in Nat /\ Start \in Nat
    BY TimeAssumption DEF TypeOK, Times
  <2> QED
    BY <2>1, <2>2 DEF Clock
<1>3. Current'
  BY DEF Current, Complete
<1>4. Filling'
  BY DEF Filling, PutSteps, Procs, SlotToFill
<1>5. Reading'
  BY DEF Reading, NotLapped, GetSteps, Complete, Procs
<1> QED
  BY <1>1, <1>2, <1>3, <1>4, <1>5

\* A process that goes astray is in no call whose state matters.
LEMMA SoloAstray ==
  ASSUME TypeOK, SoloInv, NEW p \in Procs, PutAstray(p) \/ GetAstray(p)
  PROVE  SoloInv'
<1>1. pc' = [pc EXCEPT ![p] = "astray"] /\ todo' = todo
  BY DEF PutAstray, GetAstray
<1>2. UNCHANGED <<now, shared, history, at, stamp, buf, retry, mine>>
  BY DEF PutAstray, GetAstray
<1>3. now' >= now /\ now' \in Times
  BY <1>2, TimeAssumption DEF TypeOK, Times
<1>4. \A q \in Procs : \/ pc'[q] = pc[q] /\ todo'[q] = todo[q]
                       \/ pc'[q] \in {"out", "idle", "astray"}
  BY <1>1 DEF TypeOK
<1> QED
  BY <1>2, <1>3, <1>4, Frame

-----------------------------------------------------------------------------
(* The steps of the one writer.                                            *)

\* A number already given out keeps its complete slot when a Put starts.
LEMMA SoloPutStart ==
  ASSUME TypeOK, SoloInv, NEW w \in Writers, Writers = {w}, PutStart(w)
  PROVE  SoloInv'
<1> USE DEF SoloInv, PutStart, shared
<1>1. /\ puts \in Nat /\ puts' = puts + 1 /\ puts' \in 1 .. MaxPuts
      /\ born \in [1 .. MaxPuts -> Times] /\ now \in Nat
  BY RingAssumption, TimeAssumption DEF TypeOK, Times
<1>2. born'[puts'] = now /\ \A k \in 1 .. puts : born'[k] = born[k]
  BY <1>1
<1>3. \A k \in 0 .. puts : Complete(k)' = Complete(k)
  BY <1>2 DEF Complete
<1>4. published \in 0 .. puts /\ \A r \in Readers : seen[r] \in 0 .. puts
  BY <1>1, RingAssumption DEF Clock, TypeOK
<1>5. Settled'
  BY DEF Settled, Tags, TypeOK
<1>6. Clock'
  BY <1>1, <1>2, <1>4 DEF Clock
<1>7. Current'
  BY <1>3, <1>4 DEF Current
<1>8. Filling'
  BY <1>1, <1>2 DEF Filling, PutSteps, TypeOK, Procs
<1>9. Reading'
  <2>1. \A r \in Readers : r # w /\ pc'[r] = pc[r] /\ stamp'[r] = stamp[r]
    BY RingAssumption DEF TypeOK, Procs
  <2>2. \A r \in Readers : seen[r] # 0 => born'[seen[r]] = born[seen[r]]
    BY <1>2, <1>4
  <2> QED
    BY <1>3, <1>4, <2>1, <2>2 DEF Reading, NotLapped
<1> QED
  BY <1>5, <1>6, <1>7, <1>8, <1>9

LEMMA SoloPutIndex ==
  ASSUME TypeOK, SoloInv, NEW w \in Writers, Writers = {w}, PutIndex(w)
  PROVE  SoloInv'
<1> USE DEF SoloInv, PutIndex, SlotToFill, shared, history
<1>1. Settled'
  BY DEF Settled, Tags, TypeOK
<1>2. Clock' /\ Current'
  BY DEF Clock, Current, Complete
<1>3. Filling'
  BY DEF Filling, PutSteps, TypeOK, Procs
<1>4. \A r \in Readers : r # w /\ pc'[r] = pc[r] /\ at'[r] = at[r]
  BY RingAssumption DEF TypeOK, Procs
<1>5. Reading'
  BY <1>4 DEF Reading, NotLapped, Complete
<1> QED
  BY <1>1, <1>2, <1>3, <1>5

\* A store into the writer's slot leaves every slot that matters to others.
LEMMA SoloStore ==
  ASSUME TypeOK, SoloInv, NEW w \in Writers, Writers = {w},
         pc[w] \in PutSteps \ {"p_index"}, pc'[w] \in PutSteps \ {"p_index"},
         \A i \in Slots : i # at[w] => slot'[i] = slot[i],
         \A p \in Procs : p # w => pc'[p] = pc[p] /\ todo'[p] = todo[p],
         UNCHANGED <<now, tags, index, at, stamp, buf, retry, mine, history>>
  PROVE  Settled' /\ Clock' /\ Current' /\ Reading'
<1> USE DEF SoloInv, history
<1>1. Settled'
  BY DEF Settled, Tags, PutSteps
<1>2. Clock'
  BY DEF Clock
<1>3. Current'
  <2>1. index < N => index \in Slots /\ at[w] # index
    BY Elsewhere, RingAssumption DEF TypeOK, Slots
  <2> QED
    BY <2>1 DEF Current, Complete
<1>4. Reading'
  <2>1. \A r \in Readers : /\ r \in Procs /\ r # w /\ at[r] \in Slots
                           /\ pc'[r] = pc[r] /\ todo'[r] = todo[r]
    BY RingAssumption DEF TypeOK, Procs
  <2>2. \A r \in Readers : NotLapped(r) => slot'[at[r]] = slot[at[r]]
    BY <2>1, Elsewhere
  <2> QED
    BY <2>1, <2>2 DEF Reading, NotLapped, Complete
<1> QED
  BY <1>1, <1>2, <1>3, <1>4

LEMMA SoloPutStamp ==
  ASSUME TypeOK, SoloInv, NEW w \in Writers, Writers = {w}, PutStamp(w)
  PROVE  SoloInv'
<1> USE DEF PutStamp, history, PutSteps
<1>1. at[w] \in Slots /\ w \in Procs
  BY DEF TypeOK, Procs
<1>2. Settled' /\ Clock' /\ Current' /\ Reading'
  BY <1>1, SoloStore DEF TypeOK
<1>3. Filling'
  BY <1>1 DEF SoloInv, Filling, SlotToFill, TypeOK
<1> QED
  BY <1>2, <1>3 DEF SoloInv

LEMMA SoloPutCrc ==
  ASSUME TypeOK, SoloInv, NEW w \in Writers, Writers = {w}, PutCrc(w)
  PROVE  SoloInv'
<1> USE DEF PutCrc, history, PutSteps
<1>1. at[w] \in Slots /\ w \in Procs
  BY DEF TypeOK, Procs
<1>2. Settled' /\ Clock' /\ Current' /\ Reading'
  BY <1>1, SoloStore DEF TypeOK
<1>3. Filling'
  BY <1>1 DEF SoloInv, Filling, SlotToFill, TypeOK
<1> QED
  BY <1>2, <1>3 DEF SoloInv

LEMMA SoloPutCopy ==
  ASSUME TypeOK, SoloInv, NEW w \in Writers, Writers = {w},
         NEW word \in Words, PutCopy(w, word)
  PROVE  SoloInv'
<1> USE DEF PutCopy, history, PutSteps
<1>1. at[w] \in Slots /\ w \in Procs
  BY DEF TypeOK, Procs
<1>2. Settled' /\ Clock' /\ Current' /\ Reading'
  BY <1>1, SoloStore DEF TypeOK
<1>3. /\ slot'[at[w]].ts = slot[at[w]].ts /\ slot'[at[w]].crc = slot[at[w]].crc
      /\ slot'[at[w]].data = [slot[at[w]].data EXCEPT ![word] = mine[w]]
      /\ slot[at[w]].data \in [Words -> 0 .. MaxPuts]
  BY <1>1 DEF TypeOK, Data
<1>4. todo'[w] = todo[w] \ {word}
  BY <1>1 DEF TypeOK
<1>5. Filling'
  BY <1>1, <1>3, <1>4 DEF SoloInv, Filling, SlotToFill
<1> QED
  BY <1>2, <1>5 DEF SoloInv

\* The slot the writer publishes is complete, and every Get under way falls one
\* more slot behind.
LEMMA SoloPutPublish ==
  ASSUME TypeOK, SoloInv, NEW w \in Writers, Writers = {w}, PutPublish(w)
  PROVE  SoloInv'
<1> USE DEF PutPublish
<1>1. at[w] \in Slots /\ w \in Procs /\ pc'[w] = "idle"
      /\ \A r \in Readers : r # w /\ pc'[r] = pc[r]
  BY RingAssumption DEF TypeOK, Procs
<1>2. /\ mine[w] \in 1 .. puts /\ at[w] = SlotToFill
      /\ slot[at[w]].ts = born[mine[w]] /\ slot[at[w]].crc = Crc32(Whole(mine[w]))
      /\ \A x \in Words : slot[at[w]].data[x] = mine[w]
  BY DEF SoloInv, Filling, PutSteps
<1>3. slot[at[w]] = Complete(mine[w])
  <2>1. slot[at[w]] \in [ts : Times, crc : Crcs, data : Data]
    BY <1>1 DEF TypeOK
  <2>2. slot[at[w]].data = Whole(mine[w])
    BY <1>2, <2>1 DEF Whole, Data
  <2> QED
    BY <1>2, <2>1, <2>2 DEF Complete
<1>4. Settled'
  BY <1>1 DEF SoloInv, Settled, Tags, TypeOK
<1>5. Clock'
  BY <1>2, RingAssumption DEF SoloInv, Clock, TypeOK
<1>6. Current'
  BY <1>1, <1>2, <1>3, RingAssumption DEF Current, Complete, Slots
<1>7. Filling'
  BY <1>1 DEF Filling, PutSteps
<1>8. Reading'
  <2>1. SUFFICES ASSUME NEW r \in Readers, NotLapped(r)'
                 PROVE  /\ index' = IF at[r] + laps'[r] < N THEN at[r] + laps'[r]
                                    ELSE at[r] + laps'[r] - N
                        /\ NotLapped(r)
    BY <1>1 DEF SoloInv, Reading, NotLapped, Complete
  <2>2. /\ laps[r] \in 0 .. N /\ laps'[r] <= N-2 /\ N \in Nat /\ at[r] \in 0 .. N-1
        /\ laps'[r] = IF laps[r] < N THEN laps[r] + 1 ELSE N
    BY <2>1, RingAssumption DEF NotLapped, TypeOK, Procs, Slots
  <2>3. laps'[r] = laps[r] + 1 /\ laps[r] <= N-3
    BY <2>2
  <2>4. NotLapped(r)
    BY <1>1, <2>1, <2>2, <2>3 DEF NotLapped
  <2>5. index = IF at[r] + laps[r] < N THEN at[r] + laps[r] ELSE at[r] + laps[r] - N
    BY <2>4 DEF SoloInv, Reading
  <2>6. index \in Slots
    BY <2>2, <2>3, <2>5, RingAssumption DEF Slots
  <2>7. index' = IF index = N-1 THEN 0 ELSE index + 1
    BY <1>2, <2>6, NextSlot
  <2> QED
    BY <2>2, <2>3, <2>4, <2>5, <2>7
<1> QED
  BY <1>4, <1>5, <1>6, <1>7, <1>8 DEF SoloInv

-----------------------------------------------------------------------------
(* The steps of a reader.                                                  *)

\* A step of a reader keeps all but what concerns that reader's Get.
LEMMA SoloGet ==
  ASSUME TypeOK, SoloInv, NEW r \in Readers,
         UNCHANGED <<now, shared, mine, puts, born, published>>,
         seen'[r] \in 0 .. published \/ seen'[r] = seen[r],
         pc'[r] \in GetSteps \cup {"idle"},
         \A p \in Procs : p # r => /\ pc'[p] = pc[p] /\ at'[p] = at[p]
                                   /\ todo'[p] = todo[p] /\ stamp'[p] = stamp[p],
         \A q \in Readers : q # r => /\ buf'[q] = buf[q] /\ retry'[q] = retry[q]
                                     /\ seen'[q] = seen[q] /\ laps'[q] = laps[q]
  PROVE  /\ Settled' /\ Clock' /\ Current' /\ Filling'
         /\ \A q \in Readers : q # r /\ NotLapped(q)' => NotLapped(q)
         /\ \A q \in Readers : q # r => q \in Procs
<1> USE DEF SoloInv, shared
<1>1. Settled'
  BY DEF Settled, Tags, GetSteps
<1>2. Clock'
  <2>1. published <= puts /\ published \in Nat /\ puts \in Nat /\ seen[r] <= puts
    BY RingAssumption DEF Clock, TypeOK
  <2>2. seen'[r] <= puts
    BY <2>1
  <2>3. \A q \in Readers : seen'[q] <= puts
    BY <2>2 DEF Clock
  <2> QED
    BY <2>3 DEF Clock
<1>3. Current'
  BY DEF Current, Complete
<1>4. Filling'
  <2>1. \A w \in Writers : w \in Procs /\ w # r
    BY RingAssumption DEF Procs
  <2> QED
    BY <2>1 DEF Filling, SlotToFill
<1>5. \A q \in Readers : q # r /\ NotLapped(q)' => NotLapped(q)
  BY DEF NotLapped, Procs
<1> QED
  BY <1>1, <1>2, <1>3, <1>4, <1>5 DEF Procs

\* A Get starts at helper.index, with the payload published there.
LEMMA SoloGetIndex ==
  ASSUME TypeOK, SoloInv, NEW r \in Readers, GetIndex(r)
  PROVE  SoloInv'
<1> USE DEF GetIndex, Return, history, shared
<1>1. r \in Procs /\ pc'[r] \in {"g_time", "idle"} /\ seen'[r] = published /\ laps'[r] = 0
      /\ retry'[r] = FALSE
  BY DEF TypeOK, Procs
<1>2. /\ Settled' /\ Clock' /\ Current' /\ Filling'
      /\ \A q \in Readers : q # r /\ NotLapped(q)' => NotLapped(q)
      /\ \A q \in Readers : q # r => q \in Procs
  <2>1. published \in 0 .. published
    BY DEF TypeOK
  <2> QED
    BY <1>1, <2>1, SoloGet DEF TypeOK, GetSteps
<1>3. ASSUME NEW q \in Readers, q # r, NotLapped(q)'
      PROVE  /\ pc'[q] = pc[q] /\ at'[q] = at[q] /\ todo'[q] = todo[q] /\ stamp'[q] = stamp[q]
             /\ buf'[q] = buf[q] /\ retry'[q] = retry[q] /\ seen'[q] = seen[q]
             /\ laps'[q] = laps[q] /\ NotLapped(q)
  BY <1>2, <1>3 DEF TypeOK
<1>4. ASSUME NotLapped(r)' PROVE at'[r] = index /\ index \in Slots /\ pc'[r] = "g_time"
  BY <1>1, <1>4, GetIndexCases DEF NotLapped, GetSteps, TypeOK
<1>5. ASSUME NotLapped(r)' PROVE slot'[at'[r]] = Complete(published)'
  <2>1. slot[index] = Complete(published)
    BY <1>4, <1>5, RingAssumption DEF SoloInv, Current, Slots
  <2> QED
    BY <1>4, <1>5, <2>1 DEF Complete
<1>6. Reading'
  BY <1>1, <1>3, <1>4, <1>5, RingAssumption DEF SoloInv, Reading, Complete, Slots
<1> QED
  BY <1>2, <1>6 DEF SoloInv

\* The clock is not behind the timestamp of the payload that Get looks at.
LEMMA SoloGetTime ==
  ASSUME TypeOK, SoloInv, NEW r \in Readers, GetTime(r)
  PROVE  SoloInv'
<1> USE DEF GetTime, history, shared
<1>1. r \in Procs /\ pc'[r] = "g_stamp" /\ stamp'[r] = now
  BY DEF TypeOK, Procs
<1>2. /\ Settled' /\ Clock' /\ Current' /\ Filling'
      /\ \A q \in Readers : q # r /\ NotLapped(q)' => NotLapped(q)
      /\ \A q \in Readers : q # r => q \in Procs
  BY <1>1, SoloGet DEF TypeOK, GetSteps
<1>3. NotLapped(r)' => NotLapped(r)
  BY <1>1 DEF NotLapped, GetSteps
<1>4. now >= IF seen[r] = 0 THEN Start ELSE born[seen[r]]
  BY RingAssumption DEF SoloInv, Clock, TypeOK
<1>5. Reading'
  BY <1>1, <1>2, <1>3, <1>4 DEF SoloInv, Reading, NotLapped, Complete, TypeOK
<1> QED
  BY <1>2, <1>5 DEF SoloInv

\* While a Get is not lapped its slot has the age of the payload it looks at;
\* a slot never published looks too old.
LEMMA SoloAge ==
  ASSUME TypeOK, SoloInv, NEW r \in Readers, NotLapped(r), pc[r] # "g_time"
  PROVE  Age(r) <= TimeRange <=> seen[r] # 0 /\ stamp[r] - born[seen[r]] <= TimeRange
<1>1. /\ stamp[r] \in 0 .. MaxTime /\ r \in Procs /\ MaxTime \in Nat
      /\ Start \in Nat /\ TimeRange < Start
  BY TimeAssumption DEF TypeOK, Procs, Times
<1>2. stamp[r] >= IF seen[r] = 0 THEN Start ELSE born[seen[r]]
  BY DEF SoloInv, Reading
<1>3. slot[at[r]] = Complete(seen[r])
  BY DEF SoloInv, Reading
<1>4. CASE seen[r] = 0
  <2>1. slot[at[r]].ts = 0
    BY <1>3, <1>4 DEF Complete, ZeroSlot
  <2>2. Age(r) = stamp[r]
    BY <1>1, <2>1, NoWrap DEF Age, Times
  <2> QED
    BY <1>1, <1>2, <1>4, <2>2, TimeAssumption
<1>5. CASE seen[r] # 0
  <2>1. slot[at[r]].ts = born[seen[r]]
    BY <1>3, <1>5 DEF Complete
  <2>2. born[seen[r]] \in 0 .. MaxTime
    BY <1>5, RingAssumption DEF TypeOK, Times
  <2>3. stamp[r] - born[seen[r]] \in Times
    BY <1>1, <1>2, <1>5, <2>2 DEF Times
  <2> QED
    BY <1>5, <2>1, <2>3, NoWrap DEF Age
<1> QED
  BY <1>4, <1>5

LEMMA SoloGetStamp ==
  ASSUME TypeOK, SoloInv, NEW r \in Readers, GetStamp(r)
  PROVE  SoloInv'
<1> USE DEF GetStamp, history, shared
<1>1. r \in Procs /\ pc'[r] = "g_copy" /\ todo'[r] = Words
  BY DEF TypeOK, Procs
<1>2. /\ Settled' /\ Clock' /\ Current' /\ Filling'
      /\ \A q \in Readers : q # r /\ NotLapped(q)' => NotLapped(q)
      /\ \A q \in Readers : q # r => q \in Procs
  BY <1>1, SoloGet DEF TypeOK, GetSteps
<1>3. NotLapped(r)' => NotLapped(r)
  BY <1>1 DEF NotLapped, GetSteps
<1>4. NotLapped(r) => seen[r] # 0 /\ stamp[r] - born[seen[r]] <= TimeRange
  BY SoloAge
<1>5. Reading'
  BY <1>1, <1>2, <1>3, <1>4 DEF SoloInv, Reading, NotLapped, Complete, TypeOK
<1> QED
  BY <1>2, <1>5 DEF SoloInv

LEMMA SoloGetCopy ==
  ASSUME TypeOK, SoloInv, NEW r \in Readers, NEW word \in Words, GetCopy(r, word)
  PROVE  SoloInv'
<1> USE DEF GetCopy, history, shared
<1>1. r \in Procs /\ pc'[r] = pc[r] /\ todo'[r] = todo[r] \ {word}
  BY DEF TypeOK, Procs
<1>2. /\ Settled' /\ Clock' /\ Current' /\ Filling'
      /\ \A q \in Readers : q # r /\ NotLapped(q)' => NotLapped(q)
      /\ \A q \in Readers : q # r => q \in Procs
  BY <1>1, SoloGet DEF TypeOK, GetSteps
<1>3. NotLapped(r)' => NotLapped(r)
  BY <1>1 DEF NotLapped
<1>4. ASSUME NotLapped(r) PROVE \A x \in Words \ todo'[r] : buf'[r][x] = seen[r]
  <2>1. slot[at[r]].data = Whole(seen[r])
    <3>1. slot[at[r]] = Complete(seen[r])
      BY <1>4 DEF SoloInv, Reading
    <3>2. CASE seen[r] = 0
      BY <3>1, <3>2 DEF Complete, ZeroSlot
    <3>3. CASE seen[r] # 0
      BY <3>1, <3>3 DEF Complete
    <3> QED
      BY <3>2, <3>3
  <2>2. buf[r] \in Data /\ buf'[r] = [buf[r] EXCEPT ![word] = seen[r]]
    BY <2>1 DEF TypeOK, Whole
  <2>3. \A x \in Words \ todo[r] : buf[r][x] = seen[r]
    BY <1>4 DEF SoloInv, Reading
  <2> QED
    BY <1>1, <2>2, <2>3 DEF Data
<1>5. Reading'
  BY <1>1, <1>2, <1>3, <1>4 DEF SoloInv, Reading, NotLapped, Complete, TypeOK
<1> QED
  BY <1>2, <1>5 DEF SoloInv

\* A Get that was not lapped holds the payload it looked at, and its checksum
\* matches.
LEMMA SoloMatch ==
  ASSUME TypeOK, SoloInv, NEW r \in Readers, NotLapped(r), pc[r] = "g_copy", todo[r] = {}
  PROVE  /\ buf[r] = Whole(seen[r]) /\ CrcMatches(r)
         /\ seen[r] # 0 /\ stamp[r] - born[seen[r]] <= TimeRange
<1>1. /\ slot[at[r]] = Complete(seen[r])
      /\ seen[r] # 0 /\ stamp[r] - born[seen[r]] <= TimeRange
      /\ \A x \in Words : buf[r][x] = seen[r]
  BY DEF SoloInv, Reading
<1>2. buf[r] = Whole(seen[r])
  BY <1>1 DEF TypeOK, Data, Whole
<1>3. slot[at[r]].crc = Crc32(Whole(seen[r]))
  BY <1>1 DEF Complete
<1> QED
  BY <1>1, <1>2, <1>3 DEF CrcMatches

\* Only a Get that was lapped falls back to the slot before.
LEMMA SoloGetRetry ==
  ASSUME TypeOK, SoloInv, NEW r \in Readers, GetRetry(r)
  PROVE  SoloInv'
<1> USE DEF GetRetry, history, shared
<1>1. r \in Procs /\ pc'[r] = "g_stamp"
  BY DEF TypeOK, Procs
<1>2. /\ Settled' /\ Clock' /\ Current' /\ Filling'
      /\ \A q \in Readers : q # r /\ NotLapped(q)' => NotLapped(q)
      /\ \A q \in Readers : q # r => q \in Procs
  BY <1>1, SoloGet DEF TypeOK, GetSteps
<1>3. ~NotLapped(r)
  BY SoloMatch
<1>4. ~NotLapped(r)'
  BY <1>1, <1>3 DEF NotLapped, GetSteps
<1>5. Reading'
  BY <1>1, <1>2, <1>4 DEF SoloInv, Reading, NotLapped, Complete, TypeOK
<1> QED
  BY <1>2, <1>5 DEF SoloInv

-----------------------------------------------------------------------------
LEMMA StepSolo ==
  ASSUME NEW w \in Writers, Writers = {w}
  PROVE  TypeOK /\ SoloInv /\ [Next]_vars => SoloInv'
<1> SUFFICES ASSUME TypeOK, SoloInv, [Next]_vars PROVE SoloInv'
  OBVIOUS
<1>0. TypeOK'
  BY StepType
<1>1. CASE Tick
  BY <1>0, <1>1, Frame DEF Tick, locals, TypeOK, Times
<1>2. ASSUME NEW p \in Procs, Crash(p) PROVE SoloInv'
  <2>1. pc' = [pc EXCEPT ![p] = "out"] /\ todo' = todo
    BY <1>2 DEF Crash
  <2>2. UNCHANGED <<now, shared, history, at, stamp, buf, retry, mine>>
    BY <1>2 DEF Crash
  <2>3. now' >= now /\ now' \in Times
    BY <2>2, TimeAssumption DEF TypeOK, Times
  <2>4. \A q \in Procs : \/ pc'[q] = pc[q] /\ todo'[q] = todo[q]
                         \/ pc'[q] \in {"out", "idle"}
    BY <2>1 DEF TypeOK
  <2> QED
    BY <2>2, <2>3, <2>4, Frame
<1>3. ASSUME NEW p \in Procs, CtorCheck(p) PROVE SoloInv'
  <2>1. tags = Tags /\ pc' = [pc EXCEPT ![p] = "idle"] /\ todo' = todo
    BY <1>3 DEF CtorCheck, SoloInv, Settled
  <2>2. UNCHANGED <<now, shared, history, at, stamp, buf, retry, mine>>
    BY <1>3 DEF CtorCheck
  <2>3. now' >= now /\ now' \in Times
    BY <2>2, TimeAssumption DEF TypeOK, Times
  <2>4. \A q \in Procs : \/ pc'[q] = pc[q] /\ todo'[q] = todo[q]
                         \/ pc'[q] \in {"out", "idle"}
    BY <2>1 DEF TypeOK
  <2> QED
    BY <2>2, <2>3, <2>4, Frame
<1>4. ASSUME NEW p \in Procs, NEW piece \in Pieces, CtorWipe(p, piece) PROVE SoloInv'
  BY <1>4 DEF CtorWipe, SoloInv, Settled
<1>5. ASSUME NEW p \in Procs, CtorTag(p) PROVE SoloInv'
  BY <1>5 DEF CtorTag, SoloInv, Settled
<1>6. ASSUME NEW v \in Writers, Put(v) PROVE SoloInv'
  BY <1>6, SoloAstray, SoloPutStart, SoloPutIndex, SoloPutStamp, SoloPutCrc, SoloPutCopy,
     SoloPutPublish DEF Put, Procs
<1>7. ASSUME NEW r \in Readers, GetStale(r) \/ GetOk(r) \/ GetFail(r) PROVE SoloInv'
  <2>1. pc' = [pc EXCEPT ![r] = "idle"] /\ todo' = todo
    BY <1>7 DEF GetStale, GetOk, GetFail, Return
  <2>2. UNCHANGED <<now, shared, history, at, stamp, buf, retry, mine>>
    BY <1>7 DEF GetStale, GetOk, GetFail
  <2>3. now' >= now /\ now' \in Times
    BY <2>2, TimeAssumption DEF TypeOK, Times
  <2>4. \A p \in Procs : \/ pc'[p] = pc[p] /\ todo'[p] = todo[p]
                         \/ pc'[p] \in {"out", "idle"}
    BY <2>1 DEF TypeOK
  <2> QED
    BY <2>2, <2>3, <2>4, Frame
<1>8. ASSUME NEW r \in Readers, Get(r) PROVE SoloInv'
  BY <1>7, <1>8, SoloAstray, SoloGetIndex, SoloGetTime, SoloGetStamp, SoloGetCopy, SoloGetRetry
     DEF Get, Procs
<1>9. CASE UNCHANGED vars
  BY <1>0, <1>9, Frame, TimeAssumption DEF vars, locals, TypeOK, Times
<1> QED
  BY <1>1, <1>2, <1>3, <1>4, <1>5, <1>6, <1>8, <1>9 DEF Next, Ctor

\* The invariant that carries GetContract and PublishedStable.
LEMMA SoloInvariant ==
  ASSUME NEW w \in Writers, Writers = {w}, ~Fresh
  PROVE  Spec => [](TypeOK /\ SoloInv)
<1>1. Init => TypeOK /\ SoloInv
  BY InitType, InitSolo
<1>2. TypeOK /\ SoloInv /\ [Next]_vars => TypeOK' /\ SoloInv'
  BY StepType, StepSolo
<1> QED
  BY <1>1, <1>2, PTL DEF Spec

\* A Get that had a slot to look at returns in one of three steps.
LEMMA ReturnSteps ==
  ASSUME TypeOK, SoloInv, [Next]_vars, NEW r \in Readers, Returns(r)
  PROVE  GetStale(r) \/ GetOk(r) \/ GetFail(r)
<1>0. pc[r] \in GetSteps /\ pc'[r] = "idle" /\ pc'[r] # pc[r] /\ r \in Procs
  BY DEF Returns, GetSteps, Procs
<1>1. pc' # pc
  BY <1>0
<1>2. ~Tick /\ ~(UNCHANGED vars)
  BY <1>1 DEF Tick, vars, locals
<1>3. ASSUME NEW p \in Procs, Ctor(p) \/ Crash(p) PROVE FALSE
  BY <1>0, <1>3 DEF Ctor, Crash, CtorCheck, CtorWipe, CtorTag, TypeOK, GetSteps,
     SoloInv, Settled, Tags
<1>4. ASSUME NEW v \in Writers, Put(v) PROVE FALSE
  <2>1. v # r
    BY RingAssumption
  <2> QED
    BY <1>0, <1>4, <2>1 DEF Put, PutStart, PutIndex, PutAstray, PutStamp, PutCrc, PutCopy,
       PutPublish, TypeOK
<1>5. ASSUME NEW q \in Readers, Get(q) PROVE GetStale(r) \/ GetOk(r) \/ GetFail(r)
  <2>1. CASE q # r
    BY <1>0, <1>5, <2>1 DEF Get, GetIndex, GetAstray, GetTime, GetStale, GetStamp, GetCopy,
       GetOk, GetRetry, GetFail, Return, TypeOK
  <2>2. CASE q = r
    BY <1>0, <1>5, <2>2 DEF Get, GetIndex, GetAstray, GetTime, GetStamp, GetCopy, GetRetry,
       TypeOK, GetSteps
  <2> QED
    BY <2>1, <2>2
<1> QED
  BY <1>2, <1>3, <1>4, <1>5 DEF Next

\* What a returning Get does, action by action.
LEMMA SoloReturn ==
  ASSUME TypeOK, SoloInv, [Next]_vars, NEW r \in Readers, Returns(r), laps[r] <= N-2
  PROVE  IF seen[r] # 0 /\ stamp[r] - born[seen[r]] <= TimeRange
         THEN got'[r] = [tag |-> 0, payload |-> Whole(seen[r])]
         ELSE got'[r].tag = -1
<1> USE DEF Returns
<1>1. NotLapped(r) /\ pc'[r] # pc[r] /\ r \in Procs
  BY DEF NotLapped, GetSteps, Procs
<1>2. GetStale(r) \/ GetOk(r) \/ GetFail(r)
  BY ReturnSteps
<1>3. CASE GetStale(r)
  <2>1. ~(Age(r) <= TimeRange)
    <3>1. stamp[r] \in Times /\ slot[at[r]].ts \in Times /\ Age(r) > TimeRange
      BY <1>1, <1>3, SoloAge DEF GetStale, TypeOK, NotLapped
    <3>2. Age(r) \in Nat
      BY <3>1, TimeAssumption, SizeAssumption DEF Age, Times
    <3> QED
      BY <3>1, <3>2, TimeAssumption
  <2>2. ~(seen[r] # 0 /\ stamp[r] - born[seen[r]] <= TimeRange)
    BY <1>1, <1>3, <2>1, SoloAge DEF GetStale
  <2> QED
    BY <1>3, <2>2 DEF GetStale, Return, TypeOK
<1>4. CASE GetOk(r)
  BY <1>1, <1>4, SoloMatch DEF GetOk, Return, TypeOK
<1>5. CASE GetFail(r)
  BY <1>1, <1>5, SoloMatch DEF GetFail
<1> QED
  BY <1>2, <1>3, <1>4, <1>5

\* With one writer and a segment that has its tags, a Get that at most N-2
\* publications overtake returns exactly the payload published when it began,
\* or -1 when that payload is too old or there is none.
THEOREM GetKeepsContract ==
  ASSUME NEW w \in Writers, Writers = {w}, ~Fresh
  PROVE  Spec => GetContract
<1>1. TypeOK /\ SoloInv /\ [Next]_vars =>
        [\A r \in Readers : Returns(r) /\ laps[r] <= N-2 =>
           IF seen[r] # 0 /\ stamp[r] - born[seen[r]] <= TimeRange
           THEN got'[r] = [tag |-> 0, payload |-> Whole(seen[r])]
           ELSE got'[r].tag = -1]_vars
  BY SoloReturn
<1>2. Spec => [](TypeOK /\ SoloInv)
  BY SoloInvariant
<1> QED
  BY <1>1, <1>2, PTL DEF Spec, GetContract

\* With one writer and a segment that has its tags, no store ever touches the
\* two slots a Get that starts now may turn to.
THEOREM PublishedSlotsStable ==
  ASSUME NEW w \in Writers, Writers = {w}, ~Fresh
  PROVE  Spec => PublishedStable
<1>1. TypeOK /\ SoloInv /\ [Next]_vars =>
        [index < N => /\ slot'[index] = slot[index]
                      /\ slot'[Before(index)] = slot[Before(index)]]_vars
  <2> SUFFICES ASSUME TypeOK, SoloInv, Next, index < N
               PROVE  /\ slot'[index] = slot[index]
                      /\ slot'[Before(index)] = slot[Before(index)]
    BY DEF vars, shared
  <2>1. index \in Slots /\ Before(index) \in Slots
    BY RingAssumption DEF TypeOK, Slots, Before
  <2>2. ASSUME NEW v \in Writers, PutStamp(v) \/ PutCrc(v) \/ (\E x \in Words : PutCopy(v, x))
        PROVE  slot'[index] = slot[index] /\ slot'[Before(index)] = slot[Before(index)]
    <3>1. at[v] # index /\ at[v] # Before(index)
      BY <2>2, Elsewhere DEF PutStamp, PutCrc, PutCopy, PutSteps
    <3> QED
      BY <2>1, <2>2, <3>1 DEF PutStamp, PutCrc, PutCopy, TypeOK
  <2>3. ASSUME NEW p \in Procs, Ctor(p) \/ Crash(p) PROVE slot' = slot
    BY <2>3 DEF Ctor, Crash, CtorCheck, CtorWipe, CtorTag, shared, SoloInv, Settled
  <2>4. ASSUME NEW v \in Writers, PutStart(v) \/ PutIndex(v) \/ PutAstray(v) \/ PutPublish(v)
        PROVE  slot' = slot
    BY <2>4 DEF PutStart, PutIndex, PutAstray, PutPublish, shared
  <2>5. ASSUME NEW r \in Readers, Get(r) PROVE slot' = slot
    BY <2>5 DEF Get, GetIndex, GetAstray, GetTime, GetStale, GetStamp, GetCopy, GetOk, GetRetry,
       GetFail, shared
  <2> QED
    BY <2>2, <2>3, <2>4, <2>5 DEF Next, Put, Tick, shared
<1>2. Spec => [](TypeOK /\ SoloInv)
  BY SoloInvariant
<1> QED
  BY <1>1, <1>2, PTL DEF Spec, PublishedStable

-----------------------------------------------------------------------------
(* The ring with one writer implements LatestValue, for every ring size,    *)
(* number of readers, words, Puts and crashes.  The step simulation needs   *)
(* SoloInv for what a Get that was not lapped returns, TornInv and AheadInv *)
(* for what a lapped one returns, and that the Put under way is the last    *)
(* one begun.                                                               *)

\* A Put under way is the last one begun, and is not published.
LastPut == \A w \in Writers : pc[w] \in PutSteps => mine[w] = puts /\ published < puts

MapInv == TypeOK /\ SoloInv /\ TornInv /\ LastPut

LEMMA InitMap == ASSUME ~Fresh PROVE Init => MapInv
<1>1. Init => TypeOK /\ SoloInv /\ TornInv
  BY InitType, InitSolo, InitTorn
<1>2. Init => LastPut
  BY DEF Init, LastPut, PutSteps, Procs
<1> QED
  BY <1>1, <1>2 DEF MapInv

LEMMA StepLastPut ==
  ASSUME NEW w \in Writers, Writers = {w}, TypeOK, SoloInv, LastPut, [Next]_vars
  PROVE  LastPut'
<1> USE DEF LastPut, PutSteps
<1>0. w \in Procs /\ puts \in Nat /\ published \in Nat /\ published <= puts
  BY RingAssumption DEF TypeOK, Procs, SoloInv, Clock
<1>1. CASE Put(w)
  <2>1. CASE PutStart(w)
    BY <1>0, <2>1 DEF PutStart, TypeOK
  <2>2. CASE PutIndex(w)
    BY <1>0, <2>2 DEF PutIndex, TypeOK, history
  <2>3. CASE PutStamp(w)
    BY <1>0, <2>3 DEF PutStamp, TypeOK, history
  <2>4. CASE PutCrc(w)
    BY <1>0, <2>4 DEF PutCrc, TypeOK, history
  <2>5. ASSUME NEW x \in Words, PutCopy(w, x) PROVE LastPut'
    BY <1>0, <2>5 DEF PutCopy, TypeOK, history
  <2>6. CASE PutPublish(w)
    BY <1>0, <2>6 DEF PutPublish, TypeOK
  <2>7. CASE PutAstray(w)
    BY <1>0, <2>7 DEF PutAstray, TypeOK, history
  <2> QED
    BY <1>1, <2>1, <2>2, <2>3, <2>4, <2>5, <2>6, <2>7 DEF Put
<1>2. ASSUME pc'[w] = pc[w] \/ pc'[w] \notin PutSteps, UNCHANGED <<mine, puts, published>>
      PROVE  LastPut'
  BY <1>2
<1>3. ASSUME NEW p \in Procs, Ctor(p) \/ Crash(p) PROVE LastPut'
  <2>1. pc'[w] = pc[w] \/ pc'[w] \notin PutSteps
    BY <1>0, <1>3 DEF Ctor, Crash, CtorCheck, CtorWipe, CtorTag, TypeOK, SoloInv, Settled
  <2>2. UNCHANGED <<mine, puts, published>>
    BY <1>3 DEF Ctor, Crash, CtorCheck, CtorWipe, CtorTag, history
  <2> QED
    BY <1>2, <2>1, <2>2
<1>4. ASSUME NEW r \in Readers, Get(r) PROVE LastPut'
  <2>1. r # w
    BY RingAssumption
  <2>2. pc'[w] = pc[w]
    BY <1>0, <1>4, <2>1 DEF Get, GetIndex, GetAstray, GetTime, GetStale, GetStamp, GetCopy, GetOk,
       GetRetry, GetFail, Return, TypeOK
  <2>3. UNCHANGED <<mine, puts, published>>
    BY <1>4 DEF Get, GetIndex, GetAstray, GetTime, GetStale, GetStamp, GetCopy, GetOk, GetRetry,
       GetFail, history
  <2> QED
    BY <1>2, <2>2, <2>3
<1>5. CASE Tick \/ UNCHANGED vars
  BY <1>2, <1>5 DEF Tick, vars, locals, history
<1> QED
  BY <1>1, <1>3, <1>4, <1>5 DEF Next

LEMMA MapInvariant ==
  ASSUME NEW w \in Writers, Writers = {w}, ~Fresh
  PROVE  Spec => []MapInv
<1>1. Init => MapInv
  BY InitMap
<1>2. MapInv /\ [Next]_vars => MapInv'
  BY StepType, StepSolo, StepTorn, StepLastPut DEF MapInv
<1> QED
  BY <1>1, <1>2, PTL DEF Spec

-----------------------------------------------------------------------------
(* However far a Get is overtaken, what it returns is not older than what   *)
(* was published when it began.  The words of a slot only ever get newer;   *)
(* and a Get falls back to the slot before only when its own slot was       *)
(* filled again meanwhile, so that the one before was too.                  *)

\* Each word is of a Put that was begun.
NoneToCome == \A i \in Slots : \A x \in Words : slot[i].data[x] <= puts

AtLeast(i, k) == \A x \in Words : slot[i].data[x] >= k

\* Nothing was stored into the slot a Get of r looks at since it began.
Untouched(r) ==
    /\ slot[at[r]] = Complete(seen[r])
    /\ pc[r] = "g_copy" => \A x \in Words \ todo[r] : buf[r][x] = seen[r]

AheadOf(r) ==
    /\ seen[r] <= published
    /\ pc[r] \in GetSteps =>
          /\ AtLeast(at[r], seen[r])
          /\ pc[r] = "g_copy" => \A x \in Words \ todo[r] : buf[r][x] >= seen[r]
          /\ retry[r] \/ Untouched(r) \/ AtLeast(Before(at[r]), seen[r])

AheadInv == NoneToCome /\ \A r \in Readers : AheadOf(r)

LEMMA WordTypes ==
  ASSUME TypeOK
  PROVE  /\ \A i \in Slots : slot[i].data \in Data /\ \A x \in Words : slot[i].data[x] \in Nat
         /\ \A r \in Readers : /\ r \in Procs /\ at[r] \in Slots /\ Before(at[r]) \in Slots
                               /\ seen[r] \in Nat /\ buf[r] \in Data
                               /\ \A x \in Words : buf[r][x] \in Nat
         /\ published \in Nat /\ puts \in Nat /\ index \in Nat /\ N \in Nat
<1>1. \A d \in Data : \A x \in Words : d[x] \in Nat
  BY RingAssumption DEF Data
<1>2. \A i \in Slots : slot[i].data \in Data
  BY DEF TypeOK
<1>3. \A r \in Readers : r \in Procs /\ at[r] \in Slots /\ seen[r] \in Nat /\ buf[r] \in Data
  BY RingAssumption DEF TypeOK, Procs
<1>4. \A i \in Slots : Before(i) \in Slots
  BY RingAssumption DEF Before, Slots
<1>5. published \in Nat /\ puts \in Nat /\ index \in Nat /\ N \in Nat
  BY RingAssumption DEF TypeOK
<1> QED
  BY <1>1, <1>2, <1>3, <1>4, <1>5

LEMMA InitAhead == ASSUME ~Fresh PROVE Init => AheadInv
<1> SUFFICES ASSUME Init PROVE AheadInv
  OBVIOUS
<1>1. NoneToCome
  BY RingAssumption DEF Init, NoneToCome, ZeroSlot, Whole
<1>2. \A r \in Readers : AheadOf(r)
  BY DEF Init, AheadOf, GetSteps, Procs
<1> QED
  BY <1>1, <1>2 DEF AheadInv

\* What a step does to the slots: it leaves them, or the one writer stores into
\* the slot after helper.index a part of the last Put.
SlotsKept == UNCHANGED slot
SlotFilled(w) ==
    /\ pc[w] \in PutSteps \ {"p_index"}
    /\ \A i \in Slots : i # at[w] => slot'[i] = slot[i]
    /\ \A x \in Words : slot'[at[w]].data[x] = slot[at[w]].data[x]
                        \/ slot'[at[w]].data[x] = puts

LEMMA SlotSteps ==
  ASSUME MapInv, NEW w \in Writers, Writers = {w}, [Next]_vars
  PROVE  SlotsKept \/ (SlotFilled(w) /\ puts' = puts)
<1> USE DEF MapInv
<1>0. w \in Procs /\ at[w] \in Slots
  BY DEF TypeOK, Procs
<1>1. CASE PutStamp(w)
  BY <1>0, <1>1 DEF PutStamp, SlotFilled, PutSteps, TypeOK, history
<1>2. CASE PutCrc(w)
  BY <1>0, <1>2 DEF PutCrc, SlotFilled, PutSteps, TypeOK, history
<1>3. ASSUME NEW word \in Words, PutCopy(w, word) PROVE SlotFilled(w) /\ puts' = puts
  <2>1. mine[w] = puts
    BY <1>3 DEF PutCopy, LastPut, PutSteps
  <2>2. /\ slot'[at[w]].data = [slot[at[w]].data EXCEPT ![word] = puts]
        /\ slot[at[w]].data \in [Words -> 0 .. MaxPuts]
    BY <1>0, <1>3, <2>1 DEF PutCopy, TypeOK, Data
  <2>3. \A i \in Slots : i # at[w] => slot'[i] = slot[i]
    BY <1>0, <1>3 DEF PutCopy, TypeOK
  <2> QED
    BY <1>3, <2>2, <2>3 DEF PutCopy, SlotFilled, PutSteps, history
<1>4. CASE PutStart(w) \/ PutIndex(w) \/ PutAstray(w) \/ PutPublish(w)
  BY <1>4 DEF PutStart, PutIndex, PutAstray, PutPublish, shared, SlotsKept
<1>5. ASSUME NEW p \in Procs, Ctor(p) \/ Crash(p) PROVE SlotsKept
  BY <1>5 DEF Ctor, Crash, CtorCheck, CtorWipe, CtorTag, shared, SoloInv, Settled, SlotsKept
<1>6. ASSUME NEW r \in Readers, Get(r) PROVE SlotsKept
  BY <1>6 DEF Get, GetIndex, GetAstray, GetTime, GetStale, GetStamp, GetCopy, GetOk, GetRetry,
     GetFail, shared, SlotsKept
<1>7. CASE Tick \/ UNCHANGED vars
  BY <1>7 DEF Tick, vars, shared, SlotsKept
<1> QED
  BY <1>1, <1>2, <1>3, <1>4, <1>5, <1>6, <1>7 DEF Next, Put

\* No word gets older, and the slot before the one that is filled holds what is
\* published.
WordsAdvance ==
    /\ \A i \in Slots : \A x \in Words : slot'[i].data[x] >= slot[i].data[x]
    /\ \A i \in Slots : slot'[i] = slot[i] \/ AtLeast(Before(i), published) \/ published = 0

LEMMA StepWords ==
  ASSUME MapInv, AheadInv, NEW w \in Writers, Writers = {w}, [Next]_vars
  PROVE  WordsAdvance
<1> USE DEF MapInv
<1>0. \A i \in Slots : \A x \in Words : slot[i].data[x] \in Nat /\ slot[i].data[x] <= puts
  BY WordTypes DEF AheadInv, NoneToCome
<1>1. CASE SlotsKept
  BY <1>0, <1>1 DEF SlotsKept, WordsAdvance
<1>2. CASE SlotFilled(w)
  <2>1. at[w] \in Slots /\ puts \in Nat
    BY RingAssumption DEF TypeOK, Procs
  <2>2. \A i \in Slots : \A x \in Words : slot'[i].data[x] >= slot[i].data[x]
    BY <1>0, <1>2, <2>1 DEF SlotFilled
  <2>3. CASE published # 0
    <3>1. index \in Slots /\ slot[index] = Complete(published)
      BY <2>3, WordTypes, RingAssumption DEF SoloInv, Current, Slots
    <3>2. slot[index].data = Whole(published)
      BY <2>3, <3>1 DEF Complete
    <3>3. AtLeast(index, published)
      BY <3>2, WordTypes DEF AtLeast, Whole
    <3>4. at[w] = SlotToFill
      BY <1>2 DEF SlotFilled, SoloInv, Filling
    <3>5. Before(at[w]) = index
      BY <3>1, <3>4, NextSlot, RingAssumption DEF Before, Slots
    <3> QED
      BY <1>2, <2>2, <3>3, <3>5 DEF SlotFilled, WordsAdvance
  <2> QED
    BY <2>2, <2>3 DEF WordsAdvance
<1> QED
  BY <1>1, <1>2, SlotSteps

LEMMA StepNoneToCome ==
  ASSUME MapInv, AheadInv, NEW w \in Writers, Writers = {w}, [Next]_vars
  PROVE  NoneToCome'
<1> USE DEF MapInv, AheadInv, NoneToCome
<1>0. puts \in Nat /\ \A i \in Slots : \A x \in Words : slot[i].data[x] \in Nat
  BY WordTypes
<1>1. CASE SlotFilled(w) /\ puts' = puts
  BY <1>0, <1>1 DEF SlotFilled
<1>2. CASE SlotsKept
  <2>1. puts' = puts \/ puts' = puts + 1
    BY DEF Next, Put, PutStart, PutIndex, PutAstray, PutStamp, PutCrc, PutCopy, PutPublish, Ctor, Crash,
       CtorCheck, CtorWipe, CtorTag, Get, GetIndex, GetAstray, GetTime, GetStale, GetStamp, GetCopy,
       GetOk, GetRetry, GetFail, Tick, vars, history
  <2> QED
    BY <1>0, <1>2, <2>1 DEF SlotsKept
<1> QED
  BY <1>1, <1>2, SlotSteps

\* A Get that goes on as it was stays ahead.
LEMMA AheadSame ==
  ASSUME TypeOK, TypeOK', NEW r \in Readers, AheadOf(r), WordsAdvance, published' >= published,
         seen'[r] = seen[r], Complete(seen[r])' = Complete(seen[r]),
         pc'[r] \in GetSteps =>
            /\ pc[r] \in GetSteps /\ (pc'[r] = "g_copy" => pc[r] = "g_copy")
            /\ at'[r] = at[r] /\ todo'[r] = todo[r] /\ buf'[r] = buf[r] /\ retry'[r] = retry[r]
  PROVE  AheadOf(r)'
<1>0. /\ \A i \in Slots : \A x \in Words : slot[i].data[x] \in Nat /\ slot'[i].data[x] \in Nat
      /\ at[r] \in Slots /\ Before(at[r]) \in Slots /\ seen[r] \in Nat
      /\ published \in Nat /\ published' \in Nat
  <2>1. \A d \in Data : \A x \in Words : d[x] \in Nat
    BY RingAssumption DEF Data
  <2>2. \A i \in Slots : slot'[i].data \in Data
    BY DEF TypeOK
  <2>3. published' \in Nat
    BY RingAssumption DEF TypeOK
  <2> QED
    BY <2>1, <2>2, <2>3, WordTypes
<1>1. seen'[r] <= published'
  BY <1>0 DEF AheadOf
<1>2. ASSUME NEW i \in Slots, NEW k \in Nat, AtLeast(i, k) PROVE AtLeast(i, k)'
  <2>1. \A x \in Words : slot'[i].data[x] >= slot[i].data[x] /\ slot[i].data[x] >= k
    BY <1>2 DEF WordsAdvance, AtLeast
  <2> QED
    BY <1>0, <2>1 DEF AtLeast
<1>3. ASSUME pc'[r] \in GetSteps
      PROVE  /\ AtLeast(at[r], seen[r])'
             /\ pc'[r] = "g_copy" => \A x \in Words \ todo'[r] : buf'[r][x] >= seen'[r]
             /\ retry'[r] \/ Untouched(r)' \/ AtLeast(Before(at[r]), seen[r])'
  <2>1. AtLeast(at[r], seen[r])'
    BY <1>0, <1>2, <1>3 DEF AheadOf
  <2>2. pc'[r] = "g_copy" => \A x \in Words \ todo'[r] : buf'[r][x] >= seen'[r]
    BY <1>3 DEF AheadOf
  <2>3. CASE AtLeast(Before(at[r]), seen[r])
    BY <1>0, <1>2, <1>3, <2>1, <2>2, <2>3
  <2>4. CASE Untouched(r) /\ slot'[at[r]] = slot[at[r]]
    BY <1>3, <2>1, <2>2, <2>4 DEF Untouched
  <2>5. CASE slot'[at[r]] # slot[at[r]]
    <3>1. AtLeast(Before(at[r]), seen[r])
      BY <1>0, <2>5 DEF WordsAdvance, AtLeast, AheadOf
    <3> QED
      BY <2>3, <3>1
  <2> QED
    BY <1>3, <2>1, <2>2, <2>3, <2>4, <2>5 DEF AheadOf
<1> QED
  BY <1>1, <1>3 DEF AheadOf
\* What a step does to the history a Get relies on.
HistoryGrows ==
    /\ published' >= published
    /\ \A k \in 0 .. puts : Complete(k)' = Complete(k)

LEMMA StepHistory ==
  ASSUME MapInv, NEW w \in Writers, Writers = {w}, [Next]_vars
  PROVE  HistoryGrows
<1> USE DEF MapInv, HistoryGrows
<1>0. puts \in Nat /\ published \in Nat /\ w \in Procs
  BY WordTypes DEF Procs
<1>1. CASE PutStart(w)
  <2>1. \A k \in 1 .. puts : born'[k] = born[k]
    BY <1>0, <1>1 DEF PutStart, TypeOK
  <2> QED
    BY <1>0, <1>1, <2>1 DEF PutStart, Complete
<1>2. CASE PutPublish(w)
  <2>1. mine[w] = puts /\ published < puts
    BY <1>2 DEF PutPublish, LastPut, PutSteps
  <2> QED
    BY <1>0, <1>2, <2>1 DEF PutPublish, Complete
<1>3. CASE UNCHANGED <<published, born>>
  BY <1>0, <1>3 DEF Complete
<1>4. PutStart(w) \/ PutPublish(w) \/ UNCHANGED <<published, born>>
  BY DEF Next, Put, PutIndex, PutAstray, PutStamp, PutCrc, PutCopy, Ctor, Crash,
     CtorCheck, CtorWipe, CtorTag, Get, GetIndex, GetAstray, GetTime, GetStale, GetStamp, GetCopy,
     GetOk, GetRetry, GetFail, Tick, vars, history
<1> QED
  BY <1>1, <1>2, <1>3, <1>4

\* The steps of r's that are not as they were: it begins, it begins to copy, it
\* copies a word, it falls back.
LEMMA AheadGetIndex ==
  ASSUME MapInv, NEW r \in Readers, GetIndex(r)
  PROVE  AheadOf(r)'
<1> USE DEF MapInv
<1>0. r \in Procs /\ published \in Nat /\ index \in Nat
  BY WordTypes
<1>1. /\ seen'[r] = published /\ published' = published /\ slot' = slot /\ born' = born
      /\ pc'[r] = "idle" \/ (index < N /\ pc'[r] = "g_time" /\ at'[r] = index)
  <2>1. pc'[r] = "idle" \/ (index < N /\ pc'[r] = "g_time" /\ at'[r] = index)
    BY <1>0, GetIndexCases DEF Return, TypeOK
  <2> QED
    BY <1>0, <2>1 DEF GetIndex, TypeOK, shared
<1>2. CASE pc'[r] = "idle"
  BY <1>0, <1>1, <1>2 DEF AheadOf, GetSteps
<1>3. CASE index < N /\ pc'[r] = "g_time" /\ at'[r] = index
  <2>1. slot[index] = Complete(published)
    BY <1>3 DEF SoloInv, Current
  <2>2. slot[index].data = Whole(published)
    BY <2>1 DEF Complete, ZeroSlot
  <2>3. AtLeast(at[r], seen[r])'
    BY <1>0, <1>1, <1>3, <2>2 DEF AtLeast, Whole
  <2>4. Untouched(r)'
    BY <1>1, <1>3, <2>1 DEF Untouched, Complete
  <2> QED
    BY <1>0, <1>1, <1>3, <2>3, <2>4 DEF AheadOf
<1> QED
  BY <1>1, <1>2, <1>3

LEMMA AheadGetStamp ==
  ASSUME MapInv, NEW r \in Readers, GetStamp(r), AheadOf(r)
  PROVE  AheadOf(r)'
<1> USE DEF MapInv
<1>1. /\ pc[r] = "g_stamp" /\ pc'[r] = "g_copy" /\ todo'[r] = Words
      /\ UNCHANGED <<shared, at, buf, retry, born, published, seen>>
  BY WordTypes DEF GetStamp, TypeOK, history
<1> QED
  BY <1>1 DEF AheadOf, Untouched, AtLeast, Complete, GetSteps, shared

LEMMA AheadGetCopy ==
  ASSUME MapInv, NEW r \in Readers, NEW word \in Words, GetCopy(r, word), AheadOf(r)
  PROVE  AheadOf(r)'
<1> USE DEF MapInv
<1>1. /\ pc[r] = "g_copy" /\ pc' = pc /\ todo'[r] = todo[r] \ {word}
      /\ UNCHANGED <<slot, at, retry, born, published, seen>>
      /\ buf'[r] = [buf[r] EXCEPT ![word] = slot[at[r]].data[word]]
      /\ buf[r] \in [Words -> 0 .. MaxPuts]
  BY WordTypes DEF GetCopy, TypeOK, history, shared, Data
<1>2. AtLeast(at[r], seen[r])
  BY <1>1 DEF AheadOf, GetSteps
<1>3. \A x \in Words \ todo'[r] : buf'[r][x] >= seen[r]
  BY <1>1, <1>2 DEF AheadOf, GetSteps, AtLeast
<1>4. ASSUME Untouched(r) PROVE Untouched(r)'
  <2>1. slot[at[r]].data = Whole(seen[r])
    BY <1>4 DEF Untouched, Complete, ZeroSlot
  <2>2. \A x \in Words \ todo'[r] : buf'[r][x] = seen[r]
    BY <1>1, <1>4, <2>1 DEF Untouched, Whole
  <2> QED
    BY <1>1, <1>4, <2>2 DEF Untouched, Complete
<1> QED
  BY <1>1, <1>2, <1>3, <1>4 DEF AheadOf, AtLeast

\* What was copied from a slot that nothing was stored into matches: so a Get
\* that falls back looks at a slot that was filled again too.
LEMMA AheadGetRetry ==
  ASSUME MapInv, NEW r \in Readers, GetRetry(r), AheadOf(r)
  PROVE  AheadOf(r)'
<1> USE DEF MapInv
<1>1. /\ pc[r] = "g_copy" /\ todo[r] = {} /\ ~CrcMatches(r) /\ ~retry[r]
      /\ pc'[r] = "g_stamp" /\ retry'[r] = TRUE /\ at'[r] = Before(at[r])
      /\ UNCHANGED <<slot, born, published, seen>>
  BY WordTypes DEF GetRetry, TypeOK, history, shared, Before
<1>2. AtLeast(Before(at[r]), seen[r])
  <2>1. CASE seen[r] = 0
    BY <2>1, WordTypes DEF AtLeast
  <2>2. CASE Untouched(r) /\ seen[r] # 0
    <3>1. buf[r] = Whole(seen[r])
      BY <1>1, <2>2, WordTypes DEF Untouched, Whole, Data
    <3>2. slot[at[r]].crc = Crc32(Whole(seen[r]))
      BY <2>2 DEF Untouched, Complete
    <3> QED
      BY <1>1, <3>1, <3>2 DEF CrcMatches
  <2> QED
    BY <1>1, <2>1, <2>2 DEF AheadOf, GetSteps
<1> QED
  BY <1>1, <1>2 DEF AheadOf, AtLeast

LEMMA StepAhead ==
  ASSUME MapInv, MapInv', AheadInv, NEW w \in Writers, Writers = {w}, [Next]_vars
  PROVE  AheadInv'
<1> USE DEF MapInv
<1>0. NoneToCome' /\ WordsAdvance /\ HistoryGrows
  BY StepNoneToCome, StepWords, StepHistory
<1>1. ASSUME NEW r \in Readers PROVE AheadOf(r)'
  <2>1. AheadOf(r) /\ r \in Procs /\ r # w
    BY RingAssumption DEF AheadInv, Procs
  <2>2. Complete(seen[r])' = Complete(seen[r]) \/ seen'[r] # seen[r]
    <3>1. seen[r] \in 0 .. puts
      BY WordTypes DEF SoloInv, Clock
    <3> QED
      BY <1>0, <3>1 DEF HistoryGrows, Complete
  <2>3. CASE GetIndex(r) \/ GetStamp(r) \/ (\E x \in Words : GetCopy(r, x)) \/ GetRetry(r)
    BY <2>1, <2>3, AheadGetIndex, AheadGetStamp, AheadGetCopy, AheadGetRetry
  <2>4. CASE ~(GetIndex(r) \/ GetStamp(r) \/ (\E x \in Words : GetCopy(r, x)) \/ GetRetry(r))
    <3> DEFINE same == /\ pc[r] \in GetSteps /\ (pc'[r] = "g_copy" => pc[r] = "g_copy")
                       /\ at'[r] = at[r] /\ todo'[r] = todo[r] /\ buf'[r] = buf[r]
                       /\ retry'[r] = retry[r]
    <3>1. ASSUME NEW p \in Procs, Ctor(p) \/ Crash(p)
          PROVE  seen'[r] = seen[r] /\ (pc'[r] \in GetSteps => same)
      BY <2>1, <3>1 DEF Ctor, Crash, CtorCheck, CtorWipe, CtorTag, TypeOK, SoloInv, Settled,
         GetSteps, history
    <3>2. ASSUME Put(w) PROVE seen'[r] = seen[r] /\ (pc'[r] \in GetSteps => same)
      BY <2>1, <3>2 DEF Put, PutStart, PutIndex, PutAstray, PutStamp, PutCrc, PutCopy, PutPublish, TypeOK,
         history
    <3>3. ASSUME NEW q \in Readers, Get(q), q # r
          PROVE  seen'[r] = seen[r] /\ (pc'[r] \in GetSteps => same)
      BY <2>1, <3>3 DEF Get, GetIndex, GetAstray, GetTime, GetStale, GetStamp, GetCopy, GetOk, GetRetry,
         GetFail, Return, TypeOK, history
    <3>4. ASSUME GetAstray(r) \/ GetTime(r) \/ GetStale(r) \/ GetOk(r) \/ GetFail(r)
          PROVE  seen'[r] = seen[r] /\ (pc'[r] \in GetSteps => same)
      BY <2>1, <3>4 DEF GetAstray, GetTime, GetStale, GetOk, GetFail, Return, TypeOK, GetSteps, history
    <3>5. ASSUME Tick \/ UNCHANGED vars
          PROVE  seen'[r] = seen[r] /\ (pc'[r] \in GetSteps => same)
      BY <3>5 DEF Tick, vars, locals, history
    <3>6. seen'[r] = seen[r] /\ (pc'[r] \in GetSteps => same)
      BY <2>4, <3>1, <3>2, <3>3, <3>4, <3>5 DEF Next, Get
    <3> QED
      BY <1>0, <2>1, <2>2, <3>6, AheadSame DEF HistoryGrows
  <2> QED
    BY <2>3, <2>4
<1> QED
  BY <1>0, <1>1 DEF AheadInv

LEMMA AheadInvariant ==
  ASSUME NEW w \in Writers, Writers = {w}, ~Fresh
  PROVE  Spec => []AheadInv
<1>1. Init => AheadInv
  BY InitAhead
<1>2. MapInv /\ MapInv' /\ AheadInv /\ [Next]_vars => AheadInv'
  BY StepAhead
<1> QED
  BY <1>1, <1>2, MapInvariant, PTL DEF Spec

\* A Get that returns 0 has a payload no older than its beginning.
LEMMA NotOlder ==
  ASSUME MapInv, MapInv', AheadInv, NEW r \in Readers, GetStale(r) \/ GetOk(r) \/ GetFail(r),
         got'[r].tag = 0
  PROVE  \E k \in {n \in 1 .. puts : n >= seen[r]} : got'[r].payload = Whole(k)
<1> USE DEF MapInv
<1>0. puts \in Nat /\ seen[r] \in 0 .. puts /\ puts' = puts
  BY WordTypes DEF SoloInv, Clock, GetStale, GetOk, GetFail, history
<1>1. GetOk(r) /\ got'[r].payload = buf[r] /\ pc[r] = "g_copy" /\ todo[r] = {}
  BY DEF GetStale, GetOk, GetFail, Return, TypeOK
<1>2. PICK k \in 1 .. puts : got'[r].payload = Whole(k)
  BY <1>0 DEF TornInv, NoTornRead
<1>3. \A x \in Words : k >= seen[r]
  <2>1. \A x \in Words : buf[r][x] >= seen[r]
    BY <1>1 DEF AheadInv, AheadOf, GetSteps
  <2> QED
    BY <1>1, <1>2, <2>1 DEF Whole
<1>4. CASE Words = {}
  <2>1. Whole(k) = Whole(puts)
    BY <1>4 DEF Whole
  <2> QED
    BY <1>0, <1>2, <2>1
<1> QED
  BY <1>2, <1>3, <1>4

-----------------------------------------------------------------------------
\* The readers that are in a Get, as LatestValue sees them.
InGet == {r \in Readers : pc[r] \in GetSteps}

\* A step that moves no reader into or out of a Get, gives none an answer, and
\* concerns no value, is a stutter.
LEMMA Stutters ==
  ASSUME TypeOK,
         UNCHANGED <<now, puts, born, published, seen, laps, got>>,
         \A r \in Readers : stamp'[r] = stamp[r],
         \A r \in Readers : pc'[r] \in GetSteps <=> pc[r] \in GetSteps
  PROVE  UNCHANGED Latest!vars
  BY DEF Latest!vars, Given

LEMMA MapPut ==
  ASSUME MapInv, NEW w \in Writers, Writers = {w}, Put(w)
  PROVE  [Latest!Next]_(Latest!vars)
<1> USE DEF MapInv
<1>0. \A r \in Readers : r # w /\ r \in Procs
  BY RingAssumption DEF Procs
<1>1. \A r \in Readers : pc'[r] = pc[r]
  BY <1>0 DEF Put, PutStart, PutIndex, PutAstray, PutStamp, PutCrc, PutCopy, PutPublish, TypeOK
<1>2. CASE PutStart(w)
  <2>1. \A r \in Readers : stamp'[r] = stamp[r]
    BY <1>0, <1>2 DEF PutStart, TypeOK
  <2>2. Latest!Offer
    BY <1>1, <1>2, <2>1 DEF PutStart, Latest!Offer, Given
  <2> QED
    BY <2>2 DEF Latest!Next
<1>3. CASE PutPublish(w)
  <2>1. mine[w] = puts /\ published < puts
    BY <1>3 DEF PutPublish, LastPut, PutSteps
  <2>2. laps' = [r \in Readers |-> IF laps[r] < (N-2) + 2 THEN laps[r] + 1 ELSE (N-2) + 2]
    BY <1>3, RingAssumption DEF PutPublish
  <2>3. Latest!Publish
    BY <1>1, <1>3, <2>1, <2>2 DEF PutPublish, Latest!Publish, Given
  <2> QED
    BY <2>3 DEF Latest!Next
<1>4. CASE PutIndex(w) \/ PutAstray(w) \/ PutStamp(w) \/ PutCrc(w) \/ \E x \in Words : PutCopy(w, x)
  BY <1>1, <1>4, Stutters DEF PutIndex, PutAstray, PutStamp, PutCrc, PutCopy, history
<1> QED
  BY <1>2, <1>3, <1>4 DEF Put

\* A Get begins with what is published; one that finds an index out of range
\* has nothing to get, because nothing was ever published.
LEMMA MapGetIndex ==
  ASSUME MapInv, NEW r \in Readers, GetIndex(r)
  PROVE  Latest!Begin(r)
<1> USE DEF MapInv
<1>1. /\ r \in Procs /\ pc[r] = "idle" /\ r \notin InGet
      /\ UNCHANGED <<now, puts, born, published, stamp>>
      /\ seen' = [seen EXCEPT ![r] = published]
      /\ laps' = [laps EXCEPT ![r] = 0]
  BY DEF GetIndex, InGet, GetSteps, Procs
<1>2. CASE index < N
  <2>1. pc' = [pc EXCEPT ![r] = "g_time"] /\ got' = got
    BY <1>2, GetIndexCases, RingAssumption DEF TypeOK
  <2>2. InGet' = InGet \cup {r}
    BY <1>1, <2>1 DEF InGet, TypeOK, GetSteps, Procs
  <2>3. [q \in Readers |-> Given(q)]' = [q \in Readers |-> Given(q)]
    BY <2>1 DEF Given
  <2> QED
    BY <1>1, <2>2, <2>3 DEF Latest!Begin, InGet
<1>3. CASE index >= N
  <2>1. /\ pc' = [pc EXCEPT ![r] = "idle"]
        /\ got' = [got EXCEPT ![r] = [tag |-> -1, payload |-> buf[r]]]
    BY <1>3, GetIndexCases, RingAssumption DEF Return, TypeOK
  <2>2. InGet' = InGet
    BY <1>1, <2>1 DEF InGet, TypeOK, GetSteps, Procs
  <2>3. published = 0
    BY <1>3, RingAssumption DEF SoloInv, Current, TypeOK
  <2>4. \A q \in Readers : Given(q)' = IF q = r THEN {} ELSE Given(q)
    <3>1. got'[r].tag = -1 /\ \A q \in Readers : q # r => got'[q] = got[q]
      BY <2>1 DEF TypeOK
    <3> QED
      BY <3>1 DEF Given
  <2>5. [q \in Readers |-> Given(q)]' = [[q \in Readers |-> Given(q)] EXCEPT ![r] = {}]
    BY <2>4
  <2> QED
    BY <1>1, <2>2, <2>3, <2>5 DEF Latest!Begin, InGet
<1> QED
  BY <1>2, <1>3, RingAssumption DEF TypeOK

LEMMA MapGetTime ==
  ASSUME MapInv, NEW r \in Readers, GetTime(r)
  PROVE  Latest!Look(r)
<1> USE DEF MapInv, GetTime, GetSteps
<1>1. r \in Procs /\ pc' = [pc EXCEPT ![r] = "g_stamp"]
  BY DEF TypeOK, Procs
<1>2. r \in InGet /\ InGet' = InGet
  BY <1>1 DEF InGet, TypeOK
<1>3. [q \in Readers |-> stamp[q]]' = [[q \in Readers |-> stamp[q]] EXCEPT ![r] = now]
  BY <1>1 DEF TypeOK, Procs
<1> QED
  BY <1>2, <1>3 DEF Latest!Look, InGet, Given, history

\* A Get that was not lapped returns what SoloReturn says, and any other a whole
\* payload not older than its beginning, or nothing.
LEMMA MapReturn ==
  ASSUME MapInv, MapInv', AheadInv, [Next]_vars, NEW r \in Readers,
         GetStale(r) \/ GetOk(r) \/ GetFail(r)
  PROVE  Latest!Answer(r)
<1> USE DEF MapInv, GetSteps
<1>1. /\ r \in Procs /\ pc[r] \in GetSteps /\ pc' = [pc EXCEPT ![r] = "idle"]
      /\ \E tag \in {0, -1} : got' = [got EXCEPT ![r] = [tag |-> tag, payload |-> buf[r]]]
      /\ UNCHANGED <<now, puts, born, published, seen, laps, stamp>>
  BY DEF GetStale, GetOk, GetFail, Return, history, Procs
<1>2. r \in InGet /\ InGet' = InGet \ {r}
  BY <1>1 DEF InGet, TypeOK
<1>3. [q \in Readers |-> Given(q)]' = [[q \in Readers |-> Given(q)] EXCEPT ![r] = Given(r)']
  BY <1>1 DEF Given, TypeOK
<1>4. Given(r)' \in {{}} \cup {{[n \in 1 .. MaxPuts |-> Whole(n)][k]} :
                                   k \in {n \in 1 .. puts : n >= seen[r]}}
  <2>1. CASE got'[r].tag = 0
    <3>1. PICK k \in {n \in 1 .. puts : n >= seen[r]} : got'[r].payload = Whole(k)
      BY <2>1, NotOlder
    <3>2. k \in 1 .. MaxPuts
      BY RingAssumption DEF TypeOK
    <3> QED
      BY <2>1, <3>1, <3>2 DEF Given
  <2>2. CASE got'[r].tag # 0
    BY <2>2 DEF Given
  <2> QED
    BY <2>1, <2>2
<1>5. ASSUME laps[r] <= N - 2
      PROVE  Given(r)' = IF seen[r] # 0 /\ stamp[r] - born[seen[r]] <= TimeRange
                         THEN {[k \in 1 .. MaxPuts |-> Whole(k)][seen[r]]} ELSE {}
  <2>1. Returns(r)
    BY <1>1 DEF Returns, TypeOK
  <2>2. IF seen[r] # 0 /\ stamp[r] - born[seen[r]] <= TimeRange
        THEN got'[r] = [tag |-> 0, payload |-> Whole(seen[r])]
        ELSE got'[r].tag = -1
    BY <1>5, <2>1, SoloReturn
  <2>3. seen[r] # 0 => seen[r] \in 1 .. MaxPuts
    BY RingAssumption DEF TypeOK
  <2>4. CASE seen[r] # 0 /\ stamp[r] - born[seen[r]] <= TimeRange
    <3>1. got'[r].tag = 0 /\ got'[r].payload = Whole(seen[r])
      BY <2>2, <2>4
    <3>2. [k \in 1 .. MaxPuts |-> Whole(k)][seen[r]] = Whole(seen[r])
      BY <2>3, <2>4
    <3> QED
      BY <2>4, <3>1, <3>2 DEF Given
  <2>5. CASE ~(seen[r] # 0 /\ stamp[r] - born[seen[r]] <= TimeRange)
    <3>1. got'[r].tag # 0
      BY <2>2, <2>5
    <3> QED
      BY <2>5, <3>1 DEF Given
  <2> QED
    BY <2>4, <2>5
<1>6. \A q \in Readers : [p \in Readers |-> stamp[p]][q] = stamp[q]
  OBVIOUS
<1> QED
  BY <1>1, <1>2, <1>3, <1>4, <1>5, <1>6 DEF Latest!Answer, Latest!IsYoung, InGet

LEMMA MapCrash ==
  ASSUME MapInv, NEW p \in Procs, Crash(p)
  PROVE  [Latest!Next]_(Latest!vars)
<1> USE DEF MapInv, Crash, history
<1>1. \A q \in Procs : pc'[q] = IF q = p THEN "out" ELSE pc[q]
  BY DEF TypeOK
<1>2. CASE p \in InGet
  <2>1. InGet' = InGet \ {p}
    BY <1>1 DEF InGet, GetSteps, Procs
  <2>2. Latest!Die(p)
    BY <1>2, <2>1 DEF Latest!Die, InGet, Given
  <2> QED
    BY <1>2, <2>2 DEF Latest!Next, InGet
<1>3. CASE p \notin InGet
  <2>1. \A r \in Readers : pc'[r] \in GetSteps <=> pc[r] \in GetSteps
    BY <1>1, <1>3 DEF InGet, GetSteps, Procs
  <2> QED
    BY <2>1, Stutters
<1> QED
  BY <1>2, <1>3

LEMMA MapStep ==
  ASSUME MapInv, MapInv', AheadInv, [Next]_vars, NEW w \in Writers, Writers = {w}
  PROVE  [Latest!Next]_(Latest!vars)
<1> USE DEF MapInv
<1>1. CASE Tick
  BY <1>1 DEF Tick, locals, history, Latest!Tick, Latest!Next, Given
<1>2. ASSUME NEW p \in Procs, Ctor(p) PROVE UNCHANGED Latest!vars
  <2>1. pc[p] = "out" /\ pc' = [pc EXCEPT ![p] = "idle"]
        /\ UNCHANGED <<now, stamp, got, history>>
    BY <1>2 DEF Ctor, CtorCheck, CtorWipe, CtorTag, SoloInv, Settled
  <2>2. \A r \in Readers : pc'[r] \in GetSteps <=> pc[r] \in GetSteps
    BY <2>1 DEF TypeOK, GetSteps
  <2> QED
    BY <2>1, <2>2, Stutters DEF history
<1>3. ASSUME NEW r \in Readers, Get(r) PROVE [Latest!Next]_(Latest!vars)
  <2>1. CASE GetStamp(r) \/ (\E x \in Words : GetCopy(r, x)) \/ GetRetry(r)
    <3>1. /\ pc[r] \in GetSteps
          /\ pc' = pc \/ pc' = [pc EXCEPT ![r] = "g_copy"] \/ pc' = [pc EXCEPT ![r] = "g_stamp"]
          /\ UNCHANGED <<now, stamp, got, history>>
      BY <2>1 DEF GetStamp, GetCopy, GetRetry, GetSteps
    <3>2. \A q \in Readers : pc'[q] \in GetSteps <=> pc[q] \in GetSteps
      BY <3>1 DEF TypeOK, GetSteps, Procs
    <3> QED
      BY <3>1, <3>2, Stutters DEF history
  <2>2. CASE GetIndex(r)
    BY <2>2, MapGetIndex DEF Latest!Next
  <2>3. CASE GetTime(r)
    BY <2>3, MapGetTime DEF Latest!Next
  <2>4. CASE GetStale(r) \/ GetOk(r) \/ GetFail(r)
    BY <2>4, MapReturn DEF Latest!Next
  <2>5. CASE GetAstray(r)
    <3>1. pc[r] = "idle" /\ pc' = [pc EXCEPT ![r] = "astray"]
          /\ UNCHANGED <<now, stamp, got, history>>
      BY <2>5 DEF GetAstray
    <3>2. \A q \in Readers : pc'[q] \in GetSteps <=> pc[q] \in GetSteps
      BY <3>1 DEF TypeOK, GetSteps, Procs
    <3> QED
      BY <3>1, <3>2, Stutters DEF history
  <2> QED
    BY <1>3, <2>1, <2>2, <2>3, <2>4, <2>5 DEF Get
<1>4. CASE UNCHANGED vars
  BY <1>4, Stutters DEF vars, locals, history
<1> QED
  BY <1>1, <1>2, <1>3, <1>4, MapPut, MapCrash DEF Next

\* One writer, killed and restarted at any step, and any number of readers on a
\* segment that has its tags implement LatestValue.
THEOREM RingActsAsLatestValue ==
  ASSUME NEW w \in Writers, Writers = {w}, ~Fresh
  PROVE  Spec => ActsAsLatestValue
<1>1. Init => Latest!Init
  BY DEF Init, Latest!Init, Given, NoResult, GetSteps, Procs
<1>2. MapInv /\ MapInv' /\ AheadInv /\ [Next]_vars => [Latest!Next]_(Latest!vars)
  BY MapStep
<1>3. Spec => []MapInv /\ []AheadInv
  BY MapInvariant, AheadInvariant
<1> QED
  BY <1>1, <1>2, <1>3, PTL DEF Spec, ActsAsLatestValue, Latest!Spec

-----------------------------------------------------------------------------
\* What Get hands out with 0 is one whole Put's payload, not older than what was
\* published when the Get began.
NeverOlder ==
    [][\A r \in Readers : Returns(r) /\ got'[r].tag = 0 =>
         \E k \in 1 .. puts : k >= seen[r] /\ got'[r].payload = Whole(k)]_vars

\* With one writer, killed and restarted at any step, and a segment that has its
\* tags: however far the writer overtakes a Get, also when the Get falls back to
\* the slot before (tmp.cc:293-314), it never returns a payload older than the one
\* that was published when it read helper.index.
THEOREM GetsAreNeverOlder ==
  ASSUME NEW w \in Writers, Writers = {w}, ~Fresh
  PROVE  Spec => NeverOlder
<1>1. MapInv /\ MapInv' /\ AheadInv /\ [Next]_vars =>
        [\A r \in Readers : Returns(r) /\ got'[r].tag = 0 =>
           \E k \in 1 .. puts : k >= seen[r] /\ got'[r].payload = Whole(k)]_vars
  BY NotOlder, ReturnSteps DEF MapInv
<1> QED
  BY <1>1, MapInvariant, AheadInvariant, PTL DEF Spec, NeverOlder
=============================================================================
