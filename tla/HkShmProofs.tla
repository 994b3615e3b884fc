---------------------------- MODULE HkShmProofs ----------------------------
(***************************************************************************)
(* Proofs about HkShm for every ring size, number of processes, of Puts,   *)
(* of words and of crashes.                                                *)
(***************************************************************************)
EXTENDS HkShm, TLAPS

\* Whole payloads are payloads, and a checksum is one of the checksums.
LEMMA WholeType == \A k \in 0 .. MaxPuts : Whole(k) \in Data /\ Crc32(Whole(k)) \in Crcs
  BY DEF Whole, Data, Crcs

\* The slot before a slot is one.
LEMMA SlotArithmetic ==
    /\ \A i \in Slots : (IF i = 0 THEN N-1 ELSE i - 1) \in Slots
    /\ Slots \subseteq Nat /\ 0 \in Slots
  BY RingAssumption DEF Slots

\* A slot's number is an index, and small enough to stay the same in an int, as is
\* the number after it.
LEMMA IndexArithmetic ==
    /\ Slots \subseteq 0 .. Wrap-1
    /\ \A i \in Slots : 2 * (i + 1) < Wrap
    /\ \A i \in 0 .. Wrap-1 : 2 * (i + 1) < Wrap => ToInt(i) = i /\ ToInt((i + 1) % Wrap) = i + 1
    /\ \A i \in 0 .. Wrap-1 : ToInt(i) \in Slots => ToInt(i) = i
<1> USE RingAssumption, SizeAssumption DEF Slots
<1>1. \A i \in 0 .. N-1 : i \in 0 .. Wrap-1 /\ 2 * (i + 1) < Wrap
  OBVIOUS
<1>2. \A i \in 0 .. Wrap-1 : i % Wrap = i
  OBVIOUS
<1>3. ASSUME NEW i \in 0 .. Wrap-1, 2 * (i + 1) < Wrap
      PROVE  ToInt(i) = i /\ ToInt((i + 1) % Wrap) = i + 1
  <2>1. i + 1 \in 0 .. Wrap-1
    BY <1>3
  <2>2. (i + 1) % Wrap = i + 1
    BY <1>2, <2>1
  <2> QED
    BY <1>3, <2>2 DEF ToInt
<1>4. ASSUME NEW i \in 0 .. Wrap-1, ToInt(i) \in Slots PROVE ToInt(i) = i
  BY <1>4 DEF ToInt
<1> QED
  BY <1>1, <1>3, <1>4

\* A number that is not negative leaves a remainder that is a slot.
LEMMA RemArithmetic == \A n \in Nat : Rem(n) \in Slots /\ Rem(n) = n % N
  BY RingAssumption DEF Rem, Slots

-----------------------------------------------------------------------------
LEMMA InitType == Init => TypeOK
<1> SUFFICES ASSUME Init PROVE TypeOK
  OBVIOUS
<1> USE RingAssumption, TimeAssumption DEF Init
<1>1. Whole(0) \in Data /\ ZeroCrc \in Crcs /\ 0 \in Times /\ Start \in Times
  BY WholeType DEF Crcs, Times
<1>2. tags \subseteq Tags
  OBVIOUS
<1>7. index \in 0 .. Wrap-1
  <2>1. CASE Fresh
    BY <2>1, SlotArithmetic, IndexArithmetic
  <2>2. CASE ~Fresh
    BY <2>2
  <2> QED
    BY <2>1, <2>2
<1>3. slot \in [Slots -> [ts : Times, crc : Crcs, data : Data]]
  BY <1>1 DEF ZeroSlot
<1>4. pc \in [Procs -> PCs]
  BY DEF PCs
<1>5. at \in [Procs -> Slots] /\ todo \in [Procs -> SUBSET (Pieces \cup Words)]
  BY SlotArithmetic
<1>6. got \in [Readers -> [tag : {-2, -1, 0}, payload : Data]] /\ buf \in [Readers -> Data]
  BY <1>1 DEF NoResult
<1> QED
  BY <1>1, <1>2, <1>3, <1>4, <1>5, <1>6, <1>7 DEF TypeOK

LEMMA ZeroSlotType == ZeroSlot \in [ts : Times, crc : Crcs, data : Data]
<1>1. 0 \in Times
  BY TimeAssumption DEF Times
<1>2. ZeroCrc \in Crcs
  BY DEF Crcs
<1>3. Whole(0) \in Data
  BY WholeType, RingAssumption
<1> QED
  BY <1>1, <1>2, <1>3 DEF ZeroSlot

LEMMA StepType == TypeOK /\ [Next]_vars => TypeOK'
<1> SUFFICES ASSUME TypeOK, [Next]_vars PROVE TypeOK'
  OBVIOUS
<1> USE DEF TypeOK, shared, history
<1>1. CASE Tick
  BY <1>1, TimeAssumption DEF Tick, locals, Times
<1>2. ASSUME NEW p \in Procs, Crash(p) PROVE TypeOK'
  BY <1>2, RingAssumption DEF Crash, PCs
<1>3. ASSUME NEW p \in Procs, CtorCheck(p) PROVE TypeOK'
  <2>1. \/ pc' = [pc EXCEPT ![p] = "idle"] /\ todo' = todo
        \/ pc' = [pc EXCEPT ![p] = "wipe"] /\ todo' = [todo EXCEPT ![p] = Pieces]
    BY <1>3 DEF CtorCheck
  <2>2. pc' \in [Procs -> PCs]
    BY <2>1 DEF PCs
  <2>3. todo' \in [Procs -> SUBSET (Pieces \cup Words)]
    BY <2>1
  <2>4. UNCHANGED <<now, tags, index, slot, at, stamp, buf, retry, mine, got,
                    puts, born, published, seen, laps, crashes>>
    BY <1>3 DEF CtorCheck
  <2>5. slot' \in [Slots -> [ts : Times, crc : Crcs, data : Data]]
        /\ index' \in 0 .. Wrap-1
    BY <2>4
  <2>6. /\ now' \in Times /\ tags' \subseteq Tags
        /\ at' \in [Procs -> Slots] /\ stamp' \in [Procs -> Times]
        /\ buf' \in [Readers -> Data] /\ retry' \in [Readers -> BOOLEAN]
        /\ mine' \in [Writers -> 0 .. MaxPuts]
    BY <2>4
  <2>7. /\ got' \in [Readers -> [tag : {-2, -1, 0}, payload : Data]]
        /\ puts' \in 0 .. MaxPuts /\ born' \in [1 .. MaxPuts -> Times]
        /\ published' \in 0 .. MaxPuts /\ seen' \in [Readers -> 0 .. MaxPuts]
        /\ laps' \in [Readers -> 0 .. N] /\ crashes' \in 0 .. MaxCrashes
    BY <2>4
  <2> QED
    BY <2>2, <2>3, <2>5, <2>6, <2>7
<1>4. ASSUME NEW p \in Procs, NEW piece \in Pieces, CtorWipe(p, piece) PROVE TypeOK'
  <2>1. ZeroSlot \in [ts : Times, crc : Crcs, data : Data]
    BY ZeroSlotType
  <2>2. tags' \subseteq Tags /\ index' \in 0 .. Wrap-1
    BY <1>4, SlotArithmetic, IndexArithmetic DEF CtorWipe
  <2>3. slot' \in [Slots -> [ts : Times, crc : Crcs, data : Data]]
    BY <1>4, <2>1 DEF CtorWipe, Pieces
  <2>4. pc' \in [Procs -> PCs] /\ todo' \in [Procs -> SUBSET (Pieces \cup Words)]
    BY <1>4 DEF CtorWipe, PCs
  <2> QED
    BY <1>4, <2>2, <2>3, <2>4 DEF CtorWipe
<1>5. ASSUME NEW p \in Procs, CtorTag(p) PROVE TypeOK'
  <2>1. tags' \subseteq Tags
    BY <1>5 DEF CtorTag
  <2>2. pc' \in [Procs -> PCs]
    BY <1>5 DEF CtorTag, TagAfter, PCs
  <2> QED
    BY <1>5, <2>1, <2>2 DEF CtorTag
<1>6. ASSUME NEW w \in Writers, PutStart(w) PROVE TypeOK'
  <2>1. puts + 1 \in 1 .. MaxPuts
    BY <1>6, RingAssumption DEF PutStart
  <2> QED
    BY <1>6, <2>1, RingAssumption DEF PutStart, PCs, PutSteps, Procs
<1>7. ASSUME NEW w \in Writers, PutIndex(w) PROVE TypeOK'
  BY <1>7 DEF PutIndex, PCs, PutSteps, Procs
<1>21. ASSUME NEW w \in Writers, PutAstray(w) PROVE TypeOK'
  BY <1>21 DEF PutAstray, PCs, Procs
<1>22. ASSUME NEW r \in Readers, GetAstray(r) PROVE TypeOK'
  BY <1>22 DEF GetAstray, PCs, Procs
<1>8. ASSUME NEW w \in Writers, PutStamp(w) PROVE TypeOK'
  BY <1>8 DEF PutStamp, PCs, PutSteps, Procs
<1>9. ASSUME NEW w \in Writers, PutCrc(w) PROVE TypeOK'
  BY <1>9, WholeType DEF PutCrc, PCs, PutSteps, Procs
<1>10. ASSUME NEW w \in Writers, NEW word \in Words, PutCopy(w, word) PROVE TypeOK'
  <2>1. [slot[at[w]].data EXCEPT ![word] = mine[w]] \in Data
    BY DEF Data, Procs
  <2> QED
    BY <1>10, <2>1 DEF PutCopy, Procs
<1>11. ASSUME NEW w \in Writers, PutPublish(w) PROVE TypeOK'
  <2>1. laps' \in [Readers -> 0 .. N]
    BY <1>11, RingAssumption DEF PutPublish
  <2>2. index' \in 0 .. Wrap-1
    BY <1>11, IndexArithmetic DEF PutPublish, Procs
  <2>3. pc' \in [Procs -> PCs] /\ published' \in 0 .. MaxPuts
    BY <1>11 DEF PutPublish, PCs, Procs
  <2> QED
    BY <1>11, <2>1, <2>2, <2>3 DEF PutPublish
<1>12. ASSUME NEW r \in Readers, GetIndex(r) PROVE TypeOK'
  <2>1. seen' \in [Readers -> 0 .. MaxPuts] /\ laps' \in [Readers -> 0 .. N]
    BY <1>12, RingAssumption DEF GetIndex
  <2>2. CASE Return(r, -1) /\ UNCHANGED at
    BY <1>12, <2>1, <2>2 DEF GetIndex, Return, PCs, Procs
  <2>3. CASE ToInt(index) \in Slots /\ at' = [at EXCEPT ![r] = ToInt(index)]
             /\ pc' = [pc EXCEPT ![r] = "g_time"] /\ UNCHANGED got
    BY <1>12, <2>1, <2>3 DEF GetIndex, PCs, GetSteps, Procs
  <2> QED
    BY <1>12, <2>2, <2>3 DEF GetIndex
<1>13. ASSUME NEW r \in Readers, GetTime(r) PROVE TypeOK'
  BY <1>13 DEF GetTime, PCs, GetSteps, Procs
<1>14. ASSUME NEW r \in Readers, GetStale(r) PROVE TypeOK'
  BY <1>14 DEF GetStale, Return, PCs, Procs
<1>15. ASSUME NEW r \in Readers, GetStamp(r) PROVE TypeOK'
  BY <1>15 DEF GetStamp, PCs, GetSteps, Procs
<1>16. ASSUME NEW r \in Readers, NEW word \in Words, GetCopy(r, word) PROVE TypeOK'
  <2>1. [buf[r] EXCEPT ![word] = slot[at[r]].data[word]] \in Data
    BY DEF Data, Procs
  <2> QED
    BY <1>16, <2>1 DEF GetCopy, Procs
<1>17. ASSUME NEW r \in Readers, GetOk(r) PROVE TypeOK'
  BY <1>17 DEF GetOk, Return, PCs, Procs
<1>18. ASSUME NEW r \in Readers, GetRetry(r) PROVE TypeOK'
  BY <1>18, SlotArithmetic DEF GetRetry, PCs, GetSteps, Procs
<1>19. ASSUME NEW r \in Readers, GetFail(r) PROVE TypeOK'
  BY <1>19 DEF GetFail, Return, PCs, Procs
<1>20. CASE UNCHANGED vars
  BY <1>20 DEF vars, locals
<1> QED
  BY <1>1, <1>2, <1>3, <1>4, <1>5, <1>6, <1>7, <1>8, <1>9, <1>10, <1>11, <1>12, <1>13,
     <1>14, <1>15, <1>16, <1>17, <1>18, <1>19, <1>20, <1>21, <1>22 DEF Next, Ctor, Put, Get

\* Every variable of the ring keeps its type, for every ring of at least three slots
\* and whatever uint32_t the segment held as index, up to an access outside the ring.
THEOREM TypeCorrect == Spec => []TypeOK
  BY InitType, StepType, PTL DEF Spec

-----------------------------------------------------------------------------
(***************************************************************************)
(* Within the ring.  An index that some build left fits in an int, and so  *)
(* does the one after it; from then on every index is a slot's.            *)
(***************************************************************************)
IndexFits == 2 * (index + 1) < Wrap

LEMMA InitFits == (\A i \in InitIndexes : 2 * (i + 1) < Wrap) /\ Init => IndexFits
<1> SUFFICES ASSUME \A i \in InitIndexes : 2 * (i + 1) < Wrap, Init PROVE 2 * (index + 1) < Wrap
  BY DEF IndexFits
<1>1. CASE Fresh
  BY <1>1, RingAssumption, SizeAssumption DEF Init
<1>2. CASE ~Fresh
  BY <1>2 DEF Init
<1> QED
  BY <1>1, <1>2, RingAssumption

\* An index that fits makes a slot for Put; Get finds it a slot, or past the ring.
LEMMA FitsNotAstray ==
  ASSUME TypeOK, IndexFits
  PROVE  SlotToFill \in Slots /\ ToInt(index) >= 0
<1>1. index \in Nat /\ ToInt(index) = index /\ ToInt((index + 1) % Wrap) = index + 1
  BY IndexArithmetic, SizeAssumption DEF TypeOK, IndexFits
<1>2. Rem(index + 1) \in Slots
  BY <1>1, RemArithmetic
<1> QED
  BY <1>1, <1>2 DEF SlotToFill

\* The index changes only when a constructor clears it and when a Put ends.
LEMMA StepFits == TypeOK /\ IndexFits /\ [Next]_vars => IndexFits'
<1> SUFFICES ASSUME TypeOK, IndexFits, [Next]_vars PROVE IndexFits'
  OBVIOUS
<1> USE DEF IndexFits, shared
<1>1. ASSUME NEW p \in Procs, NEW piece \in Pieces, CtorWipe(p, piece) PROVE IndexFits'
  BY <1>1, SizeAssumption, RingAssumption DEF CtorWipe
<1>2. ASSUME NEW w \in Writers, PutPublish(w) PROVE IndexFits'
  BY <1>2, IndexArithmetic DEF PutPublish, TypeOK, Procs
<1>3. CASE index' = index
  BY <1>3
<1> QED
  BY <1>1, <1>2, <1>3
     DEF Next, Tick, Ctor, Crash, CtorCheck, CtorTag, Put, PutStart, PutIndex, PutAstray, PutStamp,
         PutCrc, PutCopy, Get, GetIndex, GetAstray, GetTime, GetStale, GetStamp, GetCopy, GetOk,
         GetRetry, GetFail, vars

LEMMA StepInRing == TypeOK /\ IndexFits /\ StaysInRing /\ [Next]_vars => StaysInRing'
<1> SUFFICES ASSUME TypeOK, IndexFits, StaysInRing, [Next]_vars PROVE StaysInRing'
  OBVIOUS
<1> USE DEF StaysInRing, TypeOK
<1>1. ASSUME NEW p \in Procs, Ctor(p) \/ Crash(p) PROVE StaysInRing'
  BY <1>1 DEF Ctor, CtorCheck, CtorWipe, CtorTag, TagAfter, Tags, Crash
<1>2. ASSUME NEW w \in Writers, Put(w) PROVE StaysInRing'
  <2>1. ~PutAstray(w)
    BY FitsNotAstray DEF PutAstray
  <2> QED
    BY <1>2, <2>1 DEF Put, PutStart, PutIndex, PutStamp, PutCrc, PutCopy, PutPublish
<1>3. ASSUME NEW r \in Readers, Get(r) PROVE StaysInRing'
  <2>1. ~GetAstray(r)
    <3>1. ~(ToInt(index) < 0)
      BY FitsNotAstray, IndexArithmetic, SizeAssumption DEF IndexFits
    <3> QED
      BY <3>1 DEF GetAstray
  <2> QED
    BY <1>3, <2>1 DEF Get, GetIndex, GetTime, GetStale, GetStamp, GetCopy, GetOk, GetRetry,
                      GetFail, Return
<1>4. CASE Tick \/ UNCHANGED vars
  BY <1>4 DEF Tick, vars, locals
<1> QED
  BY <1>1, <1>2, <1>3, <1>4 DEF Next

\* In a segment that builds of this code wrote, whatever size their ring had, no Put
\* and no Get leaves the ring: not at any step of any number of processes, killed and
\* restarted, racing in their constructors (tmp.cc:276-277, 329-330).
THEOREM NobodyAstray ==
  ASSUME \A i \in InitIndexes : 2 * (i + 1) < Wrap
  PROVE  Spec => []StaysInRing
<1>1. Init => TypeOK /\ IndexFits /\ StaysInRing
  BY InitType, InitFits DEF Init, StaysInRing
<1>2. TypeOK /\ IndexFits /\ StaysInRing /\ [Next]_vars => TypeOK' /\ IndexFits' /\ StaysInRing'
  BY StepType, StepFits, StepInRing
<1> QED
  BY <1>1, <1>2, PTL DEF Spec

-----------------------------------------------------------------------------
(***************************************************************************)
(* No torn read.  The checksum in a slot is zero or that of a whole payload*)
(* already Put, whoever stores what and in whichever order; a Get that     *)
(* returns 0 has matched its own copy against such a checksum.             *)
(***************************************************************************)
PutNumbers == \A w \in Writers : pc[w] \in PutSteps => mine[w] \in 1 .. puts

SlotCrcs ==
    \A i \in Slots : slot[i].crc = ZeroCrc
                     \/ \E k \in 1 .. puts : slot[i].crc = Crc32(Whole(k))

TornInv == PutNumbers /\ SlotCrcs /\ NoTornRead

LEMMA InitTorn == Init => TornInv
  BY DEF Init, TornInv, PutNumbers, SlotCrcs, NoTornRead, PutSteps, ZeroSlot, NoResult, Procs

LEMMA StepTorn == TypeOK /\ TornInv /\ [Next]_vars => TornInv'
<1> SUFFICES ASSUME TypeOK, TornInv, [Next]_vars PROVE TornInv'
  OBVIOUS
<1> USE DEF TornInv, PutNumbers, SlotCrcs, NoTornRead, shared, history
<1>1. CASE Tick
  BY <1>1 DEF Tick, locals
<1>2. ASSUME NEW p \in Procs, Crash(p) PROVE TornInv'
  BY <1>2 DEF Crash, PutSteps, TypeOK
<1>3. ASSUME NEW p \in Procs, CtorCheck(p) PROVE TornInv'
  <2>1. \A w \in Writers : pc'[w] \in PutSteps => pc[w] \in PutSteps
    BY <1>3 DEF CtorCheck, PutSteps, TypeOK, Procs
  <2> QED
    BY <1>3, <2>1 DEF CtorCheck
<1>4. ASSUME NEW p \in Procs, NEW piece \in Pieces, CtorWipe(p, piece) PROVE TornInv'
  <2>1. PutNumbers' /\ NoTornRead'
    BY <1>4 DEF CtorWipe, PutSteps, TypeOK
  <2>2. ASSUME piece = Helper PROVE SlotCrcs'
    BY <1>4, <2>2 DEF CtorWipe
  <2>3. ASSUME piece # Helper PROVE SlotCrcs'
    <3>1. piece \in Slots /\ slot' = [slot EXCEPT ![piece] = ZeroSlot] /\ puts' = puts
      BY <1>4, <2>3 DEF CtorWipe, Pieces
    <3>2. \A i \in Slots : slot'[i] = IF i = piece THEN ZeroSlot ELSE slot[i]
      BY <3>1 DEF TypeOK
    <3> QED
      BY <3>1, <3>2 DEF ZeroSlot
  <2> QED
    BY <2>1, <2>2, <2>3
<1>5. ASSUME NEW p \in Procs, CtorTag(p) PROVE TornInv'
  <2>1. \A w \in Writers : pc'[w] \in PutSteps => pc[w] \in PutSteps
    BY <1>5 DEF CtorTag, TagAfter, PutSteps, TypeOK, Procs
  <2> QED
    BY <1>5, <2>1 DEF CtorTag
<1>6. ASSUME NEW w \in Writers, PutStart(w) PROVE TornInv'
  <2>1. puts \in Nat /\ puts' = puts + 1 /\ 1 .. puts \subseteq 1 .. puts'
    BY <1>6, RingAssumption DEF PutStart, TypeOK
  <2>2. PutNumbers'
    BY <1>6, <2>1 DEF PutStart, TypeOK
  <2>3. SlotCrcs' /\ NoTornRead'
    BY <1>6, <2>1 DEF PutStart
  <2> QED
    BY <2>2, <2>3
<1>7. ASSUME NEW w \in Writers, PutIndex(w) PROVE TornInv'
  BY <1>7 DEF PutIndex, PutSteps, TypeOK
<1>21. ASSUME NEW w \in Writers, PutAstray(w) PROVE TornInv'
  BY <1>21 DEF PutAstray, PutSteps, TypeOK
<1>22. ASSUME NEW r \in Readers, GetAstray(r) PROVE TornInv'
  BY <1>22 DEF GetAstray, PutSteps, TypeOK
<1>8. ASSUME NEW w \in Writers, PutStamp(w) PROVE TornInv'
  <2>1. PutNumbers' /\ NoTornRead'
    BY <1>8 DEF PutStamp, PutSteps, TypeOK
  <2>2. SlotCrcs'
    BY <1>8 DEF PutStamp, TypeOK
  <2> QED
    BY <2>1, <2>2
<1>9. ASSUME NEW w \in Writers, PutCrc(w) PROVE TornInv'
  <2>1. PutNumbers' /\ NoTornRead'
    BY <1>9 DEF PutCrc, PutSteps, TypeOK
  <2>2. SlotCrcs'
    BY <1>9 DEF PutCrc, PutSteps, TypeOK
  <2> QED
    BY <2>1, <2>2
<1>10. ASSUME NEW w \in Writers, NEW word \in Words, PutCopy(w, word) PROVE TornInv'
  <2>1. \A i \in Slots : slot'[i].crc = slot[i].crc
    BY <1>10 DEF PutCopy, TypeOK
  <2> QED
    BY <1>10, <2>1 DEF PutCopy
<1>11. ASSUME NEW w \in Writers, PutPublish(w) PROVE TornInv'
  BY <1>11 DEF PutPublish, PutSteps, TypeOK
<1>12. ASSUME NEW r \in Readers, GetIndex(r) PROVE TornInv'
  <2>1. CASE Return(r, -1) /\ UNCHANGED at
    <3>1. \A w \in Writers : pc'[w] \in PutSteps => pc[w] \in PutSteps
      BY <2>1 DEF Return, PutSteps, TypeOK, Procs
    <3>2. \A q \in Readers : got'[q].tag = 0 => got'[q] = got[q]
      BY <2>1 DEF Return, TypeOK
    <3> QED
      BY <1>12, <3>1, <3>2 DEF GetIndex
  <2>2. CASE /\ pc' = [pc EXCEPT ![r] = "g_time"] /\ UNCHANGED got
    <3>1. \A w \in Writers : pc'[w] \in PutSteps => pc[w] \in PutSteps
      BY <2>2 DEF PutSteps, TypeOK, Procs
    <3> QED
      BY <1>12, <2>2, <3>1 DEF GetIndex
  <2> QED
    BY <1>12, <2>1, <2>2 DEF GetIndex
<1>13. ASSUME NEW r \in Readers, GetTime(r) PROVE TornInv'
  BY <1>13 DEF GetTime, PutSteps, TypeOK
<1>14. ASSUME NEW r \in Readers, GetStale(r) PROVE TornInv'
  BY <1>14 DEF GetStale, Return, PutSteps, TypeOK
<1>15. ASSUME NEW r \in Readers, GetStamp(r) PROVE TornInv'
  BY <1>15 DEF GetStamp, PutSteps, TypeOK
<1>16. ASSUME NEW r \in Readers, NEW word \in Words, GetCopy(r, word) PROVE TornInv'
  BY <1>16 DEF GetCopy
<1>17. ASSUME NEW r \in Readers, GetOk(r) PROVE TornInv'
  <2>1. buf[r] \in Data /\ at[r] \in Slots /\ puts \in 0 .. MaxPuts
    BY DEF TypeOK, Procs
  <2>2. Crc32(buf[r]) # ZeroCrc
    BY <2>1, CrcAssumption
  <2>3. PICK k \in 1 .. puts : slot[at[r]].crc = Crc32(Whole(k))
    BY <1>17, <2>1, <2>2 DEF GetOk, CrcMatches
  <2>4. buf[r] = Whole(k)
    BY <1>17, <2>1, <2>3, CrcAssumption, RingAssumption DEF GetOk, CrcMatches
  <2>5. PutNumbers' /\ SlotCrcs'
    BY <1>17 DEF GetOk, Return, PutSteps, TypeOK
  <2>6. NoTornRead'
    BY <1>17, <2>4 DEF GetOk, Return, TypeOK
  <2> QED
    BY <2>5, <2>6
<1>18. ASSUME NEW r \in Readers, GetRetry(r) PROVE TornInv'
  BY <1>18 DEF GetRetry, PutSteps, TypeOK
<1>19. ASSUME NEW r \in Readers, GetFail(r) PROVE TornInv'
  BY <1>19 DEF GetFail, Return, PutSteps, TypeOK
<1>20. CASE UNCHANGED vars
  BY <1>20 DEF vars, locals
<1> QED
  BY <1>1, <1>2, <1>3, <1>4, <1>5, <1>6, <1>7, <1>8, <1>9, <1>10, <1>11, <1>12, <1>13,
     <1>14, <1>15, <1>16, <1>17, <1>18, <1>19, <1>20, <1>21, <1>22 DEF Next, Ctor, Put, Get

\* A Get that returns 0 returns one whole payload that was Put, for any number
\* of writers, readers and crashes, and constructors clearing the segment.
THEOREM NoTornReads == Spec => []NoTornRead
<1>1. Init => TypeOK /\ TornInv
  BY InitType, InitTorn
<1>2. TypeOK /\ TornInv /\ [Next]_vars => TypeOK' /\ TornInv'
  BY StepType, StepTorn
<1>3. TornInv => NoTornRead
  BY DEF TornInv
<1> QED
  BY <1>1, <1>2, <1>3, PTL DEF Spec

-----------------------------------------------------------------------------
(* Constructors that race over a new segment.                               *)

\* Where a constructor is that has yet to write t.
YetToWrite(t) == CASE t = "tag1" -> {"wipe", "tag1"}
                   [] t = "tag2" -> {"wipe", "tag1", "tag2"}
                   [] OTHER      -> {"wipe", "tag1", "tag2", "version"}

\* A tag that is missing comes: a constructor that clears the others' tags has all
\* of its own to write.
TagsInv ==
    crashes = 0 =>
        \A t \in Tags : \/ t \in tags
                        \/ \A p \in Procs : pc[p] = "out"
                        \/ \E p \in Procs : pc[p] \in YetToWrite(t)

LEMMA InitTags == Init => TagsInv
  BY DEF Init, TagsInv

\* A call that is no constructor leaves the tags and the constructors alone.
LEMMA CallsKeepTags ==
  ASSUME TypeOK, Tick \/ (\E w \in Writers : Put(w)) \/ (\E r \in Readers : Get(r)) \/ UNCHANGED vars
  PROVE  /\ UNCHANGED <<tags, crashes>>
         /\ \/ pc' = pc
            \/ \E p \in Procs : /\ pc[p] \in {"idle"} \cup PutSteps \cup GetSteps
                                /\ \A q \in Procs : q # p => pc'[q] = pc[q]
<1>1. ASSUME NEW w \in Writers, Put(w)
      PROVE  /\ UNCHANGED <<tags, crashes>> /\ pc[w] \in {"idle"} \cup PutSteps
             /\ \A q \in Procs : q # w => pc'[q] = pc[q]
  <2>1. CASE PutStart(w) \/ PutIndex(w) \/ PutAstray(w)
    BY <2>1 DEF PutStart, PutIndex, PutAstray, shared, PutSteps, TypeOK
  <2>2. CASE PutStamp(w) \/ PutCrc(w) \/ PutPublish(w)
    BY <2>2 DEF PutStamp, PutCrc, PutPublish, PutSteps, TypeOK
  <2>3. ASSUME NEW x \in Words, PutCopy(w, x)
        PROVE  /\ UNCHANGED <<tags, crashes, pc>> /\ pc[w] \in {"idle"} \cup PutSteps
    BY <2>3 DEF PutCopy, PutSteps
  <2> QED
    BY <1>1, <2>1, <2>2, <2>3 DEF Put
<1>2. ASSUME NEW r \in Readers, Get(r)
      PROVE  /\ UNCHANGED <<tags, crashes>> /\ pc[r] \in {"idle"} \cup GetSteps
             /\ \A q \in Procs : q # r => pc'[q] = pc[q]
  <2>1. CASE GetIndex(r) \/ GetAstray(r) \/ GetTime(r)
    BY <2>1 DEF GetIndex, GetAstray, GetTime, Return, shared, GetSteps, TypeOK
  <2>2. CASE GetStale(r) \/ GetStamp(r) \/ GetOk(r) \/ GetRetry(r) \/ GetFail(r)
    BY <2>2 DEF GetStale, GetStamp, GetOk, GetRetry, GetFail, Return, shared, GetSteps, TypeOK
  <2>3. ASSUME NEW x \in Words, GetCopy(r, x)
        PROVE  /\ UNCHANGED <<tags, crashes, pc>> /\ pc[r] \in {"idle"} \cup GetSteps
    BY <2>3 DEF GetCopy, shared, GetSteps
  <2> QED
    BY <1>2, <2>1, <2>2, <2>3 DEF Get
<1>3. CASE Tick \/ UNCHANGED vars
  BY <1>3 DEF Tick, vars, shared, locals
<1> QED
  BY <1>1, <1>2, <1>3 DEF Procs

LEMMA StepTags == TypeOK /\ TagsInv /\ [Next]_vars => TagsInv'
<1> SUFFICES ASSUME TypeOK, TagsInv, [Next]_vars PROVE TagsInv'
  OBVIOUS
<1>1. ASSUME NEW p \in Procs, CtorCheck(p) PROVE TagsInv'
  <2>1. CASE tags = Tags
    BY <1>1, <2>1 DEF CtorCheck, shared, TagsInv
  <2>2. CASE tags # Tags
    <3>1. pc'[p] = "wipe"
      BY <1>1, <2>2 DEF CtorCheck, TypeOK
    <3> QED
      BY <3>1 DEF TagsInv, YetToWrite, Tags
  <2> QED
    BY <2>1, <2>2
<1>2. ASSUME NEW p \in Procs, NEW piece \in Pieces, CtorWipe(p, piece) PROVE TagsInv'
  <2>1. pc'[p] \in {"wipe", "tag1"}
    BY <1>2 DEF CtorWipe, TypeOK
  <2> QED
    BY <2>1 DEF TagsInv, YetToWrite, Tags
<1>3. ASSUME NEW p \in Procs, CtorTag(p) PROVE TagsInv'
  <2>1. /\ pc[p] \in Tags /\ tags' = tags \cup {pc[p]} /\ crashes' = crashes
        /\ pc'[p] = TagAfter(pc[p]) /\ \A q \in Procs : q # p => pc'[q] = pc[q]
    BY <1>3 DEF CtorTag, TypeOK
  <2>2. ASSUME crashes = 0, NEW t \in Tags, t \notin tags'
        PROVE  \E q \in Procs : pc'[q] \in YetToWrite(t)
    <3>1. PICK q \in Procs : pc[q] \in YetToWrite(t)
      BY <2>1, <2>2 DEF TagsInv, Tags
    <3>2. CASE q # p
      BY <2>1, <3>1, <3>2
    <3>3. CASE q = p
      BY <2>1, <2>2, <3>1, <3>3 DEF YetToWrite, TagAfter, Tags
    <3> QED
      BY <3>2, <3>3
  <2> QED
    BY <2>1, <2>2 DEF TagsInv
<1>4. ASSUME NEW p \in Procs, Crash(p) PROVE TagsInv'
  BY <1>4, RingAssumption DEF Crash, TypeOK, TagsInv
<1>5. CASE Tick \/ (\E w \in Writers : Put(w)) \/ (\E r \in Readers : Get(r)) \/ UNCHANGED vars
  <2>1. UNCHANGED <<tags, crashes>>
    BY <1>5, CallsKeepTags
  <2>2. CASE pc' = pc
    BY <2>1, <2>2 DEF TagsInv
  <2>3. ASSUME NEW p \in Procs, pc[p] \in {"idle"} \cup PutSteps \cup GetSteps,
               \A q \in Procs : q # p => pc'[q] = pc[q]
        PROVE  TagsInv'
    <3>1. pc[p] # "out" /\ \A t \in Tags : pc[p] \notin YetToWrite(t)
      BY <2>3 DEF PutSteps, GetSteps, Tags, YetToWrite
    <3> QED
      BY <2>1, <2>3, <3>1 DEF TagsInv
  <2> QED
    BY <1>5, <2>2, <2>3, CallsKeepTags
<1> QED
  BY <1>1, <1>2, <1>3, <1>4, <1>5 DEF Next, Ctor

\* However many constructors race over a new segment, once they are through and none
\* was killed the segment has all its tags (tmp.h:78-85).
THEOREM TagsComeTogether == Spec => []TagsSettle
<1>1. TypeOK /\ TagsInv => TagsSettle
  BY DEF TypeOK, TagsInv, TagsSettle, YetToWrite, Tags
<1>2. TypeOK /\ TagsInv /\ [Next]_vars => TypeOK' /\ TagsInv'
  BY StepType, StepTags
<1> QED
  BY <1>1, <1>2, InitType, InitTags, PTL DEF Spec
=============================================================================
