--------------------------- MODULE HkServerProofs ---------------------------
(***************************************************************************)
(* Where the HK server sends, what, and in answer to what, proved for any   *)
(* set of robots, any numbers in their datagrams and any number of turns.  *)
(*                                                                         *)
(* The datagrams are followed byte by byte: no struct of msg_type.h needs  *)
(* padding, so the fields that a generator copies one after the other lie  *)
(* where the struct has its members, and sizeof is their sum.              *)
(***************************************************************************)
EXTENDS HkServer, SequenceTheorems, Recursion, TLAPS

\* What the loop keeps true of client_addr and client_len between two turns.
AddressInv ==
    /\ tick \in Nat
    /\ tick = 0 => client_len = 0 /\ client_addr = Nowhere
    /\ tick > 0 => client_len = 16
    /\ tick = 1 => client_addr = Nowhere
    /\ tick > 1 => client_addr = got.from

\* Whatever the last turn sent went to client_addr, and before the first turn
\* nothing was sent.
OutInv ==
    /\ tick = 0 => out = <<>>
    /\ \A i \in DOMAIN out : out[i].to = client_addr

-----------------------------------------------------------------------------

LEMMA ReceiveKeepsAddress ==
    ASSUME AddressInv, Receive
    PROVE  AddressInv' /\ tick' > 0
<1>1. PICK r \in Robots : got'.from = r /\ client_addr' = Client(r)
  BY DEF Receive
<1>2. tick' = tick + 1 /\ client_len' = 16 /\ tick \in Nat
  BY DEF Receive, AddressInv
<1>3. tick' > 1 => client_addr' = got'.from
  BY <1>1, <1>2 DEF AddressInv, Client
<1>4. tick' = 1 => client_addr' = Nowhere
  BY <1>1, <1>2 DEF AddressInv, Client
<1>. QED  BY <1>2, <1>3, <1>4 DEF AddressInv

\* Every branch receives once and sends to the address it then has.
LEMMA EveryBranchSends ==
    ASSUME Next
    PROVE  Receive /\ \A i \in DOMAIN out' : out'[i].to = client_addr'
<1>1. CASE Register
  BY <1>1 DEF Register, Receives, Send
<1>2. CASE RobotStatus
  BY <1>2 DEF RobotStatus, Receives, Send
<1>3. CASE ApplyCleanArea
  BY <1>3 DEF ApplyCleanArea, Receives, Send
<1>4. CASE ApplyForDoor
  BY <1>4 DEF ApplyForDoor, Receives, Send
<1>5. CASE ApplyTrafficRes
  BY <1>5 DEF ApplyTrafficRes, Receives, Send
<1>6. CASE ApplyOffline
  BY <1>6 DEF ApplyOffline, Receives, Send
<1>7. CASE ApplyPlan
  BY <1>7 DEF ApplyPlan, Receives, Send
<1>8. CASE NoBranch
  BY <1>8 DEF NoBranch, Send
<1>. QED  BY <1>1, <1>2, <1>3, <1>4, <1>5, <1>6, <1>7, <1>8 DEF Next

LEMMA AddressInvariant == Spec => [](AddressInv /\ OutInv)
<1>1. Init => AddressInv /\ OutInv
  BY DEF Init, AddressInv, OutInv
<1>2. AddressInv /\ OutInv /\ [Next]_vars => (AddressInv /\ OutInv)'
  <2> SUFFICES ASSUME AddressInv, OutInv, [Next]_vars
               PROVE  (AddressInv /\ OutInv)'
    OBVIOUS
  <2>1. CASE Next
    BY <2>1, EveryBranchSends, ReceiveKeepsAddress DEF OutInv, AddressInv
  <2>2. CASE UNCHANGED vars
    BY <2>2 DEF vars, server, AddressInv, OutInv
  <2>. QED  BY <2>1, <2>2
<1>. QED  BY <1>1, <1>2, PTL DEF Spec

\* Every turn after the first sends to the robot it heard from and to nobody
\* else, and the first one sends nowhere (main.cpp:22, 46-47, 63-200).
THEOREM TurnsSendToSender == Spec => []SentToSender
<1>1. AddressInv /\ OutInv => SentToSender
  BY DEF AddressInv, OutInv, SentToSender
<1>. QED  BY <1>1, AddressInvariant, PTL

-----------------------------------------------------------------------------
(* The door info.                                                          *)

DoorInv == if_send_door_info \in BOOLEAN /\ DoorInfoSentOnce

\* The address a turn sends to is a robot's, but for the first turn.
LEMMA AddressIsRobot ==
    ASSUME AddressInv, Receive
    PROVE  tick' > 0 /\ (client_addr' \in Robots <=> tick' > 1)
<1>1. got'.from \in Robots
  BY DEF Receive
<1>2. AddressInv' /\ tick' > 0
  BY ReceiveKeepsAddress
<1>3. CASE tick' > 1
  BY <1>1, <1>2, <1>3 DEF AddressInv
<1>4. CASE tick' = 1
  BY <1>2, <1>4, HkServerAssumption DEF AddressInv
<1>. QED  BY <1>2, <1>3, <1>4 DEF AddressInv

\* The first status records one turn; no other turn records any.
LEMMA StepDoor ==
    ASSUME AddressInv, DoorInv, Next
    PROVE  DoorInv'
<1>1. CASE RobotStatus
  <2>1. /\ if_send_door_info' = TRUE
        /\ told' = IF ~if_send_door_info /\ registered'
                   THEN told \cup {[to |-> client_addr', turn |-> tick']} ELSE told
        /\ registered' = TRUE
    BY <1>1 DEF RobotStatus, FirstTime
  <2>2. tick' > 0 /\ (client_addr' \in Robots <=> tick' > 1)
    BY <1>1, AddressIsRobot DEF RobotStatus, Receives
  <2>3. CASE if_send_door_info
    BY <2>1, <2>3 DEF DoorInv, DoorInfoSentOnce
  <2>4. CASE ~if_send_door_info
    <3>1. told' = {[to |-> client_addr', turn |-> tick']}
      BY <2>1, <2>4 DEF DoorInv, DoorInfoSentOnce
    <3>2. told' # {} /\ \A a, b \in told' : a = b
      BY <3>1
    <3>3. \A d \in told' : d.to = client_addr' /\ d.turn = tick'
      BY <3>1
    <3>4. \A d \in told' : d.to \in Robots <=> d.turn > 1
      BY <2>2, <3>3
    <3>. QED  BY <2>1, <3>2, <3>4 DEF DoorInv, DoorInfoSentOnce
  <2>. QED  BY <2>3, <2>4
<1>2. CASE KeepFlags
  BY <1>2 DEF KeepFlags, DoorInv, DoorInfoSentOnce
<1>3. Register => KeepFlags
  BY DEF Register
<1>4. ApplyCleanArea => KeepFlags
  BY DEF ApplyCleanArea
<1>5. ApplyForDoor => KeepFlags
  BY DEF ApplyForDoor
<1>6. ApplyTrafficRes => KeepFlags
  BY DEF ApplyTrafficRes
<1>7. ApplyOffline => KeepFlags
  BY DEF ApplyOffline
<1>8. ApplyPlan => KeepFlags
  BY DEF ApplyPlan
<1>9. NoBranch => KeepFlags
  BY DEF NoBranch
<1>. QED  BY <1>1, <1>2, <1>3, <1>4, <1>5, <1>6, <1>7, <1>8, <1>9 DEF Next

\* The door info is sent in one turn, and that turn's robot gets it unless it
\* was the first turn of all (main.cpp:22, 79-95).
THEOREM DoorInfoGoesOutOnce == Spec => []DoorInfoSentOnce
<1>1. Init => DoorInv
  BY DEF Init, DoorInv, DoorInfoSentOnce
<1>2. AddressInv /\ DoorInv /\ [Next]_vars => DoorInv'
  <2>1. ASSUME UNCHANGED vars, DoorInv PROVE DoorInv'
    BY <2>1 DEF vars, server, DoorInv, DoorInfoSentOnce
  <2>. QED  BY <2>1, StepDoor
<1>3. DoorInv => DoorInfoSentOnce
  BY DEF DoorInv
<1>. QED  BY <1>1, <1>2, <1>3, AddressInvariant, PTL DEF Spec

-----------------------------------------------------------------------------
(* Structs.                                                                *)

\* e gives where the first n members of S end.
EndsUpTo(e, S, n) == e = [k \in 0 .. n |-> IF k = 0 THEN 0 ELSE RoundUp(e[k - 1], S[k]) + S[k]]

LEMMA EndsUpToFacts ==
  ASSUME NEW e, NEW S, NEW n \in Nat, EndsUpTo(e, S, n)
  PROVE  /\ e[0] = 0
         /\ \A k \in 1 .. n : e[k] = RoundUp(e[k - 1], S[k]) + S[k]
<1>1. \A k \in 0 .. n : e[k] = IF k = 0 THEN 0 ELSE RoundUp(e[k - 1], S[k]) + S[k]
  BY DEF EndsUpTo
<1> QED
  BY <1>1

LEMMA EndsUpToExists ==
  ASSUME NEW S, NEW N \in Nat
  PROVE  \E e : EndsUpTo(e, S, N)
<1> DEFINE U == {n \in 0 .. N : \E e : EndsUpTo(e, S, n)}
<1>1. 0 \in U
  <2>1. EndsUpTo([k \in 0 .. 0 |-> 0], S, 0)
    BY DEF EndsUpTo
  <2> QED
    BY <2>1
<1>2. ASSUME NEW n \in 0 .. N - 1, n \in U PROVE n + 1 \in U
  <2>1. PICK e : EndsUpTo(e, S, n)
    BY <1>2
  <2> DEFINE g == [k \in 0 .. n + 1 |->
                      IF k = n + 1 THEN RoundUp(e[n], S[n + 1]) + S[n + 1] ELSE e[k]]
  <2>2. ASSUME NEW k \in 0 .. n + 1
        PROVE  g[k] = IF k = 0 THEN 0 ELSE RoundUp(g[k - 1], S[k]) + S[k]
    <3>1. CASE k = 0
      BY <2>1, <3>1, EndsUpToFacts
    <3>2. CASE k = n + 1
      <4>1. g[n] = e[n] /\ k - 1 = n /\ k # 0
        BY <3>2
      <4> QED
        BY <3>2, <4>1
    <3>3. CASE k \in 1 .. n
      <4>1. g[k] = e[k] /\ g[k - 1] = e[k - 1] /\ k # 0
        BY <3>3
      <4>2. e[k] = RoundUp(e[k - 1], S[k]) + S[k]
        BY <2>1, <3>3, EndsUpToFacts
      <4> QED
        BY <4>1, <4>2
    <3> QED
      BY <3>1, <3>2, <3>3
  <2>3. EndsUpTo(g, S, n + 1)
    <3>1. g = [k \in 0 .. n + 1 |-> g[k]]
      OBVIOUS
    <3> HIDE DEF g
    <3> QED
      BY <2>2, <3>1 DEF EndsUpTo
  <2> QED
    BY <2>3
<1>3. \A n \in 0 .. N : n \in U
  <2> HIDE DEF U
  <2> QED
    BY <1>1, <1>2, UpTo
<1> QED
  BY <1>3

LEMMA EndsIsRecursive ==
  ASSUME NEW S, Len(S) \in Nat
  PROVE  /\ Ends(S)[0] = 0
         /\ \A k \in 1 .. Len(S) : Ends(S)[k] = RoundUp(Ends(S)[k - 1], S[k]) + S[k]
<1>1. EndsUpTo(Ends(S), S, Len(S))
  <2>1. \E e : EndsUpTo(e, S, Len(S))
    BY EndsUpToExists
  <2> QED
    BY <2>1 DEF EndsUpTo, Ends
<1> QED
  BY <1>1, EndsUpToFacts

\* The members of S need no padding, and end at E.
Unpadded(S, E) ==
    /\ S \in Seq({1, 2, 4}) /\ Len(E) = Len(S)
    /\ \A k \in 1 .. Len(S) :
         /\ E[k] \in Nat
         /\ E[k] = (IF k = 1 THEN 0 ELSE E[k - 1]) + S[k]
         /\ (E[k] - S[k]) % S[k] = 0

\* What is a multiple of a is not rounded.
LEMMA RoundsNot ==
  ASSUME NEW off \in Nat, NEW a \in {1, 2, 4}, off % a = 0
  PROVE  RoundUp(off, a) = off
<1>1. CASE a = 1
  BY <1>1 DEF RoundUp
<1>2. CASE a = 2
  BY <1>2 DEF RoundUp
<1>3. CASE a = 4
  BY <1>3 DEF RoundUp
<1> QED
  BY <1>1, <1>2, <1>3

LEMMA UnpaddedEnds ==
  ASSUME NEW S, NEW E, Unpadded(S, E)
  PROVE  \A k \in 1 .. Len(S) : Ends(S)[k] = E[k] /\ Offset(S, k) = E[k] - S[k]
<1> PICK n \in Nat : n = Len(S)
  BY DEF Unpadded
<1> DEFINE T == {k \in 0 .. n : k # 0 => Ends(S)[k] = E[k] /\ Offset(S, k) = E[k] - S[k]}
<1>1. 0 \in T
  OBVIOUS
<1>2. ASSUME NEW k \in 0 .. n - 1, k \in T PROVE k + 1 \in T
  <2> PICK off : off = IF k = 0 THEN 0 ELSE E[k]
    OBVIOUS
  <2>1. k + 1 \in 1 .. Len(S) /\ (k + 1) - 1 = k /\ (k = 0 \/ k \in 1 .. Len(S))
    OBVIOUS
  <2>2. off \in Nat /\ S[k + 1] \in {1, 2, 4} /\ off = E[k + 1] - S[k + 1] /\ off % S[k + 1] = 0
    <3>1. /\ S[k + 1] \in {1, 2, 4} /\ E[k + 1] \in Nat
          /\ E[k + 1] = (IF k + 1 = 1 THEN 0 ELSE E[(k + 1) - 1]) + S[k + 1]
          /\ (E[k + 1] - S[k + 1]) % S[k + 1] = 0
      BY <2>1 DEF Unpadded
    <3>2. off \in Nat
      BY <2>1 DEF Unpadded
    <3>3. E[k + 1] = off + S[k + 1]
      BY <3>1, <2>1
    <3>4. off = E[k + 1] - S[k + 1]
      BY <3>1, <3>2, <3>3
    <3> QED
      BY <3>1, <3>2, <3>4
  <2>3. Ends(S)[k] = off
    BY <1>2, EndsIsRecursive
  <2>4. Ends(S)[k + 1] = RoundUp(Ends(S)[k], S[k + 1]) + S[k + 1]
    BY <2>1, EndsIsRecursive
  <2>5. RoundUp(off, S[k + 1]) = off
    BY <2>2, RoundsNot
  <2>6. Offset(S, k + 1) = off
    BY <2>1, <2>3, <2>5 DEF Offset
  <2>7. Ends(S)[k + 1] = E[k + 1]
    <3>1. E[k + 1] \in Nat
      BY <2>1 DEF Unpadded
    <3> QED
      BY <2>2, <2>3, <2>4, <2>5, <3>1
  <2> QED
    BY <2>1, <2>2, <2>6, <2>7
<1>3. \A k \in 0 .. n : k \in T
  <2> HIDE DEF T
  <2> QED
    BY <1>1, <1>2, UpTo
<1> QED
  BY <1>3

LEMMA MaxOfSizes ==
  ASSUME NEW T, T \subseteq {1, 2, 4}, T # {}
  PROVE  Max(T) \in {1, 2, 4}
<1>1. \E x : x \in T /\ \A y \in T : x >= y
  <2>1. CASE 4 \in T
    BY <2>1
  <2>2. CASE 4 \notin T /\ 2 \in T
    BY <2>2
  <2>3. CASE 4 \notin T /\ 2 \notin T
    <3>1. T = {1}
      BY <2>3
    <3> QED
      BY <3>1
  <2> QED
    BY <2>1, <2>2, <2>3
<1>2. Max(T) \in T
  BY <1>1, Zenon DEF Max
<1> QED
  BY <1>2

\* S has n members, which need no padding and end at E, the last one at size; nor
\* is the struct padded at its end.
Layout(S, n, E, size) ==
    /\ Unpadded(S, E) /\ n = Len(S) /\ n > 0
    /\ size = E[n] /\ size % 4 = 0

LEMMA SizeOfLayout ==
  ASSUME NEW S, NEW n, NEW E, NEW size, Layout(S, n, E, size)
  PROVE  Sizeof(S) = size
<1>1. n \in Nat /\ n > 0 /\ n = Len(S) /\ Unpadded(S, E)
  BY DEF Layout, Unpadded
<1>2. ToSet(S) \subseteq {1, 2, 4} /\ ToSet(S) # {}
  <2>1. S \in Seq({1, 2, 4}) /\ Len(S) > 0
    BY <1>1 DEF Unpadded
  <2>2. DOMAIN S = 1 .. Len(S) /\ \A i \in 1 .. Len(S) : S[i] \in {1, 2, 4}
    BY <2>1
  <2>3. 1 \in 1 .. Len(S)
    BY <2>1
  <2>4. \A x \in ToSet(S) : x \in {1, 2, 4}
    BY <2>2, Zenon DEF ToSet
  <2>5. S[1] \in ToSet(S)
    BY <2>2, <2>3, Zenon DEF ToSet
  <2> QED
    BY <2>4, <2>5
<1>3. PICK a \in {1, 2, 4} : a = Max(ToSet(S))
  BY <1>2, MaxOfSizes
<1>4. Ends(S)[n] = E[n] /\ E[n] \in Nat
  BY <1>1, UnpaddedEnds DEF Unpadded
<1>5. E[n] % a = 0
  BY <1>4 DEF Layout
<1>6. RoundUp(E[n], a) = E[n]
  BY <1>4, <1>5, RoundsNot
<1> QED
  BY <1>1, <1>3, <1>4, <1>6 DEF Sizeof, Layout

-----------------------------------------------------------------------------
(* Bytes. *)

LEMMA AtLeft ==
  ASSUME NEW s \in Seq(Byte), NEW t \in Seq(Byte), NEW off \in Nat, NEW n \in Nat, off + n <= Len(s)
  PROVE  At(s \o t, off, n) = At(s, off, n)
<1>1. \A i \in off + 1 .. off + n : s[i] \in Byte /\ (s \o t)[i] = s[i]
  BY ConcatProperties, ElementOfSeq
<1> QED
  BY <1>1 DEF At

LEMMA AtRight ==
  ASSUME NEW s \in Seq(Byte), NEW t \in Seq(Byte), NEW off \in Nat, NEW n \in Nat, off + n <= Len(t),
         NEW skip \in Nat, skip = Len(s) + off
  PROVE  At(s \o t, skip, n) = At(t, off, n)
<1>1. \A i \in 1 .. n : (s \o t)[skip + i] = t[off + i]
  BY ConcatProperties
<1> QED
  BY <1>1 DEF At

LEMMA AtAll ==
  ASSUME NEW s \in Seq(Byte)
  PROVE  At(s, 0, Len(s)) = s
BY SubSeqFull DEF At

\* An integer in network order.
LEMMA NetBytes ==
  ASSUME NEW v \in Int, NEW w \in {1, 2, 4}
  PROVE  /\ Net(v, w) \in Seq(Byte) /\ Len(Net(v, w)) = w
         /\ Host(v, w) \in Seq(Byte) /\ Len(Host(v, w)) = w
<1> DEFINE h == Host(v, w)
<1>1. \A i \in 1 .. w : Weight[i] \in Nat \ {0}
  BY DEF Weight
<1>2. \A i \in 1 .. w : (v \div Weight[i]) % 256 \in Byte
  <2>1. ASSUME NEW x \in Int PROVE x % 256 \in Byte
    BY DEF Byte
  <2>2. ASSUME NEW x \in Nat \ {0} PROVE v \div x \in Int
    OBVIOUS
  <2> QED
    BY <1>1, <2>1, <2>2
<1>3. h \in Seq(Byte) /\ Len(h) = w
  BY <1>2 DEF Host
<1> HIDE DEF h
<1>4. \A i \in 1 .. w : h[(w - i) + 1] \in Byte
  BY <1>3
<1>5. Net(v, w) = [i \in 1 .. w |-> h[(w - i) + 1]]
  BY <1>3 DEF Net, Bswap, Reverse, h
<1> QED
  BY <1>3, <1>4, <1>5 DEF h

\* Types have different bytes.
LEMMA NetDiffers ==
  ASSUME NEW a \in 0 .. 255, NEW b \in 0 .. 255, Net(a, 2) = Net(b, 2)
  PROVE  a = b
<1>1. ASSUME NEW v \in 0 .. 255 PROVE Net(v, 2)[2] = v
  <2>1. Len(Host(v, 2)) = 2
    BY NetBytes
  <2>2. Net(v, 2)[2] = Host(v, 2)[1]
    <3> DEFINE h == Host(v, 2)
    <3> HIDE DEF h
    <3>1. Net(v, 2) = [i \in 1 .. 2 |-> h[(2 - i) + 1]]
      BY <2>1 DEF Net, Bswap, Reverse, h
    <3> QED
      BY <3>1 DEF h
  <2> QED
    BY <2>2 DEF Host, Weight
<1> QED
  BY <1>1

\* What FlattenSeq goes through, up to the n-th of the fields.
FlatUpTo(f, fields, n) ==
    f = [i \in 1 .. n |-> IF i = 1 THEN fields[i] ELSE f[i - 1] \o fields[i]]

LEMMA FlatUpToFacts ==
  ASSUME NEW f, NEW fields, NEW n \in Nat, FlatUpTo(f, fields, n)
  PROVE  \A i \in 1 .. n : f[i] = IF i = 1 THEN fields[i] ELSE f[i - 1] \o fields[i]
<1>1. \A i \in 1 .. n : [x \in 1 .. n |-> IF x = 1 THEN fields[x] ELSE f[x - 1] \o fields[x]][i]
                          = IF i = 1 THEN fields[i] ELSE f[i - 1] \o fields[i]
  OBVIOUS
<1> QED
  BY <1>1 DEF FlatUpTo

LEMMA FlatUpToExists ==
  ASSUME NEW fields, NEW N \in Nat
  PROVE  \E f : FlatUpTo(f, fields, N)
<1> DEFINE U == {n \in 0 .. N : \E f : FlatUpTo(f, fields, n)}
<1>1. 0 \in U
  <2>1. FlatUpTo([i \in 1 .. 0 |-> fields[i]], fields, 0)
    BY DEF FlatUpTo
  <2> QED
    BY <2>1
<1>2. ASSUME NEW n \in 0 .. N - 1, n \in U PROVE n + 1 \in U
  <2>1. PICK f : FlatUpTo(f, fields, n)
    BY <1>2
  <2> DEFINE last == IF n = 0 THEN fields[n + 1] ELSE f[n] \o fields[n + 1]
             g == [i \in 1 .. n + 1 |-> IF i = n + 1 THEN last ELSE f[i]]
  <2>2. ASSUME NEW i \in 1 .. n + 1
        PROVE  g[i] = IF i = 1 THEN fields[i] ELSE g[i - 1] \o fields[i]
    <3>1. CASE i = n + 1 /\ n = 0
      BY <3>1
    <3>2. CASE i = n + 1 /\ n # 0
      <4>1. g[n] = f[n] /\ i - 1 = n /\ i # 1
        BY <3>2
      <4>2. g[i] = f[n] \o fields[n + 1]
        BY <3>2
      <4> QED
        BY <3>2, <4>1, <4>2
    <3>3. CASE i \in 1 .. n
      <4>1. g[i] = f[i] /\ (i # 1 => g[i - 1] = f[i - 1])
        BY <3>3
      <4>2. f[i] = IF i = 1 THEN fields[i] ELSE f[i - 1] \o fields[i]
        BY <2>1, <3>3, FlatUpToFacts
      <4> HIDE DEF g
      <4> QED
        BY <4>1, <4>2
    <3> QED
      BY <3>1, <3>2, <3>3
  <2>3. FlatUpTo(g, fields, n + 1)
    <3>1. g = [i \in 1 .. n + 1 |-> g[i]]
      OBVIOUS
    <3> HIDE DEF g
    <3> QED
      BY <2>2, <3>1 DEF FlatUpTo
  <2> QED
    BY <2>3
<1>3. \A n \in 0 .. N : n \in U
  <2> HIDE DEF U
  <2> QED
    BY <1>1, <1>2, UpTo
<1> QED
  BY <1>3

LEMMA FlattenIsRecursive ==
  ASSUME NEW fields, Len(fields) \in Nat \ {0}
  PROVE  \E f : FlatUpTo(f, fields, Len(fields)) /\ FlattenSeq(fields) = f[Len(fields)]
<1>1. \E f : FlatUpTo(f, fields, Len(fields))
  BY FlatUpToExists
<1> DEFINE F == CHOOSE f : FlatUpTo(f, fields, Len(fields))
<1>2. FlatUpTo(F, fields, Len(fields))
  BY <1>1, Zenon
<1>3. FlattenSeq(fields) = F[Len(fields)]
  BY DEF FlattenSeq, FlatUpTo
<1> QED
  BY <1>2, <1>3

\* Bytes for a member of w bytes.
Field(f, w) == f \in Seq(Byte) /\ Len(f) = w

\* The fields have the sizes of the members of S.
Fits(fields, S) ==
    /\ Len(fields) = Len(S)
    /\ \A k \in 1 .. Len(S) : Field(fields[k], S[k])

\* The fields of an unpadded struct, one after the other, are the struct: each is
\* found where the struct has the member.
LEMMA FieldsAreMembers ==
  ASSUME NEW S, NEW E, NEW fields, Unpadded(S, E), Fits(fields, S), Len(S) > 0
  PROVE  /\ FlattenSeq(fields) \in Seq(Byte) /\ Len(FlattenSeq(fields)) = E[Len(S)]
         /\ \A k \in 1 .. Len(S) : At(FlattenSeq(fields), Offset(S, k), S[k]) = fields[k]
<1> PICK n \in Nat : n = Len(S) /\ n > 0
  BY DEF Unpadded
<1>1. PICK f : FlatUpTo(f, fields, n) /\ FlattenSeq(fields) = f[n]
  BY FlattenIsRecursive DEF Fits
<1>2. \A k \in 1 .. n : f[k] = IF k = 1 THEN fields[k] ELSE f[k - 1] \o fields[k]
  BY <1>1, FlatUpToFacts
<1>3. \A k \in 1 .. n : /\ E[k] \in Nat /\ S[k] \in {1, 2, 4} /\ fields[k] \in Seq(Byte) /\ Len(fields[k]) = S[k]
                        /\ E[k] = (IF k = 1 THEN 0 ELSE E[k - 1]) + S[k]
                        /\ Offset(S, k) = E[k] - S[k]
  <2>1. \A k \in 1 .. n : S[k] \in {1, 2, 4} /\ fields[k] \in Seq(Byte) /\ Len(fields[k]) = S[k]
    BY DEF Unpadded, Fits, Field
  <2>2. \A k \in 1 .. n : Offset(S, k) = E[k] - S[k]
    BY UnpaddedEnds
  <2>3. \A k \in 1 .. n : E[k] \in Nat /\ E[k] = (IF k = 1 THEN 0 ELSE E[k - 1]) + S[k]
    BY DEF Unpadded
  <2> QED
    BY <2>1, <2>2, <2>3
<1> DEFINE Holds(k) == /\ f[k] \in Seq(Byte) /\ Len(f[k]) = E[k]
                       /\ \A j \in 1 .. k : E[j] <= E[k] /\ At(f[k], Offset(S, j), S[j]) = fields[j]
           T == {k \in 0 .. n : k # 0 => Holds(k)}
<1>4. 0 \in T
  OBVIOUS
<1>5. ASSUME NEW k \in 0 .. n - 1, k \in T PROVE k + 1 \in T
  <2>1. CASE k = 0
    <3>1. f[1] = fields[1] /\ E[1] = S[1] /\ Offset(S, 1) = 0
      BY <1>2, <1>3
    <3>2. At(f[1], 0, S[1]) = fields[1]
      BY <1>3, <3>1, AtAll
    <3>3. Holds(1)
      BY <1>3, <3>1, <3>2
    <3> HIDE DEF Holds
    <3> QED
      BY <2>1, <3>3
  <2>2. CASE k # 0
    <3>1. Holds(k)
      BY <1>5, <2>2
    <3> PICK s \in Seq(Byte), t \in Seq(Byte) : s = f[k] /\ t = fields[k + 1]
      BY <1>3, <3>1
    <3>2. f[k + 1] = s \o t /\ Len(s) = E[k] /\ Len(t) = S[k + 1] /\ E[k + 1] = E[k] + S[k + 1]
          /\ Offset(S, k + 1) = E[k] /\ E[k] \in Nat /\ S[k + 1] \in Nat
      <4>1. k + 1 \in 1 .. n /\ k \in 1 .. n /\ (k + 1) - 1 = k /\ k + 1 # 1
        BY <2>2
      <4>2. Offset(S, k + 1) = E[k + 1] - S[k + 1] /\ E[k + 1] = E[k] + S[k + 1]
            /\ E[k] \in Nat /\ S[k + 1] \in {1, 2, 4}
        BY <1>3, <4>1
      <4>3. f[k + 1] = s \o t /\ Len(s) = E[k] /\ Len(t) = S[k + 1]
        BY <1>2, <1>3, <3>1, <4>1
      <4> QED
        BY <4>2, <4>3
    <3>3. s \o t \in Seq(Byte) /\ Len(s \o t) = E[k + 1]
      <4>1. s \o t \in Seq(Byte) /\ Len(s \o t) = Len(s) + Len(t)
        BY ConcatProperties
      <4> QED
        BY <3>2, <4>1
    <3>4. At(s \o t, Offset(S, k + 1), S[k + 1]) = fields[k + 1]
      <4>1. At(s \o t, E[k], S[k + 1]) = At(t, 0, S[k + 1])
        BY <3>2, AtRight
      <4> QED
        BY <3>2, <4>1, AtAll
    <3>5. ASSUME NEW j \in 1 .. k PROVE At(s \o t, Offset(S, j), S[j]) = fields[j]
      <4>1. Offset(S, j) \in Nat /\ S[j] \in Nat /\ Offset(S, j) + S[j] = E[j]
        <5>1. /\ E[j] \in Nat /\ S[j] \in {1, 2, 4} /\ Offset(S, j) = E[j] - S[j]
              /\ E[j] = (IF j = 1 THEN 0 ELSE E[j - 1]) + S[j] /\ (j # 1 => E[j - 1] \in Nat)
          BY <1>3
        <5>2. CASE j = 1
          BY <5>1, <5>2
        <5>3. CASE j # 1
          BY <5>1, <5>3
        <5> QED
          BY <5>2, <5>3
      <4>2. E[j] <= E[k]
        BY <3>1
      <4>3. At(s, Offset(S, j), S[j]) = fields[j]
        BY <3>1
      <4> QED
        BY <3>2, <4>1, <4>2, <4>3, AtLeft
    <3>6. \A j \in 1 .. k : E[j] <= E[k + 1]
      <4>1. \A j \in 1 .. k : E[j] <= E[k] /\ E[j] \in Nat
        BY <1>3, <3>1
      <4> QED
        BY <3>2, <4>1
    <3>7. Holds(k + 1)
      <4>1. \A j \in 1 .. k + 1 : j = k + 1 \/ j \in 1 .. k
        OBVIOUS
      <4>2. E[k + 1] \in Nat
        BY <1>3
      <4> QED
        BY <3>2, <3>3, <3>4, <3>5, <3>6, <4>1, <4>2
    <3> HIDE DEF Holds
    <3> QED
      BY <3>7
  <2> QED
    BY <2>1, <2>2
<1>6. \A k \in 0 .. n : k \in T
  <2> HIDE DEF T
  <2> QED
    BY <1>4, <1>5, UpTo
<1> QED
  BY <1>1, <1>6

-----------------------------------------------------------------------------
(* Datagrams. *)

\* Two sequences, one after the other: each is found where it was put.
LEMMA Joined ==
  ASSUME NEW s \in Seq(Byte), NEW t \in Seq(Byte)
  PROVE  /\ s \o t \in Seq(Byte) /\ Len(s \o t) = Len(s) + Len(t)
         /\ At(s \o t, Len(s), Len(t)) = t
         /\ \A off, n \in Nat : off + n <= Len(s) => At(s \o t, off, n) = At(s, off, n)
         /\ \A off, n \in Nat : off + n <= Len(t) => At(s \o t, Len(s) + off, n) = At(t, off, n)
<1>1. s \o t \in Seq(Byte) /\ Len(s \o t) = Len(s) + Len(t)
  BY ConcatProperties
<1>2. Len(s) \in Nat /\ Len(t) \in Nat
  OBVIOUS
<1>3. \A off, n \in Nat : off + n <= Len(s) => At(s \o t, off, n) = At(s, off, n)
  BY AtLeft
<1>4. ASSUME NEW off \in Nat, NEW n \in Nat, off + n <= Len(t)
      PROVE  At(s \o t, Len(s) + off, n) = At(t, off, n)
  <2>1. ASSUME NEW skip \in Nat, skip = Len(s) + off PROVE At(s \o t, skip, n) = At(t, off, n)
    BY <1>4, <2>1, AtRight
  <2>2. Len(s) + off \in Nat
    OBVIOUS
  <2> QED
    BY <2>1, <2>2
<1>5. At(s \o t, Len(s), Len(t)) = t
  <2>1. At(s \o t, Len(s) + 0, Len(t)) = At(t, 0, Len(t))
    BY <1>2, <1>4
  <2> QED
    BY <1>2, <2>1, AtAll
<1> QED
  BY <1>1, <1>3, <1>4, <1>5

\* Every member is inside its struct.
LEMMA MembersInside ==
  ASSUME NEW S, NEW E, Unpadded(S, E), NEW j \in 1 .. Len(S)
  PROVE  /\ Offset(S, j) \in Nat /\ S[j] \in {1, 2, 4} /\ E[Len(S)] \in Nat
         /\ Offset(S, j) + S[j] = E[j] /\ E[j] <= E[Len(S)]
<1> PICK n \in Nat : n = Len(S) /\ n > 0
  BY DEF Unpadded
<1>1. \A k \in 1 .. n : /\ E[k] \in Nat /\ S[k] \in {1, 2, 4}
                        /\ E[k] = (IF k = 1 THEN 0 ELSE E[k - 1]) + S[k]
  BY DEF Unpadded
<1> DEFINE T == {k \in 0 .. n : k >= j => E[j] <= E[k]}
<1>2. 0 \in T
  OBVIOUS
<1>3. ASSUME NEW k \in 0 .. n - 1, k \in T PROVE k + 1 \in T
  <2>1. CASE k >= j
    <3>1. E[j] <= E[k] /\ k # 0
      BY <1>3, <2>1
    <3>2. k + 1 \in 1 .. n /\ k \in 1 .. n /\ (k + 1) - 1 = k /\ k + 1 # 1
      BY <3>1
    <3>3. E[k + 1] = E[k] + S[k + 1] /\ E[k] \in Nat /\ S[k + 1] \in Nat /\ E[j] \in Nat
      BY <1>1, <3>2
    <3> QED
      BY <3>1, <3>3
  <2>2. CASE k + 1 = j
    BY <1>1, <2>2
  <2>3. CASE k + 1 < j
    BY <2>3
  <2> QED
    BY <2>1, <2>2, <2>3
<1>4. \A k \in 0 .. n : k \in T
  <2> HIDE DEF T
  <2> QED
    BY <1>2, <1>3, UpTo
<1>5. Offset(S, j) = E[j] - S[j]
  BY UnpaddedEnds
<1>6. Offset(S, j) \in Nat
  <2>1. CASE j = 1
    BY <1>1, <1>5, <2>1
  <2>2. CASE j # 1
    BY <1>1, <1>5, <2>2
  <2> QED
    BY <2>1, <2>2
<1> QED
  BY <1>1, <1>4, <1>5, <1>6

\* A header of 16 bytes: the order at 4, the type at 8, the length at 10.
LEMMA HeaderFacts ==
  ASSUME NEW type, GS_MSG_TYPE[type] \in 1 .. 24, NEW length \in Int,
         NEW order \in Seq(Byte), Len(order) = 4
  PROVE  /\ Header(type, length, order) \in Seq(Byte) /\ Len(Header(type, length, order)) = 16
         /\ At(Header(type, length, order), 4, 4) = order
         /\ At(Header(type, length, order), 8, 2) = Net(GS_MSG_TYPE[type], 2)
         /\ At(Header(type, length, order), 10, 2) = Net(length, 2)
<1> DEFINE tag == <<68, 66, 72, 75>>
           zeros == <<48, 48, 48, 48>>
           t == Net(GS_MSG_TYPE[type], 2)
           l == Net(length, 2)
           h1 == tag \o order
           h2 == h1 \o t
           h3 == h2 \o l
           h4 == h3 \o zeros
<1>1. /\ tag \in Seq(Byte) /\ Len(tag) = 4
      /\ zeros \in Seq(Byte) /\ Len(zeros) = 4
  BY DEF Byte
<1>2. /\ t \in Seq(Byte) /\ Len(t) = 2
      /\ l \in Seq(Byte) /\ Len(l) = 2
  <2>1. \A x \in 1 .. 24 : x \in Int
    OBVIOUS
  <2>2. GS_MSG_TYPE[type] \in Int
    BY ONLY <2>1, GS_MSG_TYPE[type] \in 1 .. 24
  <2> QED
    BY <2>2, NetBytes
<1>3. Header(type, length, order) = h4
  BY DEF Header
<1> HIDE DEF tag, zeros, t, l
<1>4. h1 \in Seq(Byte) /\ Len(h1) = 8 /\ At(h1, 4, 4) = order
  <2>1. h1 \in Seq(Byte) /\ Len(h1) = Len(tag) + Len(order) /\ At(h1, Len(tag), Len(order)) = order
    BY <1>1, Joined
  <2> QED
    BY <1>1, <2>1
<1> HIDE DEF h1
<1>5. h2 \in Seq(Byte) /\ Len(h2) = 10 /\ At(h2, 4, 4) = order /\ At(h2, 8, 2) = t
  <2>1. /\ h2 \in Seq(Byte) /\ Len(h2) = Len(h1) + Len(t) /\ At(h2, Len(h1), Len(t)) = t
        /\ \A off, n \in Nat : off + n <= Len(h1) => At(h2, off, n) = At(h1, off, n)
    BY <1>2, <1>4, Joined
  <2> HIDE DEF h2
  <2> QED
    BY <1>2, <1>4, <2>1
<1> HIDE DEF h2
<1>6. /\ h3 \in Seq(Byte) /\ Len(h3) = 12
      /\ At(h3, 4, 4) = order /\ At(h3, 8, 2) = t /\ At(h3, 10, 2) = l
  <2>1. /\ h3 \in Seq(Byte) /\ Len(h3) = Len(h2) + Len(l) /\ At(h3, Len(h2), Len(l)) = l
        /\ \A off, n \in Nat : off + n <= Len(h2) => At(h3, off, n) = At(h2, off, n)
    BY <1>2, <1>5, Joined
  <2> HIDE DEF h3
  <2> QED
    BY <1>2, <1>5, <2>1
<1> HIDE DEF h3
<1>7. /\ h4 \in Seq(Byte) /\ Len(h4) = 16
      /\ At(h4, 4, 4) = order /\ At(h4, 8, 2) = t /\ At(h4, 10, 2) = l
  <2>1. /\ h4 \in Seq(Byte) /\ Len(h4) = Len(h3) + Len(zeros)
        /\ \A off, n \in Nat : off + n <= Len(h3) => At(h4, off, n) = At(h3, off, n)
    BY <1>1, <1>6, Joined
  <2> HIDE DEF h4
  <2> QED
    BY <1>1, <1>6, <2>1
<1> HIDE DEF h4
<1> QED
  BY <1>3, <1>7 DEF t, l

\* A header with this order, type and length, and the body behind it.
Carries(bytes, type, length, order, body) ==
    /\ bytes \in Seq(Byte) /\ Len(bytes) = 16 + Len(body)
    /\ At(bytes, 4, 4) = order
    /\ At(bytes, 8, 2) = Net(GS_MSG_TYPE[type], 2) /\ At(bytes, 10, 2) = Net(length, 2)
    /\ \A off, n \in Nat : off + n <= Len(body) => At(bytes, 16 + off, n) = At(body, off, n)

LEMMA HeaderAndBody ==
  ASSUME NEW type, GS_MSG_TYPE[type] \in 1 .. 24, NEW length \in Int,
         NEW order \in Seq(Byte), Len(order) = 4, NEW body \in Seq(Byte)
  PROVE  Carries(Header(type, length, order) \o body, type, length, order, body)
<1> DEFINE h == Header(type, length, order)
<1>1. /\ h \in Seq(Byte) /\ Len(h) = 16
      /\ At(h, 4, 4) = order /\ At(h, 8, 2) = Net(GS_MSG_TYPE[type], 2) /\ At(h, 10, 2) = Net(length, 2)
  BY HeaderFacts
<1> HIDE DEF h
<1>2. /\ h \o body \in Seq(Byte) /\ Len(h \o body) = Len(h) + Len(body)
      /\ \A off, n \in Nat : off + n <= Len(h) => At(h \o body, off, n) = At(h, off, n)
      /\ \A off, n \in Nat : off + n <= Len(body) => At(h \o body, Len(h) + off, n) = At(body, off, n)
  <2>1. h \in Seq(Byte)
    BY <1>1
  <2> QED
    BY <2>1, Joined, Zenon
<1>3. /\ At(h \o body, 4, 4) = order /\ At(h \o body, 8, 2) = Net(GS_MSG_TYPE[type], 2)
      /\ At(h \o body, 10, 2) = Net(length, 2)
      /\ \A off, n \in Nat : off + n <= Len(body) => At(h \o body, 16 + off, n) = At(body, off, n)
  BY <1>1, <1>2
<1>4. Carries(h \o body, type, length, order, body)
  BY <1>1, <1>2, <1>3 DEF Carries
<1> QED
  BY <1>4 DEF h

\* A message that is as long as it is said to be, of this type and order, and
\* with these fields for the members of S.
Tells(m, type, order, S, fields) ==
    /\ m.bytes \in Seq(Byte) /\ m.len = Len(m.bytes)
    /\ At(m.bytes, 4, 4) = order
    /\ At(m.bytes, 8, 2) = Net(GS_MSG_TYPE[type], 2) /\ At(m.bytes, 10, 2) = Net(m.len, 2)
    /\ \A k \in 1 .. Len(S) : Member(m.bytes, S, k) = fields[k]

Declares(length, size) == length = 16 + size

\* A generator that declares 16 and the size of the struct its fields fit is
\* honest, and the struct decodes what it encodes.
LEMMA MessageFacts ==
  ASSUME NEW type, GS_MSG_TYPE[type] \in 1 .. 24,
         NEW order, Field(order, 4),
         NEW S, NEW n, NEW E, NEW size, Layout(S, n, E, size),
         NEW fields, Fits(fields, S),
         NEW length, Declares(length, size)
  PROVE  /\ Tells(Message(type, length, order, fields), type, order, S, fields)
         /\ Message(type, length, order, fields).len = length
<1>1. n \in Nat /\ n > 0 /\ n = Len(S) /\ Unpadded(S, E) /\ size = E[n] /\ size \in Nat
  BY DEF Layout, Unpadded
<1> DEFINE body == FlattenSeq(fields)
<1>2. body \in Seq(Byte) /\ Len(body) = size /\ \A k \in 1 .. n : At(body, Offset(S, k), S[k]) = fields[k]
  BY <1>1, FieldsAreMembers
<1> HIDE DEF body
<1> DEFINE bytes == Header(type, length, order) \o body
           m == Message(type, length, order, fields)
<1>3. m.bytes = bytes /\ m.len = Len(bytes)
  BY DEF Message, body
<1> HIDE DEF m
<1>4. /\ bytes \in Seq(Byte) /\ Len(bytes) = length
      /\ At(bytes, 4, 4) = order
      /\ At(bytes, 8, 2) = Net(GS_MSG_TYPE[type], 2) /\ At(bytes, 10, 2) = Net(length, 2)
      /\ \A off, k \in Nat : off + k <= size => At(bytes, 16 + off, k) = At(body, off, k)
  <2>1. length \in Int /\ order \in Seq(Byte) /\ Len(order) = 4
    BY <1>1 DEF Declares, Field
  <2>2. Carries(bytes, type, length, order, body)
    BY <1>2, <2>1, HeaderAndBody
  <2> HIDE DEF bytes
  <2> QED
    BY <1>2, <2>2 DEF Carries, Declares
<1> HIDE DEF bytes
<1>5. ASSUME NEW k \in 1 .. n PROVE Member(bytes, S, k) = fields[k]
  <2>1. /\ Offset(S, k) \in Nat /\ S[k] \in {1, 2, 4} /\ E[Len(S)] \in Nat
        /\ Offset(S, k) + S[k] = E[k] /\ E[k] <= E[Len(S)]
    BY <1>1, MembersInside
  <2>2. Offset(S, k) \in Nat /\ S[k] \in Nat /\ Offset(S, k) + S[k] <= size
    <3>1. E[k] <= E[n] /\ E[n] \in Nat /\ Offset(S, k) + S[k] = E[k]
      BY <1>1, <2>1
    <3> QED
      BY <1>1, <2>1, <3>1
  <2>3. At(bytes, 16 + Offset(S, k), S[k]) = At(body, Offset(S, k), S[k])
    BY <1>4, <2>2
  <2> QED
    BY <1>2, <2>3 DEF Member
<1>6. Tells(m, type, order, S, fields) /\ m.len = length
  BY <1>1, <1>3, <1>4, <1>5 DEF Tells
<1> QED
  BY <1>6 DEF m

-----------------------------------------------------------------------------
(* The structs: none of them needs padding. *)

LEMMA FieldOfNet ==
  ASSUME NEW v \in Int, NEW w \in {1, 2, 4}
  PROVE  Field(Net(v, w), w) /\ Field(Host(v, w), w)
BY NetBytes DEF Field

LEMMA HeaderLayout == Sizeof(HK_HEADER_S) = 16
<1>1. Layout(HK_HEADER_S, 11, <<1, 2, 3, 4, 8, 10, 12, 13, 14, 15, 16>>, 16)
  BY DEF HK_HEADER_S, Layout, Unpadded
<1> QED
  BY <1>1, SizeOfLayout

LEMMA RespLayouts ==
  /\ Layout(COMMON_RESP_S, 4, <<4, 6, 7, 8>>, 8)
  /\ Layout(APPLY_OFFLINE_RESP_S, 4, <<4, 6, 7, 8>>, 8)
  /\ Layout(APPLY_CLEAN_RESP_S, 3, <<2, 4, 8>>, 8)
  /\ Layout(APPLY_DOOR_RESP_S, 6, <<2, 4, 8, 12, 16, 20>>, 20)
  /\ Layout(APPLY_TRAFFIC_RES_RESP_S, 4, <<2, 4, 8, 12>>, 12)
<1>1. Layout(COMMON_RESP_S, 4, <<4, 6, 7, 8>>, 8)
  BY DEF COMMON_RESP_S, Layout, Unpadded
<1>2. Layout(APPLY_OFFLINE_RESP_S, 4, <<4, 6, 7, 8>>, 8)
  BY DEF APPLY_OFFLINE_RESP_S, Layout, Unpadded
<1>3. Layout(APPLY_CLEAN_RESP_S, 3, <<2, 4, 8>>, 8)
  BY DEF APPLY_CLEAN_RESP_S, Layout, Unpadded
<1>4. Layout(APPLY_DOOR_RESP_S, 6, <<2, 4, 8, 12, 16, 20>>, 20)
  BY DEF APPLY_DOOR_RESP_S, POINT_S, Layout, Unpadded
<1>5. Layout(APPLY_TRAFFIC_RES_RESP_S, 4, <<2, 4, 8, 12>>, 12)
  BY DEF APPLY_TRAFFIC_RES_RESP_S, Layout, Unpadded
<1> QED
  BY <1>1, <1>2, <1>3, <1>4, <1>5

LEMMA CommandLayouts ==
  /\ Layout(TRP_CTRL_REQ_S, 7, <<2, 4, 8, 12, 14, 16, 20>>, 20)
  /\ Layout(PATH_PLAN_REQ_S, 9, <<2, 4, 8, 12, 14, 16, 20, 24, 28>>, 28)
  /\ Layout(INTERRUPT_CMD_S, 2, <<2, 4>>, 4)
  /\ Layout(DOOR_INFO_S, 3, <<4, 8, 12>>, 12)
<1>1. Layout(TRP_CTRL_REQ_S, 7, <<2, 4, 8, 12, 14, 16, 20>>, 20)
  BY DEF TRP_CTRL_REQ_S, POINT_S, Layout, Unpadded
<1>2. Layout(PATH_PLAN_REQ_S, 9, <<2, 4, 8, 12, 14, 16, 20, 24, 28>>, 28)
  BY DEF PATH_PLAN_REQ_S, Layout, Unpadded
<1>3. Layout(INTERRUPT_CMD_S, 2, <<2, 4>>, 4)
  BY DEF INTERRUPT_CMD_S, Layout, Unpadded
<1>4. Layout(DOOR_INFO_S, 3, <<4, 8, 12>>, 12)
  BY DEF DOOR_INFO_S, POINT_S, Layout, Unpadded
<1> QED
  BY <1>1, <1>2, <1>3, <1>4

LEMMA Sizes ==
  /\ Sizeof(COMMON_RESP_S) = 8 /\ Sizeof(APPLY_OFFLINE_RESP_S) = 8
  /\ Sizeof(APPLY_DOOR_RESP_S) = 20 /\ Sizeof(APPLY_TRAFFIC_RES_RESP_S) = 12
  /\ Sizeof(TRP_CTRL_REQ_S) = 20 /\ Sizeof(PATH_PLAN_REQ_S) = 28 /\ Sizeof(INTERRUPT_CMD_S) = 4
  /\ Sizeof(DOOR_INFO_S) = 12
BY RespLayouts, CommandLayouts, SizeOfLayout

LEMMA FirstIsField == Field(First, 4)
BY FieldOfNet DEF First

\* What the answers of 8 bytes begin with, and their last two bytes at once.
Brief == <<4, 2, 2>>

LEMMA BriefFacts ==
  /\ Layout(Brief, 3, <<4, 6, 8>>, 8)
  /\ Fits(<<Net(HK_SUCC, 4), Net(AGV, 2), Host(0, 2)>>, Brief)
<1>1. Layout(Brief, 3, <<4, 6, 8>>, 8)
  BY DEF Brief, Layout, Unpadded
<1>2. Field(Net(HK_SUCC, 4), 4) /\ Field(Net(AGV, 2), 2) /\ Field(Host(0, 2), 2)
  BY FieldOfNet DEF HK_SUCC, AGV
<1>3. Fits(<<Net(HK_SUCC, 4), Net(AGV, 2), Host(0, 2)>>, Brief)
  BY <1>2 DEF Fits, Brief
<1> QED
  BY <1>1, <1>3

LEMMA BriefMessage ==
  ASSUME NEW type, GS_MSG_TYPE[type] \in 1 .. 24, NEW order, Field(order, 4)
  PROVE  LET fields == <<Net(HK_SUCC, 4), Net(AGV, 2), Host(0, 2)>>
         IN  /\ Tells(Message(type, 24, order, fields), type, order, Brief, fields)
             /\ Message(type, 24, order, fields).len = 24
<1> DEFINE fields == <<Net(HK_SUCC, 4), Net(AGV, 2), Host(0, 2)>>
<1>1. Declares(24, 8)
  BY DEF Declares
<1>2. Fits(fields, Brief) /\ Layout(Brief, 3, <<4, 6, 8>>, 8)
  BY BriefFacts
<1> HIDE DEF fields
<1>3. /\ Tells(Message(type, 24, order, fields), type, order, Brief, fields)
      /\ Message(type, 24, order, fields).len = 24
  BY <1>1, <1>2, MessageFacts
<1> QED
  BY <1>3 DEF fields

\* A message as long as it is said to be, of this type and order.
Honest(m, type, order) ==
    /\ m.bytes \in Seq(Byte) /\ m.len = Len(m.bytes)
    /\ At(m.bytes, 4, 4) = order
    /\ At(m.bytes, 8, 2) = Net(GS_MSG_TYPE[type], 2) /\ At(m.bytes, 10, 2) = Net(m.len, 2)

LEMMA TellsHonestly ==
  ASSUME NEW m, NEW type, NEW order, NEW S, NEW fields, Tells(m, type, order, S, fields)
  PROVE  Honest(m, type, order)
BY DEF Tells, Honest

LEMMA ShortAnswers ==
  /\ Honest(gen_register_resp, "REGISTER_RSP", First)
  /\ Honest(gen_robot_status_resp, "ROBOT_STATUS_RSP", First)
  /\ \A order : Field(order, 4) =>
        /\ Honest(gen_apply_offine_resp(order), "APPLY_OFFLINE_RSP", order)
        /\ Honest(gen_apply_plan_resp(order), "APPLY_PLAN_RSP", order)
<1> DEFINE fields == <<Net(HK_SUCC, 4), Net(AGV, 2), Host(0, 2)>>
<1>1. /\ GS_MSG_TYPE["REGISTER_RSP"] \in 1 .. 24 /\ GS_MSG_TYPE["ROBOT_STATUS_RSP"] \in 1 .. 24
      /\ GS_MSG_TYPE["APPLY_OFFLINE_RSP"] \in 1 .. 24 /\ GS_MSG_TYPE["APPLY_PLAN_RSP"] \in 1 .. 24
  BY DEF GS_MSG_TYPE
<1>2. ASSUME NEW type, GS_MSG_TYPE[type] \in 1 .. 24, NEW order, Field(order, 4)
      PROVE  /\ Tells(Message(type, 24, order, fields), type, order, Brief, fields)
             /\ Message(type, 24, order, fields).len = 24
  BY <1>2, BriefMessage
<1> HIDE DEF fields
<1>3. ASSUME NEW type, GS_MSG_TYPE[type] \in 1 .. 24, NEW order, Field(order, 4)
      PROVE  Honest(Message(type, 24, order, fields), type, order)
  BY <1>2, <1>3, TellsHonestly
<1>4. Honest(gen_robot_status_resp, "ROBOT_STATUS_RSP", First)
  <2>1. gen_robot_status_resp = Message("ROBOT_STATUS_RSP", 24, First, fields)
    BY DEF gen_robot_status_resp, fields
  <2> QED
    BY <1>1, <1>3, <2>1, FirstIsField
<1>5. Honest(gen_register_resp, "REGISTER_RSP", First)
  <2> DEFINE m == Message("REGISTER_RSP", 24, First, fields)
  <2>1. gen_register_resp = [m EXCEPT !.len = 24]
    BY DEF gen_register_resp, fields
  <2>2. Honest(m, "REGISTER_RSP", First)
    BY <1>1, <1>3, FirstIsField
  <2>3. m.len = 24
    BY <1>1, <1>2, FirstIsField
  <2>4. m = [bytes |-> m.bytes, len |-> m.len]
    BY DEF Message
  <2> HIDE DEF m
  <2>5. gen_register_resp.bytes = m.bytes /\ gen_register_resp.len = 24
    BY <2>1, <2>4
  <2> QED
    BY <2>2, <2>3, <2>5 DEF Honest
<1>6. ASSUME NEW order, Field(order, 4)
      PROVE  /\ Honest(gen_apply_offine_resp(order), "APPLY_OFFLINE_RSP", order)
             /\ Honest(gen_apply_plan_resp(order), "APPLY_PLAN_RSP", order)
  <2>1. gen_apply_offine_resp(order) = Message("APPLY_OFFLINE_RSP", 24, order, fields)
    BY Sizes DEF gen_apply_offine_resp, fields
  <2>2. gen_apply_plan_resp(order) = Message("APPLY_PLAN_RSP", 24, order, fields)
    BY Sizes DEF gen_apply_plan_resp, fields
  <2> QED
    BY <1>1, <1>3, <1>6, <2>1, <2>2
<1> QED
  BY <1>4, <1>5, <1>6

\* The answers that repeat what was asked.

LEMMA BswapTwice ==
  ASSUME NEW b, Field(b, 4)
  PROVE  Bswap(Bswap(b)) = b
<1> DEFINE c == [i \in 1 .. 4 |-> b[5 - i]]
<1>1. b \in Seq(Byte) /\ Len(b) = 4
  BY DEF Field
<1>2. Bswap(b) = c
  BY <1>1 DEF Bswap, Reverse
<1>3. c \in Seq(Byte) /\ Len(c) = 4 /\ \A i \in 1 .. 4 : c[i] = b[5 - i]
  <2>1. \A i \in 1 .. 4 : b[5 - i] \in Byte
    <3>1. \A i \in 1 .. 4 : 5 - i \in 1 .. 4
      OBVIOUS
    <3>2. \A j \in 1 .. Len(b) : b[j] \in Byte
      BY <1>1, ElementOfSeq
    <3>3. Len(b) = 4
      BY <1>1
    <3> QED
      BY <3>1, <3>2, <3>3
  <2> QED
    BY <2>1
<1> HIDE DEF c
<1>4. Bswap(c) = [i \in 1 .. 4 |-> c[5 - i]]
  BY <1>3 DEF Bswap, Reverse
<1>5. [i \in 1 .. 4 |-> c[5 - i]] = b
  <2>1. \A i \in 1 .. 4 : c[5 - i] = b[i]
    BY <1>3
  <2>2. b = [i \in 1 .. 4 |-> b[i]]
    BY <1>1
  <2> QED
    BY <2>1, <2>2
<1> QED
  BY <1>2, <1>4, <1>5

LEMMA CleanAnswer ==
  ASSUME NEW id, Field(id, 4)
  PROVE  LET m == gen_apply_clean_area_resp(Bswap(id))
         IN  /\ Honest(m, "APPLY_CLEAN_AREA_RSP", First)
             /\ Member(m.bytes, APPLY_CLEAN_RESP_S, 3) = id
<1> DEFINE m == gen_apply_clean_area_resp(Bswap(id))
           S == APPLY_CLEAN_RESP_S
           fields == <<Net(HK_SUCC, 2), Net(AGV, 2), id>>
<1>1. m = Message("APPLY_CLEAN_AREA_RSP", 24, First, fields)
  BY BswapTwice DEF gen_apply_clean_area_resp
<1>2. Fits(fields, S) /\ Len(S) = 3
  <2>1. Field(Net(HK_SUCC, 2), 2) /\ Field(Net(AGV, 2), 2)
    BY FieldOfNet DEF HK_SUCC, AGV
  <2> QED
    BY <2>1 DEF Fits, APPLY_CLEAN_RESP_S
<1>3. GS_MSG_TYPE["APPLY_CLEAN_AREA_RSP"] \in 1 .. 24 /\ fields[3] = id
  BY DEF GS_MSG_TYPE
<1>4. Layout(S, 3, <<2, 4, 8>>, 8) /\ Declares(24, 8)
  BY RespLayouts DEF Declares
<1> HIDE DEF fields, S, m
<1>5. Tells(m, "APPLY_CLEAN_AREA_RSP", First, S, fields)
  BY <1>1, <1>2, <1>3, <1>4, FirstIsField, MessageFacts
<1>6. Member(m.bytes, S, 3) = id
  BY <1>2, <1>3, <1>5 DEF Tells
<1> QED
  BY <1>5, <1>6, TellsHonestly DEF m, S

LEMMA DoorAnswer ==
  ASSUME NEW order, Field(order, 4), NEW id, Field(id, 4), NEW x, Field(x, 4), NEW y, Field(y, 4)
  PROVE  LET m == gen_apply_for_door_resp(id, x, y, order)
         IN  /\ Honest(m, "APPLY_FOR_DOOR_RSP", order)
             /\ Member(m.bytes, APPLY_DOOR_RESP_S, 3) = id
             /\ Member(m.bytes, APPLY_DOOR_RESP_S, 4) = x
             /\ Member(m.bytes, APPLY_DOOR_RESP_S, 5) = y
<1> DEFINE m == gen_apply_for_door_resp(id, x, y, order)
           S == APPLY_DOOR_RESP_S
           fields == <<Net(AGV, 2), Net(HK_SUCC, 2), id, x, y, Net(1, 4)>>
<1>1. m = Message("APPLY_FOR_DOOR_RSP", 36, order, fields)
  BY Sizes DEF gen_apply_for_door_resp
<1>2. Fits(fields, S) /\ Len(S) = 6
  <2>1. Field(Net(HK_SUCC, 2), 2) /\ Field(Net(AGV, 2), 2) /\ Field(Net(1, 4), 4)
    BY FieldOfNet DEF HK_SUCC, AGV
  <2> QED
    BY <2>1 DEF Fits, APPLY_DOOR_RESP_S, POINT_S
<1>3. GS_MSG_TYPE["APPLY_FOR_DOOR_RSP"] \in 1 .. 24 /\ fields[3] = id /\ fields[4] = x /\ fields[5] = y
  BY DEF GS_MSG_TYPE
<1>4. Layout(S, 6, <<2, 4, 8, 12, 16, 20>>, 20) /\ Declares(36, 20)
  BY RespLayouts DEF Declares
<1> HIDE DEF fields, S, m
<1>5. Tells(m, "APPLY_FOR_DOOR_RSP", order, S, fields)
  BY <1>1, <1>2, <1>3, <1>4, MessageFacts
<1>6. Member(m.bytes, S, 3) = id /\ Member(m.bytes, S, 4) = x /\ Member(m.bytes, S, 5) = y
  BY <1>2, <1>3, <1>5 DEF Tells
<1> QED
  BY <1>5, <1>6, TellsHonestly DEF m, S

LEMMA TrafficAnswer ==
  ASSUME NEW order, Field(order, 4), NEW id, Field(id, 4)
  PROVE  LET m == gen_apply_traffic_res_resp(order, id)
         IN  /\ Honest(m, "APPLY_TRAFFIC_RES_RSP", order)
             /\ Member(m.bytes, APPLY_TRAFFIC_RES_RESP_S, 3) = id
<1> DEFINE m == gen_apply_traffic_res_resp(order, id)
           S == APPLY_TRAFFIC_RES_RESP_S
           fields == <<Net(HK_SUCC, 2), Net(AGV, 2), id, Host(0, 4)>>
<1>1. m = Message("APPLY_TRAFFIC_RES_RSP", 28, order, fields)
  BY Sizes DEF gen_apply_traffic_res_resp
<1>2. Fits(fields, S) /\ Len(S) = 4
  <2>1. Field(Net(HK_SUCC, 2), 2) /\ Field(Net(AGV, 2), 2) /\ Field(Host(0, 4), 4)
    BY FieldOfNet DEF HK_SUCC, AGV
  <2> QED
    BY <2>1 DEF Fits, APPLY_TRAFFIC_RES_RESP_S
<1>3. GS_MSG_TYPE["APPLY_TRAFFIC_RES_RSP"] \in 1 .. 24 /\ fields[3] = id
  BY DEF GS_MSG_TYPE
<1>4. Layout(S, 4, <<2, 4, 8, 12>>, 12) /\ Declares(28, 12)
  BY RespLayouts DEF Declares
<1> HIDE DEF fields, S, m
<1>5. Tells(m, "APPLY_TRAFFIC_RES_RSP", order, S, fields)
  BY <1>1, <1>2, <1>3, <1>4, MessageFacts
<1>6. Member(m.bytes, S, 3) = id
  BY <1>2, <1>3, <1>5 DEF Tells
<1> QED
  BY <1>5, <1>6, TellsHonestly DEF m, S

\* The commands of the server.

LEMMA TrpCtrlCommand == Honest(gen_trp_ctrl_req, "TRP_CTRL_REQ", First)
<1> DEFINE S == TRP_CTRL_REQ_S
           fields == <<Net(AGV, 2), Net(1, 2), Net(11, 4), Net(22, 4), Net(33, 2), Net(100, 2), Net(1201, 4)>>
<1>1. gen_trp_ctrl_req = Message("TRP_CTRL_REQ", 36, First, fields)
  BY Sizes, HeaderLayout DEF gen_trp_ctrl_req
<1>2. Fits(fields, S)
  <2>1. /\ Field(Net(AGV, 2), 2) /\ Field(Net(1, 2), 2) /\ Field(Net(11, 4), 4) /\ Field(Net(22, 4), 4)
        /\ Field(Net(33, 2), 2) /\ Field(Net(100, 2), 2) /\ Field(Net(1201, 4), 4)
    BY FieldOfNet DEF AGV
  <2> QED
    BY <2>1 DEF Fits, TRP_CTRL_REQ_S, POINT_S
<1>3. GS_MSG_TYPE["TRP_CTRL_REQ"] \in 1 .. 24
  BY DEF GS_MSG_TYPE
<1>4. Layout(S, 7, <<2, 4, 8, 12, 14, 16, 20>>, 20) /\ Declares(36, 20)
  BY CommandLayouts DEF Declares
<1> HIDE DEF fields, S
<1> QED
  BY <1>1, <1>2, <1>3, <1>4, FirstIsField, MessageFacts, TellsHonestly

LEMMA PathPlanCommand == Honest(gen_path_plan_req, "PATH_PLAN_REQ", First)
<1> DEFINE S == PATH_PLAN_REQ_S
           fields == <<Net(AGV, 2), Net(2, 2), Net(11111, 4), Net(22222, 4), Net(33, 2), Net(1, 2),
                       Net(33333, 4), Net(44444, 4), Net(1201, 4)>>
<1>1. gen_path_plan_req = Message("PATH_PLAN_REQ", 44, First, fields)
  BY Sizes, HeaderLayout DEF gen_path_plan_req
<1>2. Fits(fields, S)
  <2>1. /\ Field(Net(AGV, 2), 2) /\ Field(Net(2, 2), 2) /\ Field(Net(11111, 4), 4)
        /\ Field(Net(22222, 4), 4) /\ Field(Net(33, 2), 2) /\ Field(Net(1, 2), 2)
        /\ Field(Net(33333, 4), 4) /\ Field(Net(44444, 4), 4) /\ Field(Net(1201, 4), 4)
    BY FieldOfNet DEF AGV
  <2> QED
    BY <2>1 DEF Fits, PATH_PLAN_REQ_S
<1>3. GS_MSG_TYPE["PATH_PLAN_REQ"] \in 1 .. 24
  BY DEF GS_MSG_TYPE
<1>4. Layout(S, 9, <<2, 4, 8, 12, 14, 16, 20, 24, 28>>, 28) /\ Declares(44, 28)
  BY CommandLayouts DEF Declares
<1> HIDE DEF fields, S
<1> QED
  BY <1>1, <1>2, <1>3, <1>4, FirstIsField, MessageFacts, TellsHonestly

\* The interrupt command number n has the type n % 3.
LEMMA InterruptCommand ==
  ASSUME NEW n \in Nat
  PROVE  LET m == gen_interrupt_ctrl_req(n)
         IN  /\ Honest(m, "INTERRUPT_CTRL_REQ", First)
             /\ Member(m.bytes, INTERRUPT_CMD_S, 2) = Net(n % 3, 2)
<1> DEFINE m == gen_interrupt_ctrl_req(n)
           S == INTERRUPT_CMD_S
           fields == <<Net(AGV, 2), Net(n % 3, 2)>>
<1>1. m = Message("INTERRUPT_CTRL_REQ", 20, First, fields)
  BY Sizes, HeaderLayout DEF gen_interrupt_ctrl_req
<1>2. Fits(fields, S) /\ Len(S) = 2
  <2>1. n % 3 \in Int
    OBVIOUS
  <2>2. Field(Net(AGV, 2), 2) /\ Field(Net(n % 3, 2), 2)
    BY <2>1, FieldOfNet DEF AGV
  <2> QED
    BY <2>2 DEF Fits, INTERRUPT_CMD_S
<1>3. GS_MSG_TYPE["INTERRUPT_CTRL_REQ"] \in 1 .. 24 /\ fields[2] = Net(n % 3, 2)
  BY DEF GS_MSG_TYPE
<1>4. Layout(S, 2, <<2, 4>>, 4) /\ Declares(20, 4)
  BY CommandLayouts DEF Declares
<1> HIDE DEF fields, S, m
<1>5. Tells(m, "INTERRUPT_CTRL_REQ", First, S, fields)
  BY <1>1, <1>2, <1>3, <1>4, FirstIsField, MessageFacts
<1>6. Member(m.bytes, S, 2) = Net(n % 3, 2)
  BY <1>2, <1>3, <1>5 DEF Tells
<1> QED
  BY <1>5, <1>6, TellsHonestly DEF m, S

\* The members of DOOR_CONFIG_REQ: how many doors, and each door's.
DoorsS == <<2, 2, 4, 4, 4, 4, 4, 4, 4, 4, 4>>

LEMMA DoorInfoCommand == Honest(gen_door_info, "DOOR_CONFIG_REQ", First)
<1> DEFINE E == <<2, 4, 8, 12, 16, 20, 24, 28, 32, 36, 40>>
           door(d) == <<Net(d, 4), Net(d, 4), Net(d, 4)>>
           doors == [d \in 1 .. 3 |-> door(d)]
           fields == <<Net(AGV, 2), Net(3, 2)>> \o FlattenSeq(doors)
<1>1. gen_door_info = Message("DOOR_CONFIG_REQ", 56, First, fields)
  BY Sizes DEF gen_door_info
<1>2. FlattenSeq(doors) = (door(1) \o door(2)) \o door(3)
  <2>1. doors[1] = door(1) /\ doors[2] = door(2) /\ doors[3] = door(3) /\ Len(doors) = 3
    OBVIOUS
  <2> HIDE DEF doors, door
  <2>2. PICK f : FlatUpTo(f, doors, 3) /\ FlattenSeq(doors) = f[3]
    <3>1. Len(doors) \in Nat \ {0}
      BY <2>1
    <3>2. \E f : FlatUpTo(f, doors, Len(doors)) /\ FlattenSeq(doors) = f[Len(doors)]
      BY <3>1, FlattenIsRecursive, Zenon
    <3> QED
      BY <2>1, <3>2
  <2>3. \A i \in 1 .. 3 : f[i] = IF i = 1 THEN doors[i] ELSE f[i - 1] \o doors[i]
    BY <2>2, FlatUpToFacts
  <2>4. f[1] = doors[1] /\ f[2] = f[1] \o doors[2] /\ f[3] = f[2] \o doors[3]
    <3>1. 1 \in 1 .. 3 /\ 2 \in 1 .. 3 /\ 3 \in 1 .. 3 /\ 2 - 1 = 1 /\ 3 - 1 = 2 /\ 2 # 1 /\ 3 # 1
      OBVIOUS
    <3> QED
      BY <2>3, <3>1, Zenon
  <2> QED
    BY <2>1, <2>2, <2>4
<1> HIDE DEF doors
<1>3. PICK n1, n2, n3 : n1 = Net(1, 4) /\ n2 = Net(2, 4) /\ n3 = Net(3, 4)
  OBVIOUS
<1>4. Fits(fields, DoorsS)
  <2>1. /\ Field(Net(AGV, 2), 2) /\ Field(Net(3, 2), 2) /\ Field(n1, 4) /\ Field(n2, 4) /\ Field(n3, 4)
    BY <1>3, FieldOfNet DEF AGV
  <2>2. PICK agv, three : agv = Net(AGV, 2) /\ three = Net(3, 2)
    OBVIOUS
  <2>3. fields = <<agv, three>> \o ((<<n1, n1, n1>> \o <<n2, n2, n2>>) \o <<n3, n3, n3>>)
    BY <1>2, <1>3, <2>2
  <2> HIDE DEF fields
  <2>4. /\ Len(fields) = 11 /\ fields[1] = agv /\ fields[2] = three
        /\ fields[3] = n1 /\ fields[4] = n1 /\ fields[5] = n1
        /\ fields[6] = n2 /\ fields[7] = n2 /\ fields[8] = n2
        /\ fields[9] = n3 /\ fields[10] = n3 /\ fields[11] = n3
    BY <2>3
  <2> QED
    BY <2>1, <2>2, <2>4 DEF Fits, DoorsS
<1>5. GS_MSG_TYPE["DOOR_CONFIG_REQ"] \in 1 .. 24
  BY DEF GS_MSG_TYPE
<1>6. Layout(DoorsS, 11, E, 40) /\ Declares(56, 40)
  BY DEF DoorsS, Layout, Unpadded, Declares
<1> HIDE DEF fields, E
<1> QED
  BY <1>1, <1>4, <1>5, <1>6, FirstIsField, MessageFacts, TellsHonestly

-----------------------------------------------------------------------------
(* What robots send. *)

LEMMA RequestLayouts ==
  /\ Layout(REGISTER_REQ_S, 6, <<2, 4, 6, 8, 10, 12>>, 12)
  /\ Layout(ROBOT_STATUS_INFO_S, 14, <<2, 4, 5, 6, 7, 8, 12, 16, 20, 21, 22, 24, 26, 28>>, 28)
  /\ Layout(CLEAN_AREA_S, 7, <<2, 4, 8, 12, 16, 20, 24>>, 24)
  /\ Layout(APPLY_DOOR_REQ_S, 5, <<2, 4, 8, 12, 16>>, 16)
  /\ Layout(APPLY_TRAFFIC_RES_REQ_S, 7, <<2, 4, 8, 12, 16, 20, 24>>, 24)
  /\ Layout(APPLY_OFFLINE_REQ_S, 2, <<2, 4>>, 4)
  /\ Layout(PLAN_REQ_S, 7, <<2, 4, 8, 12, 16, 18, 20>>, 20)
  /\ Layout(TRP_CTRL_RESP_S, 4, <<4, 6, 7, 8>>, 8)
<1>1. Layout(REGISTER_REQ_S, 6, <<2, 4, 6, 8, 10, 12>>, 12)
  BY DEF REGISTER_REQ_S, Layout, Unpadded
<1>2. Layout(ROBOT_STATUS_INFO_S, 14, <<2, 4, 5, 6, 7, 8, 12, 16, 20, 21, 22, 24, 26, 28>>, 28)
  BY DEF ROBOT_STATUS_INFO_S, Layout, Unpadded
<1>3. Layout(CLEAN_AREA_S, 7, <<2, 4, 8, 12, 16, 20, 24>>, 24)
  BY DEF CLEAN_AREA_S, RECTANGLE_S, POINT_S, Layout, Unpadded
<1>4. Layout(APPLY_DOOR_REQ_S, 5, <<2, 4, 8, 12, 16>>, 16)
  BY DEF APPLY_DOOR_REQ_S, POINT_S, Layout, Unpadded
<1>5. Layout(APPLY_TRAFFIC_RES_REQ_S, 7, <<2, 4, 8, 12, 16, 20, 24>>, 24)
  BY DEF APPLY_TRAFFIC_RES_REQ_S, RECTANGLE_S, POINT_S, Layout, Unpadded
<1>6. Layout(APPLY_OFFLINE_REQ_S, 2, <<2, 4>>, 4)
  BY DEF APPLY_OFFLINE_REQ_S, Layout, Unpadded
<1>7. Layout(PLAN_REQ_S, 7, <<2, 4, 8, 12, 16, 18, 20>>, 20)
  BY DEF PLAN_REQ_S, Layout, Unpadded
<1>8. Layout(TRP_CTRL_RESP_S, 4, <<4, 6, 7, 8>>, 8)
  BY DEF TRP_CTRL_RESP_S, Layout, Unpadded
<1> QED
  BY <1>1, <1>2, <1>3, <1>4, <1>5, <1>6, <1>7, <1>8

LEMMA OffsetOfLayout ==
  ASSUME NEW S, NEW n, NEW E, NEW size, Layout(S, n, E, size)
  PROVE  \A k \in 1 .. n : Offset(S, k) = E[k] - S[k]
BY UnpaddedEnds DEF Layout

\* Where main reads what the structs hold.
LEMMA ReadOffsets ==
  /\ Offset(ROBOT_STATUS_INFO_S, 5) = 6 /\ ROBOT_STATUS_INFO_S[5] = 1
  /\ Offset(CLEAN_AREA_S, 3) = 4 /\ CLEAN_AREA_S[3] = 4
  /\ Offset(APPLY_TRAFFIC_RES_REQ_S, 3) = 4 /\ APPLY_TRAFFIC_RES_REQ_S[3] = 4
  /\ Offset(APPLY_DOOR_REQ_S, 3) = 4 /\ APPLY_DOOR_REQ_S[3] = 4
  /\ Offset(APPLY_DOOR_REQ_S, 4) = 8 /\ APPLY_DOOR_REQ_S[4] = 4
  /\ Offset(APPLY_DOOR_REQ_S, 5) = 12 /\ APPLY_DOOR_REQ_S[5] = 4
  /\ Offset(PLAN_REQ_S, 7) = 18 /\ PLAN_REQ_S[7] = 2 /\ Sizeof(PLAN_REQ_S) = 20
<1>1. Offset(ROBOT_STATUS_INFO_S, 5) = 6 /\ ROBOT_STATUS_INFO_S[5] = 1
  <2>1. ROBOT_STATUS_INFO_S[5] = 1
    BY DEF ROBOT_STATUS_INFO_S
  <2>2. \A k \in 1 .. 14 : Offset(ROBOT_STATUS_INFO_S, k)
          = <<2, 4, 5, 6, 7, 8, 12, 16, 20, 21, 22, 24, 26, 28>>[k] - ROBOT_STATUS_INFO_S[k]
    BY RequestLayouts, OffsetOfLayout
  <2> QED
    BY <2>1, <2>2
<1>2. Offset(CLEAN_AREA_S, 3) = 4 /\ CLEAN_AREA_S[3] = 4
  <2>1. CLEAN_AREA_S[3] = 4
    BY DEF CLEAN_AREA_S, RECTANGLE_S, POINT_S
  <2>2. \A k \in 1 .. 7 : Offset(CLEAN_AREA_S, k) = <<2, 4, 8, 12, 16, 20, 24>>[k] - CLEAN_AREA_S[k]
    BY RequestLayouts, OffsetOfLayout
  <2> QED
    BY <2>1, <2>2
<1>3. Offset(APPLY_TRAFFIC_RES_REQ_S, 3) = 4 /\ APPLY_TRAFFIC_RES_REQ_S[3] = 4
  <2>1. APPLY_TRAFFIC_RES_REQ_S[3] = 4
    BY DEF APPLY_TRAFFIC_RES_REQ_S, RECTANGLE_S, POINT_S
  <2>2. \A k \in 1 .. 7 : Offset(APPLY_TRAFFIC_RES_REQ_S, k)
          = <<2, 4, 8, 12, 16, 20, 24>>[k] - APPLY_TRAFFIC_RES_REQ_S[k]
    BY RequestLayouts, OffsetOfLayout
  <2> QED
    BY <2>1, <2>2
<1>4. /\ Offset(APPLY_DOOR_REQ_S, 3) = 4 /\ APPLY_DOOR_REQ_S[3] = 4
      /\ Offset(APPLY_DOOR_REQ_S, 4) = 8 /\ APPLY_DOOR_REQ_S[4] = 4
      /\ Offset(APPLY_DOOR_REQ_S, 5) = 12 /\ APPLY_DOOR_REQ_S[5] = 4
  <2>1. APPLY_DOOR_REQ_S[3] = 4 /\ APPLY_DOOR_REQ_S[4] = 4 /\ APPLY_DOOR_REQ_S[5] = 4
    BY DEF APPLY_DOOR_REQ_S, POINT_S
  <2>2. \A k \in 1 .. 5 : Offset(APPLY_DOOR_REQ_S, k) = <<2, 4, 8, 12, 16>>[k] - APPLY_DOOR_REQ_S[k]
    BY RequestLayouts, OffsetOfLayout
  <2> QED
    BY <2>1, <2>2
<1>5. Offset(PLAN_REQ_S, 7) = 18 /\ PLAN_REQ_S[7] = 2
  <2>1. PLAN_REQ_S[7] = 2
    BY DEF PLAN_REQ_S
  <2>2. \A k \in 1 .. 7 : Offset(PLAN_REQ_S, k) = <<2, 4, 8, 12, 16, 18, 20>>[k] - PLAN_REQ_S[k]
    BY RequestLayouts, OffsetOfLayout
  <2> QED
    BY <2>1, <2>2
<1>6. Sizeof(PLAN_REQ_S) = 20
  BY RequestLayouts, SizeOfLayout
<1> QED
  BY <1>1, <1>2, <1>3, <1>4, <1>5, <1>6

\* A request of this type and so many bytes.
Asked(d, type, size) ==
    /\ d \in Seq(Byte) /\ Len(d) = 16 + size
    /\ At(d, 8, 2) = Net(GS_MSG_TYPE[type], 2)

LEMMA RequestFacts ==
  ASSUME NEW type, GS_MSG_TYPE[type] \in 1 .. 24, NEW order \in Int,
         NEW S, NEW n, NEW E, NEW size, Layout(S, n, E, size),
         NEW v, \A k \in DOMAIN v : v[k] \in Int
  PROVE  Asked(Request(type, order, S, v), type, size)
<1> DEFINE fields == [k \in DOMAIN S |-> Net(IF k \in DOMAIN v THEN v[k] ELSE 0, S[k])]
           body == FlattenSeq(fields)
<1>1. n \in Nat /\ n > 0 /\ n = Len(S) /\ Unpadded(S, E) /\ size = E[n] /\ size \in Nat
  BY DEF Layout, Unpadded
<1>2. S \in Seq({1, 2, 4})
  BY <1>1 DEF Unpadded
<1>3. Fits(fields, S)
  <2>1. DOMAIN S = 1 .. Len(S) /\ \A k \in 1 .. Len(S) : S[k] \in {1, 2, 4}
    BY <1>2
  <2>2. Len(fields) = Len(S) /\ DOMAIN fields = 1 .. Len(S)
    BY <1>1, <2>1
  <2>3. ASSUME NEW k \in 1 .. Len(S) PROVE Field(fields[k], S[k])
    <3>1. (IF k \in DOMAIN v THEN v[k] ELSE 0) \in Int
      OBVIOUS
    <3>2. fields[k] = Net(IF k \in DOMAIN v THEN v[k] ELSE 0, S[k])
      BY <2>1
    <3>3. S[k] \in {1, 2, 4}
      BY <2>1
    <3> HIDE DEF fields
    <3> QED
      BY <3>1, <3>2, <3>3, FieldOfNet
  <2> QED
    BY <2>2, <2>3 DEF Fits
<1> HIDE DEF fields
<1>4. body \in Seq(Byte) /\ Len(body) = size
  BY <1>1, <1>3, FieldsAreMembers
<1>5. Request(type, order, S, v) = Header(type, Sizeof(HK_HEADER_S) + Len(body), Net(order, 4)) \o body
  BY DEF Request, Packed, fields
<1> HIDE DEF body
<1>6. Sizeof(HK_HEADER_S) + Len(body) \in Int
  BY <1>1, <1>4, HeaderLayout
<1>7. Net(order, 4) \in Seq(Byte) /\ Len(Net(order, 4)) = 4
  BY NetBytes
<1>8. Carries(Request(type, order, S, v), type, Sizeof(HK_HEADER_S) + Len(body), Net(order, 4), body)
  BY <1>4, <1>5, <1>6, <1>7, HeaderAndBody
<1> QED
  BY <1>4, <1>8 DEF Carries, Asked

\* The bytes behind the header.
BodySize ==
    [REGISTER_REQ |-> 12, ROBOT_STATUS_REQ |-> 28, APPLY_CLEAN_AREA_REQ |-> 24,
     APPLY_FOR_DOOR_REQ |-> 16, APPLY_TRAFFIC_RES_REQ |-> 24, APPLY_OFFLINE_REQ |-> 4,
     APPLY_PLAN_REQ |-> 20, TRP_CTRL_RSP |-> 8]

LEMMA RequestTypes ==
  \A type \in Asks \cup Answers : GS_MSG_TYPE[type] \in 1 .. 23
BY DEF Asks, Answers, GS_MSG_TYPE

LEMMA RequestsAreAsked ==
  ASSUME NEW type \in Asks \cup Answers, NEW d \in Requests(type)
  PROVE  Asked(d, type, BodySize[type])
<1>1. GS_MSG_TYPE[type] \in 1 .. 24
  BY RequestTypes
<1>2. AGV \in Int /\ HK_SUCC \in Int /\ Numbers \subseteq Int
  BY HkServerAssumption DEF AGV, HK_SUCC
<1>3. CASE type = "REGISTER_REQ"
  <2> DEFINE v == <<AGV, 129, 860, 700, 1030, 1100>>
  <2>1. d = Request(type, 0, REGISTER_REQ_S, v)
    BY <1>3 DEF Requests
  <2>2. \A k \in DOMAIN v : v[k] \in Int
    BY <1>2
  <2> HIDE DEF v
  <2> QED
    BY <1>1, <1>3, <2>1, <2>2, RequestLayouts, RequestFacts DEF BodySize
<1>4. CASE type = "ROBOT_STATUS_REQ"
  <2>1. PICK plan \in {0, 1} : d = Request(type, 0, ROBOT_STATUS_INFO_S, <<AGV, 0, 9, 9, plan>>)
    BY <1>4 DEF Requests
  <2> DEFINE v == <<AGV, 0, 9, 9, plan>>
  <2>2. \A k \in DOMAIN v : v[k] \in Int
    BY <1>2
  <2>3. d = Request(type, 0, ROBOT_STATUS_INFO_S, v)
    BY <2>1
  <2> HIDE DEF v
  <2> QED
    BY <1>1, <1>4, <2>2, <2>3, RequestLayouts, RequestFacts DEF BodySize
<1>5. CASE type = "APPLY_CLEAN_AREA_REQ"
  <2>1. PICK id \in Numbers : d = Request(type, 0, CLEAN_AREA_S, <<AGV, 1, id>>)
    BY <1>5 DEF Requests
  <2> DEFINE v == <<AGV, 1, id>>
  <2>2. \A k \in DOMAIN v : v[k] \in Int
    BY <1>2
  <2>3. d = Request(type, 0, CLEAN_AREA_S, v)
    BY <2>1
  <2> HIDE DEF v
  <2> QED
    BY <1>1, <1>5, <2>2, <2>3, RequestLayouts, RequestFacts DEF BodySize
<1>6. CASE type = "APPLY_FOR_DOOR_REQ"
  <2>1. PICK o \in Numbers, id \in Numbers :
          d = Request(type, o, APPLY_DOOR_REQ_S, <<AGV, 1, id, id + 1, id + 2>>)
    BY <1>6 DEF Requests
  <2> DEFINE v == <<AGV, 1, id, id + 1, id + 2>>
  <2>2. o \in Int /\ \A k \in DOMAIN v : v[k] \in Int
    BY <1>2
  <2>3. d = Request(type, o, APPLY_DOOR_REQ_S, v)
    BY <2>1
  <2> HIDE DEF v
  <2> QED
    BY <1>1, <1>6, <2>2, <2>3, RequestLayouts, RequestFacts DEF BodySize
<1>7. CASE type = "APPLY_TRAFFIC_RES_REQ"
  <2>1. PICK o \in Numbers, id \in Numbers : d = Request(type, o, APPLY_TRAFFIC_RES_REQ_S, <<AGV, 1, id>>)
    BY <1>7 DEF Requests
  <2> DEFINE v == <<AGV, 1, id>>
  <2>2. o \in Int /\ \A k \in DOMAIN v : v[k] \in Int
    BY <1>2
  <2>3. d = Request(type, o, APPLY_TRAFFIC_RES_REQ_S, v)
    BY <2>1
  <2> HIDE DEF v
  <2> QED
    BY <1>1, <1>7, <2>2, <2>3, RequestLayouts, RequestFacts DEF BodySize
<1>8. CASE type = "APPLY_OFFLINE_REQ"
  <2>1. PICK o \in Numbers : d = Request(type, o, APPLY_OFFLINE_REQ_S, <<AGV>>)
    BY <1>8 DEF Requests
  <2> DEFINE v == <<AGV>>
  <2>2. o \in Int /\ \A k \in DOMAIN v : v[k] \in Int
    BY <1>2
  <2>3. d = Request(type, o, APPLY_OFFLINE_REQ_S, v)
    BY <2>1
  <2> HIDE DEF v
  <2> QED
    BY <1>1, <1>8, <2>2, <2>3, RequestLayouts, RequestFacts DEF BodySize
<1>9. CASE type = "APPLY_PLAN_REQ"
  <2>1. PICK o \in Numbers, ctrl \in {1, 2} : d = Request(type, o, PLAN_REQ_S, <<AGV, 0, 1, 2, 3, 1, ctrl>>)
    BY <1>9 DEF Requests
  <2> DEFINE v == <<AGV, 0, 1, 2, 3, 1, ctrl>>
  <2>2. o \in Int /\ \A k \in DOMAIN v : v[k] \in Int
    BY <1>2
  <2>3. d = Request(type, o, PLAN_REQ_S, v)
    BY <2>1
  <2> HIDE DEF v
  <2> QED
    BY <1>1, <1>9, <2>2, <2>3, RequestLayouts, RequestFacts DEF BodySize
<1>10. CASE type = "TRP_CTRL_RSP"
  <2> DEFINE v == <<HK_SUCC, AGV>>
  <2>1. d = Request(type, 1, TRP_CTRL_RESP_S, v)
    BY <1>10 DEF Requests
  <2>2. \A k \in DOMAIN v : v[k] \in Int
    BY <1>2
  <2> HIDE DEF v
  <2> QED
    BY <1>1, <1>10, <2>1, <2>2, RequestLayouts, RequestFacts DEF BodySize
<1> QED
  BY <1>3, <1>4, <1>5, <1>6, <1>7, <1>8, <1>9, <1>10 DEF Asks, Answers

-----------------------------------------------------------------------------
(* A turn. *)

\* What the server finds in its buffer is the datagram it received.
Heard(d) ==
    /\ d.type \in Asks \cup Answers
    /\ Asked(d.data, d.type, BodySize[d.type])

LEMMA ReceivesDatagram ==
  ASSUME Receive, buffer \in Seq(Byte), tick \in Nat
  PROVE  /\ buffer' \in Seq(Byte) /\ tick' = tick + 1
         /\ Heard(got')
         /\ \A off, n \in Nat : off + n <= Len(got'.data) => Read(off, n) = At(got'.data, off, n)
<1>1. PICK d \in Datagrams : /\ got'.type = d.type /\ got'.data = d.data
                             /\ buffer' = d.data \o SubSeq(buffer, Len(d.data) + 1, Len(buffer))
  <2>1. PICK r \in Robots, d \in Datagrams :
           /\ got' = [from |-> r, type |-> d.type, data |-> d.data]
           /\ buffer' = d.data \o SubSeq(buffer, Len(d.data) + 1, Len(buffer))
    BY Zenon DEF Receive
  <2>2. got'.type = d.type /\ got'.data = d.data
    BY <2>1
  <2> QED
    BY <2>1, <2>2
<1>2. PICK type \in Asks \cup Answers : d.type = type /\ d.data \in Requests(type)
  BY DEF Datagrams
<1>3. Asked(d.data, d.type, BodySize[d.type])
  BY <1>2, RequestsAreAsked
<1> DEFINE data == d.data
           rest == SubSeq(buffer, Len(data) + 1, Len(buffer))
<1>4. data \in Seq(Byte)
  BY <1>3 DEF Asked
<1>5. rest \in Seq(Byte)
  BY <1>4
<1> HIDE DEF data, rest
<1>6. /\ data \o rest \in Seq(Byte)
      /\ \A off, n \in Nat : off + n <= Len(data) => At(data \o rest, off, n) = At(data, off, n)
  BY <1>4, <1>5, Joined
<1>7. buffer' = data \o rest /\ got'.data = data
  BY <1>1 DEF data, rest
<1>8. Heard(got')
  BY <1>1, <1>2, <1>3 DEF Heard
<1>9. tick' = tick + 1
  BY DEF Receive
<1> QED
  BY <1>6, <1>7, <1>8, <1>9 DEF Read

\* One more message in every third turn.
Extra == IF tick > 0 /\ tick % 3 = 0 THEN 1 ELSE 0

LEMMA SendFacts ==
  ASSUME NEW T, NEW ms \in Seq(T), Send(ms), tick' \in Nat, tick' > 0
  PROVE  /\ flip' = Flips
         /\ DOMAIN out' = 1 .. Len(ms) + Extra' /\ Len(out') = Len(ms) + Extra'
         /\ \A i \in 1 .. Len(ms) : out'[i].msg = ms[i]
         /\ Extra' = 1 => out'[Len(ms) + 1].msg = gen_interrupt_ctrl_req(flip')
<1> DEFINE g == gen_interrupt_ctrl_req(flip')
           all == ms \o (IF tick' % 3 = 0 THEN <<g>> ELSE <<>>)
<1>1. flip' = Flips /\ out' = [i \in DOMAIN all |-> [to |-> client_addr', msg |-> all[i]]]
  BY DEF Send
<1> HIDE DEF g
<1>2. CASE tick' % 3 = 0
  <2>1. all = Append(ms, g)
    BY <1>2
  <2>2. DOMAIN all = 1 .. Len(ms) + 1 /\ all[Len(ms) + 1] = g /\ \A i \in 1 .. Len(ms) : all[i] = ms[i]
    <3> HIDE DEF all
    <3> QED
      BY <2>1
  <2>3. Extra' = 1
    BY <1>2 DEF Extra
  <2> HIDE DEF all
  <2> QED
    BY <1>1, <2>2, <2>3 DEF g
<1>3. CASE tick' % 3 # 0
  <2>1. all = ms
    BY <1>3
  <2>2. Extra' = 0
    BY <1>3 DEF Extra
  <2>3. DOMAIN all = 1 .. Len(ms) + 0 /\ \A i \in 1 .. Len(ms) : all[i] = ms[i]
    <3> HIDE DEF all
    <3> QED
      BY <2>1
  <2> HIDE DEF all
  <2> QED
    BY <1>1, <2>2, <2>3
<1> QED
  BY <1>2, <1>3

\* A message as long as it is said to be, of the type with this code.
Coded(m, c) ==
    m.len = Len(m.bytes) /\ At(m.bytes, 8, 2) = Net(c, 2) /\ At(m.bytes, 10, 2) = Net(m.len, 2)

\* The last turn sent messages of these types and then, every third time, an
\* interrupt command with its own number modulo 3.
Sent(types) ==
    /\ types \in Seq(1 .. 24 \ {19}) /\ DOMAIN out = 1 .. Len(types) + Extra
    /\ Len(out) = Len(types) + Extra
    /\ \A i \in 1 .. Len(types) : Coded(out[i].msg, types[i])
    /\ Extra = 1 => LET m == out[Len(types) + 1].msg
                    IN  Coded(m, 19) /\ Member(m.bytes, INTERRUPT_CMD_S, 2) = Net(flip % 3, 2)

\* What the types of the messages have to do with the datagram.
Fitting(types) ==
    /\ got.type \in Asks => Len(types) > 0 /\ types[1] = GS_MSG_TYPE[got.type] + 1
    /\ \A i \in 1 .. Len(types), ask \in Asks :
         types[i] = GS_MSG_TYPE[ask] + 1 => i = 1 /\ got.type = ask
    /\ (\E i \in 1 .. Len(types) : types[i] = 7) <=>
         (got.type = "ROBOT_STATUS_REQ" /\ Member(got.data, ROBOT_STATUS_INFO_S, 5) # <<0>>)
    /\ (\E i \in 1 .. Len(types) : types[i] = 23) <=>
         (got.type = "APPLY_PLAN_REQ" /\ Member(got.data, PLAN_REQ_S, 7) = Net(1, 2))

\* What the loop keeps true of its counters, and what its last turn did.
TurnInv ==
    /\ tick \in Nat /\ buffer \in Seq(Byte) /\ flip = tick \div 3
    /\ \E types : Sent(types) /\ Fitting(types)
    /\ got.type \in Asks => Repeats

LEMMA TypeIs ==
  ASSUME NEW m, NEW c \in 1 .. 24, NEW d \in 1 .. 24, Coded(m, c)
  PROVE  At(m.bytes, 8, 2) = Net(d, 2) <=> c = d
<1>1. c \in 0 .. 255 /\ d \in 0 .. 255
  OBVIOUS
<1>2. Net(c, 2) = Net(d, 2) => c = d
  BY <1>1, NetDiffers
<1> QED
  BY <1>2 DEF Coded

LEMMA AskCodes ==
  /\ \A ask \in Asks : GS_MSG_TYPE[ask] + 1 \in {2, 4, 6, 10, 12, 16, 22}
  /\ GS_MSG_TYPE["TRP_CTRL_REQ"] = 7 /\ GS_MSG_TYPE["PATH_PLAN_REQ"] = 23
  /\ GS_MSG_TYPE["INTERRUPT_CTRL_REQ"] = 19
BY DEF Asks, GS_MSG_TYPE

LEMMA TurnProperties ==
  ASSUME TurnInv
  PROVE  LengthHonest /\ AnswersMatch /\ InterruptsInTurn
<1> PICK types : Sent(types) /\ Fitting(types)
  BY DEF TurnInv
<1>1. PICK n \in Nat : n = Len(types)
  BY DEF Sent
<1>2. tick \in Nat /\ flip = tick \div 3
  BY DEF TurnInv
<1>3. Extra \in {0, 1} /\ (Extra = 1 <=> tick > 0 /\ tick % 3 = 0)
  BY DEF Extra
<1>4. \A i \in 1 .. n : types[i] \in 1 .. 24 /\ types[i] # 19 /\ Coded(out[i].msg, types[i])
  BY <1>1 DEF Sent
<1>5. Extra = 1 => /\ Coded(out[n + 1].msg, 19)
                   /\ Member(out[n + 1].msg.bytes, INTERRUPT_CMD_S, 2) = Net(flip % 3, 2)
  BY <1>1 DEF Sent
<1>6. DOMAIN out = 1 .. n + Extra
  BY <1>1 DEF Sent
<1>7. ASSUME NEW i \in DOMAIN out PROVE i \in 1 .. n \/ (i = n + 1 /\ Extra = 1)
  <2>1. CASE Extra = 0
    BY <1>6, <2>1
  <2>2. CASE Extra = 1
    BY <1>6, <2>2
  <2> QED
    BY <1>3, <2>1, <2>2
<1> DEFINE c(i) == IF i \in 1 .. n THEN types[i] ELSE 19
<1>8. \A i \in DOMAIN out : Coded(out[i].msg, c(i)) /\ c(i) \in 1 .. 24
  BY <1>4, <1>5, <1>7
<1>9. \A i \in DOMAIN out, d \in 1 .. 24 : Type(i) = Net(d, 2) <=> c(i) = d
  <2> HIDE DEF c
  <2> QED
    BY <1>8, TypeIs DEF Type
<1>10. LengthHonest
  BY <1>8 DEF LengthHonest, Coded
<1>11. Len(out) = n + Extra
  BY <1>1 DEF Sent
<1>12. InterruptsInTurn
  <2>1. \A i \in DOMAIN out : Is(i, "INTERRUPT_CTRL_REQ") <=> i = n + 1 /\ Extra = 1
    BY <1>4, <1>7, <1>9, AskCodes DEF Is
  <2>2. ASSUME Extra = 1 PROVE out # <<>> /\ Is(Len(out), "INTERRUPT_CTRL_REQ")
    BY <1>6, <1>11, <2>1, <2>2
  <2> QED
    BY <1>2, <1>3, <1>5, <1>11, <2>1, <2>2 DEF InterruptsInTurn
<1>13. AnswersMatch
  <2>1. ASSUME got.type \in Asks
        PROVE  out # <<>> /\ Type(1) = Net(GS_MSG_TYPE[got.type] + 1, 2) /\ Repeats
    <3>1. n > 0 /\ types[1] = GS_MSG_TYPE[got.type] + 1
      BY <1>1, <2>1 DEF Fitting
    <3>2. 1 \in DOMAIN out /\ c(1) = GS_MSG_TYPE[got.type] + 1
      BY <1>3, <1>6, <3>1
    <3>3. Type(1) = Net(GS_MSG_TYPE[got.type] + 1, 2)
      BY <1>8, <1>9, <3>2
    <3> QED
      BY <2>1, <3>2, <3>3 DEF TurnInv
  <2>2. ASSUME NEW i \in DOMAIN out, NEW ask \in Asks, Type(i) = Net(GS_MSG_TYPE[ask] + 1, 2)
        PROVE  i = 1 /\ got.type = ask
    <3>1. GS_MSG_TYPE[ask] + 1 \in 1 .. 24 /\ GS_MSG_TYPE[ask] + 1 # 19
      BY AskCodes
    <3>2. c(i) = GS_MSG_TYPE[ask] + 1
      BY <1>9, <2>2, <3>1
    <3>3. i \in 1 .. n /\ types[i] = GS_MSG_TYPE[ask] + 1
      BY <3>1, <3>2
    <3> QED
      BY <1>1, <3>3 DEF Fitting
  <2>3. ASSUME NEW d \in {7, 23}
        PROVE  (\E i \in DOMAIN out : Type(i) = Net(d, 2)) <=> (\E i \in 1 .. n : types[i] = d)
    <3>1. d \in 1 .. 24 /\ d # 19
      OBVIOUS
    <3>2. \A i \in DOMAIN out : Type(i) = Net(d, 2) <=> c(i) = d
      BY <1>9, <3>1
    <3>3. \A i \in 1 .. n : i \in DOMAIN out /\ c(i) = types[i]
      BY <1>3, <1>6
    <3>4. \A i \in DOMAIN out : c(i) = d => i \in 1 .. n
      BY <3>1
    <3> HIDE DEF c
    <3> QED
      BY <3>2, <3>3, <3>4
  <2>4. (\E i \in DOMAIN out : Is(i, "TRP_CTRL_REQ")) <=> (\E i \in 1 .. n : types[i] = 7)
    BY <2>3, AskCodes DEF Is
  <2>5. (\E i \in DOMAIN out : Is(i, "PATH_PLAN_REQ")) <=> (\E i \in 1 .. n : types[i] = 23)
    BY <2>3, AskCodes DEF Is
  <2>6. /\ (\E i \in 1 .. n : types[i] = 7) <=>
             (got.type = "ROBOT_STATUS_REQ" /\ Member(got.data, ROBOT_STATUS_INFO_S, 5) # <<0>>)
        /\ (\E i \in 1 .. n : types[i] = 23) <=>
             (got.type = "APPLY_PLAN_REQ" /\ Member(got.data, PLAN_REQ_S, 7) = Net(1, 2))
    BY <1>1 DEF Fitting
  <2> QED
    BY <2>1, <2>2, <2>4, <2>5, <2>6 DEF AnswersMatch
<1> QED
  BY <1>10, <1>12, <1>13

LEMMA TurnStep ==
  ASSUME TurnInv, Receive, NEW T, NEW ms \in Seq(T), Send(ms),
         NEW types \in Seq(1 .. 24 \ {19}), Len(types) = Len(ms),
         \A i \in 1 .. Len(ms) : Coded(ms[i], types[i]),
         Fitting(types)', got'.type \in Asks => Repeats'
  PROVE  TurnInv'
<1>1. tick \in Nat /\ buffer \in Seq(Byte) /\ flip = tick \div 3
  BY DEF TurnInv
<1>2. tick' = tick + 1 /\ buffer' \in Seq(Byte)
  BY <1>1, ReceivesDatagram
<1>3. /\ flip' = Flips
      /\ DOMAIN out' = 1 .. Len(ms) + Extra' /\ Len(out') = Len(ms) + Extra'
      /\ \A i \in 1 .. Len(ms) : out'[i].msg = ms[i]
      /\ Extra' = 1 => out'[Len(ms) + 1].msg = gen_interrupt_ctrl_req(flip')
  <2>1. tick' \in Nat /\ tick' > 0
    BY <1>1, <1>2
  <2> QED
    BY <2>1, SendFacts
<1>4. flip' = tick' \div 3 /\ flip' \in Nat /\ tick' \in Nat
  <2>1. CASE tick' % 3 = 0
    BY <1>1, <1>2, <1>3, <2>1 DEF Flips
  <2>2. CASE tick' % 3 # 0
    BY <1>1, <1>2, <1>3, <2>2 DEF Flips
  <2> QED
    BY <2>1, <2>2
<1>5. /\ Coded(gen_interrupt_ctrl_req(flip'), 19)
      /\ Member(gen_interrupt_ctrl_req(flip').bytes, INTERRUPT_CMD_S, 2) = Net(flip' % 3, 2)
  <2>1. LET m == gen_interrupt_ctrl_req(flip')
        IN  /\ Honest(m, "INTERRUPT_CTRL_REQ", First)
            /\ Member(m.bytes, INTERRUPT_CMD_S, 2) = Net(flip' % 3, 2)
    BY <1>4, InterruptCommand
  <2> QED
    BY <2>1, AskCodes DEF Honest, Coded
<1>6. Sent(types)'
  BY <1>3, <1>5 DEF Sent
<1> QED
  BY <1>2, <1>4, <1>6 DEF TurnInv

LEMMA CodesDiffer ==
  \A a, b \in Asks \cup Answers : GS_MSG_TYPE[a] = GS_MSG_TYPE[b] => a = b
BY DEF Asks, Answers, GS_MSG_TYPE

\* The branch taken is the one of the datagram's type.
LEMMA BranchOfType ==
  ASSUME TurnInv, Receive, NEW type \in Asks
  PROVE  Read(8, 2) = Net(GS_MSG_TYPE[type], 2) <=> got'.type = type
<1>1. buffer \in Seq(Byte) /\ tick \in Nat
  BY DEF TurnInv
<1>2. /\ Heard(got')
      /\ \A off, n \in Nat : off + n <= Len(got'.data) => Read(off, n) = At(got'.data, off, n)
  BY <1>1, ReceivesDatagram
<1>3. got'.type \in Asks \cup Answers /\ Asked(got'.data, got'.type, BodySize[got'.type])
  BY <1>2 DEF Heard
<1>4. BodySize[got'.type] \in Nat
  BY <1>3 DEF Asks, Answers, BodySize
<1>5. Read(8, 2) = Net(GS_MSG_TYPE[got'.type], 2)
  <2>1. Len(got'.data) = 16 + BodySize[got'.type] /\ At(got'.data, 8, 2) = Net(GS_MSG_TYPE[got'.type], 2)
    BY <1>3 DEF Asked
  <2>2. 8 + 2 <= Len(got'.data)
    BY <1>4, <2>1
  <2>3. Read(8, 2) = At(got'.data, 8, 2)
    BY <1>2, <2>2
  <2> QED
    BY <2>1, <2>3
<1>6. GS_MSG_TYPE[type] \in 0 .. 255 /\ GS_MSG_TYPE[got'.type] \in 0 .. 255
  BY <1>3, RequestTypes
<1> QED
  BY <1>3, <1>5, <1>6, NetDiffers, CodesDiffer

LEMMA FieldAt ==
  ASSUME NEW s \in Seq(Byte), NEW off \in Nat, NEW n \in Nat, off + n <= Len(s)
  PROVE  Field(At(s, off, n), n)
<1>1. \A i \in off + 1 .. off + n : s[i] \in Byte
  BY ElementOfSeq
<1> QED
  BY <1>1, SubSeqProperties DEF At, Field

\* What a branch reads of the datagram it is for.
LEMMA ReadsDatagram ==
  ASSUME TurnInv, NEW type \in Asks, Receives(type)
  PROVE  /\ Receive /\ got'.type = type
         /\ got'.data \in Seq(Byte) /\ Len(got'.data) = 16 + BodySize[type]
         /\ \A off, n \in Nat : off + n <= Len(got'.data) =>
               Read(off, n) = At(got'.data, off, n) /\ Field(Read(off, n), n)
<1>1. buffer \in Seq(Byte) /\ tick \in Nat /\ Receive
  BY DEF TurnInv, Receives
<1>2. got'.type = type
  BY <1>1, BranchOfType DEF Receives
<1>3. /\ Heard(got')
      /\ \A off, n \in Nat : off + n <= Len(got'.data) => Read(off, n) = At(got'.data, off, n)
  BY <1>1, ReceivesDatagram
<1>4. got'.data \in Seq(Byte) /\ Len(got'.data) = 16 + BodySize[type]
  BY <1>2, <1>3 DEF Heard, Asked
<1>5. \A off, n \in Nat : off + n <= Len(got'.data) => Field(At(got'.data, off, n), n)
  BY <1>4, FieldAt
<1> QED
  BY <1>1, <1>2, <1>3, <1>4, <1>5

LEMMA HonestIsCoded ==
  ASSUME NEW m, NEW type, NEW order, Honest(m, type, order)
  PROVE  Coded(m, GS_MSG_TYPE[type])
BY DEF Honest, Coded

LEMMA StepRegister ==
  ASSUME TurnInv, Register
  PROVE  TurnInv'
<1> DEFINE ms == <<gen_register_resp>>
           types == <<2>>
<1>1. Receives("REGISTER_REQ") /\ Send(ms)
  BY DEF Register
<1>2. "REGISTER_REQ" \in Asks
  BY DEF Asks
<1>3. Receive /\ got'.type = "REGISTER_REQ"
  BY <1>1, <1>2, ReadsDatagram
<1>4. Coded(gen_register_resp, 2)
  <2>1. GS_MSG_TYPE["REGISTER_RSP"] = 2
    BY DEF GS_MSG_TYPE
  <2> QED
    BY <2>1, ShortAnswers, HonestIsCoded
<1>5. Fitting(types)'
  BY <1>3 DEF Fitting, Asks, GS_MSG_TYPE
<1>6. Repeats'
  BY <1>3 DEF Repeats
<1>7. /\ ms \in Seq({gen_register_resp}) /\ types \in Seq(1 .. 24 \ {19}) /\ Len(types) = Len(ms)
      /\ \A i \in 1 .. Len(ms) : Coded(ms[i], types[i])
  BY <1>4
<1> HIDE DEF ms, types
<1> QED
  BY <1>1, <1>3, <1>5, <1>6, <1>7, TurnStep

LEMMA FirstSent ==
  ASSUME TurnInv, Receive, NEW T, NEW ms \in Seq(T), Len(ms) > 0, Send(ms)
  PROVE  out'[1].msg = ms[1]
<1>1. tick' \in Nat /\ tick' > 0
  BY ReceivesDatagram DEF TurnInv
<1>2. \A i \in 1 .. Len(ms) : out'[i].msg = ms[i]
  BY <1>1, SendFacts
<1> QED
  BY <1>2

LEMMA StepClean ==
  ASSUME TurnInv, ApplyCleanArea
  PROVE  TurnInv'
<1> DEFINE m == gen_apply_clean_area_resp(Bswap(Read(20, 4)))
           ms == <<m>>
           types == <<4>>
<1>1. Receives("APPLY_CLEAN_AREA_REQ") /\ Send(ms)
  BY DEF ApplyCleanArea
<1>2. "APPLY_CLEAN_AREA_REQ" \in Asks
  BY DEF Asks
<1>3. /\ Receive /\ got'.type = "APPLY_CLEAN_AREA_REQ"
      /\ Read(20, 4) = At(got'.data, 20, 4) /\ Field(Read(20, 4), 4)
  <2>1. /\ Receive /\ got'.type = "APPLY_CLEAN_AREA_REQ" /\ Len(got'.data) = 16 + 24
        /\ \A off, n \in Nat : off + n <= Len(got'.data) =>
              Read(off, n) = At(got'.data, off, n) /\ Field(Read(off, n), n)
    BY <1>1, <1>2, ReadsDatagram DEF BodySize
  <2> QED
    BY <2>1
<1>4. Honest(m, "APPLY_CLEAN_AREA_RSP", First) /\ Member(m.bytes, APPLY_CLEAN_RESP_S, 3) = Read(20, 4)
  BY <1>3, CleanAnswer
<1> HIDE DEF m
<1>5. Coded(m, 4)
  <2>1. GS_MSG_TYPE["APPLY_CLEAN_AREA_RSP"] = 4
    BY DEF GS_MSG_TYPE
  <2> QED
    BY <1>4, <2>1, HonestIsCoded
<1>6. Fitting(types)'
  BY <1>3 DEF Fitting, Asks, GS_MSG_TYPE
<1>7. /\ ms \in Seq({m}) /\ types \in Seq(1 .. 24 \ {19}) /\ Len(types) = Len(ms)
      /\ \A i \in 1 .. Len(ms) : Coded(ms[i], types[i])
      /\ Len(ms) > 0 /\ ms[1] = m
  BY <1>5
<1> HIDE DEF ms, types
<1>8. out'[1].msg = m
  BY <1>1, <1>3, <1>7, FirstSent
<1>9. Repeats'
  <2>1. Member(got'.data, CLEAN_AREA_S, 3) = At(got'.data, 20, 4)
    BY ReadOffsets DEF Member
  <2>2. Member(out'[1].msg.bytes, APPLY_CLEAN_RESP_S, 3) = Member(got'.data, CLEAN_AREA_S, 3)
    BY <1>3, <1>4, <1>8, <2>1
  <2> QED
    BY <1>3, <2>2 DEF Repeats
<1> QED
  BY <1>1, <1>3, <1>6, <1>7, <1>9, TurnStep

LEMMA StepDoorAnswer ==
  ASSUME TurnInv, ApplyForDoor
  PROVE  TurnInv'
<1> DEFINE m == gen_apply_for_door_resp(Read(20, 4), Read(24, 4), Read(28, 4), Read(4, 4))
           ms == <<m>>
           types == <<10>>
<1>1. Receives("APPLY_FOR_DOOR_REQ") /\ Send(ms)
  BY DEF ApplyForDoor, DoorFields, n_order
<1>2. "APPLY_FOR_DOOR_REQ" \in Asks
  BY DEF Asks
<1>3. /\ Receive /\ got'.type = "APPLY_FOR_DOOR_REQ"
      /\ Read(4, 4) = At(got'.data, 4, 4) /\ Field(Read(4, 4), 4)
      /\ Read(20, 4) = At(got'.data, 20, 4) /\ Field(Read(20, 4), 4)
      /\ Read(24, 4) = At(got'.data, 24, 4) /\ Field(Read(24, 4), 4)
      /\ Read(28, 4) = At(got'.data, 28, 4) /\ Field(Read(28, 4), 4)
  <2>1. /\ Receive /\ got'.type = "APPLY_FOR_DOOR_REQ" /\ Len(got'.data) = 16 + 16
        /\ \A off, n \in Nat : off + n <= Len(got'.data) =>
              Read(off, n) = At(got'.data, off, n) /\ Field(Read(off, n), n)
    BY <1>1, <1>2, ReadsDatagram DEF BodySize
  <2> QED
    BY <2>1
<1>4. /\ Honest(m, "APPLY_FOR_DOOR_RSP", Read(4, 4))
      /\ Member(m.bytes, APPLY_DOOR_RESP_S, 3) = Read(20, 4)
      /\ Member(m.bytes, APPLY_DOOR_RESP_S, 4) = Read(24, 4)
      /\ Member(m.bytes, APPLY_DOOR_RESP_S, 5) = Read(28, 4)
  BY <1>3, DoorAnswer
<1> HIDE DEF m
<1>5. Coded(m, 10)
  <2>1. GS_MSG_TYPE["APPLY_FOR_DOOR_RSP"] = 10
    BY DEF GS_MSG_TYPE
  <2> QED
    BY <1>4, <2>1, HonestIsCoded
<1>6. Fitting(types)'
  BY <1>3 DEF Fitting, Asks, GS_MSG_TYPE
<1>7. /\ ms \in Seq({m}) /\ types \in Seq(1 .. 24 \ {19}) /\ Len(types) = Len(ms)
      /\ \A i \in 1 .. Len(ms) : Coded(ms[i], types[i])
      /\ Len(ms) > 0 /\ ms[1] = m
  BY <1>5
<1> HIDE DEF ms, types
<1>8. out'[1].msg = m
  BY <1>1, <1>3, <1>7, FirstSent
<1>9. Repeats'
  <2>1. /\ Member(got'.data, APPLY_DOOR_REQ_S, 3) = At(got'.data, 20, 4)
        /\ Member(got'.data, APPLY_DOOR_REQ_S, 4) = At(got'.data, 24, 4)
        /\ Member(got'.data, APPLY_DOOR_REQ_S, 5) = At(got'.data, 28, 4)
    BY ReadOffsets DEF Member
  <2>2. /\ Member(out'[1].msg.bytes, APPLY_DOOR_RESP_S, 3) = Member(got'.data, APPLY_DOOR_REQ_S, 3)
        /\ Member(out'[1].msg.bytes, APPLY_DOOR_RESP_S, 4) = Member(got'.data, APPLY_DOOR_REQ_S, 4)
        /\ Member(out'[1].msg.bytes, APPLY_DOOR_RESP_S, 5) = Member(got'.data, APPLY_DOOR_REQ_S, 5)
    BY <1>3, <1>4, <1>8, <2>1
  <2>3. \A k \in 3 .. 5 : Member(out'[1].msg.bytes, APPLY_DOOR_RESP_S, k) = Member(got'.data, APPLY_DOOR_REQ_S, k)
    BY <2>2
  <2>4. At(out'[1].msg.bytes, 4, 4) = At(got'.data, 4, 4)
    BY <1>3, <1>4, <1>8 DEF Honest
  <2> QED
    BY <1>3, <2>3, <2>4 DEF Repeats
<1> QED
  BY <1>1, <1>3, <1>6, <1>7, <1>9, TurnStep

LEMMA StepTraffic ==
  ASSUME TurnInv, ApplyTrafficRes
  PROVE  TurnInv'
<1> DEFINE m == gen_apply_traffic_res_resp(Read(4, 4), Read(20, 4))
           ms == <<m>>
           types == <<12>>
<1>1. Receives("APPLY_TRAFFIC_RES_REQ") /\ Send(ms)
  BY DEF ApplyTrafficRes, n_order
<1>2. "APPLY_TRAFFIC_RES_REQ" \in Asks
  BY DEF Asks
<1>3. /\ Receive /\ got'.type = "APPLY_TRAFFIC_RES_REQ"
      /\ Read(4, 4) = At(got'.data, 4, 4) /\ Field(Read(4, 4), 4)
      /\ Read(20, 4) = At(got'.data, 20, 4) /\ Field(Read(20, 4), 4)
  <2>1. /\ Receive /\ got'.type = "APPLY_TRAFFIC_RES_REQ" /\ Len(got'.data) = 16 + 24
        /\ \A off, n \in Nat : off + n <= Len(got'.data) =>
              Read(off, n) = At(got'.data, off, n) /\ Field(Read(off, n), n)
    BY <1>1, <1>2, ReadsDatagram DEF BodySize
  <2> QED
    BY <2>1
<1>4. /\ Honest(m, "APPLY_TRAFFIC_RES_RSP", Read(4, 4))
      /\ Member(m.bytes, APPLY_TRAFFIC_RES_RESP_S, 3) = Read(20, 4)
  BY <1>3, TrafficAnswer
<1> HIDE DEF m
<1>5. Coded(m, 12)
  <2>1. GS_MSG_TYPE["APPLY_TRAFFIC_RES_RSP"] = 12
    BY DEF GS_MSG_TYPE
  <2> QED
    BY <1>4, <2>1, HonestIsCoded
<1>6. Fitting(types)'
  BY <1>3 DEF Fitting, Asks, GS_MSG_TYPE
<1>7. /\ ms \in Seq({m}) /\ types \in Seq(1 .. 24 \ {19}) /\ Len(types) = Len(ms)
      /\ \A i \in 1 .. Len(ms) : Coded(ms[i], types[i])
      /\ Len(ms) > 0 /\ ms[1] = m
  BY <1>5
<1> HIDE DEF ms, types
<1>8. out'[1].msg = m
  BY <1>1, <1>3, <1>7, FirstSent
<1>9. Repeats'
  <2>1. Member(got'.data, APPLY_TRAFFIC_RES_REQ_S, 3) = At(got'.data, 20, 4)
    BY ReadOffsets DEF Member
  <2>2. Member(out'[1].msg.bytes, APPLY_TRAFFIC_RES_RESP_S, 3) = Member(got'.data, APPLY_TRAFFIC_RES_REQ_S, 3)
    BY <1>3, <1>4, <1>8, <2>1
  <2>3. At(out'[1].msg.bytes, 4, 4) = At(got'.data, 4, 4)
    BY <1>3, <1>4, <1>8 DEF Honest
  <2> QED
    BY <1>3, <2>2, <2>3 DEF Repeats
<1> QED
  BY <1>1, <1>3, <1>6, <1>7, <1>9, TurnStep

LEMMA StepOffline ==
  ASSUME TurnInv, ApplyOffline
  PROVE  TurnInv'
<1> DEFINE m == gen_apply_offine_resp(Read(4, 4))
           ms == <<m>>
           types == <<16>>
<1>1. Receives("APPLY_OFFLINE_REQ") /\ Send(ms)
  BY DEF ApplyOffline, n_order
<1>2. "APPLY_OFFLINE_REQ" \in Asks
  BY DEF Asks
<1>3. /\ Receive /\ got'.type = "APPLY_OFFLINE_REQ"
      /\ Read(4, 4) = At(got'.data, 4, 4) /\ Field(Read(4, 4), 4)
  <2>1. /\ Receive /\ got'.type = "APPLY_OFFLINE_REQ" /\ Len(got'.data) = 16 + 4
        /\ \A off, n \in Nat : off + n <= Len(got'.data) =>
              Read(off, n) = At(got'.data, off, n) /\ Field(Read(off, n), n)
    BY <1>1, <1>2, ReadsDatagram DEF BodySize
  <2> QED
    BY <2>1
<1>4. Honest(m, "APPLY_OFFLINE_RSP", Read(4, 4))
  BY <1>3, ShortAnswers
<1> HIDE DEF m
<1>5. Coded(m, 16)
  <2>1. GS_MSG_TYPE["APPLY_OFFLINE_RSP"] = 16
    BY DEF GS_MSG_TYPE
  <2> QED
    BY <1>4, <2>1, HonestIsCoded
<1>6. Fitting(types)'
  BY <1>3 DEF Fitting, Asks, GS_MSG_TYPE
<1>7. /\ ms \in Seq({m}) /\ types \in Seq(1 .. 24 \ {19}) /\ Len(types) = Len(ms)
      /\ \A i \in 1 .. Len(ms) : Coded(ms[i], types[i])
      /\ Len(ms) > 0 /\ ms[1] = m
  BY <1>5
<1> HIDE DEF ms, types
<1>8. out'[1].msg = m
  BY <1>1, <1>3, <1>7, FirstSent
<1>9. Repeats'
  <2>1. At(out'[1].msg.bytes, 4, 4) = At(got'.data, 4, 4)
    BY <1>3, <1>4, <1>8 DEF Honest
  <2> QED
    BY <1>3, <2>1 DEF Repeats
<1> QED
  BY <1>1, <1>3, <1>6, <1>7, <1>9, TurnStep

\* A plan is answered and, if it is of control type 1, given a path.
LEMMA StepPlan ==
  ASSUME TurnInv, ApplyPlan
  PROVE  TurnInv'
<1> DEFINE m == gen_apply_plan_resp(Read(4, 4))
           path == Read(34, 2) = Net(1, 2)
           ms == <<m>> \o (IF path THEN <<gen_path_plan_req>> ELSE <<>>)
<1>1. Receives("APPLY_PLAN_REQ") /\ Send(ms)
  <2>1. Sizeof(HK_HEADER_S) + Sizeof(PLAN_REQ_S) - 2 = 34
    BY HeaderLayout, ReadOffsets
  <2> QED
    BY <2>1 DEF ApplyPlan, n_order
<1>2. "APPLY_PLAN_REQ" \in Asks
  BY DEF Asks
<1>3. /\ Receive /\ got'.type = "APPLY_PLAN_REQ"
      /\ Read(4, 4) = At(got'.data, 4, 4) /\ Field(Read(4, 4), 4)
      /\ Read(34, 2) = At(got'.data, 34, 2)
  <2>1. /\ Receive /\ got'.type = "APPLY_PLAN_REQ" /\ Len(got'.data) = 16 + 20
        /\ \A off, n \in Nat : off + n <= Len(got'.data) =>
              Read(off, n) = At(got'.data, off, n) /\ Field(Read(off, n), n)
    BY <1>1, <1>2, ReadsDatagram DEF BodySize
  <2> QED
    BY <2>1
<1>4. Honest(m, "APPLY_PLAN_RSP", Read(4, 4))
  BY <1>3, ShortAnswers
<1> HIDE DEF m
<1>5. Coded(m, 22) /\ Coded(gen_path_plan_req, 23)
  <2>1. GS_MSG_TYPE["APPLY_PLAN_RSP"] = 22 /\ GS_MSG_TYPE["PATH_PLAN_REQ"] = 23
    BY DEF GS_MSG_TYPE
  <2> QED
    BY <1>4, <2>1, PathPlanCommand, HonestIsCoded
<1>6. path <=> Member(got'.data, PLAN_REQ_S, 7) = Net(1, 2)
  BY <1>3, ReadOffsets DEF Member
<1> HIDE DEF path
<1>7. PICK types \in Seq(1 .. 24 \ {19}) :
        /\ ms \in Seq({m, gen_path_plan_req}) /\ Len(types) = Len(ms)
        /\ \A i \in 1 .. Len(ms) : Coded(ms[i], types[i])
        /\ Len(ms) > 0 /\ ms[1] = m
        /\ Len(types) > 0 /\ types[1] = 22
        /\ \A i \in 1 .. Len(types) : types[i] \in {22, 23} /\ (types[i] = 22 => i = 1)
        /\ (\E i \in 1 .. Len(types) : types[i] = 23) <=> path
  <2>1. CASE path
    <3>1. ms = <<m>> \o <<gen_path_plan_req>>
      BY <2>1
    <3> HIDE DEF ms
    <3>2. ms \in Seq({m, gen_path_plan_req}) /\ Len(ms) = 2 /\ ms[1] = m /\ ms[2] = gen_path_plan_req
      BY <3>1
    <3> WITNESS <<22, 23>> \in Seq(1 .. 24 \ {19})
    <3> QED
      BY <1>5, <2>1, <3>2
  <2>2. CASE ~path
    <3>1. ms = <<m>>
      BY <2>2
    <3> HIDE DEF ms
    <3>2. ms \in Seq({m, gen_path_plan_req}) /\ Len(ms) = 1 /\ ms[1] = m
      BY <3>1
    <3> WITNESS <<22>> \in Seq(1 .. 24 \ {19})
    <3> QED
      BY <1>5, <2>2, <3>2
  <2> QED
    BY <2>1, <2>2
<1> HIDE DEF ms
<1>8. Fitting(types)'
  <2>1. \A ask \in Asks : /\ GS_MSG_TYPE[ask] + 1 = 22 => ask = "APPLY_PLAN_REQ"
                          /\ GS_MSG_TYPE[ask] + 1 # 23
    BY DEF Asks, GS_MSG_TYPE
  <2>2. GS_MSG_TYPE["APPLY_PLAN_REQ"] + 1 = 22
    BY DEF GS_MSG_TYPE
  <2>3. \A i \in 1 .. Len(types), ask \in Asks :
          types[i] = GS_MSG_TYPE[ask] + 1 => i = 1 /\ got'.type = ask
    BY <1>3, <1>7, <2>1
  <2>4. ~ \E i \in 1 .. Len(types) : types[i] = 7
    BY <1>7
  <2> QED
    BY <1>3, <1>6, <1>7, <2>2, <2>3, <2>4 DEF Fitting
<1>9. out'[1].msg = m
  BY <1>1, <1>3, <1>7, FirstSent
<1>10. Repeats'
  <2>1. At(out'[1].msg.bytes, 4, 4) = At(got'.data, 4, 4)
    BY <1>3, <1>4, <1>9 DEF Honest
  <2> QED
    BY <1>3, <2>1 DEF Repeats
<1> QED
  BY <1>1, <1>3, <1>7, <1>8, <1>10, TurnStep

\* A status is answered; a robot that needs a plan is asked for control, and the
\* doors follow the first status.
LEMMA StepStatus ==
  ASSUME TurnInv, RobotStatus
  PROVE  TurnInv'
<1> DEFINE m == gen_robot_status_resp
           need_plan == Read(22, 1) # <<0>>
           doors == FirstTime
           ms == <<m>> \o (IF need_plan THEN <<gen_trp_ctrl_req>> ELSE <<>>)
                       \o (IF doors THEN <<gen_door_info>> ELSE <<>>)
<1>1. Receives("ROBOT_STATUS_REQ") /\ Send(ms)
  BY DEF RobotStatus
<1>2. "ROBOT_STATUS_REQ" \in Asks
  BY DEF Asks
<1>3. /\ Receive /\ got'.type = "ROBOT_STATUS_REQ"
      /\ Read(22, 1) = At(got'.data, 22, 1)
  <2>1. /\ Receive /\ got'.type = "ROBOT_STATUS_REQ" /\ Len(got'.data) = 16 + 28
        /\ \A off, n \in Nat : off + n <= Len(got'.data) =>
              Read(off, n) = At(got'.data, off, n) /\ Field(Read(off, n), n)
    BY <1>1, <1>2, ReadsDatagram DEF BodySize
  <2> QED
    BY <2>1
<1>4. Coded(m, 6) /\ Coded(gen_trp_ctrl_req, 7) /\ Coded(gen_door_info, 13)
  <2>1. /\ GS_MSG_TYPE["ROBOT_STATUS_RSP"] = 6 /\ GS_MSG_TYPE["TRP_CTRL_REQ"] = 7
        /\ GS_MSG_TYPE["DOOR_CONFIG_REQ"] = 13
    BY DEF GS_MSG_TYPE
  <2> QED
    BY <2>1, ShortAnswers, TrpCtrlCommand, DoorInfoCommand, HonestIsCoded
<1> HIDE DEF m
<1>5. need_plan <=> Member(got'.data, ROBOT_STATUS_INFO_S, 5) # <<0>>
  BY <1>3, ReadOffsets DEF Member
<1> HIDE DEF need_plan, doors
<1>6. PICK types \in Seq(1 .. 24 \ {19}) :
        /\ ms \in Seq({m, gen_trp_ctrl_req, gen_door_info}) /\ Len(types) = Len(ms)
        /\ \A i \in 1 .. Len(ms) : Coded(ms[i], types[i])
        /\ Len(types) > 0 /\ types[1] = 6
        /\ \A i \in 1 .. Len(types) : types[i] \in {6, 7, 13} /\ (types[i] = 6 => i = 1)
        /\ (\E i \in 1 .. Len(types) : types[i] = 7) <=> need_plan
  <2>1. CASE need_plan /\ doors
    <3>1. ms = <<m>> \o <<gen_trp_ctrl_req>> \o <<gen_door_info>>
      BY <2>1
    <3> HIDE DEF ms
    <3>2. ms \in Seq({m, gen_trp_ctrl_req, gen_door_info}) /\ Len(ms) = 3
      BY <3>1
    <3>3. ms[1] = m /\ ms[2] = gen_trp_ctrl_req /\ ms[3] = gen_door_info
      BY <3>1
    <3> WITNESS <<6, 7, 13>> \in Seq(1 .. 24 \ {19})
    <3> QED
      BY <1>4, <2>1, <3>2, <3>3
  <2>2. CASE need_plan /\ ~doors
    <3>1. ms = <<m>> \o <<gen_trp_ctrl_req>> \o <<>>
      BY <2>2
    <3> HIDE DEF ms
    <3>2. ms \in Seq({m, gen_trp_ctrl_req, gen_door_info}) /\ Len(ms) = 2
      BY <3>1
    <3>3. ms[1] = m /\ ms[2] = gen_trp_ctrl_req
      BY <3>1
    <3> WITNESS <<6, 7>> \in Seq(1 .. 24 \ {19})
    <3> QED
      BY <1>4, <2>2, <3>2, <3>3
  <2>3. CASE ~need_plan /\ doors
    <3>1. ms = <<m>> \o <<>> \o <<gen_door_info>>
      BY <2>3
    <3> HIDE DEF ms
    <3>2. ms \in Seq({m, gen_trp_ctrl_req, gen_door_info}) /\ Len(ms) = 2
      BY <3>1
    <3>3. ms[1] = m /\ ms[2] = gen_door_info
      BY <3>1
    <3> WITNESS <<6, 13>> \in Seq(1 .. 24 \ {19})
    <3> QED
      BY <1>4, <2>3, <3>2, <3>3
  <2>4. CASE ~need_plan /\ ~doors
    <3>1. ms = <<m>> \o <<>> \o <<>>
      BY <2>4
    <3> HIDE DEF ms
    <3>2. ms \in Seq({m, gen_trp_ctrl_req, gen_door_info}) /\ Len(ms) = 1
      BY <3>1
    <3>3. ms[1] = m
      BY <3>1
    <3> WITNESS <<6>> \in Seq(1 .. 24 \ {19})
    <3> QED
      BY <1>4, <2>4, <3>2, <3>3
  <2> QED
    BY <2>1, <2>2, <2>3, <2>4
<1> HIDE DEF ms
<1>7. Fitting(types)'
  <2>1. \A ask \in Asks : /\ GS_MSG_TYPE[ask] + 1 = 6 => ask = "ROBOT_STATUS_REQ"
                          /\ GS_MSG_TYPE[ask] + 1 # 7 /\ GS_MSG_TYPE[ask] + 1 # 13
    BY DEF Asks, GS_MSG_TYPE
  <2>2. GS_MSG_TYPE["ROBOT_STATUS_REQ"] + 1 = 6
    BY DEF GS_MSG_TYPE
  <2>3. \A i \in 1 .. Len(types), ask \in Asks :
          types[i] = GS_MSG_TYPE[ask] + 1 => i = 1 /\ got'.type = ask
    BY <1>3, <1>6, <2>1
  <2>4. ~ \E i \in 1 .. Len(types) : types[i] = 23
    BY <1>6
  <2> QED
    BY <1>3, <1>5, <1>6, <2>2, <2>3, <2>4 DEF Fitting
<1>8. Repeats'
  BY <1>3 DEF Repeats
<1> QED
  BY <1>1, <1>3, <1>6, <1>7, <1>8, TurnStep

\* The answer of a robot is not answered.
LEMMA StepNoBranch ==
  ASSUME TurnInv, NoBranch
  PROVE  TurnInv'
<1> DEFINE none == <<>>
<1>1. Receive /\ Send(none) /\ \A type \in Asks : Read(8, 2) # Net(GS_MSG_TYPE[type], 2)
  BY DEF NoBranch
<1>2. got'.type \notin Asks
  BY <1>1, BranchOfType
<1>3. none \in Seq({}) /\ none \in Seq(1 .. 24 \ {19}) /\ Len(none) = 0
  OBVIOUS
<1> HIDE DEF none
<1>4. Fitting(none)'
  <2>1. "ROBOT_STATUS_REQ" \in Asks /\ "APPLY_PLAN_REQ" \in Asks
    BY DEF Asks
  <2> QED
    BY <1>2, <1>3, <2>1 DEF Fitting
<1>5. \A i \in 1 .. Len(none) : Coded(none[i], none[i])
  BY <1>3
<1> QED
  BY <1>1, <1>2, <1>3, <1>4, <1>5, TurnStep

LEMMA TurnInit ==
  ASSUME Init
  PROVE  TurnInv
<1>1. tick = 0 /\ buffer = <<>> /\ flip = 0 /\ out = <<>> /\ got.type = "none"
  BY DEF Init, Nothing
<1>2. got.type \notin Asks /\ got.type # "ROBOT_STATUS_REQ" /\ got.type # "APPLY_PLAN_REQ"
  BY <1>1 DEF Asks
<1>3. Extra = 0
  BY <1>1 DEF Extra
<1>4. Sent(<<>>)
  BY <1>1, <1>3 DEF Sent
<1>5. Fitting(<<>>)
  BY <1>2 DEF Fitting
<1>6. flip = tick \div 3 /\ tick \in Nat /\ buffer \in Seq(Byte)
  BY <1>1
<1> QED
  BY <1>2, <1>4, <1>5, <1>6 DEF TurnInv

LEMMA TurnStutters ==
  ASSUME TurnInv, UNCHANGED vars
  PROVE  TurnInv'
<1>1. /\ tick' = tick /\ flip' = flip /\ buffer' = buffer /\ out' = out /\ got' = got
  BY DEF vars, server
<1>2. PICK types : Sent(types) /\ Fitting(types)
  BY DEF TurnInv
<1>3. Sent(types)'
  BY <1>1, <1>2 DEF Sent, Extra
<1>4. Fitting(types)'
  BY <1>1, <1>2 DEF Fitting
<1>5. Repeats' <=> Repeats
  BY <1>1 DEF Repeats
<1> QED
  BY <1>1, <1>3, <1>4, <1>5 DEF TurnInv

LEMMA TurnInvariant == Spec => []TurnInv
<1>1. Init => TurnInv
  BY TurnInit
<1>2. TurnInv /\ [Next]_vars => TurnInv'
  BY StepRegister, StepStatus, StepClean, StepDoorAnswer, StepTraffic, StepOffline, StepPlan,
     StepNoBranch, TurnStutters DEF Next
<1> QED
  BY <1>1, <1>2, PTL DEF Spec

\* Every datagram the server sends is as long as its header says and as sendto is
\* told: the generators sum up sizes of structs, and the structs hold no padding
\* that the field-by-field copies leave out (msg_gen.cpp, 11 generators; msg_type.h).
THEOREM LengthsAreHonest == Spec => []LengthHonest
<1>1. TurnInv => LengthHonest
  BY TurnProperties
<1> QED
  BY <1>1, TurnInvariant, PTL

\* Every request is answered at once and once, with what it asked for, and no
\* command is sent that it does not call for (main.cpp:55-189).
THEOREM RequestsAreAnswered == Spec => []AnswersMatch
<1>1. TurnInv => AnswersMatch
  BY TurnProperties
<1> QED
  BY <1>1, TurnInvariant, PTL

\* Every third turn ends with an interrupt command, and their types go round
\* without a gap (main.cpp:191-201, msg_gen.cpp:580-583).
THEOREM InterruptsGoRound == Spec => []InterruptsInTurn
<1>1. TurnInv => InterruptsInTurn
  BY TurnProperties
<1> QED
  BY <1>1, TurnInvariant, PTL
=============================================================================
