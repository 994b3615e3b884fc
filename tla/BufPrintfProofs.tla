-------------------------- MODULE BufPrintfProofs --------------------------
(***************************************************************************)
(* The bounded buffer of BufPrintf, proved for every size, every call and  *)
(* any number of them: it stays inside its array, and the array holds the  *)
(* beginning of what was printed.  And the conversions of Snprintf, for    *)
(* every directive, argument, width and precision: what they print is what *)
(* C asks for.                                                             *)
(***************************************************************************)
EXTENDS MCBufPrintf, SequenceTheorems, Recursion

Contents == Char \cup {NUL, Garbage}

\* How many of n characters there is room for in size bytes.
Room(n, size) == IF n >= size THEN size - 1 ELSE n

\* What the formatter does with the array: the characters that fit, a 0 behind
\* them, and no other byte before or behind what is available.
LEMMA StoredBytes ==
    ASSUME NEW buf \in 0 .. Size - 1, NEW size \in 1 .. Size, buf + size = Size,
           NEW out \in Seq(Char),
           memory \in [Bytes -> Contents]
    PROVE  /\ Stored(buf, size, out) \in [Bytes -> Contents]
           /\ \A a \in Bytes : a < buf \/ a = Size => Stored(buf, size, out)[a] = memory[a]
           /\ \A a \in buf .. Size - 2 :
                  a - buf < Len(out) => Stored(buf, size, out)[a] = out[a - buf + 1]
           /\ Stored(buf, size, out)[buf + Room(Len(out), size)] = NUL
<1> DEFINE Byte(a) ==
              CASE a >= buf /\ a < End(buf, size) /\ a - buf < Len(out) -> out[a - buf + 1]
                [] a = buf + Len(out) /\ a < End(buf, size)             -> NUL
                [] a = End(buf, size) /\ Len(out) >= size - 1           -> NUL
                [] OTHER                                                 -> memory[a]
<1>1. Stored(buf, size, out) = [a \in Bytes |-> Byte(a)]
  BY DEF Stored
<1>2. /\ Size \in Nat \ {0} /\ Len(out) \in Nat
      /\ Bytes = -1 .. Size /\ End(buf, size) = Size - 1
  BY BufPrintfAssumption DEF Bytes, End
<1>3. \A a \in Bytes : a >= buf /\ a < Size - 1 /\ a - buf < Len(out) =>
          /\ Byte(a) = out[a - buf + 1]
          /\ out[a - buf + 1] \in Char
  BY <1>2
<1>4. \A a \in Bytes : a < buf \/ a = Size => Byte(a) = memory[a]
  BY <1>2
<1>5. Byte(buf + Room(Len(out), size)) = NUL /\ buf + Room(Len(out), size) \in Bytes
  <2>1. CASE Len(out) >= size - 1
    <3>1. buf + Room(Len(out), size) = Size - 1
      BY <1>2, <2>1 DEF Room
    <3> QED BY <1>2, <2>1, <3>1
  <2>2. CASE Len(out) < size - 1
    <3>1. buf + Room(Len(out), size) = buf + Len(out)
      BY <1>2, <2>2 DEF Room
    <3> QED BY <1>2, <2>2, <3>1
  <2> QED BY <1>2, <2>1, <2>2
<1>6. \A a \in Bytes : Byte(a) \in Contents
  BY <1>2, <1>3 DEF Contents
<1> HIDE DEF Byte
<1>7. Stored(buf, size, out) \in [Bytes -> Contents]
  BY <1>1, <1>6
<1>8. \A a \in buf .. Size - 2 : a \in Bytes /\ a >= buf /\ a < Size - 1
  BY <1>2
<1> QED BY <1>1, <1>3, <1>4, <1>5, <1>7, <1>8

\* How many of t characters are in an array of size bytes.
Fitting(t, size) == IF t < size THEN t ELSE size - 1

\* Of t characters some fit; n more characters find the room that is left, and as
\* many are in the array as if all had come at once.
LEMMA RoomAdds ==
    ASSUME NEW size \in Nat \ {0}, NEW t \in Nat, NEW n \in Nat, NEW rest \in Nat,
           rest = size - Fitting(t, size)
    PROVE  /\ Fitting(t, size) + Room(n, rest) = Fitting(t + n, size)
           /\ Room(n, rest) \in 0 .. rest - 1
  BY DEF Room, Fitting

\* The inductive invariant: data is behind the last character that fitted, and
\* what is available is the rest, so that the next call begins on the 0.
BufInv ==
    /\ TypeOK
    /\ RestIsAvailable
    /\ InBounds
    /\ HoldsBeginning
    /\ data = Fits

LEMMA BufInit == Init => BufInv
<1> SUFFICES ASSUME Init PROVE BufInv
  OBVIOUS
<1> USE BufPrintfAssumption DEF Init
<1>1. Size \in Nat \ {0} /\ Bytes = -1 .. Size
  BY DEF Bytes
<1>2. TypeOK
  <2>1. memory \in [Bytes -> Char \cup {NUL, Garbage}]
    OBVIOUS
  <2>2. text \in Seq(Char)
    OBVIOUS
  <2> QED BY <1>1, <2>1, <2>2 DEF TypeOK
<1>3. Fits = 0
  BY <1>1 DEF Fits
<1>4. HoldsBeginning
  BY <1>1, <1>3 DEF HoldsBeginning
<1>5. InBounds
  BY <1>1 DEF InBounds
<1> QED BY <1>1, <1>2, <1>3, <1>4, <1>5 DEF BufInv, RestIsAvailable

\* A call adds Room(Len(out), available) characters, which is what keeps data in
\* step with the text that fits.
LEMMA BufStep ==
    ASSUME BufInv, NEW c \in Calls, Bufprintf(c)
    PROVE  BufInv' /\ rc' = data' - data
<1> DEFINE out == Output(c)
           nc  == Written(Len(out))
<1>1. /\ Size \in Nat \ {0} /\ MaxPrints \in Nat
      /\ out \in Seq(Char) /\ Len(out) \in Nat
      /\ text \in Seq(Char) /\ Len(text) \in Nat
  BY BufPrintfAssumption DEF BufInv, TypeOK
<1>2. /\ data \in 0 .. Size - 1 /\ available \in 1 .. Size /\ data + available = Size
      /\ memory \in [Bytes -> Contents]
  BY DEF BufInv, TypeOK, RestIsAvailable, Contents
<1>3. /\ memory' = Stored(data, available, out)
      /\ text' = text \o out
      /\ call' = c /\ prints' = prints + 1 /\ prints < MaxPrints
  BY DEF Bufprintf
<1>3a. data' = data + nc /\ available' = available - nc /\ rc' = nc
  BY DEF Bufprintf, AvailableAfter
<1>4. nc = Room(Len(out), available) /\ available = Size - data
  BY <1>1, <1>2 DEF Written, Room
<1>5. text' \in Seq(Char) /\ Len(text') = Len(text) + Len(out)
  BY <1>1, <1>3
<1>6. data = Fits /\ Fits \in 0 .. Size - 1 /\ Fits <= Len(text)
  BY <1>1 DEF BufInv, Fits
<1>7. /\ data' = Fits'
      /\ nc \in 0 .. available - 1
  <2>1. available \in Nat /\ available = Size - Fitting(Len(text), Size)
    BY <1>1, <1>2, <1>4, <1>6 DEF Fits, Fitting
  <2>2. /\ Fitting(Len(text), Size) + Room(Len(out), available) = Fitting(Len(text) + Len(out), Size)
        /\ Room(Len(out), available) \in 0 .. available - 1
    BY <1>1, <2>1, RoomAdds
  <2>3. data = Fitting(Len(text), Size) /\ Fits' = Fitting(Len(text) + Len(out), Size)
    BY <1>5, <1>6 DEF Fits, Fitting
  <2> QED BY <1>3a, <1>4, <2>2, <2>3
<1> HIDE DEF nc, out
<1>8. /\ memory' \in [Bytes -> Contents]
      /\ \A a \in Bytes : a < data \/ a = Size => memory'[a] = memory[a]
      /\ \A a \in data .. Size - 2 : a - data < Len(out) => memory'[a] = out[a - data + 1]
      /\ memory'[data + nc] = NUL
  <2>1. /\ Stored(data, available, out) \in [Bytes -> Contents]
        /\ \A a \in Bytes : a < data \/ a = Size => Stored(data, available, out)[a] = memory[a]
        /\ \A a \in data .. Size - 2 :
               a - data < Len(out) => Stored(data, available, out)[a] = out[a - data + 1]
        /\ Stored(data, available, out)[data + Room(Len(out), available)] = NUL
    BY <1>1, <1>2, StoredBytes
  <2> QED BY <1>3, <1>4, <2>1
<1>9. TypeOK'
  <2>1. data' \in 0 .. Size - 1 /\ available' \in 1 .. Size /\ rc' \in 0 .. Size - 1
    BY <1>1, <1>2, <1>3a, <1>7
  <2>2. prints' \in 0 .. MaxPrints
    BY <1>1, <1>3 DEF BufInv, TypeOK
  <2> QED BY <1>3, <1>5, <1>8, <2>1, <2>2 DEF TypeOK, Contents
<1>10. RestIsAvailable'
  BY <1>1, <1>2, <1>3a, <1>7 DEF RestIsAvailable
<1>11. InBounds'
  <2>1. -1 \in Bytes /\ Size \in Bytes /\ -1 < data
    BY <1>1, <1>2 DEF Bytes
  <2> QED BY <1>8, <2>1 DEF InBounds, BufInv
<1>12. HoldsBeginning'
  <2>1. ASSUME NEW a \in 0 .. Fits' - 1 PROVE memory'[a] = text'[a + 1]
    <3>1. a \in Bytes /\ a \in 0 .. Size - 2
      BY <1>1, <1>5 DEF Fits, Bytes
    <3>2. CASE a < data
      <4>1. memory[a] = text[a + 1]
        BY <1>6, <3>1, <3>2 DEF BufInv, HoldsBeginning
      <4>2. a + 1 \in 1 .. Len(text)
        BY <1>1, <1>6, <3>1, <3>2
      <4>3. text'[a + 1] = text[a + 1]
        BY <1>1, <1>3, <4>2
      <4> QED BY <1>8, <3>1, <3>2, <4>1, <4>3
    <3>3. CASE a >= data
      <4>1. data = Len(text)
        BY <1>1, <1>5, <1>6, <3>1, <3>3 DEF Fits
      <4>2. a - data < Len(out)
        BY <1>1, <1>5, <3>1, <3>3, <4>1 DEF Fits
      <4>3. text'[a + 1] = out[a - data + 1]
        BY <1>1, <1>3, <3>1, <3>3, <4>1, <4>2
      <4> QED BY <1>2, <1>8, <3>1, <3>3, <4>2, <4>3
    <3> QED BY <1>2, <3>1, <3>2, <3>3
  <2>2. memory'[Fits'] = NUL
    BY <1>3a, <1>7, <1>8
  <2> QED BY <2>1, <2>2 DEF HoldsBeginning
<1>13. rc' = data' - data
  BY <1>1, <1>2, <1>3a, <1>7
<1> QED BY <1>7, <1>9, <1>10, <1>11, <1>12, <1>13 DEF BufInv

LEMMA BufStutter ==
    ASSUME BufInv, UNCHANGED vars
    PROVE  BufInv'
  BY DEF BufInv, vars, TypeOK, RestIsAvailable, InBounds, HoldsBeginning, Fits

LEMMA BufInductive == Spec => []BufInv
<1>1. Init => BufInv
  BY BufInit
<1>2. BufInv /\ [Next]_vars => BufInv'
  BY BufStep, BufStutter DEF Next
<1> QED BY <1>1, <1>2, PTL DEF Spec

\* However many records are printed into a buffer and however long, what is
\* available is the rest of the array, and no byte outside is written.
THEOREM StaysInBounds == Spec => [](RestIsAvailable /\ InBounds)
<1>1. BufInv => RestIsAvailable /\ InBounds
  BY DEF BufInv
<1> QED BY <1>1, BufInductive, PTL

\* The array always holds the beginning of what was printed, as a string.
THEOREM BeginningHeld == Spec => []HoldsBeginning
<1>1. BufInv => HoldsBeginning
  BY DEF BufInv
<1> QED BY <1>1, BufInductive, PTL

\* What a call returns is what it added.
THEOREM ReturnsWhatItAdds == Spec => ReturnsAdded
<1>1. BufInv /\ BufInv' /\ [Next]_vars => [rc' = data' - data /\ data' = Fits']_vars
  BY BufStep DEF Next, BufInv
<1> QED BY <1>1, BufInductive, PTL DEF Spec, ReturnsAdded

-----------------------------------------------------------------------------
(* Characters and digits.                                                   *)

\* The characters the conversions add to their arguments.
Glyphs == {"0", "1", "2", "3", "4", "5", "6", "7", "8", "9", "a", "b", "c", "d", "e", "f",
           "A", "B", "C", "D", "E", "F", " ", "-", "+"}

LEMMA AlphabetFacts ==
  ASSUME NEW A \in {Lower, Upper}
  PROVE  /\ A \in Seq(Glyphs) /\ Len(A) = 16 /\ A[1] = "0"
         /\ \A m, n \in 1 .. 16 : A[m] = A[n] => m = n
<1>1. Lower \in Seq(Glyphs) /\ Len(Lower) = 16 /\ Lower[1] = "0"
  BY DEF Lower, Glyphs
<1>2. Upper \in Seq(Glyphs) /\ Len(Upper) = 16 /\ Upper[1] = "0"
  BY DEF Upper, Glyphs
<1>3. \A m, n \in 1 .. 16 : Lower[m] = Lower[n] => m = n
  BY DEF Lower
<1>4. \A m, n \in 1 .. 16 : Upper[m] = Upper[n] => m = n
  BY DEF Upper
<1> QED
  BY <1>1, <1>2, <1>3, <1>4

LEMMA RepeatFacts ==
  ASSUME NEW S, NEW c \in S, NEW n \in Int
  PROVE  /\ Repeat(c, n) \in Seq(S)
         /\ Len(Repeat(c, n)) = Larger(n, 0)
         /\ \A m \in 1 .. n : Repeat(c, n)[m] = c
<1>1. Repeat(c, n) \in Seq(S)
  BY DEF Repeat
<1>2. PICK N \in Nat : N = Len(Repeat(c, n)) /\ DOMAIN Repeat(c, n) = 1 .. N
  BY <1>1, LenProperties
<1>3. DOMAIN Repeat(c, n) = 1 .. n /\ \A m \in 1 .. n : Repeat(c, n)[m] = c
  BY DEF Repeat
<1>4. 1 .. N = 1 .. n
  BY <1>2, <1>3
<1>5. N = IF n >= 0 THEN n ELSE 0
  <2>1. CASE n >= 1
    <3>1. n \in 1 .. N /\ N >= 1
      BY <1>4, <2>1
    <3>2. N \in 1 .. n
      BY <1>4, <3>1
    <3> QED
      BY <2>1, <3>1, <3>2
  <2>2. CASE n < 1
    <3>1. N \notin 1 .. N
      BY <1>4, <2>2
    <3> QED
      BY <2>2, <3>1
  <2> QED
    BY <2>1, <2>2
<1> QED
  BY <1>1, <1>2, <1>3, <1>5 DEF Larger

LEMMA BaseFacts ==
  ASSUME NEW d
  PROVE  Base(d) \in {8, 10, 16} /\ Alphabet(d) \in {Lower, Upper}
BY DEF Base, Alphabet

LEMMA DigitFacts ==
  ASSUME NEW d, NEW n \in 0 .. 15
  PROVE  Digit(d, Alphabet(d)[n + 1]) = n
<1> DEFINE A == Alphabet(d)
           m == Digit(d, A[n + 1])
<1>1. \A i, j \in 1 .. 16 : A[i] = A[j] => i = j
  <2>1. A \in {Lower, Upper}
    BY BaseFacts
  <2> HIDE DEF A
  <2> QED
    BY <2>1, AlphabetFacts
<1>2. m \in 0 .. 15 /\ A[m + 1] = A[n + 1]
  BY DEF Digit
<1> HIDE DEF A, m
<1>3. m + 1 \in 1 .. 16 /\ n + 1 \in 1 .. 16
  BY <1>2
<1>4. m + 1 = n + 1
  BY <1>1, <1>2, <1>3
<1>5. m = n
  BY <1>2, <1>4
<1> QED
  BY <1>5 DEF m, A

-----------------------------------------------------------------------------
(* itoa: a numeral, and what it stands for.                                 *)

\* f is the recursive function by which itoa makes the numerals up to num.
Numerals(f, num, base, digits) ==
    f = [n \in 0 .. num |-> IF n < base THEN <<digits[n + 1]>>
                            ELSE Append(f[n \div base], digits[(n % base) + 1])]

LEMMA Division ==
  ASSUME NEW n \in Nat, NEW base \in {8, 10, 16}
  PROVE  /\ n \div base \in Nat /\ n % base \in 0 .. base - 1
         /\ n = (n \div base) * base + (n % base)
         /\ n > 0 => n \div base < n
         /\ n >= base => n \div base > 0
<1>1. CASE base = 8
  <2>1. n \div 8 \in Int /\ n % 8 \in 0 .. 7 /\ n = (n \div 8) * 8 + (n % 8)
    OBVIOUS
  <2> QED
    BY <1>1, <2>1
<1>2. CASE base = 10
  <2>1. n \div 10 \in Int /\ n % 10 \in 0 .. 9 /\ n = (n \div 10) * 10 + (n % 10)
    OBVIOUS
  <2> QED
    BY <1>2, <2>1
<1>3. CASE base = 16
  <2>1. n \div 16 \in Int /\ n % 16 \in 0 .. 15 /\ n = (n \div 16) * 16 + (n % 16)
    OBVIOUS
  <2> QED
    BY <1>3, <2>1
<1> QED
  BY <1>1, <1>2, <1>3

LEMMA NumeralsFacts ==
  ASSUME NEW num \in Nat, NEW base \in {8, 10, 16}, NEW digits, NEW f, Numerals(f, num, base, digits)
  PROVE  \A n \in 0 .. num : f[n] = IF n < base THEN <<digits[n + 1]>>
                                   ELSE Append(f[n \div base], digits[(n % base) + 1])
BY DEF Numerals

LEMMA NumeralsExist ==
  ASSUME NEW num \in Nat, NEW base \in {8, 10, 16}, NEW digits
  PROVE  \E f : Numerals(f, num, base, digits)
<1> DEFINE T == {k \in 0 .. num : \E f : Numerals(f, k, base, digits)}
<1>1. 0 \in T
  <2> DEFINE f == [n \in 0 .. 0 |-> <<digits[n + 1]>>]
  <2>1. \A n \in 0 .. 0 : n < base
    OBVIOUS
  <2>2. Numerals(f, 0, base, digits)
    BY <2>1 DEF Numerals
  <2> QED
    BY <2>2
<1>2. ASSUME NEW k \in 0 .. num - 1, k \in T PROVE k + 1 \in T
  <2>1. PICK f : Numerals(f, k, base, digits)
    BY <1>2
  <2> DEFINE Next1(n) == IF n < base THEN <<digits[n + 1]>>
                        ELSE Append(f[n \div base], digits[(n % base) + 1])
             g == [n \in 0 .. k + 1 |-> Next1(n)]
  <2>2. \A n \in 0 .. k : f[n] = Next1(n)
    BY <2>1 DEF Numerals
  <2>3. ASSUME NEW n \in 0 .. k + 1, ~(n < base) PROVE g[n \div base] = f[n \div base]
    <3>1. n \in Nat /\ n > 0
      BY <2>3
    <3>2. n \div base \in 0 .. k
      BY <3>1, Division
    <3> HIDE DEF Next1
    <3>3. \A m \in 0 .. k : g[m] = Next1(m)
      OBVIOUS
    <3> QED
      BY <2>2, <3>2, <3>3
  <2>4. Numerals(g, k + 1, base, digits)
    <3>1. \A n \in 0 .. k + 1 : Next1(n) = IF n < base THEN <<digits[n + 1]>>
                                           ELSE Append(g[n \div base], digits[(n % base) + 1])
      <4> HIDE DEF g
      <4> QED
        BY <2>3
    <3> QED
      BY <3>1 DEF Numerals
  <2> QED
    BY <2>4
<1>3. \A k \in 0 .. num : k \in T
  <2> HIDE DEF T
  <2> QED
    BY <1>1, <1>2, UpTo
<1>4. num \in T
  BY <1>3
<1> QED
  BY <1>4

\* out is the last of these numerals, with zeroes in front up to prec digits.
Makes(num, base, digits, prec, out) ==
    \E f : Numerals(f, num, base, digits) /\ out = Repeat("0", prec - Len(f[num])) \o f[num]

LEMMA ItoaMakes ==
  ASSUME NEW num \in Nat, NEW base \in {8, 10, 16}, NEW digits, NEW prec
  PROVE  Makes(num, base, digits, prec, itoa(num, base, digits, prec))
<1> DEFINE f == CHOOSE f : Numerals(f, num, base, digits)
<1>1. Numerals(f, num, base, digits)
  BY NumeralsExist
<1>2. itoa(num, base, digits, prec) = Repeat("0", prec - Len(f[num])) \o f[num]
  BY DEF itoa, Numerals
<1> HIDE DEF f
<1> QED
  BY <1>1, <1>2 DEF Makes

\* v is the recursive function by which Value reads the first N of s.
Values(v, d, s, N) ==
    v = [n \in 0 .. N |-> IF n = 0 THEN 0 ELSE v[n - 1] * Base(d) + Digit(d, s[n])]

LEMMA ValuesFacts ==
  ASSUME NEW v, NEW d, NEW s, NEW N \in Nat, Values(v, d, s, N)
  PROVE  /\ v[0] = 0
         /\ \A n \in 0 .. N - 1 : v[n + 1] = v[n] * Base(d) + Digit(d, s[n + 1])
<1>1. v[0] = 0
  BY DEF Values
<1>2. ASSUME NEW n \in 0 .. N - 1
      PROVE  v[n + 1] = v[n] * Base(d) + Digit(d, s[n + 1])
  <2>1. n + 1 \in 0 .. N /\ n + 1 # 0 /\ (n + 1) - 1 = n
    OBVIOUS
  <2> QED
    BY <2>1 DEF Values
<1> QED
  BY <1>1, <1>2

LEMMA ValuesExist ==
  ASSUME NEW d, NEW s, NEW N \in Nat
  PROVE  \E v : Values(v, d, s, N)
<1> DEFINE T == {k \in 0 .. N : \E v : Values(v, d, s, k)}
<1>1. 0 \in T
  <2> DEFINE v == [n \in 0 .. 0 |-> 0]
  <2>1. Values(v, d, s, 0)
    BY DEF Values
  <2> QED
    BY <2>1
<1>2. ASSUME NEW k \in 0 .. N - 1, k \in T PROVE k + 1 \in T
  <2>1. PICK v : Values(v, d, s, k)
    BY <1>2
  <2> DEFINE Step(n) == IF n = 0 THEN 0 ELSE v[n - 1] * Base(d) + Digit(d, s[n])
             w == [n \in 0 .. k + 1 |-> Step(n)]
  <2>2. \A n \in 0 .. k : v[n] = Step(n)
    BY <2>1 DEF Values
  <2>3. ASSUME NEW n \in 0 .. k + 1, n # 0 PROVE w[n - 1] = v[n - 1]
    <3>1. n - 1 \in 0 .. k
      BY <2>3
    <3> HIDE DEF Step
    <3>2. \A m \in 0 .. k : w[m] = Step(m)
      OBVIOUS
    <3> QED
      BY <2>2, <3>1, <3>2
  <2>4. Values(w, d, s, k + 1)
    <3>1. \A n \in 0 .. k + 1 : Step(n) = IF n = 0 THEN 0 ELSE w[n - 1] * Base(d) + Digit(d, s[n])
      <4> HIDE DEF w
      <4> QED
        BY <2>3
    <3> QED
      BY <3>1 DEF Values
  <2> QED
    BY <2>4
<1>3. \A k \in 0 .. N : k \in T
  <2> HIDE DEF T
  <2> QED
    BY <1>1, <1>2, UpTo
<1>4. N \in T
  BY <1>3
<1> QED
  BY <1>4

LEMMA ValueReads ==
  ASSUME NEW d, NEW s, Len(s) \in Nat
  PROVE  \E v : Values(v, d, s, Len(s)) /\ Value(d, s) = v[Len(s)]
<1> DEFINE v == CHOOSE v : Values(v, d, s, Len(s))
<1>1. Values(v, d, s, Len(s))
  BY ValuesExist
<1>2. Value(d, s) = v[Len(s)]
  BY DEF Value, Values
<1> QED
  BY <1>1, <1>2

\* A digit more behind.
LEMMA ValueAppend ==
  ASSUME NEW d, NEW S, NEW s \in Seq(S), NEW c \in S
  PROVE  Value(d, Append(s, c)) = Value(d, s) * Base(d) + Digit(d, c)
<1> DEFINE r == Append(s, c)
<1>1. PICK N \in Nat : N = Len(s)
  BY LenProperties
<1>2. Len(r) = N + 1 /\ r[N + 1] = c /\ \A n \in 1 .. N : r[n] = s[n]
  BY <1>1, AppendProperties
<1> HIDE DEF r
<1>3. PICK v : Values(v, d, s, N) /\ Value(d, s) = v[N]
  BY <1>1, ValueReads
<1>4. PICK w : Values(w, d, r, N + 1) /\ Value(d, r) = w[N + 1]
  BY <1>2, ValueReads
<1>5. v[N] = w[N]
  <2> DEFINE U == {n \in 0 .. N : v[n] = w[n]}
  <2>1. 0 \in U
    BY <1>3, <1>4, ValuesFacts
  <2>2. ASSUME NEW n \in 0 .. N - 1, n \in U PROVE n + 1 \in U
    <3>1. n \in 0 .. (N + 1) - 1 /\ n + 1 \in 1 .. N
      OBVIOUS
    <3>2. v[n + 1] = v[n] * Base(d) + Digit(d, s[n + 1])
      BY <1>3, ValuesFacts
    <3>3. w[n + 1] = w[n] * Base(d) + Digit(d, r[n + 1])
      BY <1>4, <3>1, ValuesFacts
    <3>4. v[n] = w[n] /\ s[n + 1] = r[n + 1]
      BY <1>2, <2>2, <3>1
    <3>5. v[n + 1] = w[n + 1]
      BY <3>2, <3>3, <3>4
    <3> QED
      BY <3>1, <3>5
  <2>3. \A n \in 0 .. N : n \in U
    <3> HIDE DEF U
    <3> QED
      BY <2>1, <2>2, UpTo
  <2> QED
    BY <2>3
<1>6. w[N + 1] = w[N] * Base(d) + Digit(d, r[N + 1])
  <2>1. N \in 0 .. (N + 1) - 1
    OBVIOUS
  <2> QED
    BY <1>4, <2>1, ValuesFacts
<1> QED
  BY <1>2, <1>3, <1>4, <1>5, <1>6 DEF r

LEMMA ValueOne ==
  ASSUME NEW d, NEW S, NEW c \in S, Digit(d, c) \in Nat
  PROVE  Value(d, <<c>>) = Digit(d, c)
<1>1. <<>> \in Seq(S) /\ Append(<<>>, c) = <<c>>
  OBVIOUS
<1>2. Value(d, <<>>) = 0
  <2>1. Len(<<>>) = 0
    OBVIOUS
  <2>2. PICK v : Values(v, d, <<>>, 0) /\ Value(d, <<>>) = v[0]
    BY <2>1, ValueReads
  <2> QED
    BY <2>2, ValuesFacts
<1>3. Value(d, Append(<<>>, c)) = Value(d, <<>>) * Base(d) + Digit(d, c)
  BY <1>1, ValueAppend
<1>4. Base(d) \in Nat
  BY BaseFacts
<1> QED
  BY <1>1, <1>2, <1>3, <1>4

DigitsOf(d) == ToSet(SubSeq(Alphabet(d), 1, Base(d)))

LEMMA DigitsOfFacts ==
  ASSUME NEW d
  PROVE  /\ \A m \in 0 .. Base(d) - 1 : Alphabet(d)[m + 1] \in DigitsOf(d)
         /\ \A c \in DigitsOf(d) : Digit(d, c) \in 0 .. Base(d) - 1
         /\ "0" \in DigitsOf(d) /\ Digit(d, "0") = 0
         /\ DigitsOf(d) \subseteq Glyphs
<1> DEFINE A == Alphabet(d)
           B == Base(d)
           P == SubSeq(A, 1, B)
<1>1. B \in {8, 10, 16} /\ A \in {Lower, Upper}
  BY BaseFacts
<1>2. A \in Seq(Glyphs) /\ Len(A) = 16 /\ A[1] = "0"
  <2> HIDE DEF A
  <2> QED
    BY <1>1, AlphabetFacts
<1>3. DigitsOf(d) = {P[i] : i \in DOMAIN P}
  BY DEF DigitsOf, ToSet
<1>4. \A n \in 0 .. 15 : Digit(d, A[n + 1]) = n
  BY DigitFacts
<1> HIDE DEF A, B
<1>5. DOMAIN P = 1 .. B /\ \A i \in 1 .. B : P[i] = A[i]
  <2>1. \A i \in 1 .. B : i \in 1 .. 16
    BY <1>1
  <2>2. \A i \in 1 .. B : A[i] \in Glyphs
    BY <1>2, <2>1, ElementOfSeq
  <2>3. 1 \in Int /\ B \in Int /\ 1 <= B /\ (B - 1) + 1 = B
    BY <1>1
  <2>4. P \in Seq(Glyphs) /\ Len(P) = B /\ \A i \in 1 .. B : P[i] = A[i]
    BY <1>1, <2>2, <2>3, SubSeqProperties
  <2> QED
    BY <2>4, LenProperties
<1> HIDE DEF P
<1>6. \A m \in 0 .. B - 1 : m + 1 \in 1 .. B /\ m \in 0 .. 15
  BY <1>1
<1>7. \A c \in DigitsOf(d) : \E m \in 0 .. B - 1 : c = A[m + 1]
  <2>1. ASSUME NEW i \in 1 .. B PROVE i - 1 \in 0 .. B - 1 /\ (i - 1) + 1 = i
    BY <1>1
  <2> QED
    BY <1>3, <1>5, <2>1
<1>8. \A m \in 0 .. B - 1 : A[m + 1] \in DigitsOf(d)
  BY <1>3, <1>5, <1>6
<1>9. \A c \in DigitsOf(d) : Digit(d, c) \in 0 .. B - 1
  BY <1>4, <1>6, <1>7
<1>10. "0" \in DigitsOf(d) /\ Digit(d, "0") = 0
  <2>1. 0 \in 0 .. B - 1 /\ 0 \in 0 .. 15 /\ 0 + 1 = 1
    BY <1>1
  <2> QED
    BY <1>2, <1>4, <1>8, <2>1
<1>11. \A m \in 0 .. B - 1 : A[m + 1] \in Glyphs
  <2>1. \A m \in 0 .. B - 1 : m + 1 \in 1 .. 16
    BY <1>1
  <2> QED
    BY <1>2, <2>1, ElementOfSeq
<1>12. DigitsOf(d) \subseteq Glyphs
  BY <1>7, <1>11
<1> QED
  BY <1>8, <1>9, <1>10, <1>12 DEF A, B

\* Zeroes in front count nothing.
LEMMA ValueZeroes ==
  ASSUME NEW d, NEW s \in Seq(DigitsOf(d)), NEW k \in Int
  PROVE  Value(d, Repeat("0", k) \o s) = Value(d, s)
<1> DEFINE z == Repeat("0", k)
           r == z \o s
           K == Larger(k, 0)
<1>1. PICK N \in Nat : N = Len(s)
  BY LenProperties
<1>2. z \in Seq(DigitsOf(d)) /\ Len(z) = K /\ K \in Nat /\ \A n \in 1 .. K : z[n] = "0"
  <2>1. "0" \in DigitsOf(d)
    BY DigitsOfFacts
  <2>2. z \in Seq(DigitsOf(d)) /\ Len(z) = K /\ \A n \in 1 .. k : z[n] = "0"
    BY <2>1, RepeatFacts
  <2>3. K \in Nat /\ \A n \in 1 .. K : n \in 1 .. k
    BY DEF Larger
  <2> QED
    BY <2>2, <2>3
<1> HIDE DEF z, K
<1>3. /\ Len(r) = K + N
      /\ \A n \in 1 .. K : r[n] = "0"
      /\ \A n \in 1 .. N : r[K + n] = s[n]
  <2>1. Len(r) = K + N
    BY <1>1, <1>2, ConcatProperties
  <2>2. \A i \in 1 .. K + N : r[i] = IF i <= K THEN z[i] ELSE s[i - K]
    BY <1>1, <1>2, ConcatProperties
  <2>3. ASSUME NEW n \in 1 .. K PROVE r[n] = "0"
    <3>1. n \in 1 .. K + N /\ n <= K
      BY <1>2
    <3> QED
      BY <1>2, <2>2, <3>1
  <2>4. ASSUME NEW n \in 1 .. N PROVE r[K + n] = s[n]
    <3>1. K + n \in 1 .. K + N /\ ~(K + n <= K) /\ (K + n) - K = n
      BY <1>2
    <3> QED
      BY <2>2, <3>1
  <2> QED
    BY <2>1, <2>3, <2>4
<1> HIDE DEF r
<1>4. PICK v : Values(v, d, s, N) /\ Value(d, s) = v[N]
  BY <1>1, ValueReads
<1>5. PICK w : Values(w, d, r, K + N) /\ Value(d, r) = w[K + N]
  <2>1. K + N \in Nat
    BY <1>2
  <2> QED
    BY <1>3, <2>1, ValueReads
<1>6. Base(d) \in Nat /\ Digit(d, "0") = 0
  <2>1. Base(d) \in {8, 10, 16}
    BY BaseFacts
  <2>2. Digit(d, "0") = 0
    BY DigitsOfFacts
  <2> QED
    BY <2>1, <2>2
<1>7. w[K] = 0
  <2> DEFINE U == {n \in 0 .. K : w[n] = 0}
  <2>1. 0 \in U
    <3>1. w[0] = 0
      BY <1>2, <1>5, ValuesFacts
    <3> QED
      BY <1>2, <3>1
  <2>2. ASSUME NEW n \in 0 .. K - 1, n \in U PROVE n + 1 \in U
    <3>1. n \in 0 .. (K + N) - 1 /\ n + 1 \in 1 .. K /\ n + 1 \in 0 .. K
      BY <1>2
    <3>2. w[n + 1] = w[n] * Base(d) + Digit(d, r[n + 1])
      BY <1>2, <1>5, <3>1, ValuesFacts
    <3>3. w[n + 1] = 0
      BY <1>3, <1>6, <2>2, <3>1, <3>2
    <3> QED
      BY <3>1, <3>3
  <2>3. \A n \in 0 .. K : n \in U
    <3> HIDE DEF U
    <3> QED
      BY <1>2, <2>1, <2>2, UpTo
  <2> QED
    BY <1>2, <2>3
<1>8. w[K + N] = v[N]
  <2> DEFINE U == {n \in 0 .. N : w[K + n] = v[n]}
  <2>1. 0 \in U
    <3>1. v[0] = 0 /\ K + 0 = K
      BY <1>2, <1>4, ValuesFacts
    <3> QED
      BY <1>7, <3>1
  <2>2. ASSUME NEW n \in 0 .. N - 1, n \in U PROVE n + 1 \in U
    <3>1. K + n \in 0 .. (K + N) - 1 /\ n + 1 \in 1 .. N /\ n + 1 \in 0 .. N /\ (K + n) + 1 = K + (n + 1)
      BY <1>2
    <3>2. v[n + 1] = v[n] * Base(d) + Digit(d, s[n + 1])
      BY <1>4, ValuesFacts
    <3>3. \A m \in 0 .. (K + N) - 1 : w[m + 1] = w[m] * Base(d) + Digit(d, r[m + 1])
      BY <1>2, <1>5, ValuesFacts
    <3>4. w[K + (n + 1)] = w[K + n] * Base(d) + Digit(d, r[K + (n + 1)])
      BY <3>1, <3>3
    <3>5. w[K + n] = v[n] /\ r[K + (n + 1)] = s[n + 1]
      BY <1>3, <2>2, <3>1
    <3>6. w[K + (n + 1)] = v[n + 1]
      BY <3>2, <3>4, <3>5
    <3> QED
      BY <3>1, <3>6
  <2>3. \A n \in 0 .. N : n \in U
    <3> HIDE DEF U
    <3> QED
      BY <2>1, <2>2, UpTo
  <2> QED
    BY <2>3
<1> QED
  BY <1>4, <1>5, <1>8 DEF r, z

\* A numeral of n: its digits, no 0 in front, its value.
IsPlain(d, ds, n) ==
    /\ ds \in Seq(DigitsOf(d)) /\ ds # <<>>
    /\ Len(ds) > 1 \/ n > 0 => ds[1] # "0"
    /\ Value(d, ds) = n

LEMMA PlainDigit ==
  ASSUME NEW d, NEW n \in 0 .. Base(d) - 1
  PROVE  IsPlain(d, <<Alphabet(d)[n + 1]>>, n)
<1> DEFINE c == Alphabet(d)[n + 1]
<1>1. n \in 0 .. 15 /\ n \in Nat
  BY BaseFacts
<1>2. c \in DigitsOf(d) /\ Digit(d, c) = n
  BY <1>1, DigitsOfFacts, DigitFacts
<1>3. n > 0 => c # "0"
  BY <1>2, DigitsOfFacts
<1> HIDE DEF c
<1>4. Value(d, <<c>>) = n
  BY <1>1, <1>2, ValueOne
<1>5. <<c>> \in Seq(DigitsOf(d)) /\ <<c>> # <<>> /\ Len(<<c>>) = 1 /\ <<c>>[1] = c
  BY <1>2
<1>6. IsPlain(d, <<c>>, n)
  BY <1>3, <1>4, <1>5 DEF IsPlain
<1> QED
  BY <1>6 DEF c

LEMMA PlainAppend ==
  ASSUME NEW d, NEW ds, NEW q \in Nat, q > 0, IsPlain(d, ds, q), NEW m \in 0 .. Base(d) - 1
  PROVE  IsPlain(d, Append(ds, Alphabet(d)[m + 1]), q * Base(d) + m)
<1> DEFINE c == Alphabet(d)[m + 1]
           es == Append(ds, c)
<1>1. m \in 0 .. 15 /\ m \in Nat
  BY BaseFacts
<1>2. c \in DigitsOf(d) /\ Digit(d, c) = m
  BY <1>1, DigitsOfFacts, DigitFacts
<1> HIDE DEF c
<1>3. ds \in Seq(DigitsOf(d)) /\ ds # <<>> /\ ds[1] # "0" /\ Value(d, ds) = q
  BY DEF IsPlain
<1>4. Value(d, es) = q * Base(d) + m
  BY <1>2, <1>3, ValueAppend
<1>5. es \in Seq(DigitsOf(d)) /\ es # <<>>
  BY <1>2, <1>3, AppendProperties
<1>6. es[1] = ds[1]
  <2>1. Len(ds) \in Nat /\ Len(ds) # 0
    BY <1>3, EmptySeq
  <2>2. 1 \in 1 .. Len(ds)
    BY <2>1
  <2> QED
    BY <1>2, <1>3, <2>2, AppendProperties
<1> HIDE DEF es
<1>7. IsPlain(d, es, q * Base(d) + m)
  BY <1>3, <1>4, <1>5, <1>6 DEF IsPlain
<1> QED
  BY <1>7 DEF c, es

LEMMA NumeralIsPlain ==
  ASSUME NEW d, NEW num \in Nat, NEW f, Numerals(f, num, Base(d), Alphabet(d))
  PROVE  IsPlain(d, f[num], num)
<1> DEFINE C == {n \in 0 .. num : ~IsPlain(d, f[n], n)}
<1> SUFFICES ASSUME C # {} PROVE FALSE
  OBVIOUS
<1>1. PICK n \in C : \A m \in C : n <= m
  <2>1. C \subseteq Nat
    OBVIOUS
  <2> HIDE DEF C
  <2> QED
    BY <2>1, LeastNat
<1>2. n \in 0 .. num /\ n \in Nat /\ ~IsPlain(d, f[n], n)
  OBVIOUS
<1>3. Base(d) \in {8, 10, 16}
  BY BaseFacts
<1>4. f[n] = IF n < Base(d) THEN <<Alphabet(d)[n + 1]>>
             ELSE Append(f[n \div Base(d)], Alphabet(d)[(n % Base(d)) + 1])
  BY <1>2, <1>3, NumeralsFacts
<1>5. n >= Base(d)
  <2> SUFFICES ASSUME n < Base(d) PROVE FALSE
    BY <1>2, <1>3
  <2>1. n \in 0 .. Base(d) - 1
    BY <1>2, <1>3
  <2>2. IsPlain(d, <<Alphabet(d)[n + 1]>>, n)
    BY <2>1, PlainDigit
  <2> QED
    BY <1>2, <1>4, <2>2
<1> DEFINE q == n \div Base(d)
           m == n % Base(d)
<1>6. q \in Nat /\ m \in 0 .. Base(d) - 1 /\ n = q * Base(d) + m /\ q > 0 /\ q < n
  <2>1. n > 0
    BY <1>2, <1>3, <1>5
  <2> QED
    BY <1>2, <1>3, <1>5, <2>1, Division
<1>7. f[n] = Append(f[q], Alphabet(d)[m + 1])
  <2>1. ~(n < Base(d))
    BY <1>2, <1>3, <1>5
  <2> QED
    BY <1>4, <2>1
<1> HIDE DEF q, m
<1>8. IsPlain(d, f[q], q)
  <2>1. q \in 0 .. num /\ ~(n <= q)
    BY <1>2, <1>6
  <2>2. q \notin C
    BY <1>1, <2>1
  <2> QED
    BY <2>1, <2>2
<1>9. IsPlain(d, Append(f[q], Alphabet(d)[m + 1]), q * Base(d) + m)
  BY <1>6, <1>8, PlainAppend
<1> QED
  BY <1>2, <1>6, <1>7, <1>9

\* itoa writes the numeral C asks for.
LEMMA ItoaNumeral ==
  ASSUME NEW d, NEW num \in Nat, d.prec \in Nat
  PROVE  /\ itoa(num, Base(d), Alphabet(d), d.prec) \in Seq(Glyphs)
         /\ IsNumeral(d, itoa(num, Base(d), Alphabet(d), d.prec), num)
<1> DEFINE ds == itoa(num, Base(d), Alphabet(d), d.prec)
<1>1. Base(d) \in {8, 10, 16}
  BY BaseFacts
<1>2. PICK f : /\ Numerals(f, num, Base(d), Alphabet(d))
               /\ ds = Repeat("0", d.prec - Len(f[num])) \o f[num]
  <2>1. Makes(num, Base(d), Alphabet(d), d.prec, ds)
    BY <1>1, ItoaMakes
  <2> QED
    BY <2>1 DEF Makes
<1> DEFINE s == f[num]
           k == d.prec - Len(s)
           z == Repeat("0", k)
<1>3. IsPlain(d, s, num) /\ ds = z \o s
  BY <1>2, NumeralIsPlain
<1> HIDE DEF ds, s
<1>4. PICK N \in Nat : Len(s) = N /\ N > 0 /\ s \in Seq(DigitsOf(d))
  <2>1. s \in Seq(DigitsOf(d)) /\ s # <<>>
    BY <1>3 DEF IsPlain
  <2>2. Len(s) \in Nat /\ Len(s) # 0
    BY <2>1, EmptySeq
  <2> QED
    BY <2>1, <2>2
<1>5. k \in Int /\ k = d.prec - N
  BY <1>4
<1>6. z \in Seq(DigitsOf(d)) /\ Len(z) = Larger(k, 0)
  <2> HIDE DEF k
  <2> QED
    BY <1>5, DigitsOfFacts, RepeatFacts
<1>7. Value(d, ds) = num
  <2>1. Value(d, s) = num
    BY <1>3 DEF IsPlain
  <2> HIDE DEF k
  <2> QED
    BY <1>3, <1>4, <1>5, <2>1, ValueZeroes
<1> HIDE DEF z, k
<1>8. ds \in Seq(DigitsOf(d)) /\ Len(ds) = Larger(k, 0) + N
  BY <1>3, <1>4, <1>6, ConcatProperties
<1>9. ds \in Seq(Glyphs)
  BY <1>8, DigitsOfFacts, SeqMonotonic
<1>10. Len(ds) >= d.prec /\ Len(ds) > 0
  BY <1>4, <1>5, <1>8 DEF Larger
<1>11. ds # <<>>
  BY <1>10
<1>12. ToSet(ds) \subseteq DigitsOf(d)
  <2>1. DOMAIN ds = 1 .. Len(ds) /\ Len(ds) \in Nat
    BY <1>8, LenProperties
  <2>2. \A i \in 1 .. Len(ds) : ds[i] \in DigitsOf(d)
    BY <1>8, ElementOfSeq
  <2> QED
    BY <2>1, <2>2 DEF ToSet
<1>13. Len(ds) > Larger(d.prec, 1) => ds[1] # "0"
  <2> SUFFICES ASSUME Len(ds) > Larger(d.prec, 1) PROVE ds[1] # "0"
    OBVIOUS
  <2>1. Larger(k, 0) = 0 /\ N > 1
    BY <1>4, <1>5, <1>8 DEF Larger
  <2>2. z = <<>>
    BY <1>6, <2>1, EmptySeq
  <2>3. ds = s
    BY <1>3, <1>4, <2>2, ConcatEmptySeq
  <2> QED
    BY <1>3, <1>4, <2>1, <2>3 DEF IsPlain
<1>14. IsNumeral(d, ds, num)
  BY <1>7, <1>10, <1>11, <1>12, <1>13 DEF IsNumeral, DigitsOf
<1> QED
  BY <1>9, <1>14 DEF ds

-----------------------------------------------------------------------------
(* The number: va_arg, half, and the narrowing to an unsigned int.          *)

LEMMA ModUnique ==
  ASSUME NEW w \in Nat \ {0}, NEW q \in Int, NEW r \in 0 .. w - 1
  PROVE  (q * w + r) % w = r
<1> DEFINE x == q * w + r
           p == x \div w
           t == x % w
<1>1. x \in Int /\ p \in Int /\ t \in 0 .. w - 1 /\ x = p * w + t
  OBVIOUS
<1> HIDE DEF p, t
<1>2. (q - p) * w = t - r
  BY <1>1
<1>3. CASE q - p >= 1
  <2>1. (q - p) * w >= w
    BY <1>1, <1>3
  <2> QED
    BY <1>1, <1>2, <2>1
<1>4. CASE q - p <= -1
  <2>1. (q - p) * w <= -w
    BY <1>1, <1>4
  <2> QED
    BY <1>1, <1>2, <2>1
<1>5. CASE q = p
  BY <1>1, <1>5 DEF t
<1> QED
  BY <1>1, <1>3, <1>4, <1>5

\* The same but for multiples of W.
Apart(x, y, W) == x \in Int /\ y \in Int /\ \E q \in Int : x = y + q * W

\* What is the same but for multiples of W is the same modulo a divisor of W.
LEMMA SameMod ==
  ASSUME NEW w \in Nat \ {0}, NEW W \in Nat \ {0}, W % w = 0, NEW x, NEW y, Apart(x, y, W)
  PROVE  x % w = y % w
<1>1. PICK q \in Int : x = y + q * W /\ x \in Int /\ y \in Int
  BY DEF Apart
<1>2. PICK k \in Int : W = k * w
  <2>1. W = (W \div w) * w + (W % w) /\ W \div w \in Int
    OBVIOUS
  <2>2. W = (W \div w) * w
    BY <2>1
  <2> QED
    BY <2>1, <2>2, Zenon
<1>3. PICK a \in Int, r \in 0 .. w - 1 : y = a * w + r
  <2>1. y = (y \div w) * w + (y % w) /\ y \div w \in Int /\ y % w \in 0 .. w - 1
    BY <1>1
  <2> QED
    BY <2>1
<1>4. x = (a + q * k) * w + r /\ a + q * k \in Int
  BY <1>2, <1>3, <1>1
<1>5. x % w = r
  BY <1>4, ModUnique
<1>6. y % w = r
  BY <1>3, ModUnique
<1> QED
  BY <1>5, <1>6

LEMMA SignedFacts ==
  ASSUME NEW w \in Nat \ {0}, NEW x \in 0 .. w - 1
  PROVE  /\ Signed(x, w) \in Int
         /\ \E q \in {0, -1} : Signed(x, w) = x + q * w
<1>1. w \div 2 \in Int
  OBVIOUS
<1> DEFINE h == w \div 2
<1> HIDE DEF h
<1>2. CASE x >= h
  <2>1. Signed(x, w) = x + (-1) * w
    BY <1>2 DEF Signed, h
  <2> QED
    BY <2>1
<1>3. CASE ~(x >= h)
  <2>1. Signed(x, w) = x + 0 * w
    BY <1>3 DEF Signed, h
  <2> QED
    BY <2>1
<1> QED
  BY <1>2, <1>3

\* num as va_arg gets it.
Fetched(d, bits) == IF d.long = 0 THEN Signed(bits % UInt, UInt) ELSE Signed(bits, ULong)

LEMMA WidthFacts ==
  /\ UShort \in Nat \ {0} /\ UInt \in Nat \ {0} /\ ULong \in Nat \ {0}
  /\ UInt % UShort = 0
  /\ \E k \in Int : ULong = k * UInt
<1>1. UInt \in Nat \ {0} /\ ULong \in Nat \ {0} /\ ULong % UInt = 0
  BY SnprintfAssumption
<1>2. ULong = (ULong \div UInt) * UInt + (ULong % UInt) /\ ULong \div UInt \in Int
  BY <1>1
<1>3. ULong = (ULong \div UInt) * UInt
  BY <1>1, <1>2
<1> QED
  BY <1>2, <1>3, SnprintfAssumption

LEMMA FetchedFacts ==
  ASSUME NEW d, NEW bits \in 0 .. ULong - 1
  PROVE  /\ Fetched(d, bits) \in Int
         /\ Apart(Fetched(d, bits), bits, UInt)
<1>1. UInt \in Nat \ {0} /\ ULong \in Nat \ {0} /\ bits \in Int
  BY WidthFacts
<1>2. CASE d.long = 0
  <2>1. bits % UInt \in 0 .. UInt - 1 /\ bits \div UInt \in Int
        /\ bits = (bits \div UInt) * UInt + (bits % UInt)
    BY <1>1
  <2> DEFINE r == bits % UInt
             p == bits \div UInt
  <2>2. /\ Fetched(d, bits) = Signed(r, UInt)
        /\ r \in 0 .. UInt - 1 /\ p \in Int /\ bits = p * UInt + r
    BY <1>2, <2>1 DEF Fetched
  <2> HIDE DEF r, p
  <2>3. PICK q \in {0, -1} : Signed(r, UInt) = r + q * UInt
    BY <1>1, <2>2, SignedFacts
  <2>4. Signed(r, UInt) \in Int
    BY <1>1, <2>2, SignedFacts
  <2>5. Fetched(d, bits) = bits + (q - p) * UInt
    BY <1>1, <2>2, <2>3
  <2>6. q - p \in Int
    BY <2>2
  <2> QED
    BY <1>1, <2>2, <2>4, <2>5, <2>6 DEF Apart
<1>3. CASE d.long # 0
  <2>1. Fetched(d, bits) = Signed(bits, ULong)
    BY <1>3 DEF Fetched
  <2>2. PICK q \in {0, -1} : Signed(bits, ULong) = bits + q * ULong
    BY <1>1, SignedFacts
  <2>3. Signed(bits, ULong) \in Int
    BY <1>1, SignedFacts
  <2>4. PICK k \in Int : ULong = k * UInt
    BY WidthFacts
  <2>5. q * ULong = (q * k) * UInt /\ q * k \in Int
    BY <1>1, <2>4
  <2>6. Fetched(d, bits) = bits + (q * k) * UInt
    BY <2>1, <2>2, <2>5
  <2> QED
    BY <1>1, <2>1, <2>3, <2>5, <2>6 DEF Apart
<1> QED
  BY <1>2, <1>3

LEMMA FetchedMod ==
  ASSUME NEW d, NEW bits \in 0 .. ULong - 1
  PROVE  /\ Fetched(d, bits) % UInt = bits % UInt
         /\ Fetched(d, bits) % UShort = bits % UShort
<1>1. /\ UShort \in Nat \ {0} /\ UInt \in Nat \ {0} /\ ULong \in Nat \ {0} /\ bits \in Int
      /\ UInt % UShort = 0 /\ UInt % UInt = 0
  <2>1. UInt \in Nat \ {0} /\ UInt = 1 * UInt + 0
    BY WidthFacts
  <2>2. UInt % UInt = 0
    BY <2>1
  <2> QED
    BY <2>2, WidthFacts
<1>2. Apart(Fetched(d, bits), bits, UInt)
  BY FetchedFacts
<1>3. Fetched(d, bits) % UInt = bits % UInt
  BY <1>1, <1>2, SameMod
<1>4. Fetched(d, bits) % UShort = bits % UShort
  BY <1>1, <1>2, SameMod
<1> QED
  BY <1>3, <1>4

LEMMA SmallMod ==
  ASSUME NEW w \in Nat \ {0}, NEW x \in 0 .. w - 1
  PROVE  x % w = x
<1>1. (0 * w + x) % w = x
  BY ModUnique
<1> QED
  BY <1>1

\* What itoa gets is the magnitude of the argument, and the sign of num is the
\* argument's.
LEMMA NumberFacts ==
  ASSUME NEW d \in Directives, Numeric(d), NEW bits \in 0 .. ULong - 1,
         Magnitude(Argument(d, bits)) < UInt
  PROVE  LET num == Number(d, bits)
             abs == IF d.conv = "d" /\ num < 0 THEN -num ELSE num
         IN  /\ Argument(d, bits) \in Int
             /\ d.conv = "d" => num = Argument(d, bits)
             /\ Narrow(abs) = Magnitude(Argument(d, bits))
             /\ Narrow(abs) \in Nat
<1> DEFINE num == Number(d, bits)
           abs == IF d.conv = "d" /\ num < 0 THEN -num ELSE num
           arg == Argument(d, bits)
           raw == Fetched(d, bits)
<1>1. /\ UShort \in Nat \ {0} /\ UInt \in Nat \ {0} /\ ULong \in Nat \ {0} /\ bits \in Int
      /\ d.half \in BOOLEAN
  BY WidthFacts DEF Directives
<1>2. raw \in Int /\ (raw % UInt) = (bits % UInt) /\ (raw % UShort) = (bits % UShort)
  <2>1. raw \in Int
    BY FetchedFacts
  <2> QED
    BY <2>1, FetchedMod
<1>3. /\ bits % UInt \in 0 .. UInt - 1
      /\ bits % UShort \in 0 .. UShort - 1
      /\ (bits % ULong) = bits
  <2>1. (bits % ULong) = bits
    BY <1>1, SmallMod
  <2> QED
    BY <1>1, <2>1
<1>4. /\ d.half /\ d.conv = "d"  => num = Signed(raw % UShort, UShort)
      /\ d.half /\ d.conv # "d" => num = raw % UShort
      /\ ~d.half => num = raw
  <2>1. num = IF ~d.half THEN raw
               ELSE IF d.conv = "d" THEN Signed(raw % UShort, UShort) ELSE raw % UShort
    BY DEF Number, Fetched
  <2> HIDE DEF num, raw
  <2>2. CASE d.half /\ d.conv = "d"
    BY <2>1, <2>2
  <2>3. CASE d.half /\ d.conv # "d"
    BY <2>1, <2>3
  <2>4. CASE ~d.half
    BY <2>1, <2>4
  <2> QED
    BY <2>2, <2>3, <2>4
<1>5. /\ d.half /\ d.conv = "d"  => arg = Signed(bits % UShort, UShort)
      /\ d.half /\ d.conv # "d" => arg = bits % UShort
      /\ ~d.half /\ d.long = 0 /\ d.conv = "d" => arg = Signed(bits % UInt, UInt)
      /\ ~d.half /\ d.long # 0 /\ d.conv = "d" => arg = Signed(bits % ULong, ULong)
      /\ ~d.half /\ d.long = 0 /\ d.conv # "d" => arg = bits % UInt
      /\ ~d.half /\ d.long # 0 /\ d.conv # "d" => arg = bits % ULong
  <2> DEFINE w == IF d.half THEN UShort ELSE IF d.long = 0 THEN UInt ELSE ULong
  <2>1. arg = IF d.conv = "d" THEN Signed(bits % w, w) ELSE bits % w
    BY DEF Argument
  <2>2. /\ d.half => w = UShort
        /\ ~d.half /\ d.long = 0 => w = UInt
        /\ ~d.half /\ d.long # 0 => w = ULong
    OBVIOUS
  <2> HIDE DEF w, arg
  <2> QED
    BY <2>1, <2>2
<1>6. d.conv = "d" => num = arg
  BY <1>1, <1>2, <1>3, <1>4, <1>5 DEF Fetched
<1>7. d.conv = "d" => arg \in Int
  <2>1. d.half => Signed(bits % UShort, UShort) \in Int
    BY <1>1, <1>3, SignedFacts
  <2>2. Signed(bits % UInt, UInt) \in Int
    BY <1>1, <1>3, SignedFacts
  <2>3. Signed(bits % ULong, ULong) \in Int
    BY <1>1, <1>3, SignedFacts
  <2> QED
    BY <1>1, <1>5, <2>1, <2>2, <2>3
<1>8. d.conv # "d" => arg \in Nat /\ (num % UInt) = (arg % UInt)
  <2>1. CASE d.half /\ d.conv # "d"
    BY <1>2, <1>3, <1>4, <1>5, <2>1
  <2>2. CASE ~d.half /\ d.long = 0 /\ d.conv # "d"
    <3>1. arg = bits % UInt /\ num = raw
      BY <1>4, <1>5, <2>2
    <3>2. (arg % UInt) = arg
      BY <1>1, <1>3, <3>1, SmallMod
    <3> QED
      BY <1>2, <1>3, <3>1, <3>2
  <2>3. CASE ~d.half /\ d.long # 0 /\ d.conv # "d"
    BY <1>2, <1>3, <1>4, <1>5, <2>3
  <2> QED
    BY <1>1, <2>1, <2>2, <2>3
<1> HIDE DEF num, arg
<1>9. arg \in Int /\ Magnitude(arg) \in 0 .. UInt - 1
  <2>1. Magnitude(arg) < UInt
    BY DEF arg
  <2> QED
    BY <1>1, <1>7, <1>8, <2>1 DEF Magnitude
<1>10. (Magnitude(arg) % UInt) = Magnitude(arg)
  BY <1>1, <1>9, SmallMod
<1>11. (abs % UInt) = Magnitude(arg)
  <2>1. CASE d.conv = "d"
    <3>1. abs = Magnitude(arg)
      BY <1>6, <2>1 DEF Magnitude
    <3> QED
      BY <1>10, <3>1
  <2>2. CASE d.conv # "d"
    <3>1. abs = num /\ Magnitude(arg) = arg
      BY <1>8, <2>2 DEF Magnitude
    <3> QED
      BY <1>8, <1>10, <2>2, <3>1
  <2> QED
    BY <2>1, <2>2
<1>12. Narrow(abs) = Magnitude(arg) /\ Magnitude(arg) \in Nat
  BY <1>9, <1>11 DEF Narrow
<1> QED
  BY <1>6, <1>9, <1>12 DEF num, arg

LEMMA SignFacts ==
  ASSUME NEW d \in Directives, Numeric(d), NEW n \in Int, NEW num, d.conv = "d" => num = n,
         d.conv = "d" /\ d.fillz => ~(d.plus /\ d.space)
  PROVE  /\ SignOf(d, num) = CSign(d, n)
         /\ CSign(d, n) \in Seq(Glyphs) /\ Len(CSign(d, n)) \in {0, 1}
<1>1. d.plus \in BOOLEAN /\ d.space \in BOOLEAN /\ d.fillz \in BOOLEAN
  BY DEF Directives
<1>2. SignOf(d, num) = CSign(d, n)
  BY <1>1 DEF SignOf, CSign
<1>3. "-" \in Glyphs /\ "+" \in Glyphs /\ " " \in Glyphs
  BY DEF Glyphs
<1>4. CSign(d, n) \in {<<>>, <<"-">>, <<"+">>, <<" ">>}
  BY <1>1 DEF CSign
<1>5. <<>> \in Seq(Glyphs) /\ Len(<<>>) = 0
  OBVIOUS
<1>6. \A c \in Glyphs : <<c>> \in Seq(Glyphs) /\ Len(<<c>>) = 1
  OBVIOUS
<1>7. CSign(d, n) \in Seq(Glyphs) /\ Len(CSign(d, n)) \in {0, 1}
  BY <1>3, <1>4, <1>5, <1>6
<1> QED
  BY <1>2, <1>7

LEMMA MiddlePart ==
  ASSUME NEW S, NEW a \in Seq(S), NEW b \in Seq(S), NEW c \in Seq(S)
  PROVE  /\ a \o b \o c \in Seq(S) /\ Len(a \o b \o c) = Len(a) + Len(b) + Len(c)
         /\ SubSeq(a \o b \o c, Len(a) + 1, Len(a) + Len(b)) = b
<1> DEFINE ab == a \o b
           out == ab \o c
           m == SubSeq(out, Len(a) + 1, Len(a) + Len(b))
<1>1. Len(a) \in Nat /\ Len(b) \in Nat /\ Len(c) \in Nat
  BY LenProperties
<1>2. /\ ab \in Seq(S) /\ Len(ab) = Len(a) + Len(b)
      /\ \A i \in 1 .. Len(a) + Len(b) : ab[i] = IF i <= Len(a) THEN a[i] ELSE b[i - Len(a)]
  BY ConcatProperties
<1> HIDE DEF ab
<1>3. /\ out \in Seq(S) /\ Len(out) = Len(ab) + Len(c)
      /\ \A i \in 1 .. Len(ab) + Len(c) : out[i] = IF i <= Len(ab) THEN ab[i] ELSE c[i - Len(ab)]
  <2>1. ab \in Seq(S)
    BY <1>2
  <2> QED
    BY <2>1, ConcatProperties
<1>4. \A i \in 1 .. Len(b) : out[Len(a) + i] = b[i]
  BY <1>1, <1>2, <1>3
<1> HIDE DEF out
<1>5. /\ Len(a) + 1 \in Int /\ Len(a) + Len(b) \in Int
      /\ \A i \in Len(a) + 1 .. Len(a) + Len(b) : out[i] \in S
  <2>1. ASSUME NEW i \in Len(a) + 1 .. Len(a) + Len(b) PROVE out[i] \in S
    <3>1. i \in 1 .. Len(out)
      BY <1>1, <1>2, <1>3, <2>1
    <3> QED
      BY <1>3, <3>1, ElementOfSeq
  <2> QED
    BY <1>1, <2>1
<1>6. PICK lo \in Int, hi \in Int : lo = Len(a) + 1 /\ hi = Len(a) + Len(b)
  BY <1>5
<1>7. \A i \in lo .. hi : out[i] \in S
  BY <1>5, <1>6
<1>8. /\ SubSeq(out, lo, hi) \in Seq(S)
      /\ Len(SubSeq(out, lo, hi)) = (IF lo <= hi THEN hi - lo + 1 ELSE 0)
      /\ \A i \in 1 .. hi - lo + 1 : SubSeq(out, lo, hi)[i] = out[lo + i - 1]
  BY <1>7, SubSeqProperties
<1>9. m \in Seq(S) /\ Len(m) = Len(b) /\ \A i \in 1 .. Len(b) : m[i] = out[Len(a) + i]
  <2>1. m = SubSeq(out, lo, hi)
    BY <1>6
  <2> HIDE DEF m
  <2>2. hi - lo + 1 = Len(b) /\ \A i \in 1 .. Len(b) : lo + i - 1 = Len(a) + i
    BY <1>1, <1>6
  <2>3. Len(m) = Len(b)
    BY <1>1, <1>6, <1>8, <2>1, <2>2
  <2> QED
    BY <1>8, <2>1, <2>2, <2>3
<1> HIDE DEF m
<1>10. m = b
  <2>1. \A i \in 1 .. Len(m) : m[i] = b[i]
    BY <1>4, <1>9
  <2> QED
    BY <1>9, <2>1, SeqEqual
<1> QED
  BY <1>1, <1>2, <1>3, <1>10 DEF out, ab, m

LEMMA NoRepeat ==
  ASSUME NEW c, NEW n \in Int
  PROVE  /\ Repeat(c, n) = Repeat(c, Larger(n, 0))
         /\ n <= 0 => Repeat(c, n) = <<>>
<1>1. CASE n <= 0
  <2>1. 1 .. n = {} /\ 1 .. Larger(n, 0) = {}
    BY <1>1 DEF Larger
  <2>2. Repeat(c, n) = [m \in {} |-> c] /\ Repeat(c, Larger(n, 0)) = [m \in {} |-> c]
    BY <2>1 DEF Repeat
  <2>3. [m \in {} |-> c] = <<>>
    OBVIOUS
  <2> QED
    BY <2>2, <2>3
<1>2. CASE n > 0
  BY <1>2 DEF Larger
<1> QED
  BY <1>1, <1>2

\* What is made of blanks, the sign, zeroes, a numeral and blanks.
Assembly(before, sign, zeroes, ds, behind) ==
    Repeat(" ", before) \o sign \o Repeat("0", zeroes) \o ds \o Repeat(" ", behind)

LEMMA RepeatGlyphs ==
  ASSUME NEW n \in Nat
  PROVE  /\ Repeat(" ", n) \in Seq(Glyphs) /\ Len(Repeat(" ", n)) = n
         /\ Repeat("0", n) \in Seq(Glyphs) /\ Len(Repeat("0", n)) = n
<1>1. " " \in Glyphs /\ "0" \in Glyphs
  BY DEF Glyphs
<1>2. n \in Int /\ Larger(n, 0) = n
  BY DEF Larger
<1> QED
  BY <1>1, <1>2, RepeatFacts

\* What IsC takes for the numeral.
Within(all, before, sign, zeroes, behind) ==
    SubSeq(all, before + Len(sign) + zeroes + 1, Len(all) - behind)

LEMMA AssemblyParts ==
  ASSUME NEW before \in Nat, NEW zeroes \in Nat, NEW behind \in Nat,
         NEW sign \in Seq(Glyphs), NEW ds \in Seq(Glyphs),
         NEW all, all = Assembly(before, sign, zeroes, ds, behind)
  PROVE  Within(all, before, sign, zeroes, behind) = ds
<1> DEFINE bl == Repeat(" ", before)
           zs == Repeat("0", zeroes)
           bh == Repeat(" ", behind)
<1>1. /\ bl \in Seq(Glyphs) /\ Len(bl) = before
      /\ zs \in Seq(Glyphs) /\ Len(zs) = zeroes
      /\ bh \in Seq(Glyphs) /\ Len(bh) = behind
  BY RepeatGlyphs
<1>2. Len(sign) \in Nat /\ Len(ds) \in Nat
  BY LenProperties
<1> HIDE DEF bl, zs, bh
<1> DEFINE f == bl \o sign
           g == f \o zs
           out == g \o ds \o bh
<1>3. f \in Seq(Glyphs) /\ Len(f) = before + Len(sign)
  BY <1>1, ConcatProperties
<1> HIDE DEF f
<1>4. g \in Seq(Glyphs) /\ Len(g) = before + Len(sign) + zeroes
  <2>1. f \in Seq(Glyphs) /\ zs \in Seq(Glyphs)
    BY <1>1, <1>3
  <2>2. g \in Seq(Glyphs) /\ Len(g) = Len(f) + Len(zs)
    BY <2>1, ConcatProperties
  <2> QED
    BY <1>1, <1>3, <2>2
<1> HIDE DEF g
<1>5. /\ Len(out) = Len(g) + Len(ds) + Len(bh)
      /\ SubSeq(out, Len(g) + 1, Len(g) + Len(ds)) = ds
  <2>1. g \in Seq(Glyphs) /\ bh \in Seq(Glyphs)
    BY <1>1, <1>4
  <2> QED
    BY <2>1, MiddlePart
<1>6. out = all
  BY DEF Assembly, f, g, bl, zs, bh
<1> HIDE DEF out
<1>7. Len(out) - behind = Len(g) + Len(ds) /\ before + Len(sign) + zeroes + 1 = Len(g) + 1
  BY <1>1, <1>2, <1>4, <1>5
<1> QED
  BY <1>5, <1>6, <1>7 DEF Within

LEMMA Assembled ==
  ASSUME NEW d \in Directives, Numeric(d), NEW arg, NEW sign, sign = CSign(d, Argument(d, arg)),
         sign \in Seq(Glyphs), NEW ds \in Seq(Glyphs),
         IsNumeral(d, ds, Magnitude(Argument(d, arg))),
         NEW before \in Nat, NEW zeroes \in Nat, NEW behind \in Nat,
         Fills(d, before, zeroes, behind, Len(sign) + Len(ds))
  PROVE  IsC(d, arg, Assembly(before, sign, zeroes, ds, behind))
<1> DEFINE out == Assembly(before, sign, zeroes, ds, behind)
<1>3. out = Assembly(before, sign, zeroes, ds, behind)
  OBVIOUS
<1> HIDE DEF out
<1>1. /\ SubSeq(out, before + Len(sign) + zeroes + 1, Len(out) - behind) = ds
      /\ out = Repeat(" ", before) \o sign \o Repeat("0", zeroes) \o ds \o Repeat(" ", behind)
  <2>1. SubSeq(out, before + Len(sign) + zeroes + 1, Len(out) - behind) = ds
    <3>1. Within(out, before, sign, zeroes, behind) = ds
      BY <1>3, AssemblyParts
    <3> QED
      BY <3>1 DEF Within
  <2>2. out = Repeat(" ", before) \o sign \o Repeat("0", zeroes) \o ds \o Repeat(" ", behind)
    BY <1>3 DEF Assembly
  <2> QED
    BY <2>1, <2>2
<1>2. /\ before \in 0 .. Larger(d.width, 1) /\ zeroes \in 0 .. Larger(d.width, 1)
      /\ behind \in 0 .. Larger(d.width, 1)
  <2>1. d.width \in Nat /\ Len(sign) \in Nat /\ Len(ds) \in Nat
    BY LenProperties DEF Directives
  <2>2. before + zeroes + behind = Larger(d.width - (Len(sign) + Len(ds)), 0)
    BY DEF Fills
  <2> QED
    BY <2>1, <2>2 DEF Larger
<1> SUFFICES IsC(d, arg, out)
  BY DEF out
<1> QED
  BY <1>1, <1>2 DEF IsC

LEMMA GlyphConcat ==
  /\ \A s, t \in Seq(Glyphs) : s \o t \in Seq(Glyphs)
  /\ \A s, t, u \in Seq(Glyphs) : (s \o t) \o u = s \o (t \o u)
  /\ \A s \in Seq(Glyphs) : <<>> \o s = s /\ s \o <<>> = s
  /\ <<>> \in Seq(Glyphs)
<1>1. \A s, t \in Seq(Glyphs) : s \o t \in Seq(Glyphs)
  BY ConcatProperties
<1>2. \A s, t, u \in Seq(Glyphs) : (s \o t) \o u = s \o (t \o u)
  BY ConcatAssociative
<1>3. \A s \in Seq(Glyphs) : <<>> \o s = s /\ s \o <<>> = s
  BY ConcatEmptySeq
<1> QED
  BY <1>1, <1>2, <1>3

\* What there is none of leaves no trace: the three layouts of Padded.
LEMMA AssemblyShapes ==
  ASSUME NEW sign \in Seq(Glyphs), NEW ds \in Seq(Glyphs), NEW n \in Nat
  PROVE  /\ Assembly(0, sign, 0, ds, n) = sign \o (ds \o Repeat(" ", n))
         /\ Assembly(0, sign, 0, ds, n) = (sign \o ds) \o Repeat(" ", n)
         /\ Assembly(0, sign, n, ds, 0) = sign \o (Repeat("0", n) \o ds)
         /\ Assembly(n, sign, 0, ds, 0) = Repeat(" ", n) \o (sign \o ds)
<1> DEFINE bs == Repeat(" ", n)
           zs == Repeat("0", n)
<1>1. Repeat(" ", 0) = <<>> /\ Repeat("0", 0) = <<>>
  <2>1. PICK z \in Int : z = 0 /\ z <= 0
    OBVIOUS
  <2>2. \A c : Repeat(c, z) = <<>>
    BY <2>1, NoRepeat
  <2> QED
    BY <2>1, <2>2
<1>2. bs \in Seq(Glyphs) /\ zs \in Seq(Glyphs)
  BY RepeatGlyphs
<1>3. /\ Assembly(0, sign, 0, ds, n) = (((<<>> \o sign) \o <<>>) \o ds) \o bs
      /\ Assembly(0, sign, n, ds, 0) = (((<<>> \o sign) \o zs) \o ds) \o <<>>
      /\ Assembly(n, sign, 0, ds, 0) = (((bs \o sign) \o <<>>) \o ds) \o <<>>
  BY <1>1 DEF Assembly
<1> HIDE DEF bs, zs
<1>4. /\ sign \o zs \in Seq(Glyphs) /\ bs \o sign \in Seq(Glyphs) /\ sign \o ds \in Seq(Glyphs)
      /\ (sign \o zs) \o ds \in Seq(Glyphs) /\ (bs \o sign) \o ds \in Seq(Glyphs)
  BY <1>2, GlyphConcat
<1>5. (((<<>> \o sign) \o <<>>) \o ds) \o bs = (sign \o ds) \o bs
  BY GlyphConcat
<1>6. (((<<>> \o sign) \o zs) \o ds) \o <<>> = (sign \o zs) \o ds
  BY <1>4, GlyphConcat
<1>7. (((bs \o sign) \o <<>>) \o ds) \o <<>> = (bs \o sign) \o ds
  BY <1>4, GlyphConcat
<1>8. /\ (sign \o ds) \o bs = sign \o (ds \o bs)
      /\ (sign \o zs) \o ds = sign \o (zs \o ds)
      /\ (bs \o sign) \o ds = bs \o (sign \o ds)
  <2>1. (sign \o ds) \o bs = sign \o (ds \o bs)
    BY <1>2, GlyphConcat
  <2>2. (sign \o zs) \o ds = sign \o (zs \o ds)
    BY <1>2, GlyphConcat
  <2>3. (bs \o sign) \o ds = bs \o (sign \o ds)
    BY <1>2, GlyphConcat
  <2> QED
    BY <2>1, <2>2, <2>3
<1> QED
  BY <1>3, <1>5, <1>6, <1>7, <1>8 DEF bs, zs

\* Every layout of a sign and a numeral is one C allows.
LEMMA LayoutFills ==
  ASSUME NEW d \in Directives, d.conv = "d" /\ d.fillz => d.prec = 0 \/ d.ljust,
         NEW sign \in Seq(Glyphs), Len(sign) \in {0, 1}, d.conv # "d" => sign = <<>>,
         NEW ds \in Seq(Glyphs), ds # <<>>, NEW out,
         LET fillz == d.fillz /\ d.prec = 0
         IN  out = IF SignFirst(d)
                   THEN sign \o Padded(d, fillz, IF d.width > 0 THEN d.width - Len(sign) ELSE 0, ds)
                   ELSE Padded(d, fillz, d.width, sign \o ds)
  PROVE  \E before, zeroes, behind \in Nat :
             /\ out = Assembly(before, sign, zeroes, ds, behind)
             /\ Fills(d, before, zeroes, behind, Len(sign) + Len(ds))
<1> DEFINE len == Len(sign) + Len(ds)
           n == Larger(d.width - len, 0)
           w == IF d.width > 0 THEN d.width - Len(sign) ELSE 0
           fz == d.fillz /\ d.prec = 0
<1>1. /\ d.width \in Nat /\ d.prec \in Nat /\ d.fillz \in BOOLEAN /\ d.ljust \in BOOLEAN
      /\ Len(sign) \in {0, 1} /\ Len(ds) \in Nat /\ Len(ds) > 0
  <2>1. Len(ds) \in Nat /\ Len(ds) # 0
    BY LenProperties, EmptySeq
  <2> QED
    BY <2>1 DEF Directives
<1>2. n \in Nat /\ w - Len(ds) \in Int /\ d.width - len \in Int /\ Larger(w - Len(ds), 0) = n
  BY <1>1 DEF Larger
<1>3. \A c : Repeat(c, w - Len(ds)) = Repeat(c, n) /\ Repeat(c, d.width - len) = Repeat(c, n)
  <2> HIDE DEF w
  <2>1. TAKE c
  <2>2. Repeat(c, w - Len(ds)) = Repeat(c, Larger(w - Len(ds), 0))
    BY <1>2, NoRepeat
  <2>3. Repeat(c, d.width - len) = Repeat(c, Larger(d.width - len, 0))
    BY <1>2, NoRepeat
  <2> QED
    BY <1>2, <2>2, <2>3
<1>4. Len(sign \o ds) = len
  BY ConcatProperties
<1>5. out = IF SignFirst(d) THEN sign \o Padded(d, fz, w, ds) ELSE Padded(d, fz, d.width, sign \o ds)
  OBVIOUS
<1>6. /\ d.ljust  => Fills(d, 0, 0, n, len)
      /\ ZeroFilled(d) => Fills(d, 0, n, 0, len)
      /\ ~ZeroFilled(d) /\ ~d.ljust => Fills(d, n, 0, 0, len)
      /\ 0 \in Nat
  <2> DEFINE L == len
  <2>1. L \in Nat /\ n = Larger(d.width - L, 0)
    BY <1>1
  <2> HIDE DEF len, n, L
  <2> SUFFICES /\ d.ljust  => Fills(d, 0, 0, n, L)
               /\ ZeroFilled(d) => Fills(d, 0, n, 0, L)
               /\ ~ZeroFilled(d) /\ ~d.ljust => Fills(d, n, 0, 0, L)
    BY DEF L
  <2> QED
    BY <1>2, <2>1 DEF Fills, ZeroFilled
<1> HIDE DEF w, n, len, fz
<1>7. CASE d.ljust
  <2>1. /\ Padded(d, fz, w, ds) = ds \o Repeat(" ", n)
        /\ Padded(d, fz, d.width, sign \o ds) = (sign \o ds) \o Repeat(" ", n)
    BY <1>3, <1>4, <1>7 DEF Padded
  <2>2. out = Assembly(0, sign, 0, ds, n)
    <3>1. n \in Nat
      BY <1>2
    <3>2. Assembly(0, sign, 0, ds, n) = sign \o (ds \o Repeat(" ", n))
      BY <3>1, AssemblyShapes
    <3>3. Assembly(0, sign, 0, ds, n) = (sign \o ds) \o Repeat(" ", n)
      BY <3>1, AssemblyShapes
    <3> QED
      BY <1>5, <2>1, <3>2, <3>3
  <2> QED
    BY <1>2, <1>6, <1>7, <2>2 DEF len
<1>8. CASE ~d.ljust /\ fz
  <2>1. ZeroFilled(d)
    BY <1>8 DEF ZeroFilled, fz
  <2>2. /\ Padded(d, fz, w, ds) = Repeat("0", n) \o ds
        /\ Padded(d, fz, d.width, sign \o ds) = Repeat("0", n) \o (sign \o ds)
    BY <1>3, <1>4, <1>8 DEF Padded
  <2>3. Repeat("0", n) \in Seq(Glyphs)
    BY <1>2, RepeatGlyphs
  <2>4. ~SignFirst(d) => sign = <<>>
    BY <1>8 DEF SignFirst, fz
  <2>5. out = sign \o (Repeat("0", n) \o ds)
    <3>1. Repeat("0", n) \o ds \in Seq(Glyphs) /\ <<>> \o ds = ds
      BY <2>3, GlyphConcat
    <3>2. <<>> \o (Repeat("0", n) \o ds) = Repeat("0", n) \o ds
      BY <3>1, GlyphConcat
    <3> QED
      BY <1>5, <2>2, <2>4, <3>1, <3>2
  <2>6. out = Assembly(0, sign, n, ds, 0)
    BY <1>2, <2>5, AssemblyShapes
  <2> QED
    BY <1>2, <1>6, <2>1, <2>6 DEF len
<1>9. CASE ~d.ljust /\ ~fz
  <2>1. ~ZeroFilled(d) /\ ~SignFirst(d)
    BY <1>1, <1>9 DEF ZeroFilled, SignFirst, fz
  <2>2. Padded(d, fz, d.width, sign \o ds) = Repeat(" ", n) \o (sign \o ds)
    BY <1>3, <1>4, <1>9 DEF Padded
  <2>3. out = Assembly(n, sign, 0, ds, 0)
    BY <1>2, <1>5, <2>1, <2>2, AssemblyShapes
  <2> QED
    BY <1>2, <1>6, <1>9, <2>1, <2>3 DEF len
<1> QED
  BY <1>7, <1>8, <1>9

LEMMA NumericIsC ==
  ASSUME NEW d \in Directives, Numeric(d), NEW bits \in 0 .. ULong - 1, Conforms(d, bits)
  PROVE  IsC(d, bits, Converted(d, bits))
<1> DEFINE num  == Number(d, bits)
           abs  == IF d.conv = "d" /\ num < 0 THEN -num ELSE num
           arg  == Argument(d, bits)
           sign == CSign(d, arg)
           ds   == itoa(Narrow(abs), Base(d), Alphabet(d), d.prec)
           out  == Converted(d, bits)
           fz   == d.fillz /\ d.prec = 0
<1>1. /\ Magnitude(arg) < UInt /\ Altform(d) = <<>> /\ d.prec \in Nat
      /\ d.conv = "d" /\ d.fillz => (d.prec = 0 \/ d.ljust)
      /\ d.conv = "d" /\ d.fillz => ~(d.plus /\ d.space)
  BY DEF Conforms, Directives
<1>2. /\ arg \in Int /\ d.conv = "d" => num = arg
      /\ Narrow(abs) = Magnitude(arg) /\ Narrow(abs) \in Nat
  BY <1>1, NumberFacts
<1>3. arg \in Int
  BY <1>1, NumberFacts
<1> HIDE DEF num, arg
<1>4. SignOf(d, num) = sign /\ sign \in Seq(Glyphs) /\ Len(sign) \in {0, 1}
  BY <1>1, <1>2, <1>3, SignFacts
<1>5. d.conv # "d" => sign = <<>>
  BY DEF CSign
<1>6. ds \in Seq(Glyphs) /\ IsNumeral(d, ds, Narrow(abs)) /\ ds # <<>>
  <2>1. ds \in Seq(Glyphs) /\ IsNumeral(d, ds, Narrow(abs))
    BY <1>1, <1>2, ItoaNumeral
  <2> QED
    BY <2>1 DEF IsNumeral
<1>7. out = IF SignFirst(d)
            THEN sign \o Padded(d, fz, IF d.width > 0 THEN d.width - Len(sign) ELSE 0, ds)
            ELSE Padded(d, fz, d.width, sign \o ds)
  <2> DEFINE prec == d.prec + Len(Altform(d))
             body == Altform(d) \o itoa(Narrow(abs), Base(d), Alphabet(d), prec)
  <2>1. out = IF SignFirst(d)
              THEN SignOf(d, num) \o Padded(d, d.fillz /\ prec = 0,
                                            IF d.width > 0 THEN d.width - Len(SignOf(d, num)) ELSE 0, body)
              ELSE Padded(d, d.fillz /\ prec = 0, d.width, SignOf(d, num) \o body)
    <3>1. Numeric(d) /\ d.conv # "s" /\ d.conv # "c" /\ d.conv # "%"
      BY DEF Numeric
    <3> QED
      BY <3>1 DEF Converted, num
  <2>2. prec = d.prec
    BY <1>1
  <2>3. body = ds
    <3>1. <<>> \o ds = ds
      BY <1>6, GlyphConcat
    <3> QED
      BY <1>1, <2>2, <3>1
  <2> HIDE DEF body, prec, out, sign
  <2> QED
    BY <1>4, <2>1, <2>2, <2>3
<1> HIDE DEF sign, ds, out
<1>8. PICK before \in Nat, zeroes \in Nat, behind \in Nat :
          /\ out = Assembly(before, sign, zeroes, ds, behind)
          /\ Fills(d, before, zeroes, behind, Len(sign) + Len(ds))
  BY <1>1, <1>4, <1>5, <1>6, <1>7, LayoutFills
<1>9. sign = CSign(d, Argument(d, bits)) /\ IsNumeral(d, ds, Magnitude(Argument(d, bits)))
  BY <1>2, <1>6 DEF sign, arg
<1>10. IsC(d, bits, Assembly(before, sign, zeroes, ds, behind))
  BY <1>4, <1>6, <1>8, <1>9, Assembled
<1> QED
  BY <1>8, <1>10 DEF out

\* The arguments of the directives that print text.
IsText(d, arg) ==
    /\ arg \in Seq(Char) /\ d.conv \in {"s", "c", "%"}
    /\ d.conv = "c" => Len(arg) = 1
    /\ d.conv = "%" => arg = <<"%">>

\* What a text directive prints of its argument.
Shown(d, arg) == IF d.prec = 0 THEN arg ELSE SubSeq(arg, 1, Smaller(d.prec, Len(arg)))

LEMMA ShownFacts ==
  ASSUME NEW d \in Directives, NEW arg, IsText(d, arg)
  PROVE  /\ Shown(d, arg) \in Seq(Char)
         /\ Converted(d, arg) = Padded(d, d.fillz, d.width, Shown(d, arg))
<1>1. /\ d.prec \in Nat /\ arg \in Seq(Char) /\ Len(arg) \in Nat /\ ~Numeric(d)
      /\ d.conv \in {"s", "c", "%"}
  BY LenProperties DEF Directives, IsText, Numeric
<1>2. SubSeq(arg, 1, Len(arg)) = arg
  BY <1>1, SubSeqFull
<1>3. Shown(d, arg) \in Seq(Char)
  <2> DEFINE m == Smaller(d.prec, Len(arg))
  <2>1. m \in Int /\ m <= Len(arg)
    BY <1>1 DEF Smaller
  <2> HIDE DEF m
  <2>2. \A i \in 1 .. m : arg[i] \in Char
    <3>1. \A i \in 1 .. m : i \in 1 .. Len(arg)
      BY <1>1, <2>1
    <3> QED
      BY <1>1, <3>1, ElementOfSeq
  <2>3. SubSeq(arg, 1, m) \in Seq(Char)
    BY <2>1, <2>2, SubSeqProperties
  <2> QED
    BY <1>1, <2>3 DEF Shown, m
<1>4. Len(arg) = 1 => Shown(d, arg) = arg
  <2> SUFFICES ASSUME Len(arg) = 1, d.prec # 0 PROVE Shown(d, arg) = arg
    BY DEF Shown
  <2>1. Smaller(d.prec, Len(arg)) = Len(arg)
    BY <1>1 DEF Smaller
  <2> QED
    BY <1>2, <2>1 DEF Shown
<1>5. CASE d.conv = "s"
  <2>1. Shown(d, arg) = SubSeq(arg, 1, IF d.prec = 0 THEN Len(arg) ELSE Smaller(d.prec, Len(arg)))
    BY <1>2 DEF Shown
  <2>2. Converted(d, arg) =
            Padded(d, d.fillz, d.width,
                   SubSeq(arg, 1, IF d.prec = 0 THEN Len(arg) ELSE Smaller(d.prec, Len(arg))))
    BY <1>1, <1>5 DEF Converted
  <2> QED
    BY <1>3, <2>1, <2>2
<1>6. CASE d.conv = "c"
  <2>1. Len(arg) = 1
    BY <1>6 DEF IsText
  <2>2. Converted(d, arg) = Padded(d, d.fillz, d.width, arg)
    BY <1>1, <1>6 DEF Converted
  <2> QED
    BY <1>3, <1>4, <2>1, <2>2
<1>7. CASE d.conv = "%"
  <2>1. arg = <<"%">>
    BY <1>7 DEF IsText
  <2>2. Len(arg) = 1
    BY <2>1
  <2>3. Converted(d, arg) = Padded(d, d.fillz, d.width, arg)
    BY <1>1, <1>7, <2>1 DEF Converted
  <2> QED
    BY <1>3, <1>4, <2>2, <2>3
<1> QED
  BY <1>1, <1>5, <1>6, <1>7

LEMMA TextIsC ==
  ASSUME NEW d \in Directives, NEW arg, IsText(d, arg), Conforms(d, arg)
  PROVE  IsC(d, arg, Converted(d, arg))
<1> DEFINE S == Char \cup {" "}
           words == Shown(d, arg)
           n == Larger(d.width - Len(words), 0)
           bs == Repeat(" ", n)
           out == Converted(d, arg)
<1>1. d.width \in Nat /\ ~Numeric(d) /\ d.fillz = FALSE /\ d.ljust \in BOOLEAN
  BY DEF Directives, IsText, Numeric, Conforms
<1>2. words \in Seq(S) /\ out = Padded(d, FALSE, d.width, words) /\ Len(words) \in Nat
  <2>1. words \in Seq(Char) /\ out = Padded(d, d.fillz, d.width, words)
    BY ShownFacts
  <2> HIDE DEF words, out
  <2>2. words \in Seq(S)
    <3>1. Char \subseteq S
      OBVIOUS
    <3> QED
      BY <2>1, <3>1, SeqMonotonic
  <2> QED
    BY <1>1, <2>1, <2>2, LenProperties
<1> HIDE DEF words, out
<1>3. n \in Nat /\ n <= Larger(d.width, 1) /\ d.width - Len(words) \in Int
  <2>1. d.width \in Nat /\ Len(words) \in Nat
    BY <1>1, <1>2
  <2> QED
    BY <2>1 DEF Larger
<1>4. Repeat(" ", d.width - Len(words)) = bs
  BY <1>3, NoRepeat
<1>5. bs \in Seq(S)
  <2>1. " " \in S /\ n \in Int
    BY <1>3
  <2> HIDE DEF n, S
  <2> QED
    BY <2>1, RepeatFacts
<1>6. Repeat(" ", 0) = <<>>
  <2>1. PICK z \in Int : z = 0 /\ z <= 0
    OBVIOUS
  <2>2. Repeat(" ", z) = <<>>
    BY <2>1, NoRepeat
  <2> QED
    BY <2>1, <2>2
<1>7. n = Larger(d.width - Len(words), 0)
  OBVIOUS
<1>8. 0 \in 0 .. Larger(d.width, 1) /\ n \in 0 .. Larger(d.width, 1)
  BY <1>1, <1>3 DEF Larger
<1> HIDE DEF n, bs
<1>9. ASSUME NEW before \in 0 .. Larger(d.width, 1), NEW behind \in 0 .. Larger(d.width, 1),
             Fills(d, before, 0, behind, Len(words)),
             out = Repeat(" ", before) \o words \o Repeat(" ", behind)
      PROVE  IsC(d, arg, out)
  BY <1>1, <1>8, <1>9 DEF IsC, words, Shown
<1>10. CASE d.ljust
  <2>1. Fills(d, 0, 0, n, Len(words))
    BY <1>3, <1>7, <1>10 DEF Fills
  <2>2. out = words \o bs
    BY <1>1, <1>2, <1>4, <1>10 DEF Padded
  <2>3. <<>> \o words = words
    BY <1>2, ConcatEmptySeq
  <2>4. out = Repeat(" ", 0) \o words \o Repeat(" ", n)
    BY <1>6, <2>2, <2>3 DEF bs
  <2> QED
    BY <1>8, <1>9, <2>1, <2>4 DEF out
<1>11. CASE ~d.ljust
  <2>1. Fills(d, n, 0, 0, Len(words))
    BY <1>1, <1>3, <1>7, <1>11 DEF Fills, ZeroFilled
  <2>2. out = bs \o words
    BY <1>1, <1>2, <1>4, <1>11 DEF Padded
  <2>3. (bs \o words) \o <<>> = bs \o words
    <3>1. bs \o words \in Seq(S)
      BY <1>2, <1>5, ConcatProperties
    <3> QED
      BY <3>1, ConcatEmptySeq
  <2>4. out = Repeat(" ", n) \o words \o Repeat(" ", 0)
    BY <1>6, <2>2, <2>3 DEF bs
  <2> QED
    BY <1>8, <1>9, <2>1, <2>4 DEF out
<1> QED
  BY <1>1, <1>10, <1>11

-----------------------------------------------------------------------------
(* What the conversions do, for every directive and argument.               *)

\* Every directive makes of every argument what C says, at any width and
\* precision, but for the ones Conforms leaves out
\* (snprintf_asyncsignalsafe.cc:27-54, 169-327).
THEOREM ConversionsAreC ==
  ASSUME NEW d \in Directives, NEW arg, Conforms(d, arg),
         IF Numeric(d) THEN arg \in 0 .. ULong - 1 ELSE IsText(d, arg)
  PROVE  IsC(d, arg, Converted(d, arg))
<1>1. CASE Numeric(d)
  BY <1>1, NumericIsC
<1>2. CASE ~Numeric(d)
  BY <1>2, TextIsC
<1> QED
  BY <1>1, <1>2

\* Whatever calls there are, what each adds to a record is what C says, as far as
\* it fits.
THEOREM RecordsAreC == Spec => []AgreesWithC
<1>1. BufInv => AgreesWithC
  <2> SUFFICES ASSUME BufInv, call # NoCall, Conforms(call.d, call.arg)
               PROVE  IsC(call.d, call.arg, Output(call))
    BY DEF AgreesWithC
  <2>1. call \in Calls
    BY DEF BufInv, TypeOK
  <2> DEFINE d == call.d
             arg == call.arg
  <2>2. /\ d \in Directives /\ Output(call) = Converted(d, arg)
        /\ IF Numeric(d) THEN arg \in 0 .. ULong - 1 ELSE arg \in Seq(Char)
        /\ d.conv = "c" => Len(arg) = 1
        /\ d.conv = "%" => arg = <<"%">>
    BY <2>1, ConversionsAssumption
  <2>3. ~Numeric(d) => d.conv \in {"s", "c", "%"}
    BY <2>2 DEF Directives, Conversions, Numeric
  <2>4. IF Numeric(d) THEN arg \in 0 .. ULong - 1 ELSE IsText(d, arg)
    BY <2>2, <2>3 DEF IsText
  <2> HIDE DEF d, arg
  <2>5. IsC(d, arg, Converted(d, arg))
    BY <2>2, <2>4, ConversionsAreC DEF d, arg
  <2> QED
    BY <2>2, <2>5 DEF d, arg
<1> QED
  BY <1>1, BufInductive, PTL
=============================================================================
