------------------------------ MODULE Snprintf ------------------------------
(***************************************************************************)
(* The conversions of vsnprintf_asyncsignalsafe                            *)
(* (lib/snprintf_asyncsignalsafe.cc), and what C asks of them.  A          *)
(* directive is the record the parsing loop makes of a % and what follows  *)
(* it; an argument is the bits of an int or a long as a natural number, or *)
(* a string, a sequence of characters.                                     *)
(***************************************************************************)
EXTENDS Integers, Sequences, SequencesExt

CONSTANTS
    UShort, UInt, ULong   \* how many values an unsigned short, int, long has

ASSUME SnprintfAssumption ==
    /\ UShort \in Nat \ {0} /\ UInt \in Nat \ {0} /\ ULong \in Nat \ {0}
    /\ UShort % 2 = 0 /\ UInt % UShort = 0 /\ ULong % UInt = 0   \* powers of 2

Conversions == {"d", "u", "x", "X", "o", "s", "c", "%"}

\* width 0 is none, and so is prec 0; long is 1 after one l, 2 after two.
Directives ==
    [conv : Conversions, ljust : BOOLEAN, plus : BOOLEAN, space : BOOLEAN, fillz : BOOLEAN,
     altform : BOOLEAN, half : BOOLEAN, long : 0 .. 2, width : Nat, prec : Nat]

Numeric(d) == d.conv \in {"d", "u", "x", "X", "o"}

\* The value the bits of a two's complement number of w values stand for.
Signed(bits, w) == IF bits >= w \div 2 THEN bits - w ELSE bits

Repeat(c, n) == [m \in 1 .. n |-> c]

Smaller(a, b) == IF a <= b THEN a ELSE b
Larger(a, b)  == IF a >= b THEN a ELSE b

-----------------------------------------------------------------------------
Lower == <<"0", "1", "2", "3", "4", "5", "6", "7", "8", "9", "a", "b", "c", "d", "e", "f">>
Upper == <<"0", "1", "2", "3", "4", "5", "6", "7", "8", "9", "A", "B", "C", "D", "E", "F">>

Alphabet(d) == IF d.conv = "X" THEN Upper ELSE Lower
Base(d)     == CASE d.conv \in {"x", "X"} -> 16 [] d.conv = "o" -> 8 [] OTHER -> 10

\* itoa: at least prec digits of an unsigned int.
itoa(num, base, digits, prec) ==
    LET numeral[n \in 0 .. num] ==
            IF n < base THEN <<digits[n + 1]>>
                        ELSE Append(numeral[n \div base], digits[(n % base) + 1])
    IN  Repeat("0", prec - Len(numeral[num])) \o numeral[num]

\* (unsigned int) num
Narrow(num) == num % UInt

\* num, after va_arg and half.
Number(d, bits) ==
    LET num == IF d.long = 0 THEN Signed(bits % UInt, UInt) ELSE Signed(bits, ULong)
    IN  IF ~d.half THEN num
        ELSE IF d.conv = "d" THEN Signed(num % UShort, UShort) ELSE num % UShort

\* The sign of a %d; before zero-fill a space wins over a plus, else it is the
\* other way round.
SignOf(d, num) ==
    IF d.conv # "d" THEN <<>>
    ELSE IF num < 0 THEN <<"-">>
    ELSE IF d.plus /\ ~(d.fillz /\ d.space) THEN <<"+">>
    ELSE IF d.space THEN <<" ">> ELSE <<>>

Altform(d) ==
    IF d.altform /\ d.conv \in {"x", "X"} THEN <<"0", d.conv>>
    ELSE IF d.altform /\ d.conv = "o" THEN <<"0">> ELSE <<>>

\* Mutant: zeroes on the left of the sign.
SignFirst_Never(d) == FALSE

\* The sign goes out before the padding, and takes one of the width.
SignFirst(d) == d.conv = "d" /\ d.fillz

\* Padding to width, then at most prec characters of text, then padding.
Padded(d, fillz, width, text) ==
    LET pad == Repeat(IF fillz THEN "0" ELSE " ", width - Len(text))
    IN  IF d.ljust THEN text \o Repeat(" ", width - Len(text)) ELSE pad \o text

\* Everything vsnprintf_asyncsignalsafe stores for a directive, had it room.
Converted(d, arg) ==
    CASE Numeric(d) ->
            LET num  == Number(d, arg)
                sign == SignOf(d, num)
                prec == d.prec + Len(Altform(d))
                abs  == IF d.conv = "d" /\ num < 0 THEN -num ELSE num
                body == Altform(d) \o itoa(Narrow(abs), Base(d), Alphabet(d), prec)
                fillz == d.fillz /\ prec = 0
            IN  IF SignFirst(d)
                THEN sign \o Padded(d, fillz, IF d.width > 0 THEN d.width - Len(sign) ELSE 0, body)
                ELSE Padded(d, fillz, d.width, sign \o body)
      [] d.conv = "s" ->
            LET plen == IF d.prec = 0 THEN Len(arg) ELSE Smaller(d.prec, Len(arg))
            IN  Padded(d, d.fillz, d.width, SubSeq(arg, 1, plen))
      [] d.conv = "c" -> Padded(d, d.fillz, d.width, arg)
      [] d.conv = "%" -> Padded(d, d.fillz, d.width, <<"%">>)

-----------------------------------------------------------------------------
(* What C asks for, as a condition on the characters out.                   *)

Digit(d, c) == CHOOSE n \in 0 .. 15 : Alphabet(d)[n + 1] = c

\* What the first digits stand for, as many as there are.
Value(d, digits) ==
    LET value[n \in 0 .. Len(digits)] ==
            IF n = 0 THEN 0 ELSE value[n - 1] * Base(d) + Digit(d, digits[n])
    IN  value[Len(digits)]

\* The argument in the type the directive names.
Argument(d, bits) ==
    LET w == IF d.half THEN UShort ELSE IF d.long = 0 THEN UInt ELSE ULong
    IN  IF d.conv = "d" THEN Signed(bits % w, w) ELSE bits % w

CSign(d, n) ==
    IF d.conv # "d" THEN <<>>
    ELSE IF n < 0 THEN <<"-">>
    ELSE IF d.plus THEN <<"+">>
    ELSE IF d.space THEN <<" ">> ELSE <<>>

Magnitude(n) == IF n < 0 THEN -n ELSE n

\* Zeroes fill the width unless a precision says how many digits there are.
ZeroFilled(d) == d.fillz /\ ~d.ljust /\ d.prec = 0

\* The blanks before, the zeroes, and the blanks behind fill the width; which of
\* them there may be depends on the flags.
Fills(d, before, zeroes, behind, len) ==
    /\ before + zeroes + behind = Larger(d.width - len, 0)
    /\ behind > 0 => d.ljust
    /\ zeroes > 0 => ZeroFilled(d)
    /\ before > 0 => ~ZeroFilled(d) /\ ~d.ljust

\* As many digits as the precision asks for, and no 0 in front beyond that.
IsNumeral(d, ds, n) ==
    /\ ds # <<>> /\ Len(ds) >= d.prec
    /\ ToSet(ds) \subseteq ToSet(SubSeq(Alphabet(d), 1, Base(d)))
    /\ Len(ds) > Larger(d.prec, 1) => ds[1] # "0"
    /\ Value(d, ds) = n

IsC(d, arg, out) ==
    \E before, zeroes, behind \in 0 .. Larger(d.width, 1) :
        LET blanks == Repeat(" ", before)
            sign   == CSign(d, Argument(d, arg))
            ds     == SubSeq(out, before + Len(sign) + zeroes + 1, Len(out) - behind)
            text   == IF d.prec = 0 THEN arg ELSE SubSeq(arg, 1, Smaller(d.prec, Len(arg)))
        IN  IF Numeric(d)
            THEN /\ Fills(d, before, zeroes, behind, Len(sign) + Len(ds))
                 /\ out = blanks \o sign \o Repeat("0", zeroes) \o ds \o Repeat(" ", behind)
                 /\ IsNumeral(d, ds, Magnitude(Argument(d, arg)))
            ELSE /\ zeroes = 0
                 /\ Fills(d, before, 0, behind, Len(text))
                 /\ out = blanks \o text \o Repeat(" ", behind)

\* Where the code does what C asks for: not for longs that an unsigned int cannot
\* hold (line 308), nor for # with x and o, which counts what it adds as digits,
\* nor for a zero-filled %d with a precision, which gets its blanks behind its sign,
\* or with both + and space; tmp has room for 34 digits. C knows no zero-filled text.
Conforms(d, arg) ==
    IF Numeric(d)
    THEN /\ Magnitude(Argument(d, arg)) < UInt
         /\ Altform(d) = <<>>
         /\ d.prec <= 34
         /\ d.conv = "d" /\ d.fillz => (d.prec = 0 \/ d.ljust) /\ ~(d.plus /\ d.space)
    ELSE ~d.fillz
=============================================================================
