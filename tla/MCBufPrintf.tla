----------------------------- MODULE MCBufPrintf -----------------------------
(* Small instances of BufPrintf for TLC, with the conversions of Snprintf: an *)
(* int has 8 bits and a long 10, and the directives are those of the error    *)
(* records (zerror.cc, prettyprint_siginfo.cc, prettyprint_ucontext.cc) and   *)
(* others of each kind.                                                       *)
EXTENDS BufPrintf, Snprintf

Plain == [conv |-> "s", ljust |-> FALSE, plus |-> FALSE, space |-> FALSE, fillz |-> FALSE,
          altform |-> FALSE, half |-> FALSE, long |-> 0, width |-> 0, prec |-> 0]

Ints  == {0, 7, 15, 127, 128, 255}
Longs == {0, 9, 255, 256, 780, 1023}
Texts == {<<>>, <<"m", "a", "i", "n">>}

\* %d %02d %5d %+d %-5d %u %x %02x %08x %o %hd %X
IntDirectives ==
    {[Plain EXCEPT !.conv = c] : c \in {"d", "u", "x", "X", "o"}}
        \cup {[Plain EXCEPT !.conv = c, !.fillz = TRUE, !.width = w] : c \in {"d", "x"}, w \in {2, 8}}
        \cup {[Plain EXCEPT !.conv = "d", !.plus = TRUE, !.fillz = z, !.ljust = l, !.width = 5] :
                  z \in BOOLEAN, l \in BOOLEAN}
        \cup {[Plain EXCEPT !.conv = "d", !.space = TRUE, !.fillz = z, !.width = 5] : z \in BOOLEAN}
        \cup {[Plain EXCEPT !.conv = c, !.half = TRUE, !.ljust = TRUE, !.width = 3] : c \in {"d", "u"}}

\* %.3d %+6.3u %-6.3x %08.3X %08.3d %#x %+ 05d
PrecDirectives ==
    {[Plain EXCEPT !.conv = "d", !.prec = 3], [Plain EXCEPT !.conv = "u", !.plus = TRUE, !.prec = 3, !.width = 6],
     [Plain EXCEPT !.conv = "x", !.ljust = TRUE, !.prec = 3, !.width = 6],
     [Plain EXCEPT !.conv = "X", !.fillz = TRUE, !.prec = 3, !.width = 8],
     [Plain EXCEPT !.conv = "d", !.fillz = TRUE, !.prec = 3, !.width = 8],
     [Plain EXCEPT !.conv = "x", !.altform = TRUE],
     [Plain EXCEPT !.conv = "d", !.fillz = TRUE, !.plus = TRUE, !.space = TRUE, !.width = 5]}

\* %lx %08lx %lu %ld
LongDirectives ==
    {[Plain EXCEPT !.conv = c, !.long = 1] : c \in {"x", "u", "d"}}
        \cup {[Plain EXCEPT !.conv = "x", !.long = 1, !.fillz = TRUE, !.width = 8]}

TextDirectives ==
    {Plain, [Plain EXCEPT !.width = 6], [Plain EXCEPT !.ljust = TRUE, !.width = 6],
     [Plain EXCEPT !.prec = 2], [Plain EXCEPT !.prec = 2, !.width = 6]}

Call(d, arg) == [d |-> d, arg |-> arg]

MCCalls ==
    {Call(d, v) : d \in IntDirectives \cup PrecDirectives, v \in Ints}
        \cup {Call(d, v) : d \in LongDirectives, v \in Longs}
        \cup {Call(d, s) : d \in TextDirectives, s \in Texts}
        \cup {Call([Plain EXCEPT !.conv = "c", !.width = 2], <<"#">>), Call([Plain EXCEPT !.conv = "%"], <<"%">>)}

MCOutput(c) == Converted(c.d, c.arg)

MCChar == ToSet(Lower) \cup ToSet(Upper) \cup {"m", "i", "n", "x", "#", "%", " ", "-", "+"}

\* A call is one directive with an argument of its kind.
ASSUME ConversionsAssumption ==
    \A c \in Calls :
        /\ c.d \in Directives
        /\ IF Numeric(c.d) THEN c.arg \in 0 .. ULong - 1 ELSE c.arg \in Seq(Char)
        /\ c.d.conv = "c" => Len(c.arg) = 1
        /\ c.d.conv = "%" => c.arg = <<"%">>
        /\ Output(c) = Converted(c.d, c.arg)

\* snprintf_asyncsignalsafe.cc:6 "an async-signal-safe implementation of snprintf":
\* every directive makes of its argument what C says, sign, zeroes, blanks and
\* digits (snprintf_asyncsignalsafe.cc:169-327), but for those Conforms leaves out.
AgreesWithC == call # NoCall /\ Conforms(call.d, call.arg) => IsC(call.d, call.arg, Output(call))
=============================================================================
