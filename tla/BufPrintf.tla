----------------------------- MODULE BufPrintf -----------------------------
(***************************************************************************)
(* A buffer_t (lib/bufprintf.h, lib/bufprintf.cc): bufinit gives it an     *)
(* array, and bufprintf and bufprintf_asyncsignalsafe append to it what a  *)
(* format makes of its arguments.  Both go through __bufprintf; what they  *)
(* hand it as formatter differs in the conversions, not in what it does    *)
(* with the array: it stores what fits and a 0 behind it, and returns how  *)
(* many characters there would have been.  It is taken to succeed:         *)
(* vsnprintf fails for wide characters it cannot encode, which no format   *)
(* of the code has, and for more than INT_MAX characters.                  *)
(***************************************************************************)
EXTENDS Integers, Sequences

CONSTANTS
    Size,        \* ERROR_MAX_RECORD_SIZE
    Calls,       \* the formats with their arguments
    Output(_),   \* the characters a call makes, had it room
    Char, NUL,
    Garbage,     \* what a byte nobody has written holds
    NoCall,
    MaxPrints    \* bound: calls on one buffer

ASSUME BufPrintfAssumption ==
    /\ Size \in Nat \ {0}
    /\ NUL \notin Char /\ Garbage \notin Char /\ Garbage # NUL
    /\ \A c \in Calls : Output(c) \in Seq(Char)
    /\ MaxPrints \in Nat

VARIABLES
    memory,      \* the array, and one byte before and behind it
    data,        \* where buf->data points
    available,   \* buf->available
    rc,          \* what the last call returned
    text,        \* history: everything that was to be printed
    call,        \* history: the last call
    prints       \* history: how many calls there were

vars == <<memory, data, available, rc, text, call, prints>>

Bytes == -1 .. Size

\* bufinit.
Init ==
    /\ memory = [a \in Bytes |-> IF a = 0 THEN NUL ELSE Garbage]
    /\ data = 0
    /\ available = Size
    /\ rc = 0
    /\ text = <<>>
    /\ call = NoCall
    /\ prints = 0

-----------------------------------------------------------------------------
\* Mutants: the 0 is stored behind the last byte; the last byte is not used.
End_Behind(buf, size) == buf + size
End_Early(buf, size)  == buf + size - 2

\* be
End(buf, size) == buf + size - 1

\* X_STORE_PRT for each character of out, and the 0.
Stored(buf, size, out) ==
    [a \in Bytes |->
        CASE a >= buf /\ a < End(buf, size) /\ a - buf < Len(out) -> out[a - buf + 1]
          [] a = buf + Len(out) /\ a < End(buf, size)             -> NUL
          [] a = End(buf, size) /\ Len(out) >= size - 1           -> NUL
          [] OTHER                                                 -> memory[a]]

\* "number of characters actually printed to buf"
Written(nc) == IF nc >= available THEN available - 1 ELSE nc

AvailableAfter(nc) == available - nc

Bufprintf(c) ==
    /\ prints < MaxPrints
    /\ LET out == Output(c)
           nc  == Written(Len(out))
       IN  /\ memory' = Stored(data, available, out)
           /\ data' = data + nc
           /\ available' = AvailableAfter(nc)
           /\ rc' = nc
           /\ text' = text \o out
    /\ call' = c
    /\ prints' = prints + 1

Next == \E c \in Calls : Bufprintf(c)

Spec == Init /\ [][Next]_vars

-----------------------------------------------------------------------------
TypeOK ==
    /\ memory \in [Bytes -> Char \cup {NUL, Garbage}]
    /\ data \in 0 .. Size - 1 /\ available \in 1 .. Size /\ rc \in 0 .. Size - 1
    /\ text \in Seq(Char)
    /\ call \in Calls \cup {NoCall}
    /\ prints \in 0 .. MaxPrints

\* What is available is the rest of the array, 0 included, however much was
\* printed before: the next call, which computes its end as available - 1 of an
\* unsigned number, stays in it (bufprintf.cc:10-15,
\* snprintf_asyncsignalsafe.cc:106).
RestIsAvailable == data + available = Size

\* No byte outside the array is ever written (snprintf_asyncsignalsafe.cc:14-25,
\* 331-335).
InBounds == memory[-1] = Garbage /\ memory[Size] = Garbage

Fits == IF Len(text) < Size THEN Len(text) ELSE Size - 1

\* The array holds a string: the beginning of what was printed, as much of it as
\* fits, whole characters in their order without a gap, and a 0 (bufprintf.cc:6-17).
HoldsBeginning ==
    /\ \A a \in 0 .. Fits - 1 : memory[a] = text[a + 1]
    /\ memory[Fits] = NUL

\* What a call returns is how many characters it added: the ones printed so far
\* add up to where the next one writes (bufprintf.h:38-39).
ReturnsAdded == [][rc' = data' - data /\ data' = Fits']_vars
=============================================================================
