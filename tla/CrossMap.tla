------------------------------ MODULE CrossMap ------------------------------
(***************************************************************************)
(* test_cross_map (tmp/tmp.cc): the way from one crossing to another along *)
(* the first rule that has both, as the points in the crossings' files.    *)
(* The files may be missing or unreadable, and the process may have no     *)
(* descriptor left: neither function closes what it opens.  A member that  *)
(* is not there, or no string, ends the process in rapidjson's assertions. *)
(***************************************************************************)
EXTENDS Integers, Sequences, FiniteSets, SequencesExt

CONSTANTS
    Ids,         \* crossings
    Broken,      \* stands for a crossing or a point where there is no string
    Documents,   \* the contents cross_rule.json may have
    Maps,        \* the contents the crossings' files may have
    MaxFiles,    \* RLIMIT_NOFILE
    MaxCalls     \* bound: calls of test_cross_map

\* A file is a JSON array of entries, other JSON, unreadable, or not there.  An entry
\* of the rules without a "rule" is one whose first crossing is Broken; one whose
\* "rule" is no array is empty.
Kinds == {"array", "other", "bad", "missing"}

CrossMapAssumption ==
    /\ Broken \notin Ids
    /\ \A d \in Documents : d.kind \in Kinds /\ d.entries \in Seq(Seq(Ids \cup {Broken}))
    /\ \A m \in Maps : \A id \in Ids :
           m[id].kind \in Kinds /\ m[id].entries \in Seq(ToSet(m[id].entries))
    /\ MaxFiles \in Nat /\ MaxCalls \in Nat

VARIABLES
    cross_rule,            \* cross_rule.json
    cross,                 \* each crossing's cross.json
    open,                  \* descriptors of files that were opened
    pc,                    \* idle, the loop test_cross_map is in, or aborted
    from, to,
    i, j, k,               \* the rule, and the places in it, counted from 1
    from_index, to_index,  \* 0 where the code has -1
    result,
    answer,                \* what the last call returned
    full,                  \* history: a call found no descriptor
    calls

files == <<cross_rule, cross>>
vars  == <<files, open, pc, from, to, i, j, k, from_index, to_index, result, answer, full, calls>>

Init ==
    /\ cross_rule \in Documents /\ cross \in Maps
    /\ open = 0
    /\ pc = "idle"
    /\ from = CHOOSE x \in Ids : TRUE
    /\ to = from
    /\ i = 1 /\ j = 1 /\ k = 0 /\ from_index = 0 /\ to_index = 0
    /\ result = <<>>
    /\ answer = "none"
    /\ full = FALSE
    /\ calls = 0

rule == cross_rule.entries[i]

\* fopen, which the code never undoes.
CanOpen == open < MaxFiles
Open    == open' = open + 1

Return(a) == answer' = a /\ pc' = "idle"
Abort     == pc' = "aborted"

-----------------------------------------------------------------------------
(* test_cross_map as far as the rule.                                       *)

Call(x, y) ==
    /\ pc = "idle"
    /\ calls < MaxCalls
    /\ calls' = calls + 1
    /\ from' = x /\ to' = y
    /\ i' = 1 /\ j' = 1 /\ k' = 0 /\ from_index' = 0 /\ to_index' = 0
    /\ result' = <<>>
    /\ \/ cross_rule.kind = "missing" /\ Return("false") /\ UNCHANGED <<open, full>>
       \/ /\ cross_rule.kind # "missing" /\ ~CanOpen
          /\ full' = TRUE
          /\ Return("false")
          /\ UNCHANGED open
       \/ /\ cross_rule.kind # "missing" /\ CanOpen
          /\ Open
          /\ \/ cross_rule.kind = "bad" /\ Return("false")
             \/ cross_rule.kind = "other" /\ Return("true")
             \/ cross_rule.kind = "array" /\ pc' = "rules" /\ answer' = "none"
          /\ UNCHANGED full
    /\ UNCHANGED files

\* for j: the last place of each.
Scan ==
    /\ pc = "rules"
    /\ i <= Len(cross_rule.entries) /\ j <= Len(rule)
    /\ rule[j] # Broken
    /\ from_index' = IF rule[j] = from THEN j ELSE from_index
    /\ to_index'   = IF rule[j] = to   THEN j ELSE to_index
    /\ j' = j + 1
    /\ UNCHANGED <<files, open, pc, from, to, i, k, result, answer, full, calls>>

RuleAssertion ==
    /\ pc = "rules"
    /\ i <= Len(cross_rule.entries) /\ j <= Len(rule)
    /\ rule[j] = Broken
    /\ Abort
    /\ UNCHANGED <<files, open, from, to, i, j, k, from_index, to_index, result, answer, full, calls>>

\* Mutant: a place found in one rule is kept for the next.
IndexOfNextRule_Kept(index) == index

IndexOfNextRule(index) == 0

Matches == from_index # 0 /\ to_index # 0

\* Mutant: continue without the loop's increment.
RuleAfter_Same == i

RuleAfter == i + 1

NoMatch ==
    /\ pc = "rules"
    /\ i <= Len(cross_rule.entries) /\ j > Len(rule)
    /\ ~Matches
    /\ i' = RuleAfter /\ j' = 1
    /\ from_index' = IndexOfNextRule(from_index)
    /\ to_index' = IndexOfNextRule(to_index)
    /\ UNCHANGED <<files, open, pc, from, to, k, result, answer, full, calls>>

NoRule ==
    /\ pc = "rules"
    /\ i > Len(cross_rule.entries)
    /\ Return("false")
    /\ UNCHANGED <<files, open, from, to, i, j, k, from_index, to_index, result, full, calls>>

Match ==
    /\ pc = "rules"
    /\ i <= Len(cross_rule.entries) /\ j > Len(rule)
    /\ Matches
    /\ k' = from_index
    /\ pc' = "walk"
    /\ UNCHANGED <<files, open, from, to, i, j, from_index, to_index, result, answer, full, calls>>

-----------------------------------------------------------------------------
(* The walk along the rule, forwards or backwards, and load_point.          *)

NextPlace == IF from_index < to_index THEN k + 1 ELSE k - 1

\* load_point: the entries of k's file that its loop does not pass, those for the
\* crossing that comes next and those it cannot compare.
Found == LET c == cross[rule[k]]
         IN  IF c.kind = "array"
             THEN {e \in DOMAIN c.entries : c.entries[e].neighbor \in {rule[NextPlace], Broken}}
             ELSE {}

IsBroken(entry) == entry.neighbor = Broken \/ entry.info = Broken

Walk ==
    /\ pc = "walk" /\ k # to_index
    /\ cross[rule[k]].kind # "missing" /\ CanOpen
    /\ Open
    /\ \/ \E e \in Found :
            /\ \A f \in Found : e <= f
            /\ LET entry == cross[rule[k]].entries[e]
               IN  \/ /\ ~IsBroken(entry)
                      /\ result' = Append(result, entry.info)
                      /\ k' = NextPlace
                      /\ UNCHANGED <<pc, answer>>
                   \/ IsBroken(entry) /\ Abort /\ UNCHANGED <<result, k, answer>>
       \/ Found = {} /\ Return("false") /\ UNCHANGED <<result, k>>
    /\ UNCHANGED <<files, from, to, i, j, from_index, to_index, full, calls>>

CannotOpen ==
    /\ pc = "walk" /\ k # to_index
    /\ \/ cross[rule[k]].kind = "missing" /\ UNCHANGED full
       \/ cross[rule[k]].kind # "missing" /\ ~CanOpen /\ full' = TRUE
    /\ Return("false")
    /\ UNCHANGED <<files, open, from, to, i, j, k, from_index, to_index, result, calls>>

Arrive ==
    /\ pc = "walk" /\ k = to_index
    /\ Return("true")
    /\ UNCHANGED <<files, open, from, to, i, j, k, from_index, to_index, result, full, calls>>

Step == Scan \/ RuleAssertion \/ NoMatch \/ NoRule \/ Match \/ Walk \/ CannotOpen \/ Arrive

Next == Step \/ \E x, y \in Ids : Call(x, y)

Spec == Init /\ [][Next]_vars

\* A call goes on until it returns or the process ends.
Fairness == WF_vars(Step)

-----------------------------------------------------------------------------
(* The reference: the first rule that has both crossings, the way between   *)
(* them, and the points it needs.                                           *)

Has(r, x)    == \E p \in DOMAIN r : r[p] = x
Place(r, x)  == CHOOSE p \in DOMAIN r : r[p] = x /\ \A q \in p + 1 .. Len(r) : r[q] # x
Way(r, x, y) == IF Place(r, x) <= Place(r, y)
                THEN SubSeq(r, Place(r, x), Place(r, y))
                ELSE Reverse(SubSeq(r, Place(r, y), Place(r, x)))

HasPoint(x, y) == cross[x].kind = "array" /\ \E e \in ToSet(cross[x].entries) : e.neighbor = y
Point(x, y)    == LET es == cross[x].entries
                  IN  es[CHOOSE p \in DOMAIN es :
                             /\ es[p].neighbor = y
                             /\ \A q \in 1 .. p - 1 : es[q].neighbor # y].info

First(p) ==
    /\ Has(cross_rule.entries[p], from) /\ Has(cross_rule.entries[p], to)
    /\ \A q \in 1 .. p - 1 : ~(Has(cross_rule.entries[q], from) /\ Has(cross_rule.entries[q], to))

\* The points on the way, if there is one and each has a point.
IsAnswer(points) ==
    \E p \in DOMAIN cross_rule.entries :
        /\ First(p)
        /\ LET way == Way(cross_rule.entries[p], from, to)
           IN  /\ Len(points) = Len(way) - 1
               /\ \A n \in DOMAIN points :
                      HasPoint(way[n], way[n + 1]) /\ points[n] = Point(way[n], way[n + 1])

NoAnswer ==
    \A p \in DOMAIN cross_rule.entries : First(p) =>
        LET way == Way(cross_rule.entries[p], from, to)
        IN  \E n \in 1 .. Len(way) - 1 : ~HasPoint(way[n], way[n + 1])

-----------------------------------------------------------------------------
TypeOK ==
    /\ cross_rule \in Documents /\ cross \in Maps
    /\ open \in 0 .. MaxFiles
    /\ pc \in {"idle", "rules", "walk", "aborted"}
    /\ from \in Ids /\ to \in Ids
    /\ i \in Nat \ {0} /\ j \in Nat \ {0}
    /\ pc = "walk" => {k, from_index, to_index} \subseteq DOMAIN rule
    /\ answer \in {"none", "true", "false"}
    /\ full \in BOOLEAN
    /\ calls \in 0 .. MaxCalls

\* A call that returns true has walked the first rule which has both crossings,
\* forwards or backwards, and collected each point once in the order of the way;
\* one that returns false could not have, unless descriptors have run out; the
\* answers of earlier calls and earlier rules play no part (tmp.cc:153-230).
AnswerIsWay ==
    pc = "idle" =>
        /\ answer = "true" /\ cross_rule.kind = "array" => IsAnswer(result)
        /\ answer = "false" /\ cross_rule.kind = "array" /\ ~full => NoAnswer

\* Every call returns, or ends in an assertion about what the files hold, whichever
\* way it walks and at both ends of a rule (tmp.cc:176-217).
CallReturns == pc \in {"rules", "walk"} ~> pc \in {"idle", "aborted"}
=============================================================================
