----------------------------- MODULE MCPrograms -----------------------------
(* Small instances of the programs that run alone and do not meet: the edge *)
(* detector, the crossing rules, the path server.  A behaviour is one       *)
(* program's, and the others stay as they began.                            *)
EXTENDS TestEdge, Sequences, SequencesExt

CONSTANTS
    Clients, Nowhere, RequestIds, MaxTurns,         \* JwServer
    Crossings, Broken, Documents, Maps, MaxFiles, MaxCalls  \* CrossMap

VARIABLES
    program,
    cross_rule, cross, open, pc, from, to, i, j, k, from_index, to_index, points, answer,
    full, calls,
    client_addr, client_len, global_path_tick, block_tick, process, sent, received

-----------------------------------------------------------------------------
(* The rules of map_cross and rules that meet a crossing twice, repeat one, *)
(* are empty or hold something that is no string; files that lack a         *)
(* neighbor, list one twice, lack a string, are unreadable or not there.    *)

Array(es) == [kind |-> "array", entries |-> es]
NoFile(kind) == [kind |-> kind, entries |-> <<>>]

MCDocuments ==
    {NoFile("missing"), NoFile("bad"), NoFile("other"), Array(<<>>),
     Array(<<<<1, 2, 3>>, <<1, 3, 4>>>>),
     Array(<<<<2, 1>>, <<>>, <<3, 2, 1, 3>>, <<4, 1>>>>),
     Array(<<<<4, 4, 2>>, <<2, 3>>>>),
     Array(<<<<1, 2>>, <<3, Broken, 2>>, <<2, 3>>>>)}

\* Crossing x's file: a point for each neighbor in ns, in ascending order, and a
\* second one for the first.
File(x, ns) ==
    LET Entry(y, n) == [neighbor |-> y, info |-> <<x, y, n>>]
        sorted == SetToSortSeq(ns, <)
    IN  Array([p \in DOMAIN sorted |-> Entry(sorted[p], 1)] \o <<Entry(sorted[1], 2)>>)

Full == [x \in Crossings |-> File(x, Crossings)]

MCMaps ==
    {Full} \cup {[Full EXCEPT ![x] = NoFile(kind)] : x \in Crossings, kind \in {"missing", "bad", "other"}}
           \cup {[Full EXCEPT ![x] = File(x, Crossings \ {y})] : x \in Crossings, y \in Crossings}
           \cup {[Full EXCEPT ![x].entries[2].neighbor = Broken] : x \in Crossings}
           \cup {[Full EXCEPT ![x].entries[3].info = Broken] : x \in Crossings}

-----------------------------------------------------------------------------
C == INSTANCE CrossMap WITH Ids <- Crossings, result <- points
J == INSTANCE JwServer WITH Ids <- RequestIds

ASSUME ProgramsAssumption == C!CrossMapAssumption /\ J!JwServerAssumption

crossmap == <<cross_rule, cross, open, pc, from, to, i, j, k, from_index, to_index, points, answer,
              full, calls>>
jwserver == <<client_addr, client_len, global_path_tick, block_tick, process, sent, received>>

\* The other programs have no files.
MCInit ==
    /\ Init /\ J!Init /\ C!Init
    /\ \/ program = "test_cross_map"
       \/ program \in {"test_edge", "srv"} /\ cross_rule = NoFile("missing") /\ cross = Full

MCNext ==
    /\ \/ program = "test_edge"      /\ Next   /\ UNCHANGED <<crossmap, jwserver>>
       \/ program = "test_cross_map" /\ C!Next /\ UNCHANGED <<vars, jwserver>>
       \/ program = "srv"            /\ J!Next /\ UNCHANGED <<vars, crossmap>>
    /\ UNCHANGED program

MCSpec == MCInit /\ [][MCNext]_<<program, vars, crossmap, jwserver>> /\ C!Fairness

\* test_cross_map returns the points of the reference's way, or false where there
\* is none (tmp.cc:153-230).
AnswerIsWay == C!AnswerIsWay

\* test_cross_map returns, or ends in an assertion (tmp.cc:176-217).
CallReturns == C!CallReturns

\* Each client gets the answers to its own path requests, in order (jw/srv.cc:52-89).
RequestsAnswered == J!RequestsAnswered

\* Results go round, and the answers with blocked points say so (jw/srv.cc:58-80).
BlockedTold == J!BlockedTold

\* Every third typed datagram is followed by a global path, to its sender
\* (jw/srv.cc:139-173).
PathEveryThird == J!PathEveryThird
=============================================================================
