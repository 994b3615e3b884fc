------------------------------ MODULE JwServer ------------------------------
(***************************************************************************)
(* The path server of jw/srv.cc: one socket, one client address and two    *)
(* counters for all clients.  A datagram is JSON or it is not; an answer   *)
(* is JSON with the fields kept here.                                      *)
(***************************************************************************)
EXTENDS Naturals, Sequences

CONSTANTS
    Clients,
    Nowhere,     \* an address nobody filled in
    Ids,         \* the ids of path requests
    MaxTurns     \* bound: datagrams

JwServerAssumption == Nowhere \notin Clients /\ MaxTurns \in Nat

VARIABLES
    client_addr,
    client_len,          \* 0, or the size of an address
    global_path_tick,
    block_tick,
    process,             \* running, or aborted by an assertion of rapidjson
    sent,                \* every datagram the server sent, with its address
    received             \* history: every datagram it got

vars == <<client_addr, client_len, global_path_tick, block_tick, process, sent, received>>

\* A path request; what the code takes for granted and is not so (no integer id,
\* no object, a type that is no string); other typed messages; an object without
\* a type, or no JSON.
Requests == {[type |-> "pathReq", id |-> id] : id \in Ids}
Messages == Requests \cup {[type |-> t] : t \in {"unexpected", "info", "other", "untyped"}}

Typed(m) == m.type \in {"pathReq", "info", "other"}

Init ==
    /\ client_addr = Nowhere
    /\ client_len = 0
    /\ global_path_tick = 0
    /\ block_tick = 0
    /\ process = "running"
    /\ sent = <<>>
    /\ received = <<>>

\* Mutant: the address is always stored.
Sender_Always(c) == c

\* recvfrom stores as much of the address as client_len says, none at first.
Sender(c) == IF client_len = 0 THEN client_addr ELSE c

-----------------------------------------------------------------------------
\* Mutant: the counter goes on before the result.
Result_Next(tick) == (tick + 1) % 4

\* 3 is no result.
Result(tick) == tick % 4

\* After block_tick++.
Block(tick) == (tick + 1) % 2 = 0

Answer(m, to) ==
    CASE m.type = "pathReq" -> <<[to |-> to, type |-> "pathResp", id |-> m.id,
                                  result |-> Result(block_tick), block |-> Block(block_tick)]>>
      [] m.type = "info"    -> <<[to |-> to, type |-> "hotInfo"]>>
      [] OTHER              -> <<>>

\* Mutant: every datagram counts.
Counts_All(m) == TRUE

\* handle_msg has not returned early.
Counts(m) == Typed(m)

GlobalPath(tick, to) ==
    IF tick % 3 = 0 THEN <<[to |-> to, type |-> "globalpath", serverpathid |-> tick]>> ELSE <<>>

\* One turn of main's loop.
Receive(c, m) ==
    /\ process = "running"
    /\ Len(received) < MaxTurns
    /\ received' = Append(received, [from |-> c, msg |-> m])
    /\ client_addr' = Sender(c)
    /\ client_len' = 16

Turn(c, m) ==
    /\ m.type # "unexpected"
    /\ Receive(c, m)
    /\ block_tick' = IF m.type = "pathReq" THEN block_tick + 1 ELSE block_tick
    /\ IF Counts(m)
       THEN /\ global_path_tick' = global_path_tick + 1
            /\ sent' = sent \o Answer(m, client_addr') \o GlobalPath(global_path_tick', client_addr')
       ELSE UNCHANGED <<global_path_tick, sent>>
    /\ UNCHANGED process

\* FindMember of what is no object, GetString of what is no string, and GetInt of
\* what is no integer.
Assertion(c, m) ==
    /\ m.type = "unexpected"
    /\ Receive(c, m)
    /\ process' = "aborted"
    /\ UNCHANGED <<global_path_tick, block_tick, sent>>

Next == \E c \in Clients, m \in Messages : Turn(c, m) \/ Assertion(c, m)

Spec == Init /\ [][Next]_vars

-----------------------------------------------------------------------------
Addresses == Clients \cup {Nowhere}

TypeOK ==
    /\ client_addr \in Addresses
    /\ client_len \in {0, 16} /\ (client_len = 0 <=> received = <<>>)
    /\ global_path_tick \in 0 .. Len(received) /\ block_tick \in 0 .. global_path_tick
    /\ process \in {"running", "aborted"}
    /\ \A n \in DOMAIN sent : sent[n].to \in Addresses

\* The elements of s that are in T, in their order.
Select(s, T) ==
    LET chosen[n \in 0 .. Len(s)] ==
            IF n = 0 THEN <<>>
            ELSE IF s[n] \in T THEN Append(chosen[n - 1], s[n]) ELSE chosen[n - 1]
    IN  chosen[Len(s)]

Responses(to) == [to : to, type : {"pathResp"}, id : Ids, result : Nat, block : BOOLEAN]
Paths         == [to : Addresses, type : {"globalpath"}, serverpathid : Nat]
TypedData     == [from : Clients, msg : {m \in Messages : Typed(m)}]

\* The ids client c asked for, but for the very first datagram, whose answer has
\* no address to go to.
Asked(c) ==
    LET mine == Select(Tail(received), [from : {c}, msg : Requests])
    IN  [n \in DOMAIN mine |-> mine[n].msg.id]

\* Each client gets an answer to each of its path requests, with its id, in its
\* order, and to no other client's, though there is only one client address
\* (srv.cc:52-89, 199-204).
RequestsAnswered ==
    received # <<>> =>
        \A c \in Clients :
            LET answers == Select(sent, Responses({c}))
            IN  [n \in DOMAIN answers |-> answers[n].id] = Asked(c)

\* The path answers of all clients go round the four results without a gap, and
\* those with blocked points are the ones that say so, 1 or nothing at all, though
\* the counter goes on between the two (srv.cc:58-80).
BlockedTold ==
    LET answers == Select(sent, Responses(Addresses))
    IN  \A n \in DOMAIN answers :
            /\ answers[n].result = (n - 1) % 4
            /\ answers[n].block <=> answers[n].result \in {1, 3}

\* A global path follows every third typed datagram, whoever sent it, and goes to
\* its sender; datagrams handle_msg returns from early do not count, and the ids
\* go up by three (srv.cc:139-173).
PathEveryThird ==
    LET paths == Select(sent, Paths)
        typed == Select(received, TypedData)
    IN  /\ Len(paths) = Len(typed) \div 3
        /\ \A n \in DOMAIN paths :
               paths[n].serverpathid = 3 * n /\ paths[n].to = typed[3 * n].from
=============================================================================
