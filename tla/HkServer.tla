------------------------------ MODULE HkServer ------------------------------
(***************************************************************************)
(* The HK server hk/main.cpp: one thread that receives a datagram, answers *)
(* it, and sends robots commands of its own.  It keeps one buffer, one     *)
(* client address and one set of flags for all robots.                     *)
(*                                                                         *)
(* The robots and the network are external.  Robots send the requests and  *)
(* answers of msg_type.h, in network order; the network loses, duplicates, *)
(* delays and reorders them, so that any datagram of any robot may be the  *)
(* next one received.                                                      *)
(***************************************************************************)
EXTENDS HkMsg

CONSTANTS
    Robots,   \* addresses robots send from
    Nowhere,  \* what is in client_addr before recvfrom fills it
    Numbers,  \* the orders, ids and positions in the robots' requests
    MaxTicks  \* bound: datagrams received

ASSUME HkServerAssumption ==
    /\ Nowhere \notin Robots
    /\ Numbers \subseteq Int
    /\ MaxTicks \in Nat

VARIABLES
    tick,              \* datagrams received
    flip,              \* interrupt commands made
    buffer,            \* what recvfrom wrote so far
    client_addr, client_len,
    registered, if_send_door_info,
    out,               \* what the last turn of the loop sent, in order
    got,               \* history: the datagram it handled
    told               \* history: to whom, and in which turn, the door info was sent

server == <<tick, flip, buffer, client_addr, client_len, registered, if_send_door_info>>
vars == <<server, out, got, told>>

Nothing == [from |-> Nowhere, type |-> "none", data |-> <<>>]

Init ==
    /\ tick = 0 /\ flip = 0
    /\ buffer = <<>> /\ client_addr = Nowhere /\ client_len = 0
    /\ registered = FALSE /\ if_send_door_info = FALSE
    /\ out = <<>> /\ got = Nothing /\ told = {}

-----------------------------------------------------------------------------
(* The robots. *)

\* A struct whose members are v's, and 0 where v has none, in network order.
Packed(S, v) ==
    FlattenSeq([k \in DOMAIN S |-> Net(IF k \in DOMAIN v THEN v[k] ELSE 0, S[k])])

Request(type, order, S, v) ==
    LET body == Packed(S, v)
    IN  Header(type, Sizeof(HK_HEADER_S) + Len(body), Net(order, 4)) \o body

\* What a robot may send with each type; it fills the members the server reads.
Requests(type) ==
    CASE type = "REGISTER_REQ" ->
           {Request(type, 0, REGISTER_REQ_S, <<AGV, 129, 860, 700, 1030, 1100>>)}
      [] type = "ROBOT_STATUS_REQ" ->
           {Request(type, 0, ROBOT_STATUS_INFO_S, <<AGV, 0, 9, 9, plan>>) : plan \in {0, 1}}
      [] type = "APPLY_CLEAN_AREA_REQ" ->
           {Request(type, 0, CLEAN_AREA_S, <<AGV, 1, id>>) : id \in Numbers}
      [] type = "APPLY_FOR_DOOR_REQ" ->
           {Request(type, o, APPLY_DOOR_REQ_S, <<AGV, 1, id, id + 1, id + 2>>) : o, id \in Numbers}
      [] type = "APPLY_TRAFFIC_RES_REQ" ->
           {Request(type, o, APPLY_TRAFFIC_RES_REQ_S, <<AGV, 1, id>>) : o, id \in Numbers}
      [] type = "APPLY_OFFLINE_REQ" ->
           {Request(type, o, APPLY_OFFLINE_REQ_S, <<AGV>>) : o \in Numbers}
      [] type = "APPLY_PLAN_REQ" ->
           {Request(type, o, PLAN_REQ_S, <<AGV, 0, 1, 2, 3, 1, ctrl>>) : o \in Numbers, ctrl \in {1, 2}}
      [] OTHER ->
           {Request(type, 1, TRP_CTRL_RESP_S, <<HK_SUCC, AGV>>)}

Asks    == {"REGISTER_REQ", "ROBOT_STATUS_REQ", "APPLY_CLEAN_AREA_REQ", "APPLY_FOR_DOOR_REQ",
            "APPLY_TRAFFIC_RES_REQ", "APPLY_OFFLINE_REQ", "APPLY_PLAN_REQ"}
Answers == {"TRP_CTRL_RSP"}

Datagrams == UNION {{[type |-> type, data |-> d] : d \in Requests(type)} : type \in Asks \cup Answers}

-----------------------------------------------------------------------------
(* One turn of the server's loop. *)

\* Mutant: recvfrom never fills client_addr.
Client_Unset(from) == client_addr

\* recvfrom stores as much of the sender's address as client_len says, which is
\* nothing the first time.
Client(from) == IF client_len = 0 THEN client_addr ELSE from

\* recvfrom overwrites the start of the buffer, and sets client_len.
Receive ==
    /\ tick < MaxTicks
    /\ tick' = tick + 1
    /\ \E r \in Robots, d \in Datagrams :
         /\ got' = [from |-> r, type |-> d.type, data |-> d.data]
         /\ buffer' = d.data \o SubSeq(buffer, Len(d.data) + 1, Len(buffer))
         /\ client_addr' = Client(r)
    /\ client_len' = 16

\* What the server reads of it.
Read(off, n) == At(buffer', off, n)

\* A datagram of this type is received.
Receives(type) == Receive /\ Read(8, 2) = Net(GS_MSG_TYPE[type], 2)

\* Mutant: flip advances in every turn.
Flips_EveryTurn == flip + 1

Flips == IF tick' % 3 = 0 THEN flip + 1 ELSE flip

\* sendto for each message of the turn, and for the interrupt command that
\* every third turn ends with.
Send(messages) ==
    /\ flip' = Flips
    /\ LET all == messages \o (IF tick' % 3 = 0 THEN <<gen_interrupt_ctrl_req(flip')>> ELSE <<>>)
       IN  out' = [i \in DOMAIN all |-> [to |-> client_addr', msg |-> all[i]]]

n_order == Read(4, 4)

KeepFlags == UNCHANGED <<registered, if_send_door_info, told>>

Register ==
    /\ Receives("REGISTER_REQ")
    /\ Send(<<gen_register_resp>>)
    /\ KeepFlags

\* Mutant: the door info follows every status.
FirstTime_Always == registered'

FirstTime == ~if_send_door_info /\ registered'

\* A status is answered, with a control request if the robot asked for a plan;
\* after the very first one the doors follow.
RobotStatus ==
    /\ Receives("ROBOT_STATUS_REQ")
    /\ registered' = TRUE
    /\ if_send_door_info' = TRUE
    /\ LET need_plan == Read(16 + 6, 1) # <<0>>
       IN  /\ Send(<<gen_robot_status_resp>>
                     \o (IF need_plan THEN <<gen_trp_ctrl_req>> ELSE <<>>)
                     \o (IF FirstTime THEN <<gen_door_info>> ELSE <<>>))
           /\ told' = IF FirstTime THEN told \cup {[to |-> client_addr', turn |-> tick']} ELSE told

ApplyCleanArea ==
    /\ Receives("APPLY_CLEAN_AREA_REQ")
    /\ Send(<<gen_apply_clean_area_resp(Bswap(Read(20, 4)))>>)
    /\ KeepFlags

\* Mutant: the second coordinate is read where the first one is.
DoorFields_SameOffset == <<Read(20, 4), Read(24, 4), Read(24, 4)>>

\* n_door_id, n_x and n_y.
DoorFields == <<Read(20, 4), Read(24, 4), Read(28, 4)>>

ApplyForDoor ==
    /\ Receives("APPLY_FOR_DOOR_REQ")
    /\ Send(<<gen_apply_for_door_resp(DoorFields[1], DoorFields[2], DoorFields[3], n_order)>>)
    /\ KeepFlags

ApplyTrafficRes ==
    /\ Receives("APPLY_TRAFFIC_RES_REQ")
    /\ Send(<<gen_apply_traffic_res_resp(n_order, Read(20, 4))>>)
    /\ KeepFlags

ApplyOffline ==
    /\ Receives("APPLY_OFFLINE_REQ")
    /\ Send(<<gen_apply_offine_resp(n_order)>>)
    /\ KeepFlags

\* A plan of control type 1 is answered and then given a path.
ApplyPlan ==
    /\ Receives("APPLY_PLAN_REQ")
    /\ LET type == Read(Sizeof(HK_HEADER_S) + Sizeof(PLAN_REQ_S) - 2, 2)
       IN  Send(<<gen_apply_plan_resp(n_order)>>
                  \o (IF type = Net(1, 2) THEN <<gen_path_plan_req>> ELSE <<>>))
    /\ KeepFlags

\* An answer of a robot to a command: no branch for it.
NoBranch ==
    /\ Receive
    /\ \A type \in Asks : Read(8, 2) # Net(GS_MSG_TYPE[type], 2)
    /\ Send(<<>>)
    /\ KeepFlags

Next ==
    \/ Register \/ RobotStatus \/ ApplyCleanArea \/ ApplyForDoor
    \/ ApplyTrafficRes \/ ApplyOffline \/ ApplyPlan \/ NoBranch

Spec == Init /\ [][Next]_vars

-----------------------------------------------------------------------------
(* Properties. *)

Byte == 0 .. 255

\* Every variable holds a value of its type, and a turn sends at most the answer,
\* two commands and the interrupt command.
TypeOK ==
    /\ tick \in 0 .. MaxTicks /\ flip \in 0 .. MaxTicks
    /\ buffer \in Seq(Byte) /\ Len(buffer) <= 1024
    /\ client_addr \in Robots \cup {Nowhere} /\ client_len \in {0, 16}
    /\ registered \in BOOLEAN /\ if_send_door_info \in BOOLEAN
    /\ Len(out) <= 4
    /\ \A i \in DOMAIN out : /\ out[i].to \in Robots \cup {Nowhere}
                             /\ out[i].msg \in [bytes : Seq(Byte), len : 16 .. 1024]
    /\ got.from \in Robots \cup {Nowhere}
    /\ told \subseteq [to : Robots \cup {Nowhere}, turn : 1 .. MaxTicks]

Type(i)  == At(out[i].msg.bytes, 8, 2)
Is(i, type) == Type(i) = Net(GS_MSG_TYPE[type], 2)

\* Member k of the struct S that follows the header.
Member(bytes, S, k) == At(bytes, 16 + Offset(S, k), S[k])

\* The declared length of every datagram sent is what is written and what sendto
\* is given: sizeof counts no padding that the field-by-field copies leave out
\* (msg_gen.cpp, 11 generators; msg_type.h).
LengthHonest ==
    \A i \in DOMAIN out :
        LET m == out[i].msg IN m.len = Len(m.bytes) /\ At(m.bytes, 10, 2) = Net(m.len, 2)

\* An answer repeats the order, the id and the position of the request, as the
\* robot that decodes it by the answer's struct finds them, though main reads
\* them at literal offsets and swaps some and not others (main.cpp:99-174).
Repeats ==
    LET same(S, k, R, j) == Member(out[1].msg.bytes, S, k) = Member(got.data, R, j)
    IN  /\ got.type \in {"APPLY_FOR_DOOR_REQ", "APPLY_TRAFFIC_RES_REQ", "APPLY_OFFLINE_REQ",
                         "APPLY_PLAN_REQ"}
              => At(out[1].msg.bytes, 4, 4) = At(got.data, 4, 4)
        /\ got.type = "APPLY_CLEAN_AREA_REQ" => same(APPLY_CLEAN_RESP_S, 3, CLEAN_AREA_S, 3)
        /\ got.type = "APPLY_TRAFFIC_RES_REQ" =>
              same(APPLY_TRAFFIC_RES_RESP_S, 3, APPLY_TRAFFIC_RES_REQ_S, 3)
        /\ got.type = "APPLY_FOR_DOOR_REQ" =>
              \A k \in 3 .. 5 : same(APPLY_DOOR_RESP_S, k, APPLY_DOOR_REQ_S, k)

\* A request, also one that comes twice or late, is answered in the turn that
\* receives it, first, once, with the type that follows it and what it asked
\* for; nothing else is an answer; and a command that depends on what the robot
\* wants is sent only if it wants it (main.cpp:55-189).
AnswersMatch ==
    /\ got.type \in Asks =>
         /\ out # <<>>
         /\ Type(1) = Net(GS_MSG_TYPE[got.type] + 1, 2)
         /\ Repeats
    /\ \A i \in DOMAIN out, ask \in Asks :
         Type(i) = Net(GS_MSG_TYPE[ask] + 1, 2) => i = 1 /\ got.type = ask
    /\ (\E i \in DOMAIN out : Is(i, "TRP_CTRL_REQ")) <=>
         (got.type = "ROBOT_STATUS_REQ" /\ Member(got.data, ROBOT_STATUS_INFO_S, 5) # <<0>>)
    /\ (\E i \in DOMAIN out : Is(i, "PATH_PLAN_REQ")) <=>
         (got.type = "APPLY_PLAN_REQ" /\ Member(got.data, PLAN_REQ_S, 7) = Net(1, 2))

\* With several robots on one socket and one client_addr, whatever a turn sends
\* goes to the robot it heard from; only in the first turn it goes nowhere,
\* because recvfrom is told that client_addr has no room (main.cpp:22, 46-47).
SentToSender ==
    \A i \in DOMAIN out : out[i].to = IF tick = 1 THEN Nowhere ELSE got.from

\* Interrupt commands are sent in every third turn, last, and their types run
\* through 1, 2, 0 without a gap, whatever the robots send (main.cpp:191-201,
\* msg_gen.cpp:580-583).
InterruptsInTurn ==
    /\ tick > 0 /\ tick % 3 = 0 => out # <<>> /\ Is(Len(out), "INTERRUPT_CTRL_REQ")
    /\ \A i \in DOMAIN out :
         Is(i, "INTERRUPT_CTRL_REQ") =>
             /\ i = Len(out) /\ tick % 3 = 0
             /\ Member(out[i].msg.bytes, INTERRUPT_CMD_S, 2) = Net((tick \div 3) % 3, 2)

\* The door info is sent once in the server's life, with the answer to the first
\* status; it reaches the robot that sent it, unless that was the first datagram
\* of all, whose address recvfrom does not store (main.cpp:22, 79-95).
DoorInfoSentOnce ==
    /\ if_send_door_info <=> told # {}
    /\ \A a, b \in told : a = b
    /\ \A d \in told : d.to \in Robots <=> d.turn > 1
=============================================================================
