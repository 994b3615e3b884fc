------------------------------- MODULE HkMsg -------------------------------
(***************************************************************************)
(* The datagrams the HK server and its robots exchange: the structs of     *)
(* hk/msg_type.h and the generators of hk/msg_gen.cpp.  A datagram is a    *)
(* sequence of bytes.  The server runs on a little-endian machine; what it *)
(* does not pass through bswap_16 or bswap_32 keeps that machine's order.  *)
(***************************************************************************)
EXTENDS Integers, SequencesExt

(* Bytes. *)

\* What each byte of an integer counts.
Weight == <<1, 256, 65536, 16777216>>

\* An integer in w bytes as the machine stores it (two's complement).
Host(v, w) == [i \in 1 .. w |-> (v \div Weight[i]) % 256]

\* bswap_16 and bswap_32, by the width of what they are given.
Bswap(b) == Reverse(b)

Net(v, w) == Bswap(Host(v, w))

\* memcpy of n bytes from offset off.
At(bytes, off, n) == SubSeq(bytes, off + 1, off + n)

-----------------------------------------------------------------------------
(* Structs: the sizes of their members (an array is its elements), each     *)
(* aligned to its own size.                                                 *)

RoundUp(off, a) == ((off + a - 1) \div a) * a

\* Where the members end, and at 0 where the struct begins.
Ends(S) ==
    LET end[k \in 0 .. Len(S)] == IF k = 0 THEN 0 ELSE RoundUp(end[k - 1], S[k]) + S[k]
    IN  end

Sizeof(S) == RoundUp(Ends(S)[Len(S)], Max(ToSet(S)))

\* offsetof the k-th member.
Offset(S, k) == RoundUp(Ends(S)[k - 1], S[k])

POINT_S     == <<4, 4>>
RECTANGLE_S == POINT_S \o POINT_S
HK_HEADER_S == <<1, 1, 1, 1, 4, 2, 2, 1, 1, 1, 1>>

\* From the server to a robot.
DOOR_INFO_S              == <<4>> \o POINT_S
INTERRUPT_CMD_S          == <<2, 2>>
PATH_PLAN_REQ_S          == <<2, 2, 4, 4, 2, 2, 4, 4, 4>>
COMMON_RESP_S            == <<4, 2, 1, 1>>
APPLY_CLEAN_RESP_S       == <<2, 2, 4>>
TRP_CTRL_REQ_S           == <<2, 2>> \o POINT_S \o <<2, 2, 4>>
APPLY_DOOR_RESP_S        == <<2, 2, 4>> \o POINT_S \o <<4>>
APPLY_TRAFFIC_RES_RESP_S == <<2, 2, 4, 4>>
APPLY_OFFLINE_RESP_S     == <<4, 2, 1, 1>>

\* From a robot to the server (a status without path points).
REGISTER_REQ_S          == <<2, 2, 2, 2, 2, 2>>
ROBOT_STATUS_INFO_S     == <<2, 2, 1, 1, 1, 1, 4, 4, 4, 1, 1, 2, 2, 2>>
CLEAN_AREA_S            == <<2, 2, 4>> \o RECTANGLE_S
APPLY_DOOR_REQ_S        == <<2, 2, 4>> \o POINT_S
APPLY_TRAFFIC_RES_REQ_S == <<2, 2, 4>> \o RECTANGLE_S
APPLY_OFFLINE_REQ_S     == <<2, 2>>
PLAN_REQ_S              == <<2, 2, 4, 4, 4, 2, 2>>
TRP_CTRL_RESP_S         == <<4, 2, 1, 1>>

\* E_GS_MSG_TYPE: a request and, after it, the answer to it.
GS_MSG_TYPE ==
    [REGISTER_REQ           |->  1,  REGISTER_RSP          |->  2,
     APPLY_CLEAN_AREA_REQ   |->  3,  APPLY_CLEAN_AREA_RSP  |->  4,
     ROBOT_STATUS_REQ       |->  5,  ROBOT_STATUS_RSP      |->  6,
     TRP_CTRL_REQ           |->  7,  TRP_CTRL_RSP          |->  8,
     APPLY_FOR_DOOR_REQ     |->  9,  APPLY_FOR_DOOR_RSP    |-> 10,
     APPLY_TRAFFIC_RES_REQ  |-> 11,  APPLY_TRAFFIC_RES_RSP |-> 12,
     DOOR_CONFIG_REQ        |-> 13,  DOOR_CONFIG_RSP       |-> 14,
     APPLY_OFFLINE_REQ      |-> 15,  APPLY_OFFLINE_RSP     |-> 16,
     INTERRUPT_CTRL_REQ     |-> 19,  INTERRUPT_CTRL_RSP    |-> 20,
     APPLY_PLAN_REQ         |-> 21,  APPLY_PLAN_RSP        |-> 22,
     PATH_PLAN_REQ          |-> 23,  PATH_PLAN_RSP         |-> 24]

HK_SUCC == 200

\* Every generator names the same robot.
AGV == 6001

-----------------------------------------------------------------------------
(* The generators.  Each writes a header, with the length it declares, and  *)
(* then its fields, and returns the number of bytes to send.                *)

Header(type, length, order) ==
    <<68, 66, 72, 75>> \o order \o Net(GS_MSG_TYPE[type], 2) \o Net(length, 2)
        \o <<48, 48, 48, 48>>

Message(type, length, order, fields) ==
    LET bytes == Header(type, length, order) \o FlattenSeq(fields)
    IN  [bytes |-> bytes, len |-> Len(bytes)]

\* msg_order is 1 where a generator is given no order to repeat.
First == Net(1, 4)

gen_register_resp ==
    [Message("REGISTER_RSP", 16 + 8, First, <<Net(HK_SUCC, 4), Net(AGV, 2), Host(0, 2)>>)
       EXCEPT !.len = 16 + 8]

gen_robot_status_resp ==
    Message("ROBOT_STATUS_RSP", 16 + 8, First, <<Net(HK_SUCC, 4), Net(AGV, 2), Host(0, 2)>>)

\* area_id is the number that main read: swapped there, and swapped back here.
gen_apply_clean_area_resp(area_id) ==
    Message("APPLY_CLEAN_AREA_RSP", 16 + 8, First,
            <<Net(HK_SUCC, 2), Net(AGV, 2), Bswap(area_id)>>)

\* The other numbers that main read go back as they came.
gen_apply_for_door_resp(n_door_id, n_x, n_y, n_order) ==
    Message("APPLY_FOR_DOOR_RSP", 16 + Sizeof(APPLY_DOOR_RESP_S), n_order,
            <<Net(AGV, 2), Net(HK_SUCC, 2), n_door_id, n_x, n_y, Net(1, 4)>>)

gen_apply_traffic_res_resp(n_order, n_area_id) ==
    Message("APPLY_TRAFFIC_RES_RSP", 16 + Sizeof(APPLY_TRAFFIC_RES_RESP_S), n_order,
            <<Net(HK_SUCC, 2), Net(AGV, 2), n_area_id, Host(0, 4)>>)

gen_apply_offine_resp(n_order) ==
    Message("APPLY_OFFLINE_RSP", 16 + Sizeof(APPLY_OFFLINE_RESP_S), n_order,
            <<Net(HK_SUCC, 4), Net(AGV, 2), Host(0, 2)>>)

gen_apply_plan_resp(n_order) ==
    Message("APPLY_PLAN_RSP", 16 + Sizeof(COMMON_RESP_S), n_order,
            <<Net(HK_SUCC, 4), Net(AGV, 2), Host(0, 2)>>)

gen_trp_ctrl_req ==
    Message("TRP_CTRL_REQ", Sizeof(HK_HEADER_S) + Sizeof(TRP_CTRL_REQ_S), First,
            <<Net(AGV, 2), Net(1, 2), Net(11, 4), Net(22, 4), Net(33, 2), Net(100, 2),
              Net(1201, 4)>>)

gen_path_plan_req ==
    Message("PATH_PLAN_REQ", Sizeof(HK_HEADER_S) + Sizeof(PATH_PLAN_REQ_S), First,
            <<Net(AGV, 2), Net(2, 2), Net(11111, 4), Net(22222, 4), Net(33, 2), Net(1, 2),
              Net(33333, 4), Net(44444, 4), Net(1201, 4)>>)

\* Mutant: the declared length forgets agv_id and doors_num.
gen_door_info_Short ==
    Message("DOOR_CONFIG_REQ", 16 + Sizeof(DOOR_INFO_S) * 3, First,
            <<Net(AGV, 2), Net(3, 2)>>
              \o FlattenSeq([d \in 1 .. 3 |-> <<Net(d, 4), Net(d, 4), Net(d, 4)>>]))

\* Door d is at (d, d).
gen_door_info ==
    Message("DOOR_CONFIG_REQ", 16 + 4 + Sizeof(DOOR_INFO_S) * 3, First,
            <<Net(AGV, 2), Net(3, 2)>>
              \o FlattenSeq([d \in 1 .. 3 |-> <<Net(d, 4), Net(d, 4), Net(d, 4)>>]))

\* flip: how many times it was called, this call included.
gen_interrupt_ctrl_req(flip) ==
    Message("INTERRUPT_CTRL_REQ", Sizeof(HK_HEADER_S) + Sizeof(INTERRUPT_CMD_S), First,
            <<Net(AGV, 2), Net(flip % 3, 2)>>)
=============================================================================
