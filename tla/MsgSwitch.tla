----------------------------- MODULE MsgSwitch -----------------------------
(***************************************************************************)
(* msg_switch.c: one end of the link that carries many messages over one   *)
(* socket.  Every C function that changes the switch is an operator from   *)
(* a switch sw (and its arguments) to the switch it leaves; MsgLink        *)
(* composes two of them.                                                   *)
(*                                                                         *)
(* A msg_t is a record; its address is its msgid, and the msg_t pointers   *)
(* of pending_msgs are msgids, or Dangling once the msg_t was freed.  The  *)
(* payload of a packet is its position among the packets of its message    *)
(* and direction.  conv is history: the msg_open a msg_t, a packet or a    *)
(* response descends from.  An assertion that fails, or a step C leaves    *)
(* undefined, ends the process: sw.failed names it.                        *)
(*                                                                         *)
(* selectable, the active fd_sets and active_hash matter to the select     *)
(* loop of a program only, and are kept in a switch that is `selecting`:   *)
(* App has that loop, MsgLink does not.                                    *)
(***************************************************************************)
EXTENDS Integers, Sequences, FiniteSets, SequencesExt

CONSTANTS
  MaxMsgId,   \* the last msgid, FD_SETSIZE - 1
  NBuff       \* MSG_N_BUFF_PACKETS_ALLOWED

ASSUME MaxMsgIdAssumption == MaxMsgId \in Nat \ {0}
ASSUME NBuffAssumption == NBuff \in Nat \ {0}

MsgIds == 1 .. MaxMsgId
NoMsg == [free |-> TRUE]        \* msgs[id] = NULL
NoPacket == [kind |-> "NULL"]    \* incomplete_writ_packet = NULL
Dangling == 0                   \* a pointer to a freed msg_t
None == "none"

Flags == {"CONNECTED", "PACKET_AVAIL_TO_READ", "PACKET_AVAIL_TO_WRIT",
          "SPACE_AVAIL_FOR_READ", "SPACE_AVAIL_FOR_WRIT", "WAITING_FOR_RESP",
          "NEED_TO_SEND_RESP", "WRITING", "CLOSED", "SENT_DISCONNECT",
          "DISCONNECTED"}

(* Switches. *)
EmptySwitch ==
  [msgs          |-> [i \in MsgIds |-> NoMsg],
   imsgid_map    |-> [i \in MsgIds |-> 0],
   pending_msgs  |-> << >>,
   pending_resps |-> << >>,
   failed        |-> None,
   selecting     |-> FALSE,
   selectable    |-> {},     \* the messages n_selectable counts
   active_read   |-> {},
   active_write  |-> {},
   active_hash   |-> {}]

Exists(sw, id) == id \in MsgIds /\ sw.msgs[id] # NoMsg
Has(sw, id, flag) == flag \in sw.msgs[id].status

\* msg_get on an id read from the wire: an id of this end, or the negated id
\* that the other end gave the message when it opened it.  0 is NULL.
msg_get(sw, wireid) ==
  LET id == IF wireid > 0 THEN wireid ELSE sw.imsgid_map[-wireid]
  IN  IF Exists(sw, id) THEN id ELSE 0

\* Mutant: an end that opened a message does not negate its id.
WireIdUnsigned(sw, id) == IF sw.msgs[id].imsgid # 0 THEN sw.msgs[id].imsgid ELSE id

WireId(sw, id) == IF sw.msgs[id].imsgid # 0 THEN sw.msgs[id].imsgid ELSE -id

SetFlags(sw, id, set, clr) ==
  [sw EXCEPT !.msgs[id].status = (@ \ clr) \cup set]

Fail(sw, where) == [sw EXCEPT !.failed = IF @ = None THEN where ELSE @]

\* What a loop of n passes leaves, Op being one pass.
Repeat(Op(_), n, sw) ==
  LET after[i \in 0 .. n] == IF i = 0 THEN sw ELSE Op(after[i - 1]) IN after[n]

----------------------------------------------------------------------------
(* What the select loop is to report. *)

\* The three conditions of msg_check_selectability.
Ready(sw, id) ==
  \/ ~Has(sw, id, "CONNECTED")
  \/ id \in sw.active_read /\ (Has(sw, id, "PACKET_AVAIL_TO_READ") \/ Has(sw, id, "DISCONNECTED"))
  \/ id \in sw.active_write /\ (Has(sw, id, "SPACE_AVAIL_FOR_WRIT") \/ Has(sw, id, "DISCONNECTED"))

\* A message that is selectable is not any more, ready or not.
msg_check_selectability(sw, id) ==
  [sw EXCEPT !.selectable =
     IF id \in @ THEN @ \ {id} ELSE IF sw.selecting /\ Ready(sw, id) THEN @ \cup {id} ELSE @]

\* active_hash keeps what is in one of the two sets.
Hashed(sw, id) ==
  IF id \in sw.active_read \cup sw.active_write
  THEN [sw EXCEPT !.active_hash = @ \cup {id}]
  ELSE [sw EXCEPT !.active_hash = @ \ {id}]

SetActive(sw, id) == msg_check_selectability(Hashed(sw, id), id)

msg_set_read(sw, id) == SetActive([sw EXCEPT !.active_read = @ \cup {id}], id)
msg_clr_read(sw, id) == SetActive([sw EXCEPT !.active_read = @ \ {id}], id)
msg_set_write(sw, id) == SetActive([sw EXCEPT !.active_write = @ \cup {id}], id)

\* Mutant: the message is not looked at again.
msg_clr_write_unchecked(sw, id) == Hashed([sw EXCEPT !.active_write = @ \ {id}], id)

msg_clr_write(sw, id) == SetActive([sw EXCEPT !.active_write = @ \ {id}], id)
----------------------------------------------------------------------------
(* Creating and freeing messages. *)

NewMsg(conv) ==
  [free |-> FALSE, imsgid |-> 0, status |-> {"SPACE_AVAIL_FOR_READ", "SPACE_AVAIL_FOR_WRIT"},
   n_writ |-> 0, n_read |-> 0, incomplete |-> NoPacket, read_queue |-> << >>,
   writ_queue |-> << >>, conv |-> conv]

\* The first free msgid; -1 when there is none.
msg_get_avail_msgid(sw) ==
  IF \A i \in MsgIds : sw.msgs[i] # NoMsg
  THEN -1
  ELSE CHOOSE i \in MsgIds : sw.msgs[i] = NoMsg /\ \A j \in 1 .. (i - 1) : sw.msgs[j] # NoMsg

\* msg_create; without a free msgid it stores the message outside msgs[].
msg_create(sw, conv) ==
  LET id == msg_get_avail_msgid(sw)
  IN  IF id = -1 THEN Fail(sw, "msgs[-1]")
      ELSE msg_check_selectability([sw EXCEPT !.msgs[id] = NewMsg(conv)], id)

\* Empties the queues, takes a WRITING message off pending_msgs.
msg_clear(sw, id) ==
  msg_check_selectability(
    [sw EXCEPT
       !.msgs[id].writ_queue = << >>,
       !.msgs[id].read_queue = << >>,
       !.msgs[id].status = @ \cap {"CONNECTED", "CLOSED", "SENT_DISCONNECT", "DISCONNECTED"},
       !.pending_msgs = IF Has(sw, id, "WRITING") THEN RemoveFirst(@, id) ELSE @], id)

\* Mutant: the imsgid_map entry of a freed message stays.
msg_free_keeping_imsgid(sw, id) ==
  LET s == msg_clear(sw, id)
  IN  [s EXCEPT
         !.msgs[id] = NoMsg,
         !.selectable = @ \ {id},
         !.pending_msgs = [k \in DOMAIN @ |-> IF @[k] = id THEN Dangling ELSE @[k]]]

\* A pending_msgs entry that msg_clear left behind now points to freed memory.
msg_free(sw, id) ==
  LET s == msg_clear(sw, id)
      i == s.msgs[id].imsgid
  IN  [s EXCEPT
         !.msgs[id] = NoMsg,
         !.selectable = @ \ {id},
         !.imsgid_map = IF i # 0 THEN [@ EXCEPT ![i] = 0] ELSE @,
         !.pending_msgs = [k \in DOMAIN @ |-> IF @[k] = id THEN Dangling ELSE @[k]]]
----------------------------------------------------------------------------
(* Responses and packets of one message. *)

\* Mutant: NEED_TO_SEND_RESP is not cleared by the response.
msg_send_resp_keeping_need(sw, id, what) ==
  [sw EXCEPT
     !.pending_resps = Append(@, [kind |-> "RESP", id |-> WireId(sw, id), what |-> what,
                                  conv |-> sw.msgs[id].conv])]

msg_send_resp(sw, id, what) ==
  [sw EXCEPT
     !.pending_resps = Append(@, [kind |-> "RESP", id |-> WireId(sw, id), what |-> what,
                                  conv |-> sw.msgs[id].conv]),
     !.msgs[id].status = IF what = "OK" THEN @ \ {"NEED_TO_SEND_RESP"} ELSE @]

\* Mutant: a message that is WRITING joins pending_msgs again.
msg_update_status_requeueing(sw, id) ==
  LET acked == IF /\ {"NEED_TO_SEND_RESP", "SPACE_AVAIL_FOR_READ"} \subseteq sw.msgs[id].status
                  /\ ~Has(sw, id, "DISCONNECTED")
               THEN msg_send_resp(sw, id, "OK")
               ELSE sw
  IN  IF Has(sw, id, "PACKET_AVAIL_TO_WRIT") /\ ~Has(sw, id, "WAITING_FOR_RESP")
      THEN [acked EXCEPT !.msgs[id].status = @ \cup {"WRITING"},
                         !.pending_msgs = Append(@, id)]
      ELSE acked

\* Mutant: acknowledges whether or not there is space.
msg_update_status_always_acking(sw, id) ==
  LET acked == IF Has(sw, id, "NEED_TO_SEND_RESP") /\ ~Has(sw, id, "DISCONNECTED")
               THEN msg_send_resp(sw, id, "OK")
               ELSE sw
  IN  IF /\ Has(sw, id, "PACKET_AVAIL_TO_WRIT")
         /\ ~Has(sw, id, "WAITING_FOR_RESP")
         /\ ~Has(sw, id, "WRITING")
      THEN [acked EXCEPT !.msgs[id].status = @ \cup {"WRITING"},
                         !.pending_msgs = Append(@, id)]
      ELSE acked

\* Acknowledges when there is space again, and queues the message for writing
\* when it has a packet and no packet of it is on its way.
msg_update_status(sw, id) ==
  LET acked == IF /\ {"NEED_TO_SEND_RESP", "SPACE_AVAIL_FOR_READ"} \subseteq sw.msgs[id].status
                  /\ ~Has(sw, id, "DISCONNECTED")
               THEN msg_send_resp(sw, id, "OK")
               ELSE sw
  IN  IF /\ Has(sw, id, "PACKET_AVAIL_TO_WRIT")
         /\ ~Has(sw, id, "WAITING_FOR_RESP")
         /\ ~Has(sw, id, "WRITING")
      THEN [acked EXCEPT !.msgs[id].status = @ \cup {"WRITING"},
                         !.pending_msgs = Append(@, id)]
      ELSE acked

\* Mutant: incomplete_writ_packet is not reset to NULL.
msg_push_writ_packet_keeping(sw, id) ==
  LET q == Append(sw.msgs[id].writ_queue, sw.msgs[id].incomplete)
      s == [sw EXCEPT
              !.msgs[id].writ_queue = q,
              !.msgs[id].status = (@ \cup {"PACKET_AVAIL_TO_WRIT"})
                  \ (IF Len(q) >= NBuff THEN {"SPACE_AVAIL_FOR_WRIT"} ELSE {})]
  IN  msg_update_status(msg_check_selectability(s, id), id)

msg_push_writ_packet(sw, id) ==
  LET q == Append(sw.msgs[id].writ_queue, sw.msgs[id].incomplete)
      s == [sw EXCEPT
              !.msgs[id].writ_queue = q,
              !.msgs[id].incomplete = NoPacket,
              !.msgs[id].status = (@ \cup {"PACKET_AVAIL_TO_WRIT"})
                  \ (IF Len(q) >= NBuff THEN {"SPACE_AVAIL_FOR_WRIT"} ELSE {})]
  IN  msg_update_status(msg_check_selectability(s, id), id)

\* The status a writ_queue that just lost its head leaves.
AfterPopWrit(m) ==
  LET n == Len(m.writ_queue) - 1
      st == (m.status \ {"WRITING"}) \cup {"WAITING_FOR_RESP"}
                \cup (IF n < NBuff THEN {"SPACE_AVAIL_FOR_WRIT"} ELSE {})
  IN  IF n < 1 THEN st \ {"PACKET_AVAIL_TO_WRIT"} ELSE st

\* list_get_at on an empty writ_queue returns NULL, which is dereferenced.
msg_pop_writ_packet(sw, id) ==
  IF sw.msgs[id].writ_queue = << >>
  THEN Fail(sw, "NULL packet")
  ELSE msg_update_status(
         msg_check_selectability(
           [sw EXCEPT !.msgs[id].status = AfterPopWrit(sw.msgs[id]),
                      !.msgs[id].writ_queue = Tail(@)], id), id)

\* A CLOSED message drops the packet but still marks it readable.
msg_push_read_packet(sw, id, packet) ==
  LET q == IF Has(sw, id, "CLOSED") THEN sw.msgs[id].read_queue
           ELSE Append(sw.msgs[id].read_queue, packet.seq)
      s == [sw EXCEPT
              !.msgs[id].n_read = @ + 1,
              !.msgs[id].read_queue = q,
              !.msgs[id].status = (@ \cup {"NEED_TO_SEND_RESP", "PACKET_AVAIL_TO_READ"})
                  \ (IF Len(q) >= NBuff THEN {"SPACE_AVAIL_FOR_READ"} ELSE {})]
  IN  msg_update_status(msg_check_selectability(s, id), id)

\* Mutant: the space gained is not announced.
msg_pop_read_packet_silent(sw, id) ==
  LET q == IF sw.msgs[id].read_queue = << >> THEN << >> ELSE Tail(sw.msgs[id].read_queue)
  IN  [sw EXCEPT
         !.msgs[id].read_queue = q,
         !.msgs[id].status =
            (@ \cup IF Len(q) < NBuff THEN {"SPACE_AVAIL_FOR_READ"} ELSE {})
               \ (IF q = << >> THEN {"PACKET_AVAIL_TO_READ"} ELSE {})]

msg_pop_read_packet(sw, id) ==
  LET q == IF sw.msgs[id].read_queue = << >> THEN << >> ELSE Tail(sw.msgs[id].read_queue)
      s == [sw EXCEPT
              !.msgs[id].read_queue = q,
              !.msgs[id].status =
                 (@ \cup IF Len(q) < NBuff THEN {"SPACE_AVAIL_FOR_READ"} ELSE {})
                    \ (IF q = << >> THEN {"PACKET_AVAIL_TO_READ"} ELSE {})]
  IN  msg_update_status(msg_check_selectability(s, id), id)

\* Begins a packet; an incomplete one is complete now and is queued.  The id
\* it will carry on the wire is fixed here.
msg_packet_new(sw, id) ==
  LET s == IF sw.msgs[id].incomplete = NoPacket THEN sw ELSE msg_push_writ_packet(sw, id)
      n == s.msgs[id].n_writ + 1
  IN  [s EXCEPT
         !.msgs[id].n_writ = n,
         !.msgs[id].incomplete = [kind |-> "PACK", id |-> WireId(s, id), seq |-> n,
                                  conv |-> s.msgs[id].conv]]

msg_flush(sw, id) ==
  IF Has(sw, id, "CLOSED") \/ sw.msgs[id].incomplete = NoPacket
  THEN sw
  ELSE msg_push_writ_packet(sw, id)

\* A disconnected message with unread packets keeps them and drops what it had
\* to write, one msg_pop_writ_packet at a time: pending_msgs keeps its entry.
DropWrits(sw, id) ==
  Repeat(LAMBDA s : msg_pop_writ_packet(s, id), Len(sw.msgs[id].writ_queue), sw)

\* Mutant: the disconnect of the other end is not answered.
RecvDisconSilent(sw, id) ==
  IF Has(sw, id, "SENT_DISCONNECT")
  THEN msg_free(sw, id)
  ELSE LET i == sw.msgs[id].imsgid
           gone == [sw EXCEPT
                      !.msgs[id].status = @ \cup {"SENT_DISCONNECT", "DISCONNECTED"},
                      !.msgs[id].imsgid = 0,
                      !.imsgid_map = IF i # 0 THEN [@ EXCEPT ![i] = 0] ELSE @]
       IN  IF Has(sw, id, "PACKET_AVAIL_TO_READ") THEN DropWrits(gone, id) ELSE msg_clear(gone, id)

RecvDiscon(sw, id) ==
  IF Has(sw, id, "SENT_DISCONNECT")
  THEN msg_free(sw, id)
  ELSE LET replied == msg_send_resp(sw, id, "DISCON")
           i == sw.msgs[id].imsgid
           gone == [replied EXCEPT
                      !.msgs[id].status = @ \cup {"SENT_DISCONNECT", "DISCONNECTED"},
                      !.msgs[id].imsgid = 0,
                      !.imsgid_map = IF i # 0 THEN [@ EXCEPT ![i] = 0] ELSE @]
       IN  IF Has(sw, id, "PACKET_AVAIL_TO_READ") THEN DropWrits(gone, id) ELSE msg_clear(gone, id)

\* Mutant: the last acknowledgement of a CLOSED message starts no disconnect.
RecvOkForgettingClose(sw, id) ==
  IF Has(sw, id, "SENT_DISCONNECT") THEN sw
  ELSE IF ~Has(sw, id, "WAITING_FOR_RESP") THEN Fail(sw, "unexpected OK")
  ELSE LET acked == SetFlags(sw, id, {}, {"WAITING_FOR_RESP"})
       IN  msg_update_status(
             msg_check_selectability(
               IF Has(sw, id, "PACKET_AVAIL_TO_WRIT") THEN acked ELSE msg_flush(acked, id), id), id)

RecvOk(sw, id) ==
  IF Has(sw, id, "SENT_DISCONNECT") THEN sw
  ELSE IF ~Has(sw, id, "WAITING_FOR_RESP") THEN Fail(sw, "unexpected OK")
  ELSE LET acked == SetFlags(sw, id, {}, {"WAITING_FOR_RESP"})
           flushed == IF Has(sw, id, "PACKET_AVAIL_TO_WRIT") THEN acked ELSE msg_flush(acked, id)
           s == IF ~Has(flushed, id, "PACKET_AVAIL_TO_WRIT") /\ Has(flushed, id, "CLOSED")
                THEN SetFlags(msg_send_resp(flushed, id, "DISCON"), id, {"SENT_DISCONNECT"}, {})
                ELSE flushed
       IN  msg_update_status(msg_check_selectability(s, id), id)

msg_recv_resp(sw, id, what) == IF what = "DISCON" THEN RecvDiscon(sw, id) ELSE RecvOk(sw, id)
----------------------------------------------------------------------------
(* The functions the two programs call. *)

\* msg_open: the new message is at msg_get_avail_msgid(sw).
msg_open(sw, conv) ==
  LET s == msg_create(sw, conv)
      id == msg_get_avail_msgid(sw)
  IN  IF s.failed # None THEN s
      ELSE msg_check_selectability(SetFlags(s, id, {"CONNECTED"}, {}), id)

msg_accept(sw, id) ==
  IF Has(sw, id, "DISCONNECTED")
  THEN msg_free(sw, id)
  ELSE msg_check_selectability(
         [SetFlags(sw, id, {"CONNECTED"}, {}) EXCEPT !.active_hash = @ \ {id}], id)

\* A write that completes k packets after the one it begins in.
msg_write(sw, id, k) ==
  LET begun == IF sw.msgs[id].incomplete = NoPacket THEN msg_packet_new(sw, id) ELSE sw
  IN  Repeat(LAMBDA s : msg_packet_new(s, id), k, begun)

\* A read that takes the next k queued packets.
msg_read(sw, id, k) == Repeat(LAMBDA s : msg_pop_read_packet(s, id), k, sw)

DropReads(sw, id) ==
  IF Has(sw, id, "PACKET_AVAIL_TO_READ")
  THEN msg_read(sw, id, Len(sw.msgs[id].read_queue))
  ELSE sw

\* msg_close on a connected switch.  A message that never carried a packet is
\* freed at once; the unread packets of the others are dropped last.  For the
\* freed one the code reads msg->status once more after free: no allocation is
\* made in between and the bookkeeping that free writes into the block stays
\* before that field, so it still says that there is no packet to read.
msg_close(sw, id) ==
  LET c == msg_clr_write(msg_clr_read(sw, id), id)
      s == SetFlags(msg_flush(c, id), id, {"CLOSED"}, {})
  IN  IF Has(sw, id, "DISCONNECTED") THEN msg_free(c, id)
      ELSE IF Has(s, id, "PACKET_AVAIL_TO_WRIT") THEN DropReads(s, id)
      ELSE IF s.msgs[id].n_writ = 0 /\ s.msgs[id].n_read = 0 THEN msg_free(s, id)
      ELSE DropReads(SetFlags(msg_send_resp(s, id, "DISCON"), id, {"SENT_DISCONNECT"}, {}), id)
----------------------------------------------------------------------------
(* The socket handlers. *)

\* What msg_switch_write sends next: responses go before packets.
HasAvailWrits(sw) == sw.pending_resps # << >> \/ sw.pending_msgs # << >>

NextToken(sw) ==
  IF sw.pending_resps # << >>
  THEN Head(sw.pending_resps)
  ELSE Head(sw.msgs[Head(sw.pending_msgs)].writ_queue)

\* The head of pending_msgs may be a pointer to a freed message, or to one
\* whose packets msg_recv_resp dropped.
WriteFails(sw) ==
  /\ sw.pending_resps = << >>
  /\ LET id == Head(sw.pending_msgs)
     IN  id = Dangling \/ sw.msgs[id].writ_queue = << >>

msg_switch_write(sw) ==
  IF sw.pending_resps # << >> THEN [sw EXCEPT !.pending_resps = Tail(@)]
  ELSE IF Head(sw.pending_msgs) = Dangling THEN Fail(sw, "freed message in pending_msgs")
  ELSE msg_pop_writ_packet([sw EXCEPT !.pending_msgs = Tail(@)], Head(sw.pending_msgs))

ReadPacket(sw, packet) ==
  LET id == msg_get(sw, packet.id)
      new == msg_get_avail_msgid(sw)
      created == msg_create(sw, packet.conv)
  IN  IF id # 0 THEN msg_push_read_packet(sw, id, packet)
      ELSE IF packet.id >= 0 THEN Fail(sw, "packet for an unknown message")
      ELSE IF new = -1 THEN created
      ELSE msg_push_read_packet(
             [created EXCEPT !.msgs[new].imsgid = -packet.id,
                             !.imsgid_map[-packet.id] = new,
                             !.active_hash = IF sw.selecting THEN @ \cup {new} ELSE @], new, packet)

msg_switch_read(sw, token) ==
  IF token.kind = "PACK" THEN ReadPacket(sw, token)
  ELSE IF msg_get(sw, token.id) = 0 THEN sw
  ELSE msg_recv_resp(sw, msg_get(sw, token.id), token.what)
=============================================================================
