-------------------------- MODULE MsgSwitchProofs ---------------------------
(*************************************************************************)
(* One message switch, for any number of messages and any size of their  *)
(* buffers: every operation of msg_switch.c keeps Loc, which says that   *)
(* imsgid_map and the messages' imsgid agree, that a message waits in    *)
(* pending_msgs exactly while it is WRITING, and that the flags of a     *)
(* message say what its queues hold. The module has no behaviour of its  *)
(* own: MsgLinkProofs uses it for both ends of a link.                   *)
(*************************************************************************)
EXTENDS MsgSwitch, WellFoundedInduction, TLAPS

----------------------------------------------------------------------------
(* Induction over the natural numbers, and what a loop of n passes leaves. *)

\* A set of natural numbers that is not empty has a least element.
LEMMA Least ==
  ASSUME NEW T, T \subseteq Nat, T # {}
  PROVE  \E x \in T : \A y \in T : x <= y
<1> DEFINE R == OpToRel(<, Nat)
<1>1. IsWellFoundedOn(R, Nat) BY NatLessThanWellFounded
<1>2. \A x, y \in Nat : x < y => <<x, y>> \in R BY Zenon DEF OpToRel
<1> HIDE DEF R
<1>3. PICK x \in T : \A y \in T : ~(<<y, x>> \in R) BY <1>1, WFMin
<1>4. ASSUME NEW y \in T PROVE x <= y
  <2>1. x \in Nat /\ y \in Nat OBVIOUS
  <2>2. ~(y < x) BY <1>2, <1>3, <2>1
  <2> QED BY <2>1, <2>2
<1> QED BY <1>4

\* A set of natural numbers that has 0, and n + 1 with every n, has them
\* all.
LEMMA Induct ==
  ASSUME NEW S, 0 \in S, \A n \in Nat : n \in S => n + 1 \in S
  PROVE  \A n \in Nat : n \in S
<1>1. SUFFICES ASSUME \E n \in Nat : n \notin S PROVE FALSE OBVIOUS
<1> DEFINE T == {n \in Nat : n \notin S}
<1>2. T \subseteq Nat /\ T # {} BY <1>1
<1>3. PICK x \in T : \A y \in T : x <= y BY <1>2, Least
<1>4. x \in Nat /\ x # 0 OBVIOUS
<1>5. x - 1 \in Nat /\ x - 1 \notin T BY <1>3, <1>4
<1>6. (x - 1) + 1 \in S BY <1>5
<1> QED BY <1>4, <1>6

\* f[i] is what i passes of F leave of x, and is in Z[i].
Iterates(f, F, Z, x, n) ==
  /\ f = [i \in 0 .. n |-> IF i = 0 THEN x ELSE F[f[i - 1]]]
  /\ \A i \in 0 .. n : f[i] \in Z[i]

\* If every pass of F takes Z[i] into Z[i + 1], n passes take Z[0] into
\* Z[n].
LEMMA Iterate ==
  ASSUME NEW n \in Nat, NEW Z, NEW F, NEW x \in Z[0],
         \A i \in 0 .. (n - 1) : \A t \in Z[i] : F[t] \in Z[i + 1]
  PROVE  \E f : Iterates(f, F, Z, x, n)
<1> DEFINE P(k) == \E f : Iterates(f, F, Z, x, k)
           S == {k \in Nat : k <= n => P(k)}
<1>1. P(0)
  <2> DEFINE f == [i \in 0 .. 0 |-> x]
  <2>1. f = [i \in 0 .. 0 |-> IF i = 0 THEN x ELSE F[f[i - 1]]] OBVIOUS
  <2>2. \A i \in 0 .. 0 : f[i] \in Z[i] OBVIOUS
  <2> HIDE DEF f
  <2> QED BY <2>1, <2>2 DEF Iterates
<1>2. ASSUME NEW k \in Nat, k + 1 <= n, P(k) PROVE P(k + 1)
  <2>1. PICK f : /\ f = [i \in 0 .. k |-> IF i = 0 THEN x ELSE F[f[i - 1]]]
                 /\ \A i \in 0 .. k : f[i] \in Z[i]
    BY <1>2 DEF Iterates
  <2> DEFINE g == [i \in 0 .. (k + 1) |-> IF i = k + 1 THEN F[f[k]] ELSE f[i]]
  <2>2. \A i \in 0 .. (k + 1) : g[i] = IF i = k + 1 THEN F[f[k]] ELSE f[i] OBVIOUS
  <2>3. \A i \in 0 .. k : f[i] = IF i = 0 THEN x ELSE F[f[i - 1]] BY <2>1
  <2>4. \A i \in 0 .. (k + 1) : g[i] = IF i = 0 THEN x ELSE F[g[i - 1]] BY <2>2, <2>3
  <2>5. g = [i \in 0 .. (k + 1) |-> g[i]] OBVIOUS
  <2>6. f[k] \in Z[k] /\ k \in 0 .. (n - 1) BY <1>2, <2>1
  <2>7. \A i \in 0 .. (k + 1) : g[i] \in Z[i] BY <2>1, <2>2, <2>6
  <2> HIDE DEF g
  <2>8. g = [i \in 0 .. (k + 1) |-> IF i = 0 THEN x ELSE F[g[i - 1]]] BY <2>4, <2>5
  <2> QED BY <2>7, <2>8 DEF Iterates
<1>3. n \in S
  <2>1. 0 \in S BY <1>1
  <2>2. \A k \in Nat : k \in S => k + 1 \in S
    <3> HIDE DEF P
    <3> QED BY <1>2
  <2> HIDE DEF S
  <2> QED BY <2>1, <2>2, Induct
<1> QED BY <1>3

----------------------------------------------------------------------------
(* The types. *)

\* The ids of frames: positive ones are the sender's, negative ones the
\* receiver's.
WireIds == (-MaxMsgId .. MaxMsgId) \ {0}

\* The packets of the messages C.
Packets(C) == [kind: {"PACK"}, id: WireIds, seq: Nat, conv: C]

\* The responses of the messages C.
Resps(C) == [kind: {"RESP"}, id: WireIds, what: {"OK", "DISCON"}, conv: C]

\* The messages at one end, C being the conversations they belong to.
Messages(C) ==
  [free: {FALSE}, imsgid: 0 .. MaxMsgId, status: SUBSET Flags, n_writ: Nat, n_read: Nat,
   incomplete: Packets(C) \cup {NoPacket}, read_queue: Seq(Nat), writ_queue: Seq(Packets(C)),
   conv: C]

\* What a switch can fail of.
Failures == {None, "unexpected OK", "packet for an unknown message",
             "freed message in pending_msgs",
             "NULL packet", "msgs[-1]"}

\* The switches whose messages belong to C.
Switches(C) ==
  [msgs: [MsgIds -> Messages(C) \cup {NoMsg}], imsgid_map: [MsgIds -> 0 .. MaxMsgId],
   pending_msgs: Seq(0 .. MaxMsgId), pending_resps: Seq(Resps(C)), failed: Failures,
   selecting: BOOLEAN, selectable: SUBSET MsgIds, active_read: SUBSET MsgIds,
   active_write: SUBSET MsgIds, active_hash: SUBSET MsgIds]

\* The fields of a message have their types.
LEMMA MessageFacts ==
  ASSUME NEW C, NEW m \in Messages(C)
  PROVE  /\ m # NoMsg
         /\ m.imsgid \in 0 .. MaxMsgId
         /\ m.status \in SUBSET Flags
         /\ m.n_writ \in Nat /\ m.n_read \in Nat
         /\ m.incomplete \in Packets(C) \cup {NoPacket}
         /\ m.read_queue \in Seq(Nat)
         /\ m.writ_queue \in Seq(Packets(C))
         /\ m.conv \in C
<1>1. m.free = FALSE BY DEF Messages
<1>2. m # NoMsg BY <1>1 DEF NoMsg
<1> QED BY <1>2 DEF Messages

\* The fields of a switch have their types.
LEMMA SwitchFacts ==
  ASSUME NEW C, NEW s \in Switches(C)
  PROVE  /\ s.msgs \in [MsgIds -> Messages(C) \cup {NoMsg}]
         /\ s.imsgid_map \in [MsgIds -> 0 .. MaxMsgId]
         /\ s.pending_msgs \in Seq(0 .. MaxMsgId)
         /\ s.pending_resps \in Seq(Resps(C))
         /\ s.failed \in Failures
         /\ s.selecting \in BOOLEAN
         /\ s.selectable \in SUBSET MsgIds
         /\ s.active_read \in SUBSET MsgIds
         /\ s.active_write \in SUBSET MsgIds
         /\ s.active_hash \in SUBSET MsgIds
BY DEF Switches

----------------------------------------------------------------------------
(* A step at one message: the message, pending_msgs and pending_resps after it. *)

\* imsgid_map and failed are the same.
Core(s, t) == t.imsgid_map = s.imsgid_map /\ t.failed = s.failed

\* The message id of s is n in t, pending_msgs is pend, pending_resps is
\* resps, and the rest is the same.
Turns(C, s, t, id, m, pend, resps) ==
  /\ t \in Switches(C)
  /\ Core(s, t)
  /\ t.msgs = [s.msgs EXCEPT ![id] = m]
  /\ t.pending_msgs = pend
  /\ t.pending_resps = resps

\* msg_update_status sends an acknowledgement for such a message ...
Acks(m) ==
  /\ "NEED_TO_SEND_RESP" \in m.status /\ "SPACE_AVAIL_FOR_READ" \in m.status
  /\ "DISCONNECTED" \notin m.status

\* ... and puts such a message into pending_msgs.
Queues(m) ==
  /\ "PACKET_AVAIL_TO_WRIT" \in m.status
  /\ "WAITING_FOR_RESP" \notin m.status /\ "WRITING" \notin m.status

\* The message with other flags.
Flagged(m, st) == [m EXCEPT !.status = st]

\* The flags that msg_update_status leaves.
SettledStatus(m) ==
  (m.status \ (IF Acks(m) THEN {"NEED_TO_SEND_RESP"} ELSE {}))
     \cup (IF Queues(m) THEN {"WRITING"} ELSE {})

\* The message that msg_update_status leaves.
Settled(m) == Flagged(m, SettledStatus(m))

\* The response that msg_send_resp makes.
Reply(m, id, what) ==
  [kind |-> "RESP", id |-> IF m.imsgid # 0 THEN m.imsgid ELSE -id, what |-> what,
   conv |-> m.conv]

\* The switch with m at id.
At(s, id, m) == [s EXCEPT !.msgs[id] = m]

\* msg_send_resp makes a response.
LEMMA ReplyType ==
  ASSUME NEW C, NEW m \in Messages(C), NEW id \in MsgIds, NEW what \in {"OK", "DISCON"}
  PROVE  Reply(m, id, what) \in Resps(C)
<1>1. m.imsgid \in 0 .. MaxMsgId /\ m.conv \in C BY MessageFacts
<1>2. (IF m.imsgid # 0 THEN m.imsgid ELSE -id) \in WireIds
  BY <1>1, MaxMsgIdAssumption DEF WireIds, MsgIds
<1> QED BY <1>1, <1>2 DEF Reply, Resps

\* Changing the flags changes nothing else.
LEMMA FlaggedType ==
  ASSUME NEW C, NEW m \in Messages(C), NEW st \in SUBSET Flags
  PROVE  /\ Flagged(m, st) \in Messages(C)
         /\ Flagged(m, st).status = st
         /\ Flagged(m, st).imsgid = m.imsgid /\ Flagged(m, st).conv = m.conv
         /\ Flagged(m, st).n_writ = m.n_writ /\ Flagged(m, st).n_read = m.n_read
         /\ Flagged(m, st).incomplete = m.incomplete
         /\ Flagged(m, st).read_queue = m.read_queue
         /\ Flagged(m, st).writ_queue = m.writ_queue
BY DEF Flagged, Messages

\* msg_update_status leaves a message.
LEMMA SettledType ==
  ASSUME NEW C, NEW m \in Messages(C)
  PROVE  /\ Settled(m) \in Messages(C)
         /\ SettledStatus(m) \in SUBSET Flags
<1>1. m.status \in SUBSET Flags BY MessageFacts
<1>2. SettledStatus(m) \in SUBSET Flags BY <1>1 DEF SettledStatus, Flags
<1> QED BY <1>2, FlaggedType DEF Settled

\* A change of one message is a step at it.
LEMMA AtTurns ==
  ASSUME NEW C, NEW s \in Switches(C), NEW id \in MsgIds, NEW m \in Messages(C)
  PROVE  Turns(C, s, At(s, id, m), id, m, s.pending_msgs, s.pending_resps)
BY DEF Turns, Core, At, Switches

\* msg_check_selectability leaves the messages and the queues alone.
LEMMA CheckTurns ==
  ASSUME NEW C, NEW s \in Switches(C), NEW id \in MsgIds, Exists(s, id)
  PROVE  Turns(C, s, msg_check_selectability(s, id), id, s.msgs[id], s.pending_msgs,
               s.pending_resps)
<1> DEFINE S == IF id \in s.selectable THEN s.selectable \ {id}
                ELSE IF s.selecting /\ Ready(s, id) THEN s.selectable \cup {id}
                    ELSE s.selectable
<1>1. S \in SUBSET MsgIds BY SwitchFacts
<1>2. msg_check_selectability(s, id) = [s EXCEPT !.selectable = S] BY
        DEF msg_check_selectability
<1> HIDE DEF S
<1>3. [s EXCEPT !.selectable = S] \in Switches(C) BY <1>1 DEF Switches
<1>4. s.msgs = [s.msgs EXCEPT ![id] = s.msgs[id]] BY SwitchFacts
<1> QED BY <1>2, <1>3, <1>4 DEF Turns, Core, Switches

\* What msg_update_status does: at most one acknowledgement, and at most one
\* place in pending_msgs.
LEMMA UpdateTurns ==
  ASSUME NEW C, NEW s \in Switches(C), NEW id \in MsgIds, NEW m \in Messages(C), s.msgs[id] = m
  PROVE  Turns(C, s, msg_update_status(s, id), id, Settled(m),
               IF Queues(m) THEN Append(s.pending_msgs, id) ELSE s.pending_msgs,
               IF Acks(m) THEN Append(s.pending_resps, Reply(m, id, "OK")) ELSE s.pending_resps)
<1> DEFINE st1 == m.status \ {"NEED_TO_SEND_RESP"}
           r1 == Append(s.pending_resps, Reply(m, id, "OK"))
           a == IF Acks(m) THEN [s EXCEPT !.pending_resps = r1, !.msgs[id].status = st1] ELSE s
<1>1. m.status \in SUBSET Flags /\ st1 \in SUBSET Flags BY MessageFacts
<1>2. WireId(s, id) = (IF m.imsgid # 0 THEN m.imsgid ELSE -id) BY DEF WireId
<1>3. msg_send_resp(s, id, "OK") = [s EXCEPT !.pending_resps = r1, !.msgs[id].status = st1]
  BY <1>2 DEF msg_send_resp, Reply
<1>4. msg_update_status(s, id) =
        IF Queues(m) THEN [a EXCEPT !.msgs[id].status = @ \cup {"WRITING"},
                           !.pending_msgs = Append(@, id)]
        ELSE a
  BY <1>3 DEF msg_update_status, Has, Queues, Acks
<1>5. Reply(m, id, "OK") \in Resps(C) BY ReplyType
<1>6. r1 \in Seq(Resps(C)) BY <1>5, SwitchFacts
<1> DEFINE st2 == IF Acks(m) THEN st1 ELSE m.status
           r2 == IF Acks(m) THEN r1 ELSE s.pending_resps
<1>7. Turns(C, s, a, id, Flagged(m, st2), s.pending_msgs, r2)
  <2>1. CASE Acks(m)
    <3>1. Flagged(m, st1) \in Messages(C) BY <1>1, FlaggedType
    <3>2. a = [s EXCEPT !.pending_resps = r1, !.msgs = [s.msgs EXCEPT ![id] = Flagged(m, st1)]]
      BY <2>1 DEF Flagged, Switches
    <3> HIDE DEF r1
    <3> DEFINE z == [s.msgs EXCEPT ![id] = Flagged(m, st1)]
    <3>3. z \in [MsgIds -> Messages(C) \cup {NoMsg}] BY <3>1, SwitchFacts
    <3>4. a = [s EXCEPT !.pending_resps = r1, !.msgs = z] BY <3>2
    <3> HIDE DEF z, a
    <3>5. a \in Switches(C) BY <3>3, <3>4, <1>6 DEF Switches
    <3>6. Core(s, a) /\ a.msgs = z /\ a.pending_msgs = s.pending_msgs /\ a.pending_resps = r1
      BY <3>4 DEF Core, Switches
    <3> QED BY <2>1, <3>5, <3>6 DEF Turns, z
  <2>2. CASE ~Acks(m)
    <3>1. Flagged(m, m.status) = m BY DEF Flagged, Messages
    <3>2. s.msgs = [s.msgs EXCEPT ![id] = m] BY SwitchFacts
    <3> QED BY <2>2, <3>1, <3>2 DEF Turns, Core
  <2> QED BY <2>1, <2>2
<1>8. st2 \in SUBSET Flags /\ st2 \cup {"WRITING"} \in SUBSET Flags BY <1>1 DEF Flags
<1> DEFINE n == Flagged(m, st2)
<1>9. n \in Messages(C) /\ n.status = st2 BY <1>8, FlaggedType
<1>10. a \in Switches(C) /\ a.msgs[id] = n /\ a.pending_msgs = s.pending_msgs
         /\ a.pending_resps = r2
  <2>1. id \in DOMAIN s.msgs BY SwitchFacts
  <2> HIDE DEF a, n
  <2> QED BY <1>7, <2>1 DEF Turns, n
<1> DEFINE n2 == Flagged(n, st2 \cup {"WRITING"})
<1>11. n2 \in Messages(C) /\ n2 = Flagged(m, st2 \cup {"WRITING"})
  BY <1>8, <1>9, FlaggedType DEF Flagged
<1> DEFINE p1 == Append(s.pending_msgs, id)
<1>12. p1 \in Seq(0 .. MaxMsgId) BY SwitchFacts DEF MsgIds
<1>13. ASSUME Queues(m)
       PROVE  Turns(C, s, msg_update_status(s, id), id, n2, p1, r2)
  <2> HIDE DEF a, n, st2, r2
  <2>1. msg_update_status(s, id) = [a EXCEPT !.pending_msgs = p1,
                                    !.msgs = [a.msgs EXCEPT ![id] = n2]]
    BY <1>4, <1>9, <1>10, <1>13 DEF Flagged, Switches
  <2> HIDE DEF n2, p1
  <2>2. [a EXCEPT !.pending_msgs = p1, !.msgs = [a.msgs EXCEPT ![id] = n2]] \in Switches(C)
    BY <1>10, <1>11, <1>12 DEF Switches
  <2>3. a.msgs = [s.msgs EXCEPT ![id] = n] /\ Core(s, a) BY <1>7 DEF Turns, n
  <2>4. [a.msgs EXCEPT ![id] = n2] = [s.msgs EXCEPT ![id] = n2] BY <2>3, SwitchFacts
  <2> QED BY <2>1, <2>2, <2>3, <2>4, <1>10 DEF Turns, Core, Switches
<1>14. CASE Queues(m)
  <2>1. SettledStatus(m) = st2 \cup {"WRITING"} BY <1>14 DEF SettledStatus
  <2>2. Settled(m) = n2 BY <2>1, <1>11 DEF Settled
  <2> HIDE DEF n2
  <2> QED BY <1>13, <1>14, <2>2
<1>15. CASE ~Queues(m)
  <2>1. SettledStatus(m) = st2 BY <1>15 DEF SettledStatus
  <2>2. Settled(m) = n BY <2>1 DEF Settled
  <2>3. msg_update_status(s, id) = a BY <1>4, <1>15
  <2> HIDE DEF a, n
  <2> QED BY <1>7, <1>15, <2>2, <2>3 DEF n
<1> QED BY <1>14, <1>15

\* What a step at id leaves.
LEMMA TurnsAt ==
  ASSUME NEW C, NEW s \in Switches(C), NEW t, NEW id \in MsgIds, NEW m, NEW p, NEW r,
         Turns(C, s, t, id, m, p, r)
  PROVE  /\ t \in Switches(C) /\ t.msgs[id] = m
         /\ \A j \in MsgIds \ {id} : t.msgs[j] = s.msgs[j]
         /\ t.pending_msgs = p /\ t.pending_resps = r
         /\ t.imsgid_map = s.imsgid_map /\ t.failed = s.failed
BY SwitchFacts DEF Turns, Core

\* Two steps at one message are one.
LEMMA TurnsTwice ==
  ASSUME NEW C, NEW s \in Switches(C), NEW t, NEW u, NEW id \in MsgIds, NEW m, NEW p, NEW r,
         NEW n, NEW q, NEW v, Turns(C, s, t, id, m, p, r), Turns(C, t, u, id, n, q, v)
  PROVE  Turns(C, s, u, id, n, q, v)
<1>1. s.msgs \in [MsgIds -> Messages(C) \cup {NoMsg}] BY SwitchFacts
<1> QED BY <1>1 DEF Turns, Core

\* The message of a step is there after it.
LEMMA TurnsExists ==
  ASSUME NEW C, NEW s \in Switches(C), NEW t, NEW id \in MsgIds, NEW m \in Messages(C), NEW p,
         NEW r, Turns(C, s, t, id, m, p, r)
  PROVE  Exists(t, id)
BY TurnsAt, MessageFacts DEF Exists

\* What msg_update_status leaves after the message id became m.
Edits(C, s, t, id, m) ==
  Turns(C, s, t, id, Settled(m),
        IF Queues(m) THEN Append(s.pending_msgs, id) ELSE s.pending_msgs,
        IF Acks(m) THEN Append(s.pending_resps, Reply(m, id, "OK")) ELSE s.pending_resps)

\* A change of a message, msg_check_selectability and msg_update_status: how
\* every edit of a message ends.
LEMMA EditEdits ==
  ASSUME NEW C, NEW s \in Switches(C), NEW id \in MsgIds, NEW m \in Messages(C)
  PROVE  Edits(C, s, msg_update_status(msg_check_selectability(At(s, id, m), id), id), id, m)
<1> DEFINE a == At(s, id, m)
           b == msg_check_selectability(a, id)
           c == msg_update_status(b, id)
<1>1. Turns(C, s, a, id, m, s.pending_msgs, s.pending_resps) BY AtTurns
<1> HIDE DEF a
<1>2. /\ a \in Switches(C) /\ a.msgs[id] = m /\ Exists(a, id)
      /\ a.pending_msgs = s.pending_msgs /\ a.pending_resps = s.pending_resps
  BY <1>1, TurnsAt, TurnsExists
<1>3. Turns(C, a, b, id, m, s.pending_msgs, s.pending_resps) BY <1>2, CheckTurns
<1> HIDE DEF b
<1>4. /\ b \in Switches(C) /\ b.msgs[id] = m
      /\ b.pending_msgs = s.pending_msgs /\ b.pending_resps = s.pending_resps
  BY <1>2, <1>3, TurnsAt
<1>5. Edits(C, b, c, id, m) BY <1>4, UpdateTurns DEF Edits
<1> HIDE DEF c
<1>6. Turns(C, s, b, id, m, s.pending_msgs, s.pending_resps) BY <1>1, <1>3, TurnsTwice
<1>7. Turns(C, b, c, id, Settled(m),
        IF Queues(m) THEN Append(s.pending_msgs, id) ELSE s.pending_msgs,
        IF Acks(m) THEN Append(s.pending_resps, Reply(m, id, "OK")) ELSE s.pending_resps)
  BY <1>4, <1>5 DEF Edits
<1>8. Edits(C, s, c, id, m) BY <1>6, <1>7, TurnsTwice DEF Edits
<1> QED BY <1>8 DEF a, b, c

----------------------------------------------------------------------------
(* The edits of a message, as functions of the message. *)

\* msg_push_writ_packet, on the message.
PushWrit(m) ==
  LET q == Append(m.writ_queue, m.incomplete)
  IN  [m EXCEPT !.writ_queue = q, !.incomplete = NoPacket,
                !.status = (@ \cup {"PACKET_AVAIL_TO_WRIT"})
                   \ (IF Len(q) >= NBuff THEN {"SPACE_AVAIL_FOR_WRIT"} ELSE {})]

\* msg_pop_writ_packet, on the message.
PopWrit(m) == [m EXCEPT !.status = AfterPopWrit(m), !.writ_queue = Tail(@)]

\* msg_push_read_packet, on the message.
PushRead(m, seq) ==
  LET q == IF "CLOSED" \in m.status THEN m.read_queue ELSE Append(m.read_queue, seq)
  IN  [m EXCEPT !.n_read = @ + 1, !.read_queue = q,
                !.status = (@ \cup {"NEED_TO_SEND_RESP", "PACKET_AVAIL_TO_READ"})
                   \ (IF Len(q) >= NBuff THEN {"SPACE_AVAIL_FOR_READ"} ELSE {})]

\* msg_pop_read_packet, on the message.
PopRead(m) ==
  LET q == IF m.read_queue = << >> THEN << >> ELSE Tail(m.read_queue)
  IN  [m EXCEPT !.read_queue = q,
                !.status = (@ \cup IF Len(q) < NBuff THEN {"SPACE_AVAIL_FOR_READ"} ELSE {})
                   \ (IF q = << >> THEN {"PACKET_AVAIL_TO_READ"} ELSE {})]

\* The packet that msg_packet_new begins.
Packet(m, id) ==
  [kind |-> "PACK", id |-> IF m.imsgid # 0 THEN m.imsgid ELSE -id, seq |-> m.n_writ + 1,
   conv |-> m.conv]

\* msg_packet_new, on the message.
Begin(m, id) == [m EXCEPT !.n_writ = m.n_writ + 1, !.incomplete = Packet(m, id)]

\* The fields after msg_push_writ_packet.
LEMMA PushWritFacts ==
  ASSUME NEW C, NEW m \in Messages(C), m.incomplete # NoPacket
  PROVE  LET n == PushWrit(m) IN
         /\ n \in Messages(C)
         /\ n.imsgid = m.imsgid /\ n.conv = m.conv /\ n.n_writ = m.n_writ /\ n.n_read = m.n_read
         /\ n.incomplete = NoPacket /\ n.read_queue = m.read_queue
         /\ n.writ_queue = Append(m.writ_queue, m.incomplete)
         /\ n.status = (m.status \cup {"PACKET_AVAIL_TO_WRIT"})
              \ (IF Len(Append(m.writ_queue, m.incomplete)) >= NBuff
                 THEN {"SPACE_AVAIL_FOR_WRIT"} ELSE {})
<1> DEFINE q == Append(m.writ_queue, m.incomplete)
           st == (m.status \cup {"PACKET_AVAIL_TO_WRIT"})
                   \ (IF Len(q) >= NBuff THEN {"SPACE_AVAIL_FOR_WRIT"} ELSE {})
<1>1. q \in Seq(Packets(C)) BY MessageFacts
<1>2. st \in SUBSET Flags BY MessageFacts DEF Flags
<1>3. PushWrit(m) = [m EXCEPT !.writ_queue = q, !.incomplete = NoPacket, !.status = st]
  BY DEF PushWrit
<1> HIDE DEF q, st
<1>4. [m EXCEPT !.writ_queue = q, !.incomplete = NoPacket, !.status = st] \in Messages(C)
  BY <1>1, <1>2 DEF Messages
<1> QED BY <1>3, <1>4 DEF Messages, q, st

\* The fields after msg_pop_writ_packet.
LEMMA PopWritFacts ==
  ASSUME NEW C, NEW m \in Messages(C), m.writ_queue # << >>
  PROVE  LET n == PopWrit(m) IN
         /\ n \in Messages(C)
         /\ n.imsgid = m.imsgid /\ n.conv = m.conv /\ n.n_writ = m.n_writ /\ n.n_read = m.n_read
         /\ n.incomplete = m.incomplete /\ n.read_queue = m.read_queue
         /\ n.writ_queue = Tail(m.writ_queue)
         /\ n.status = AfterPopWrit(m)
<1>1. Tail(m.writ_queue) \in Seq(Packets(C)) BY MessageFacts
<1>2. AfterPopWrit(m) \in SUBSET Flags BY MessageFacts DEF Flags, AfterPopWrit
<1> QED BY <1>1, <1>2 DEF Messages, PopWrit

\* The fields after msg_push_read_packet.
LEMMA PushReadFacts ==
  ASSUME NEW C, NEW m \in Messages(C), NEW seq \in Nat
  PROVE  LET n == PushRead(m, seq)
             q == IF "CLOSED" \in m.status THEN m.read_queue ELSE Append(m.read_queue, seq) IN
         /\ n \in Messages(C)
         /\ n.imsgid = m.imsgid /\ n.conv = m.conv /\ n.n_writ = m.n_writ
            /\ n.n_read = m.n_read + 1
         /\ n.incomplete = m.incomplete /\ n.writ_queue = m.writ_queue
         /\ n.read_queue = q
         /\ n.status = (m.status \cup {"NEED_TO_SEND_RESP", "PACKET_AVAIL_TO_READ"})
                   \ (IF Len(q) >= NBuff THEN {"SPACE_AVAIL_FOR_READ"} ELSE {})
<1> DEFINE q == IF "CLOSED" \in m.status THEN m.read_queue ELSE Append(m.read_queue, seq)
           st == (m.status \cup {"NEED_TO_SEND_RESP", "PACKET_AVAIL_TO_READ"})
                   \ (IF Len(q) >= NBuff THEN {"SPACE_AVAIL_FOR_READ"} ELSE {})
           k == m.n_read + 1
<1>1. q \in Seq(Nat) BY MessageFacts
<1>2. st \in SUBSET Flags BY MessageFacts DEF Flags
<1>3. k \in Nat BY MessageFacts
<1>4. PushRead(m, seq) = [m EXCEPT !.n_read = k, !.read_queue = q, !.status = st]
  BY DEF PushRead
<1> HIDE DEF q, st, k
<1>5. [m EXCEPT !.n_read = k, !.read_queue = q, !.status = st] \in Messages(C)
  BY <1>1, <1>2, <1>3 DEF Messages
<1> QED BY <1>4, <1>5 DEF Messages, q, st, k

\* The fields after msg_pop_read_packet.
LEMMA PopReadFacts ==
  ASSUME NEW C, NEW m \in Messages(C)
  PROVE  LET n == PopRead(m)
             q == IF m.read_queue = << >> THEN << >> ELSE Tail(m.read_queue) IN
         /\ n \in Messages(C)
         /\ n.imsgid = m.imsgid /\ n.conv = m.conv /\ n.n_writ = m.n_writ /\ n.n_read = m.n_read
         /\ n.incomplete = m.incomplete /\ n.writ_queue = m.writ_queue
         /\ n.read_queue = q
         /\ n.status = (m.status \cup IF Len(q) < NBuff THEN {"SPACE_AVAIL_FOR_READ"} ELSE {})
                   \ (IF q = << >> THEN {"PACKET_AVAIL_TO_READ"} ELSE {})
<1> DEFINE q == IF m.read_queue = << >> THEN << >> ELSE Tail(m.read_queue)
           st == (m.status \cup IF Len(q) < NBuff THEN {"SPACE_AVAIL_FOR_READ"} ELSE {})
                   \ (IF q = << >> THEN {"PACKET_AVAIL_TO_READ"} ELSE {})
<1>1. q \in Seq(Nat) BY MessageFacts
<1>2. st \in SUBSET Flags BY MessageFacts DEF Flags
<1>3. PopRead(m) = [m EXCEPT !.read_queue = q, !.status = st]
  BY DEF PopRead
<1> HIDE DEF q, st
<1>4. [m EXCEPT !.read_queue = q, !.status = st] \in Messages(C)
  BY <1>1, <1>2 DEF Messages
<1> QED BY <1>3, <1>4 DEF Messages, q, st

\* msg_packet_new begins a packet.
LEMMA PacketType ==
  ASSUME NEW C, NEW m \in Messages(C), NEW id \in MsgIds
  PROVE  Packet(m, id) \in Packets(C) /\ Packet(m, id) # NoPacket
<1>1. m.imsgid \in 0 .. MaxMsgId /\ m.conv \in C /\ m.n_writ + 1 \in Nat BY MessageFacts
<1>2. (IF m.imsgid # 0 THEN m.imsgid ELSE -id) \in WireIds
  BY <1>1, MaxMsgIdAssumption DEF WireIds, MsgIds
<1>3. Packet(m, id).kind = "PACK" BY DEF Packet
<1>4. Packet(m, id) # NoPacket BY <1>3 DEF NoPacket
<1> QED BY <1>1, <1>2, <1>4 DEF Packet, Packets

\* The fields after msg_packet_new.
LEMMA BeginFacts ==
  ASSUME NEW C, NEW m \in Messages(C), NEW id \in MsgIds
  PROVE  LET n == Begin(m, id) IN
         /\ n \in Messages(C)
         /\ n.imsgid = m.imsgid /\ n.conv = m.conv /\ n.n_writ = m.n_writ + 1
            /\ n.n_read = m.n_read
         /\ n.incomplete = Packet(m, id) /\ n.writ_queue = m.writ_queue
         /\ n.read_queue = m.read_queue /\ n.status = m.status
<1>1. m.n_writ + 1 \in Nat BY MessageFacts
<1>2. Packet(m, id) \in Packets(C) BY PacketType
<1> QED BY <1>1, <1>2 DEF Messages, Begin

\* msg_push_writ_packet edits one message.
LEMMA PushWritEdits ==
  ASSUME NEW C, NEW s \in Switches(C), NEW id \in MsgIds, NEW m \in Messages(C),
         s.msgs[id] = m, m.incomplete # NoPacket
  PROVE  Edits(C, s, msg_push_writ_packet(s, id), id, PushWrit(m))
<1>1. msg_push_writ_packet(s, id)
        = msg_update_status(msg_check_selectability(At(s, id, PushWrit(m)), id), id)
  <2> DEFINE q == Append(m.writ_queue, m.incomplete)
             st == (m.status \cup {"PACKET_AVAIL_TO_WRIT"})
                   \ (IF Len(q) >= NBuff THEN {"SPACE_AVAIL_FOR_WRIT"} ELSE {})
  <2>1. PushWrit(m) = [m EXCEPT !.writ_queue = q, !.incomplete = NoPacket, !.status = st] BY
          DEF PushWrit
  <2>2. msg_push_writ_packet(s, id) = msg_update_status(msg_check_selectability(
          [s EXCEPT !.msgs[id].writ_queue = q, !.msgs[id].incomplete = NoPacket,
           !.msgs[id].status = st], id), id)
    BY DEF msg_push_writ_packet, Messages, Switches
  <2> HIDE DEF q, st
  <2>3. [s EXCEPT !.msgs[id].writ_queue = q, !.msgs[id].incomplete = NoPacket,
         !.msgs[id].status = st]
          = [s EXCEPT !.msgs[id] = [m EXCEPT !.writ_queue = q, !.incomplete = NoPacket,
                                    !.status = st]]
    BY DEF Switches
  <2> QED BY <2>1, <2>2, <2>3 DEF At
<1>2. PushWrit(m) \in Messages(C) BY PushWritFacts
<1> QED BY <1>1, <1>2, EditEdits

\* msg_pop_writ_packet edits one message.
LEMMA PopWritEdits ==
  ASSUME NEW C, NEW s \in Switches(C), NEW id \in MsgIds, NEW m \in Messages(C),
         s.msgs[id] = m, m.writ_queue # << >>
  PROVE  Edits(C, s, msg_pop_writ_packet(s, id), id, PopWrit(m))
<1>1. msg_pop_writ_packet(s, id)
        = msg_update_status(msg_check_selectability(At(s, id, PopWrit(m)), id), id)
  <2> DEFINE st == AfterPopWrit(m) q == Tail(m.writ_queue)
  <2>1. PopWrit(m) = [m EXCEPT !.status = st, !.writ_queue = q] BY DEF PopWrit
  <2>2. msg_pop_writ_packet(s, id) = msg_update_status(msg_check_selectability(
          [s EXCEPT !.msgs[id].status = st, !.msgs[id].writ_queue = q], id), id)
    BY DEF msg_pop_writ_packet, Messages, Switches
  <2> HIDE DEF q, st
  <2>3. [s EXCEPT !.msgs[id].status = st, !.msgs[id].writ_queue = q]
          = [s EXCEPT !.msgs[id] = [m EXCEPT !.status = st, !.writ_queue = q]]
    BY DEF Switches
  <2> QED BY <2>1, <2>2, <2>3 DEF At
<1>2. PopWrit(m) \in Messages(C) BY PopWritFacts
<1> QED BY <1>1, <1>2, EditEdits

\* msg_push_read_packet edits one message.
LEMMA PushReadEdits ==
  ASSUME NEW C, NEW s \in Switches(C), NEW id \in MsgIds, NEW m \in Messages(C),
         s.msgs[id] = m, NEW t \in Packets(C)
  PROVE  Edits(C, s, msg_push_read_packet(s, id, t), id, PushRead(m, t.seq))
<1>1. msg_push_read_packet(s, id, t)
        = msg_update_status(msg_check_selectability(At(s, id, PushRead(m, t.seq)), id), id)
  <2> DEFINE q == IF "CLOSED" \in m.status THEN m.read_queue ELSE Append(m.read_queue, t.seq)
             st == (m.status \cup {"NEED_TO_SEND_RESP", "PACKET_AVAIL_TO_READ"})
                   \ (IF Len(q) >= NBuff THEN {"SPACE_AVAIL_FOR_READ"} ELSE {})
             k == m.n_read + 1
  <2>1. PushRead(m, t.seq) = [m EXCEPT !.n_read = k, !.read_queue = q, !.status = st] BY
          DEF PushRead
  <2>2. msg_push_read_packet(s, id, t) = msg_update_status(msg_check_selectability(
          [s EXCEPT !.msgs[id].n_read = k, !.msgs[id].read_queue = q, !.msgs[id].status = st],
              id), id)
    BY DEF msg_push_read_packet, Has, Messages, Switches
  <2> HIDE DEF q, st, k
  <2>3. [s EXCEPT !.msgs[id].n_read = k, !.msgs[id].read_queue = q, !.msgs[id].status = st]
          = [s EXCEPT !.msgs[id] = [m EXCEPT !.n_read = k, !.read_queue = q, !.status = st]]
    BY DEF Switches
  <2> QED BY <2>1, <2>2, <2>3 DEF At
<1>2. t.seq \in Nat BY DEF Packets
<1>3. PushRead(m, t.seq) \in Messages(C) BY <1>2, PushReadFacts
<1> QED BY <1>1, <1>3, EditEdits

\* msg_pop_read_packet edits one message.
LEMMA PopReadEdits ==
  ASSUME NEW C, NEW s \in Switches(C), NEW id \in MsgIds, NEW m \in Messages(C), s.msgs[id] = m
  PROVE  Edits(C, s, msg_pop_read_packet(s, id), id, PopRead(m))
<1>1. msg_pop_read_packet(s, id)
        = msg_update_status(msg_check_selectability(At(s, id, PopRead(m)), id), id)
  <2> DEFINE q == IF m.read_queue = << >> THEN << >> ELSE Tail(m.read_queue)
             st == (m.status \cup IF Len(q) < NBuff THEN {"SPACE_AVAIL_FOR_READ"} ELSE {})
                   \ (IF q = << >> THEN {"PACKET_AVAIL_TO_READ"} ELSE {})
  <2>1. PopRead(m) = [m EXCEPT !.read_queue = q, !.status = st] BY DEF PopRead
  <2>2. msg_pop_read_packet(s, id) = msg_update_status(msg_check_selectability(
          [s EXCEPT !.msgs[id].read_queue = q, !.msgs[id].status = st], id), id)
    BY DEF msg_pop_read_packet, Messages, Switches
  <2> HIDE DEF q, st
  <2>3. [s EXCEPT !.msgs[id].read_queue = q, !.msgs[id].status = st]
          = [s EXCEPT !.msgs[id] = [m EXCEPT !.read_queue = q, !.status = st]]
    BY DEF Switches
  <2> QED BY <2>1, <2>2, <2>3 DEF At
<1>2. PopRead(m) \in Messages(C) BY PopReadFacts
<1> QED BY <1>1, <1>2, EditEdits

\* msg_packet_new, when no packet was begun, changes one message.
LEMMA BeginTurns ==
  ASSUME NEW C, NEW s \in Switches(C), NEW id \in MsgIds, NEW m \in Messages(C),
         s.msgs[id] = m, m.incomplete = NoPacket
  PROVE  Turns(C, s, msg_packet_new(s, id), id, Begin(m, id), s.pending_msgs, s.pending_resps)
<1>1. msg_packet_new(s, id) = At(s, id, Begin(m, id))
  <2> DEFINE k == m.n_writ + 1 pk == Packet(m, id)
  <2>1. Begin(m, id) = [m EXCEPT !.n_writ = k, !.incomplete = pk] BY DEF Begin
  <2>2. msg_packet_new(s, id) = [s EXCEPT !.msgs[id].n_writ = k, !.msgs[id].incomplete = pk]
    BY DEF msg_packet_new, WireId, Packet
  <2> HIDE DEF k, pk
  <2>3. [s EXCEPT !.msgs[id].n_writ = k, !.msgs[id].incomplete = pk]
          = [s EXCEPT !.msgs[id] = [m EXCEPT !.n_writ = k, !.incomplete = pk]]
    BY DEF Switches
  <2> QED BY <2>1, <2>2, <2>3 DEF At
<1> QED BY <1>1, BeginFacts, AtTurns

\* msg_packet_new, when a packet was begun, queues that one first.
LEMMA PushBegin ==
  ASSUME NEW C, NEW s \in Switches(C), NEW id \in MsgIds, s.msgs[id] # NoMsg,
         s.msgs[id].incomplete # NoPacket,
         msg_push_writ_packet(s, id).msgs[id].incomplete = NoPacket
  PROVE  msg_packet_new(s, id) = msg_packet_new(msg_push_writ_packet(s, id), id)
BY DEF msg_packet_new

\* Setting and clearing flags changes one message.
LEMMA FlagTurns ==
  ASSUME NEW C, NEW s \in Switches(C), NEW id \in MsgIds, NEW m \in Messages(C),
         s.msgs[id] = m, NEW set \in SUBSET Flags, NEW clr
  PROVE  Turns(C, s, SetFlags(s, id, set, clr), id, Flagged(m, (m.status \ clr) \cup set),
               s.pending_msgs, s.pending_resps)
<1> DEFINE st == (m.status \ clr) \cup set
<1>1. st \in SUBSET Flags BY MessageFacts
<1>2. SetFlags(s, id, set, clr) = At(s, id, Flagged(m, st))
  BY DEF SetFlags, At, Flagged, Switches
<1> HIDE DEF st
<1>3. Flagged(m, st) \in Messages(C) BY <1>1, FlaggedType
<1> QED BY <1>2, <1>3, AtTurns DEF st

\* Sending DISCON leaves the message alone and adds a response.
LEMMA DisconTurns ==
  ASSUME NEW C, NEW s \in Switches(C), NEW id \in MsgIds, NEW m \in Messages(C), s.msgs[id] = m
  PROVE  Turns(C, s, msg_send_resp(s, id, "DISCON"), id, m, s.pending_msgs,
               Append(s.pending_resps, Reply(m, id, "DISCON")))
<1> DEFINE r == Append(s.pending_resps, Reply(m, id, "DISCON"))
<1>1. Reply(m, id, "DISCON") \in Resps(C) BY ReplyType
<1>2. r \in Seq(Resps(C)) BY <1>1, SwitchFacts
<1>3. WireId(s, id) = (IF m.imsgid # 0 THEN m.imsgid ELSE -id) BY DEF WireId
<1>4. msg_send_resp(s, id, "DISCON") = [s EXCEPT !.pending_resps = r,
                                        !.msgs[id].status = m.status]
  BY <1>3 DEF msg_send_resp, Reply, Switches
<1> HIDE DEF r
<1>5. [s EXCEPT !.pending_resps = r,
       !.msgs[id].status = m.status] = [s EXCEPT !.pending_resps = r]
  <2>1. [m EXCEPT !.status = m.status] = m BY DEF Messages
  <2>2. [s.msgs EXCEPT ![id] = m] = s.msgs BY SwitchFacts
  <2> QED BY <2>1, <2>2 DEF Switches
<1>6. [s EXCEPT !.pending_resps = r] \in Switches(C) BY <1>2 DEF Switches
<1>7. [s.msgs EXCEPT ![id] = m] = s.msgs BY SwitchFacts
<1> QED BY <1>4, <1>5, <1>6, <1>7 DEF Turns, Core, Switches, r

----------------------------------------------------------------------------
(* pending_msgs: what is in it, and what is in it once. *)

\* id is in pending_msgs ...
Listed(q, id) == \E i \in 1 .. Len(q) : q[i] = id

\* ... and exactly once.
Once(q, id) == \E i \in 1 .. Len(q) : q[i] = id /\ \A j \in 1 .. Len(q) : q[j] = id => j = i

\* r is q without its place i.
Without(q, r, i) ==
  /\ i \in 1 .. Len(q)
  /\ Len(r) = Len(q) - 1
  /\ \A k \in 1 .. Len(r) : r[k] = IF k < i THEN q[k] ELSE q[k + 1]

\* The elements of the rest of a sequence.
LEMMA SubSeqAt ==
  ASSUME NEW S, NEW q \in Seq(S), NEW n \in 1 .. Len(q) + 1, NEW l \in 1 .. (Len(q) - n + 1)
  PROVE  SubSeq(q, n, Len(q))[l] = q[l + n - 1]
OBVIOUS

\* RemoveFirst takes away one place that has e.
LEMMA RemoveFirstFacts ==
  ASSUME NEW S, NEW q \in Seq(S), NEW e, Listed(q, e)
  PROVE  /\ RemoveFirst(q, e) \in Seq(S)
         /\ \E i : Without(q, RemoveFirst(q, e), i) /\ q[i] = e
<1> DEFINE I == {i \in 1 .. Len(q) : q[i] = e}
           i == Min(I)
<1>1. I \subseteq Nat /\ I # {} BY DEF Listed
<1>2. i \in I
  <2>1. \E x \in I : \A y \in I : x <= y
    <3> HIDE DEF I
    <3> QED BY <1>1, Least
  <2> HIDE DEF I
  <2> QED BY <2>1 DEF Min
<1>3. RemoveFirst(q, e) = RemoveAt(q, i) BY <1>1 DEF RemoveFirst, SelectInSeq, Listed
<1> HIDE DEF i
<1>4. i \in 1 .. Len(q) /\ q[i] = e BY <1>2
<1> HIDE DEF I
<1> DEFINE u == SubSeq(q, 1, i - 1) v == SubSeq(q, i + 1, Len(q)) r == u \o v
<1>5. RemoveFirst(q, e) = r BY <1>3 DEF RemoveAt
<1>6. u \in Seq(S) /\ v \in Seq(S) /\ Len(u) = i - 1 /\ Len(v) = Len(q) - i BY <1>4
<1>7. r \in Seq(S) /\ Len(r) = Len(q) - 1
  <2> HIDE DEF u, v
  <2> QED BY <1>4, <1>6
<1>8. \A k \in 1 .. Len(r) : r[k] = IF k < i THEN q[k] ELSE q[k + 1]
  <2> SUFFICES ASSUME NEW k \in 1 .. Len(r) PROVE r[k] = IF k < i THEN q[k]
      ELSE q[k + 1] OBVIOUS
  <2>1. r[k] = IF k <= Len(u) THEN u[k] ELSE v[k - Len(u)]
    <3> HIDE DEF u, v
    <3> QED BY <1>4, <1>6, <1>7
  <2>2. CASE k < i BY <2>1, <2>2, <1>4, <1>6
  <2>3. CASE ~(k < i)
    <3>1. k \in 1 .. (Len(q) - 1) /\ Len(q) \in Nat BY <1>7
    <3>2. k - Len(u) \in 1 .. Len(v) /\ ~(k <= Len(u)) /\ (i + 1) + (k - Len(u)) - 1 = k + 1
      <4> HIDE DEF u, v, r
      <4> QED BY <2>3, <3>1, <1>4, <1>6
    <3>3. \A l \in 1 .. (Len(q) - (i + 1) + 1) : v[l] = q[l + (i + 1) - 1]
      <4>1. i + 1 \in 1 .. Len(q) + 1 BY <1>4
      <4> QED BY <4>1, SubSeqAt
    <3>4. v[k - Len(u)] = q[(k - Len(u)) + (i + 1) - 1]
      <4> HIDE DEF u, v, r
      <4> QED BY <2>3, <3>1, <3>2, <3>3, <1>4, <1>6
    <3>5. r[k] = v[k - Len(u)] BY <2>1, <3>2
    <3>6. (k - Len(u)) + (i + 1) - 1 = k + 1
      <4> HIDE DEF u, v, r
      <4> QED BY <3>1, <1>4, <1>6
    <3> QED BY <2>3, <3>5, <3>4, <3>6
  <2> QED BY <2>2, <2>3
<1>9. Without(q, r, i) BY <1>4, <1>7, <1>8 DEF Without
<1> QED BY <1>4, <1>5, <1>7, <1>9

\* What is listed after one place is taken away.
LEMMA WithoutListed ==
  ASSUME NEW S, NEW T, NEW q \in Seq(S), NEW r \in Seq(T), NEW i, Without(q, r, i), NEW e
  PROVE  /\ q[i] = e /\ Once(q, e) => ~Listed(r, e)
         /\ q[i] # e /\ Once(q, e) => Once(r, e)
         /\ ~Listed(q, e) => ~Listed(r, e)
<1>1. /\ Len(q) \in Nat /\ Len(r) \in Nat /\ i \in 1 .. Len(q) /\ Len(r) = Len(q) - 1
      /\ \A k \in 1 .. Len(r) : r[k] = IF k < i THEN q[k] ELSE q[k + 1]
  BY DEF Without
<1>2. ASSUME NEW k \in 1 .. Len(r), r[k] = e
      PROVE  \E j \in 1 .. Len(q) : j # i /\ q[j] = e /\ k = IF j < i THEN j ELSE j - 1
  <2>1. CASE k < i BY <1>1, <1>2, <2>1
  <2>2. CASE ~(k < i)
    <3>1. k + 1 \in 1 .. Len(q) /\ q[k + 1] = e /\ k + 1 # i /\ ~(k + 1 < i) /\ k = (k + 1) - 1
      BY <1>1, <1>2, <2>2
    <3> QED BY <3>1
  <2> QED BY <2>1, <2>2
<1>3. q[i] = e /\ Once(q, e) => ~Listed(r, e) BY <1>1, <1>2 DEF Once, Listed
<1>4. ~Listed(q, e) => ~Listed(r, e) BY <1>2 DEF Listed
<1>5. ASSUME q[i] # e, Once(q, e) PROVE Once(r, e)
  <2>1. PICK j \in 1 .. Len(q) : q[j] = e /\ \A l \in 1 .. Len(q) : q[l] = e =>
          l = j BY <1>5 DEF Once
  <2> DEFINE k == IF j < i THEN j ELSE j - 1
  <2>2. k \in 1 .. Len(r) /\ r[k] = e BY <1>1, <1>5, <2>1
  <2>3. \A l \in 1 .. Len(r) : r[l] = e => l = k BY <1>2, <2>1
  <2> HIDE DEF k
  <2> QED BY <2>2, <2>3 DEF Once
<1> QED BY <1>3, <1>4, <1>5

\* Tail takes away the first place.
LEMMA TailWithout ==
  ASSUME NEW S, NEW q \in Seq(S), q # << >>
  PROVE  Tail(q) \in Seq(S) /\ Without(q, Tail(q), 1)
BY DEF Without

\* What is listed after one place is added.
LEMMA AppendListed ==
  ASSUME NEW S, NEW q \in Seq(S), NEW x \in S, NEW e
  PROVE  /\ Append(q, x) \in Seq(S)
         /\ x = e /\ ~Listed(q, e) => Once(Append(q, x), e)
         /\ x # e /\ Once(q, e) => Once(Append(q, x), e)
         /\ x # e /\ ~Listed(q, e) => ~Listed(Append(q, x), e)
<1> DEFINE r == Append(q, x)
<1>1. /\ r \in Seq(S) /\ Len(r) = Len(q) + 1 /\ Len(q) \in Nat /\ r[Len(q) + 1] = x
      /\ \A i \in 1 .. Len(q) : r[i] = q[i]
  OBVIOUS
<1> HIDE DEF r
<1>2. x = e /\ ~Listed(q, e) => Once(r, e)
  <2> SUFFICES ASSUME x = e, ~Listed(q, e) PROVE Once(r, e) OBVIOUS
  <2>1. Len(q) + 1 \in 1 .. Len(r) BY <1>1
  <2>2. \A j \in 1 .. Len(r) : r[j] = e => j = Len(q) + 1 BY <1>1 DEF Listed
  <2> QED BY <1>1, <2>1, <2>2 DEF Once
<1>3. x # e /\ Once(q, e) => Once(r, e)
  <2> SUFFICES ASSUME x # e, Once(q, e) PROVE Once(r, e) OBVIOUS
  <2>1. PICK i \in 1 .. Len(q) : q[i] = e /\ \A j \in 1 .. Len(q) : q[j] = e =>
          j = i BY DEF Once
  <2>2. i \in 1 .. Len(r) /\ r[i] = e BY <1>1, <2>1
  <2>3. ASSUME NEW j \in 1 .. Len(r), r[j] = e PROVE j = i
    <3>1. j # Len(q) + 1 BY <1>1, <2>3
    <3>2. j \in 1 .. Len(q) BY <1>1, <3>1
    <3> QED BY <1>1, <2>1, <2>3, <3>2
  <2> QED BY <2>2, <2>3 DEF Once
<1>4. x # e /\ ~Listed(q, e) => ~Listed(r, e) BY <1>1 DEF Listed
<1> QED BY <1>1, <1>2, <1>3, <1>4 DEF r

\* pending_msgs once the message it points to is freed.
Dangle(q, id) == [k \in DOMAIN q |-> IF q[k] = id THEN Dangling ELSE q[k]]

\* No place that is left points to the message that was freed, and the
\* others are the same.
LEMMA DangleListed ==
  ASSUME NEW q \in Seq(0 .. MaxMsgId), NEW id \in MsgIds
  PROVE  /\ Dangle(q, id) \in Seq(0 .. MaxMsgId)
         /\ ~Listed(Dangle(q, id), id)
         /\ \A e \in MsgIds \ {id} : /\ Once(q, e) => Once(Dangle(q, id), e)
                                     /\ ~Listed(q, e) => ~Listed(Dangle(q, id), e)
<1> DEFINE r == Dangle(q, id)
<1>1. \A k \in 1 .. Len(q) : (IF q[k] = id THEN 0
                              ELSE q[k]) \in 0 .. MaxMsgId BY MaxMsgIdAssumption
<1>2. DOMAIN q = 1 .. Len(q) /\ Len(q) \in Nat OBVIOUS
<1>3. r = [k \in 1 .. Len(q) |-> IF q[k] = id THEN 0 ELSE q[k]] BY <1>2 DEF Dangle, Dangling
<1> HIDE DEF r
<1>4. /\ r \in Seq(0 .. MaxMsgId) /\ Len(r) = Len(q) /\ Len(q) \in Nat
      /\ \A k \in 1 .. Len(q) : r[k] = IF q[k] = id THEN 0 ELSE q[k]
  BY <1>1, <1>2, <1>3
<1> HIDE DEF r
<1>5. ~Listed(r, id) BY <1>4 DEF Listed, MsgIds
<1>6. ASSUME NEW e \in MsgIds \ {id}, Once(q, e) PROVE Once(r, e)
  <2>1. PICK i \in 1 .. Len(q) : q[i] = e /\ \A j \in 1 .. Len(q) : q[j] = e =>
          j = i BY <1>6 DEF Once
  <2>2. r[i] = e BY <1>4, <2>1
  <2>3. \A j \in 1 .. Len(r) : r[j] = e => j = i BY <1>4, <2>1 DEF MsgIds
  <2> QED BY <1>4, <2>2, <2>3 DEF Once
<1>7. \A e \in MsgIds \ {id} : ~Listed(q, e) => ~Listed(r, e) BY <1>4 DEF Listed, MsgIds
<1> QED BY <1>4, <1>5, <1>6, <1>7 DEF r

----------------------------------------------------------------------------
(* Clearing and freeing a message. *)

\* Only what the select loop is to report differs.
Still(C, s, t) ==
  /\ t \in Switches(C)
  /\ t.msgs = s.msgs /\ t.imsgid_map = s.imsgid_map
  /\ t.pending_msgs = s.pending_msgs /\ t.pending_resps = s.pending_resps
  /\ t.failed = s.failed

\* msg_clear, on the message.
Cleared(m) ==
  [m EXCEPT !.writ_queue = << >>, !.read_queue = << >>,
            !.status = @ \cap {"CONNECTED", "CLOSED", "SENT_DISCONNECT", "DISCONNECTED"}]

\* pending_msgs after msg_clear.
Unlisted(q, m, id) == IF "WRITING" \in m.status THEN RemoveFirst(q, id) ELSE q

\* msg_clear takes the message, and no other, out of pending_msgs.
LEMMA UnlistedFacts ==
  ASSUME NEW q \in Seq(0 .. MaxMsgId), NEW m, NEW id \in MsgIds
  PROVE  /\ Unlisted(q, m, id) \in Seq(0 .. MaxMsgId)
         /\ "WRITING" \in m.status /\ Once(q, id) => ~Listed(Unlisted(q, m, id), id)
         /\ "WRITING" \notin m.status /\ ~Listed(q, id) => ~Listed(Unlisted(q, m, id), id)
         /\ \A e \in MsgIds \ {id} : /\ Once(q, e) => Once(Unlisted(q, m, id), e)
                                     /\ ~Listed(q, e) => ~Listed(Unlisted(q, m, id), e)
<1>1. CASE "WRITING" \in m.status /\ Listed(q, id)
  <2> DEFINE r == RemoveFirst(q, id)
  <2>1. r \in Seq(0 .. MaxMsgId) /\ \E i : Without(q, r, i) /\ q[i] = id BY <1>1,
          RemoveFirstFacts
  <2>2. PICK i : Without(q, r, i) /\ q[i] = id BY <2>1
  <2>3. Unlisted(q, m, id) = r BY <1>1 DEF Unlisted
  <2> HIDE DEF r
  <2>4. Once(q, id) => ~Listed(r, id) BY <2>1, <2>2, WithoutListed
  <2>5. \A e \in MsgIds \ {id} : /\ Once(q, e) => Once(r, e)
                                 /\ ~Listed(q, e) => ~Listed(r, e)
    BY <2>1, <2>2, WithoutListed
  <2> QED BY <1>1, <2>1, <2>3, <2>4, <2>5
<1>2. CASE ~("WRITING" \in m.status /\ Listed(q, id))
  <2>1. Unlisted(q, m, id) = q BY <1>2 DEF Unlisted, RemoveFirst, Listed
  <2>2. Once(q, id) => Listed(q, id) BY DEF Once, Listed
  <2> QED BY <1>2, <2>1, <2>2
<1> QED BY <1>1, <1>2

\* The fields after msg_clear.
LEMMA ClearedFacts ==
  ASSUME NEW C, NEW m \in Messages(C)
  PROVE  LET n == Cleared(m) IN
         /\ n \in Messages(C)
         /\ n.imsgid = m.imsgid /\ n.conv = m.conv /\ n.n_writ = m.n_writ /\ n.n_read = m.n_read
         /\ n.incomplete = m.incomplete /\ n.writ_queue = << >> /\ n.read_queue = << >>
         /\ n.status = m.status \cap {"CONNECTED", "CLOSED", "SENT_DISCONNECT", "DISCONNECTED"}
<1> DEFINE st == m.status \cap {"CONNECTED", "CLOSED", "SENT_DISCONNECT", "DISCONNECTED"}
<1>1. st \in SUBSET Flags BY MessageFacts
<1>2. Cleared(m) = [m EXCEPT !.writ_queue = << >>, !.read_queue = << >>, !.status = st] BY
        DEF Cleared
<1> HIDE DEF st
<1>3. [m EXCEPT !.writ_queue = << >>, !.read_queue = << >>, !.status = st] \in Messages(C)
  <2> DEFINE e == << >>
  <2>1. e \in Seq(Packets(C)) /\ e \in Seq(Nat) OBVIOUS
  <2> HIDE DEF e
  <2>2. [m EXCEPT !.writ_queue = e, !.read_queue = e, !.status = st] \in Messages(C)
    BY <1>1, <2>1 DEF Messages
  <2> QED BY <2>2 DEF e
<1> QED BY <1>2, <1>3 DEF Messages, st

\* msg_clear changes one message and its place in pending_msgs.
LEMMA ClearTurns ==
  ASSUME NEW C, NEW s \in Switches(C), NEW id \in MsgIds, NEW m \in Messages(C), s.msgs[id] = m
  PROVE  Turns(C, s, msg_clear(s, id), id, Cleared(m), Unlisted(s.pending_msgs, m, id),
               s.pending_resps)
<1> DEFINE q == Unlisted(s.pending_msgs, m, id)
           a == At(s, id, Cleared(m))
           b == [a EXCEPT !.pending_msgs = q]
<1>1. q \in Seq(0 .. MaxMsgId) BY SwitchFacts, UnlistedFacts
<1>2. Cleared(m) \in Messages(C) BY ClearedFacts
<1>3. msg_clear(s, id) = msg_check_selectability(b, id)
  <2> DEFINE st == m.status \cap {"CONNECTED", "CLOSED", "SENT_DISCONNECT", "DISCONNECTED"}
  <2>1. msg_clear(s, id) = msg_check_selectability(
          [s EXCEPT !.msgs[id].writ_queue = << >>, !.msgs[id].read_queue = << >>,
           !.msgs[id].status = st,
                    !.pending_msgs = q], id)
    BY DEF msg_clear, Has, Unlisted, Switches, Messages
  <2>2. Cleared(m) = [m EXCEPT !.writ_queue = << >>, !.read_queue = << >>, !.status = st] BY
          DEF Cleared
  <2> HIDE DEF st, q
  <2>3. [s EXCEPT !.msgs[id].writ_queue = << >>, !.msgs[id].read_queue = << >>,
         !.msgs[id].status = st,
                  !.pending_msgs = q] = b
    BY <2>2 DEF At, Switches
  <2> QED BY <2>1, <2>3
<1>4. Turns(C, s, a, id, Cleared(m), s.pending_msgs, s.pending_resps) BY <1>2, AtTurns
<1> HIDE DEF a, q
<1>5. a \in Switches(C) BY <1>4 DEF Turns
<1>6. Turns(C, s, b, id, Cleared(m), q, s.pending_resps)
  BY <1>1, <1>4, <1>5 DEF Turns, Core, Switches
<1> HIDE DEF b
<1>7. b \in Switches(C) /\ Exists(b, id) /\ b.msgs[id] = Cleared(m) /\ b.pending_msgs = q
      /\ b.pending_resps = s.pending_resps
  BY <1>2, <1>6, TurnsAt, TurnsExists
<1>8. Turns(C, b, msg_check_selectability(b, id), id, Cleared(m), q, s.pending_resps)
  BY <1>7, CheckTurns
<1>9. Turns(C, s, msg_check_selectability(b, id), id, Cleared(m), q, s.pending_resps)
  BY <1>6, <1>8, TurnsTwice
<1> QED BY <1>3, <1>9 DEF q

\* imsgid_map once the entry i is given back.
Unmapped(map, i) == IF i # 0 THEN [map EXCEPT ![i] = 0] ELSE map

\* That entry is 0 and the others are the same.
LEMMA UnmappedType ==
  ASSUME NEW map \in [MsgIds -> 0 .. MaxMsgId], NEW i \in 0 .. MaxMsgId
  PROVE  /\ Unmapped(map, i) \in [MsgIds -> 0 .. MaxMsgId]
         /\ \A j \in MsgIds : Unmapped(map, i)[j] = IF j = i THEN 0 ELSE map[j]
BY MaxMsgIdAssumption DEF Unmapped, MsgIds

\* The message id is gone.
Frees(C, s, t, id) ==
  /\ t \in Switches(C)
  /\ t.failed = s.failed
  /\ t.msgs = [s.msgs EXCEPT ![id] = NoMsg]
  /\ t.imsgid_map = Unmapped(s.imsgid_map, s.msgs[id].imsgid)
  /\ t.pending_msgs = Dangle(Unlisted(s.pending_msgs, s.msgs[id], id), id)
  /\ t.pending_resps = s.pending_resps

\* msg_free takes the message out of msgs, imsgid_map and pending_msgs.
LEMMA FreeFrees ==
  ASSUME NEW C, NEW s \in Switches(C), NEW id \in MsgIds, NEW m \in Messages(C), s.msgs[id] = m
  PROVE  Frees(C, s, msg_free(s, id), id)
<1> DEFINE c == msg_clear(s, id)
           u == Unlisted(s.pending_msgs, m, id)
           q == Dangle(u, id)
           map == Unmapped(s.imsgid_map, m.imsgid)
           z == [s.msgs EXCEPT ![id] = NoMsg]
           sel == c.selectable \ {id}
<1>1. Turns(C, s, c, id, Cleared(m), u, s.pending_resps) BY ClearTurns
<1>2. m.imsgid \in 0 .. MaxMsgId /\ Cleared(m).imsgid = m.imsgid BY MessageFacts, ClearedFacts
<1>3. u \in Seq(0 .. MaxMsgId) BY SwitchFacts, UnlistedFacts
<1>4. q \in Seq(0 .. MaxMsgId)
  <2> HIDE DEF u
  <2> QED BY <1>3, DangleListed
<1>5. map \in [MsgIds -> 0 .. MaxMsgId] BY <1>2, SwitchFacts, UnmappedType
<1>6. z \in [MsgIds -> Messages(C) \cup {NoMsg}] BY SwitchFacts
<1> HIDE DEF c, u
<1>7. /\ c \in Switches(C) /\ c.msgs = [s.msgs EXCEPT ![id] = Cleared(m)] /\ c.pending_msgs = u
      /\ c.imsgid_map = s.imsgid_map /\ c.pending_resps = s.pending_resps /\ Core(s, c)
  BY <1>1 DEF Turns, Core
<1>8. c.msgs[id].imsgid = m.imsgid /\ [c.msgs EXCEPT ![id] = NoMsg] = z
  BY <1>2, <1>7, SwitchFacts
<1>9. sel \in SUBSET MsgIds BY <1>7, SwitchFacts
<1>10. msg_free(s, id) = [c EXCEPT !.msgs = z, !.selectable = sel, !.imsgid_map = map,
                          !.pending_msgs = q]
  <2>1. msg_free(s, id) = [c EXCEPT
         !.msgs[id] = NoMsg,
         !.selectable = @ \ {id},
         !.imsgid_map = IF m.imsgid # 0 THEN [@ EXCEPT ![m.imsgid] = 0] ELSE @,
         !.pending_msgs = [k \in DOMAIN @ |-> IF @[k] = id THEN Dangling ELSE @[k]]]
    BY <1>8 DEF msg_free, c
  <2>2. map = (IF m.imsgid # 0 THEN [c.imsgid_map EXCEPT ![m.imsgid] = 0] ELSE c.imsgid_map)
    BY <1>7 DEF Unmapped
  <2>3. q = [k \in DOMAIN c.pending_msgs |-> IF c.pending_msgs[k] = id THEN Dangling
             ELSE c.pending_msgs[k]]
    BY <1>7 DEF Dangle
  <2>4. msg_free(s, id) = [c EXCEPT
         !.msgs = [c.msgs EXCEPT ![id] = NoMsg],
         !.selectable = c.selectable \ {id},
         !.imsgid_map = IF m.imsgid # 0 THEN [c.imsgid_map EXCEPT ![m.imsgid] = 0]
             ELSE c.imsgid_map,
         !.pending_msgs = [k \in DOMAIN c.pending_msgs |->
                             IF c.pending_msgs[k] = id THEN Dangling ELSE c.pending_msgs[k]]]
    BY <2>1, <1>7 DEF Switches
  <2> QED BY <2>2, <2>3, <2>4, <1>8
<1> HIDE DEF q, map, z, sel
<1>11. [c EXCEPT !.msgs = z, !.selectable = sel, !.imsgid_map = map,
        !.pending_msgs = q] \in Switches(C)
  BY <1>4, <1>5, <1>6, <1>7, <1>9 DEF Switches
<1>12. Frees(C, s, [c EXCEPT !.msgs = z, !.selectable = sel, !.imsgid_map = map,
                    !.pending_msgs = q], id)
  <2> DEFINE t == [c EXCEPT !.msgs = z, !.selectable = sel, !.imsgid_map = map,
                   !.pending_msgs = q]
  <2>1. t.msgs = z /\ t.imsgid_map = map /\ t.pending_msgs = q
          /\ t.pending_resps = c.pending_resps
        /\ t.failed = c.failed
    BY <1>7 DEF Switches
  <2>2. t \in Switches(C) BY <1>11
  <2> HIDE DEF t
  <2>3. t.failed = s.failed BY <1>7, <2>1 DEF Core
  <2>4. Frees(C, s, t, id) BY <1>7, <2>1, <2>2, <2>3 DEF Frees, map, q, z, u
  <2> QED BY <2>4 DEF t
<1> QED BY <1>10, <1>12

----------------------------------------------------------------------------
(* What holds of one message. *)

\* The flags of a message say what its queues hold, until it is
\* disconnected: PACKET_AVAIL_TO_WRIT that something is queued, WRITING that
\* what is queued is due and not yet sent. A read buffer that is full is not
\* acknowledged, and a message that has sent DISCON is closed and has
\* nothing left to send.
Sound(m) ==
  /\ "DISCONNECTED" \in m.status => "SENT_DISCONNECT" \in m.status
  /\ m.incomplete # NoPacket => m.n_writ > 0
  /\ "DISCONNECTED" \notin m.status =>
       /\ "PACKET_AVAIL_TO_WRIT" \in m.status <=> m.writ_queue # << >>
       /\ "WRITING" \in m.status => m.writ_queue # << >> /\ "WAITING_FOR_RESP" \notin m.status
       /\ Len(m.read_queue) >= NBuff =>
            "SPACE_AVAIL_FOR_READ" \notin m.status /\ "NEED_TO_SEND_RESP" \in m.status
       /\ "WAITING_FOR_RESP" \in m.status \/ m.writ_queue # << >> => m.n_writ > 0
       /\ "SENT_DISCONNECT" \in m.status => m.writ_queue = << >> /\ "CLOSED" \in m.status

\* What was appended to is not empty.
LEMMA AppendSome ==
  ASSUME NEW S, NEW q \in Seq(S), NEW e \in S
  PROVE  Append(q, e) # << >>
<1>1. Len(Append(q, e)) = Len(q) + 1 /\ Len(q) \in Nat OBVIOUS
<1>2. Len(<< >>) = 0 OBVIOUS
<1> QED BY <1>1, <1>2

\* The length of what is left.
LEMMA TailSome ==
  ASSUME NEW S, NEW q \in Seq(S), q # << >>
  PROVE  /\ Tail(q) \in Seq(S) /\ Len(Tail(q)) = Len(q) - 1 /\ Len(q) \in Nat \ {0}
         /\ Tail(q) # << >> <=> ~(Len(q) - 1 < 1)
<1>1. Tail(q) \in Seq(S) /\ Len(Tail(q)) = Len(q) - 1 /\ Len(q) \in Nat \ {0} OBVIOUS
<1> DEFINE r == Tail(q)
<1>2. r = << >> <=> Len(r) = 0
  <2>1. r \in Seq(S) BY <1>1
  <2> HIDE DEF r
  <2> QED BY <2>1
<1> QED BY <1>1, <1>2

\* The fields after msg_update_status.
LEMMA SettledFacts ==
  ASSUME NEW C, NEW m \in Messages(C)
  PROVE  LET n == Settled(m) IN
         /\ n \in Messages(C) /\ n.status = SettledStatus(m)
         /\ n.imsgid = m.imsgid /\ n.conv = m.conv
         /\ n.n_writ = m.n_writ /\ n.n_read = m.n_read
         /\ n.incomplete = m.incomplete /\ n.read_queue = m.read_queue
            /\ n.writ_queue = m.writ_queue
BY SettledType, FlaggedType DEF Settled

\* msg_update_status keeps a message sound.
LEMMA SettledSound ==
  ASSUME NEW C, NEW m \in Messages(C), Sound(m)
  PROVE  Sound(Settled(m))
<1> DEFINE n == Settled(m)
<1>1. /\ n.n_writ = m.n_writ /\ n.incomplete = m.incomplete /\ n.read_queue = m.read_queue
      /\ n.writ_queue = m.writ_queue /\ n.status = SettledStatus(m)
  BY SettledFacts
<1> HIDE DEF n
<1>2. /\ "DISCONNECTED" \in n.status <=> "DISCONNECTED" \in m.status
      /\ "SENT_DISCONNECT" \in n.status <=> "SENT_DISCONNECT" \in m.status
      /\ "CLOSED" \in n.status <=> "CLOSED" \in m.status
      /\ "PACKET_AVAIL_TO_WRIT" \in n.status <=> "PACKET_AVAIL_TO_WRIT" \in m.status
      /\ "WAITING_FOR_RESP" \in n.status <=> "WAITING_FOR_RESP" \in m.status
      /\ "SPACE_AVAIL_FOR_READ" \in n.status <=> "SPACE_AVAIL_FOR_READ" \in m.status
      /\ "WRITING" \in n.status <=> "WRITING" \in m.status \/ Queues(m)
      /\ "NEED_TO_SEND_RESP" \in n.status <=> "NEED_TO_SEND_RESP" \in m.status /\ ~Acks(m)
  BY <1>1 DEF SettledStatus
<1> QED BY <1>1, <1>2 DEF Sound, Queues, Acks, n

\* msg_push_writ_packet keeps a message sound, unless it has sent DISCON.
LEMMA PushWritSound ==
  ASSUME NEW C, NEW m \in Messages(C), m.incomplete # NoPacket, Sound(m),
         "SENT_DISCONNECT" \in m.status => "DISCONNECTED" \in m.status
  PROVE  Sound(PushWrit(m))
<1> DEFINE n == PushWrit(m)
<1>1. /\ n.n_writ = m.n_writ /\ n.incomplete = NoPacket /\ n.read_queue = m.read_queue
      /\ n.writ_queue = Append(m.writ_queue, m.incomplete)
      /\ n.status = (m.status \cup {"PACKET_AVAIL_TO_WRIT"})
              \ (IF Len(Append(m.writ_queue, m.incomplete)) >= NBuff
                 THEN {"SPACE_AVAIL_FOR_WRIT"} ELSE {})
  BY PushWritFacts
<1>2. n.writ_queue # << >>
  <2>1. m.writ_queue \in Seq(Packets(C)) /\ m.incomplete \in Packets(C) BY MessageFacts
  <2> QED BY <1>1, <2>1, AppendSome
<1> HIDE DEF n
<1> QED BY <1>1, <1>2 DEF Sound, n

\* msg_pop_writ_packet keeps a message sound.
LEMMA PopWritSound ==
  ASSUME NEW C, NEW m \in Messages(C), m.writ_queue # << >>, Sound(m)
  PROVE  Sound(PopWrit(m))
<1> DEFINE n == PopWrit(m)
<1>1. /\ n.n_writ = m.n_writ /\ n.incomplete = m.incomplete /\ n.read_queue = m.read_queue
      /\ n.writ_queue = Tail(m.writ_queue) /\ n.status = AfterPopWrit(m)
  BY PopWritFacts
<1> HIDE DEF n
<1>2. Tail(m.writ_queue) # << >> <=> ~(Len(m.writ_queue) - 1 < 1)
  <2>1. m.writ_queue \in Seq(Packets(C)) BY MessageFacts
  <2> QED BY <2>1, TailSome
<1>3. /\ "DISCONNECTED" \in n.status <=> "DISCONNECTED" \in m.status
      /\ "SENT_DISCONNECT" \in n.status <=> "SENT_DISCONNECT" \in m.status
      /\ "CLOSED" \in n.status <=> "CLOSED" \in m.status
      /\ "PACKET_AVAIL_TO_WRIT" \in n.status <=>
            "PACKET_AVAIL_TO_WRIT" \in m.status /\ Tail(m.writ_queue) # << >>
      /\ "SPACE_AVAIL_FOR_READ" \in n.status <=> "SPACE_AVAIL_FOR_READ" \in m.status
      /\ "WRITING" \notin n.status
      /\ "WAITING_FOR_RESP" \in n.status
      /\ "NEED_TO_SEND_RESP" \in n.status <=> "NEED_TO_SEND_RESP" \in m.status
  BY <1>1, <1>2 DEF AfterPopWrit
<1> QED BY <1>1, <1>3 DEF Sound, n

\* msg_push_read_packet keeps a message sound.
LEMMA PushReadSound ==
  ASSUME NEW C, NEW m \in Messages(C), NEW seq \in Nat, Sound(m)
  PROVE  Sound(PushRead(m, seq))
<1> DEFINE n == PushRead(m, seq)
           q == IF "CLOSED" \in m.status THEN m.read_queue ELSE Append(m.read_queue, seq)
<1>1. /\ n.n_writ = m.n_writ /\ n.incomplete = m.incomplete /\ n.read_queue = q
      /\ n.writ_queue = m.writ_queue
      /\ n.status = (m.status \cup {"NEED_TO_SEND_RESP", "PACKET_AVAIL_TO_READ"})
                   \ (IF Len(q) >= NBuff THEN {"SPACE_AVAIL_FOR_READ"} ELSE {})
  BY PushReadFacts
<1> HIDE DEF n, q
<1> QED BY <1>1 DEF Sound, n

\* msg_pop_read_packet keeps a message sound.
LEMMA PopReadSound ==
  ASSUME NEW C, NEW m \in Messages(C), Sound(m)
  PROVE  Sound(PopRead(m))
<1> DEFINE n == PopRead(m)
           q == IF m.read_queue = << >> THEN << >> ELSE Tail(m.read_queue)
<1>1. /\ n.n_writ = m.n_writ /\ n.incomplete = m.incomplete /\ n.read_queue = q
      /\ n.writ_queue = m.writ_queue
      /\ n.status = (m.status \cup IF Len(q) < NBuff THEN {"SPACE_AVAIL_FOR_READ"} ELSE {})
                   \ (IF q = << >> THEN {"PACKET_AVAIL_TO_READ"} ELSE {})
  BY PopReadFacts
<1>2. Len(q) \in Nat /\ Len(m.read_queue) \in Nat /\ Len(q) <= Len(m.read_queue) BY MessageFacts
<1> HIDE DEF n, q
<1> QED BY <1>1, <1>2, NBuffAssumption DEF Sound, n

\* msg_packet_new keeps a message sound.
LEMMA BeginSound ==
  ASSUME NEW C, NEW m \in Messages(C), NEW id \in MsgIds, Sound(m)
  PROVE  Sound(Begin(m, id))
<1> DEFINE n == Begin(m, id)
<1>1. /\ n.n_writ = m.n_writ + 1 /\ n.read_queue = m.read_queue
      /\ n.writ_queue = m.writ_queue /\ n.status = m.status
  BY BeginFacts
<1>2. m.n_writ + 1 > 0 BY MessageFacts
<1> HIDE DEF n
<1> QED BY <1>1, <1>2 DEF Sound, n

----------------------------------------------------------------------------
(* What holds of one switch. *)

\* A message that is not disconnected is in pending_msgs once while it is
\* WRITING, and otherwise not.
PendFor(pend, id, m) ==
  "DISCONNECTED" \notin m.status =>
     IF "WRITING" \in m.status THEN Once(pend, id) ELSE ~Listed(pend, id)

\* What pending_msgs has of the other messages.
Spares(q, r, id) ==
  \A e \in MsgIds \ {id} : (Once(q, e) => Once(r, e)) /\ (~Listed(q, e) => ~Listed(r, e))

\* What has to hold at id: no pointer to a message that is not there, and
\* otherwise a sound message with its place in pending_msgs.
Tidy(pend, m, id) ==
  IF m = NoMsg THEN ~Listed(pend, id) ELSE Sound(m) /\ PendFor(pend, id, m)

\* imsgid_map and the imsgid of the messages are inverse to each other.
MapOK(s) ==
  \A i, id \in MsgIds : s.imsgid_map[i] = id <=> (Exists(s, id) /\ s.msgs[id].imsgid = i)

\* Loc but for the message id.
LocBut(C, s, id) ==
  s \in Switches(C) /\ MapOK(s) /\ \A j \in MsgIds \ {id} : Tidy(s.pending_msgs, s.msgs[j], j)

\* What every operation keeps.
Loc(C, s) ==
  s \in Switches(C) /\ MapOK(s) /\ \A j \in MsgIds : Tidy(s.pending_msgs, s.msgs[j], j)

\* A step that spares the other messages leaves them as they should be.
LEMMA SparesTidy ==
  ASSUME NEW q, NEW r, NEW id, Spares(q, r, id), NEW e \in MsgIds \ {id}, NEW m, Tidy(q, m, e)
  PROVE  Tidy(r, m, e)
BY DEF Spares, Tidy, PendFor

\* Adding a message to pending_msgs spares the others.
LEMMA AppendSpares ==
  ASSUME NEW q \in Seq(0 .. MaxMsgId), NEW id \in MsgIds
  PROVE  Spares(q, Append(q, id), id)
<1>1. id \in 0 .. MaxMsgId BY DEF MsgIds
<1> DEFINE S == 0 .. MaxMsgId
<1>2. q \in Seq(S) /\ id \in S BY <1>1
<1> HIDE DEF S
<1>3. ASSUME NEW e \in MsgIds \ {id}
      PROVE  (Once(q, e) => Once(Append(q, id), e)) /\ (~Listed(q, e) =>
                                                        ~Listed(Append(q, id), e))
  BY <1>2, AppendListed
<1> QED BY <1>3 DEF Spares

\* Taking the first off pending_msgs spares the others.
LEMMA TailSpares ==
  ASSUME NEW q \in Seq(0 .. MaxMsgId), q # << >>, NEW id, Head(q) = id
  PROVE  /\ Spares(q, Tail(q), id)
         /\ Once(q, id) => ~Listed(Tail(q), id)
<1> DEFINE r == Tail(q)
<1>1. r \in Seq(0 .. MaxMsgId) /\ Without(q, r, 1) BY TailWithout
<1>2. q[1] = id OBVIOUS
<1> HIDE DEF r
<1>3. Spares(q, r, id) BY <1>1, <1>2, WithoutListed DEF Spares
<1>4. Once(q, id) => ~Listed(r, id) BY <1>1, <1>2, WithoutListed
<1> QED BY <1>3, <1>4 DEF r

\* What Loc says of one message.
LEMMA LocFacts ==
  ASSUME NEW C, NEW s, Loc(C, s), NEW id \in MsgIds
  PROVE  /\ s \in Switches(C) /\ MapOK(s) /\ LocBut(C, s, id)
         /\ Exists(s, id) => /\ s.msgs[id] \in Messages(C) /\ Sound(s.msgs[id])
                             /\ PendFor(s.pending_msgs, id, s.msgs[id])
<1>1. s \in Switches(C) /\ MapOK(s) /\ LocBut(C, s, id) BY DEF Loc, LocBut
<1>2. Tidy(s.pending_msgs, s.msgs[id], id) BY DEF Loc
<1>3. s.msgs[id] \in Messages(C) \cup {NoMsg} BY <1>1, SwitchFacts
<1> QED BY <1>1, <1>2, <1>3 DEF Tidy, Exists

\* A step at a message that keeps its imsgid keeps imsgid_map right.
LEMMA TurnsMap ==
  ASSUME NEW C, NEW s \in Switches(C), MapOK(s), NEW t, NEW id \in MsgIds,
         NEW n \in Messages(C), NEW p, NEW r, Turns(C, s, t, id, n, p, r), Exists(s, id),
         n.imsgid = s.msgs[id].imsgid
  PROVE  MapOK(t)
<1>1. /\ t.msgs[id] = n /\ \A j \in MsgIds \ {id} : t.msgs[j] = s.msgs[j]
      /\ t.imsgid_map = s.imsgid_map
  BY TurnsAt
<1>2. n # NoMsg BY MessageFacts
<1> QED BY <1>1, <1>2 DEF MapOK, Exists

\* A step at a message that leaves it sound and in its place keeps Loc.
LEMMA TurnsLoc ==
  ASSUME NEW C, NEW s, NEW t, NEW id \in MsgIds, LocBut(C, s, id), Exists(s, id),
         NEW n \in Messages(C), NEW p, NEW r, Turns(C, s, t, id, n, p, r),
         n.imsgid = s.msgs[id].imsgid, Sound(n), PendFor(p, id, n),
         Spares(s.pending_msgs, p, id)
  PROVE  Loc(C, t)
<1>1. s \in Switches(C) /\ MapOK(s) BY DEF LocBut
<1>2. t \in Switches(C) /\ MapOK(t) BY <1>1, TurnsMap, TurnsAt
<1>3. t.msgs[id] = n /\ t.pending_msgs = p /\ \A j \in MsgIds \ {id} : t.msgs[j] = s.msgs[j]
  BY <1>1, TurnsAt
<1>4. n # NoMsg BY MessageFacts
<1>5. ASSUME NEW j \in MsgIds PROVE Tidy(t.pending_msgs, t.msgs[j], j)
  <2>1. CASE j = id BY <1>3, <1>4, <2>1 DEF Tidy
  <2>2. CASE j # id
    <3>1. Tidy(s.pending_msgs, s.msgs[j], j) BY <2>2 DEF LocBut
    <3> QED BY <1>3, <2>2, <3>1, SparesTidy
  <2> QED BY <2>1, <2>2
<1> QED BY <1>2, <1>5 DEF Loc

\* Nothing changes, nothing is lost.
LEMMA SameSpares ==
  ASSUME NEW q, NEW id
  PROVE  Spares(q, q, id)
BY DEF Spares

\* An edit that leaves the message sound keeps Loc, msg_update_status
\* putting it in its place.
LEMMA EditsLoc ==
  ASSUME NEW C, NEW s, NEW t, NEW id \in MsgIds, LocBut(C, s, id), Exists(s, id),
         NEW n \in Messages(C), Edits(C, s, t, id, n), n.imsgid = s.msgs[id].imsgid, Sound(n),
         PendFor(s.pending_msgs, id, n)
  PROVE  Loc(C, t)
<1> DEFINE p == IF Queues(n) THEN Append(s.pending_msgs, id) ELSE s.pending_msgs
           r == IF Acks(n) THEN Append(s.pending_resps, Reply(n, id, "OK")) ELSE s.pending_resps
           k == Settled(n)
<1>1. Turns(C, s, t, id, k, p, r) BY DEF Edits
<1>2. k \in Messages(C) /\ k.imsgid = n.imsgid /\ k.status = SettledStatus(n) BY SettledFacts
<1>3. Sound(k) BY SettledSound
<1>4. s \in Switches(C) BY DEF LocBut
<1>5. s.pending_msgs \in Seq(0 .. MaxMsgId) BY <1>4, SwitchFacts
<1>6. Spares(s.pending_msgs, p, id) BY <1>5, AppendSpares, SameSpares
<1>7. ~Listed(s.pending_msgs, id) => Once(Append(s.pending_msgs, id), id)
  <2> DEFINE S == 0 .. MaxMsgId
  <2>1. s.pending_msgs \in Seq(S) /\ id \in S BY <1>5 DEF MsgIds
  <2> HIDE DEF S
  <2> QED BY <2>1, AppendListed
<1> HIDE DEF k, r
<1>8. PendFor(p, id, k)
  <2>1. /\ "DISCONNECTED" \in k.status <=> "DISCONNECTED" \in n.status
        /\ "WRITING" \in k.status <=> "WRITING" \in n.status \/ Queues(n)
    BY <1>2 DEF SettledStatus
  <2> QED BY <1>7, <2>1 DEF PendFor, Queues
<1> HIDE DEF p
<1> QED BY <1>1, <1>2, <1>3, <1>6, <1>8, TurnsLoc

\* What freeing leaves.
LEMMA FreesAt ==
  ASSUME NEW C, NEW s \in Switches(C), NEW t, NEW id \in MsgIds, Frees(C, s, t, id)
  PROVE  /\ t \in Switches(C) /\ t.msgs[id] = NoMsg
         /\ \A j \in MsgIds \ {id} : t.msgs[j] = s.msgs[j]
         /\ t.pending_resps = s.pending_resps /\ t.failed = s.failed
BY SwitchFacts DEF Frees

\* Giving back the entry of a message that has no imsgid any more keeps
\* imsgid_map right.
LEMMA UnmapOK ==
  ASSUME NEW C, NEW s \in Switches(C), NEW t, NEW id \in MsgIds, MapOK(s),
         s.msgs[id] \in Messages(C), t.imsgid_map = Unmapped(s.imsgid_map, s.msgs[id].imsgid),
         \A j \in MsgIds \ {id} : t.msgs[j] = s.msgs[j],
         t.msgs[id] = NoMsg \/ t.msgs[id].imsgid = 0
  PROVE  MapOK(t)
<1> DEFINE m == s.msgs[id]
<1>1. Exists(s, id) BY MessageFacts DEF Exists
<1>2. m.imsgid \in 0 .. MaxMsgId BY MessageFacts
<1>3. \A j \in MsgIds : t.imsgid_map[j] = IF j = m.imsgid THEN 0 ELSE s.imsgid_map[j]
  <2>1. s.imsgid_map \in [MsgIds -> 0 .. MaxMsgId] BY SwitchFacts
  <2> DEFINE map == s.imsgid_map i == m.imsgid
  <2>2. map \in [MsgIds -> 0 .. MaxMsgId] /\ i \in 0 .. MaxMsgId
          /\ t.imsgid_map = Unmapped(map, i)
    BY <2>1, <1>2
  <2> HIDE DEF m, map, i
  <2>3. \A j \in MsgIds : Unmapped(map, i)[j] = IF j = i THEN 0 ELSE map[j] BY <2>2,
          UnmappedType
  <2> QED BY <2>2, <2>3 DEF map, i
<1>4. MapOK(t)
  <2> HIDE DEF m
  <2> SUFFICES ASSUME NEW i \in MsgIds, NEW j \in MsgIds
               PROVE  t.imsgid_map[i] = j <=> (Exists(t, j) /\ t.msgs[j].imsgid = i)
    BY DEF MapOK
  <2>1. s.imsgid_map[i] = j <=> (Exists(s, j) /\ s.msgs[j].imsgid = i) BY DEF MapOK
  <2>2. s.imsgid_map[i] = id <=> (Exists(s, id) /\ m.imsgid = i) BY DEF MapOK, m
  <2>3. CASE j = id
    <3>1. ~(Exists(t, j) /\ t.msgs[j].imsgid = i) BY <2>3 DEF Exists, MsgIds
    <3>2. t.imsgid_map[i] # id
      <4>1. CASE i = m.imsgid BY <4>1, <1>3 DEF MsgIds
      <4>2. CASE i # m.imsgid BY <4>2, <1>3, <2>2
      <4> QED BY <4>1, <4>2
    <3> QED BY <2>3, <3>1, <3>2
  <2>4. CASE j # id
    <3>1. Exists(t, j) <=> Exists(s, j) BY <2>4 DEF Exists
    <3>2. t.msgs[j] = s.msgs[j] BY <2>4
    <3>3. CASE i = m.imsgid
      <4>1. t.imsgid_map[i] = 0 BY <3>3, <1>3
      <4>2. s.imsgid_map[i] = id BY <1>1, <2>2, <3>3
      <4> QED BY <2>1, <2>4, <3>1, <3>2, <4>1, <4>2 DEF MsgIds
    <3>4. CASE i # m.imsgid BY <2>1, <3>1, <3>2, <3>4, <1>3
    <3> QED BY <3>3, <3>4
  <2> QED BY <2>3, <2>4
<1> QED BY <1>4

\* Freeing keeps Loc.
LEMMA FreesLoc ==
  ASSUME NEW C, NEW s, NEW t, NEW id \in MsgIds, Loc(C, s), Exists(s, id), Frees(C, s, t, id)
  PROVE  Loc(C, t)
<1>1. s \in Switches(C) /\ MapOK(s) BY DEF Loc
<1>2. /\ t \in Switches(C) /\ t.msgs[id] = NoMsg
      /\ \A j \in MsgIds \ {id} : t.msgs[j] = s.msgs[j]
  BY <1>1, FreesAt
<1> DEFINE m == s.msgs[id]
           u == Unlisted(s.pending_msgs, m, id)
<1>3. m \in Messages(C) BY LocFacts
<1>4. /\ t.imsgid_map = Unmapped(s.imsgid_map, m.imsgid) /\ t.pending_msgs = Dangle(u, id) BY
         DEF Frees
<1>5. MapOK(t) BY <1>1, <1>2, <1>3, <1>4, UnmapOK
<1>6. u \in Seq(0 .. MaxMsgId) /\ Spares(s.pending_msgs, u, id)
  BY <1>1, SwitchFacts, UnlistedFacts DEF Spares
<1> HIDE DEF u, m
<1>7. ~Listed(t.pending_msgs, id) /\ Spares(u, t.pending_msgs, id)
  BY <1>4, <1>6, DangleListed DEF Spares
<1>8. ASSUME NEW j \in MsgIds PROVE Tidy(t.pending_msgs, t.msgs[j], j)
  <2>1. CASE j = id BY <1>2, <1>7, <2>1 DEF Tidy
  <2>2. CASE j # id
    <3>1. Tidy(s.pending_msgs, s.msgs[j], j) BY DEF Loc
    <3>2. Tidy(u, s.msgs[j], j) BY <1>6, <2>2, <3>1, SparesTidy
    <3>3. Tidy(t.pending_msgs, s.msgs[j], j) BY <1>7, <2>2, <3>2, SparesTidy
    <3> QED BY <1>2, <2>2, <3>3
  <2> QED BY <2>1, <2>2
<1> QED BY <1>2, <1>5, <1>8 DEF Loc

----------------------------------------------------------------------------
(* Creating, opening and accepting. *)

\* msg_get_avail_msgid gives a msgid that is free, or none.
LEMMA AvailFacts ==
  ASSUME NEW C, NEW s \in Switches(C)
  PROVE  \/ msg_get_avail_msgid(s) = -1
         \/ msg_get_avail_msgid(s) \in MsgIds /\ s.msgs[msg_get_avail_msgid(s)] = NoMsg
<1>1. CASE \A i \in MsgIds : s.msgs[i] # NoMsg BY <1>1 DEF msg_get_avail_msgid
<1>2. CASE ~\A i \in MsgIds : s.msgs[i] # NoMsg
  <2> DEFINE T == {i \in MsgIds : s.msgs[i] = NoMsg}
  <2>1. T \subseteq Nat /\ T # {} BY <1>2 DEF MsgIds
  <2>2. PICK x \in T : \A y \in T : x <= y
    <3> HIDE DEF T
    <3> QED BY <2>1, Least
  <2>3. x \in MsgIds /\ s.msgs[x] = NoMsg /\ \A j \in 1 .. (x - 1) : s.msgs[j] # NoMsg
    <3>1. x \in MsgIds /\ s.msgs[x] = NoMsg BY <2>2
    <3>2. ASSUME NEW j \in 1 .. (x - 1) PROVE s.msgs[j] # NoMsg
      <4>1. j \in MsgIds /\ ~(x <= j) BY <3>1, MaxMsgIdAssumption DEF MsgIds
      <4>2. j \notin T BY <2>2, <4>1
      <4> QED BY <4>1, <4>2
    <3> QED BY <3>1, <3>2
  <2> DEFINE P(i) == s.msgs[i] = NoMsg /\ \A j \in 1 .. (i - 1) : s.msgs[j] # NoMsg
             y == CHOOSE i \in MsgIds : P(i)
  <2>4. msg_get_avail_msgid(s) = y BY <1>2 DEF msg_get_avail_msgid
  <2>5. y \in MsgIds /\ P(y)
    <3>1. \E i \in MsgIds : P(i) BY <2>3
    <3> HIDE DEF P
    <3> QED BY <3>1
  <2> HIDE DEF y
  <2> QED BY <2>4, <2>5
<1> QED BY <1>1, <1>2

\* A new message, with the imsgid i.
NewFor(conv, i) ==
  [free |-> FALSE, imsgid |-> i, status |-> {"SPACE_AVAIL_FOR_READ", "SPACE_AVAIL_FOR_WRIT"},
   n_writ |-> 0, n_read |-> 0, incomplete |-> NoPacket, read_queue |-> << >>,
   writ_queue |-> << >>, conv |-> conv]

\* The fields of a new message.
LEMMA NewFacts ==
  ASSUME NEW C, NEW conv \in C, NEW i \in 0 .. MaxMsgId
  PROVE  LET n == NewFor(conv, i) IN
         /\ n \in Messages(C) /\ n.imsgid = i /\ n.conv = conv /\ n.n_writ = 0 /\ n.n_read = 0
         /\ n.incomplete = NoPacket /\ n.read_queue = << >> /\ n.writ_queue = << >>
         /\ n.status = {"SPACE_AVAIL_FOR_READ", "SPACE_AVAIL_FOR_WRIT"}
         /\ Sound(n)
<1> DEFINE n == NewFor(conv, i)
           st == {"SPACE_AVAIL_FOR_READ", "SPACE_AVAIL_FOR_WRIT"}
           e == << >>
<1>1. st \in SUBSET Flags BY DEF Flags
<1>2. e \in Seq(Nat) /\ e \in Seq(Packets(C)) /\ Len(e) = 0 OBVIOUS
<1>3. n = [free |-> FALSE, imsgid |-> i, status |-> st,
   n_writ |-> 0, n_read |-> 0, incomplete |-> NoPacket, read_queue |-> e,
   writ_queue |-> e, conv |-> conv]
  BY DEF NewFor
<1>4. "DISCONNECTED" \notin st /\ "PACKET_AVAIL_TO_WRIT" \notin st /\ "WRITING" \notin st
      /\ "WAITING_FOR_RESP" \notin st /\ "SENT_DISCONNECT" \notin st
  OBVIOUS
<1> HIDE DEF n, st, e
<1>5. /\ n \in Messages(C) /\ n.imsgid = i /\ n.conv = conv /\ n.n_writ = 0 /\ n.n_read = 0
      /\ n.incomplete = NoPacket /\ n.read_queue = e /\ n.writ_queue = e /\ n.status = st
  BY <1>1, <1>2, <1>3 DEF Messages
<1>6. Sound(n) BY <1>2, <1>5, <1>4, NBuffAssumption DEF Sound, e
<1> QED BY <1>5, <1>6 DEF n, st, e

\* A message that this end opens has no imsgid.
LEMMA NewIsFor ==
  ASSUME NEW conv
  PROVE  NewMsg(conv) = NewFor(conv, 0)
BY DEF NewMsg, NewFor

\* msg_create changes one message.
LEMMA CreateTurns ==
  ASSUME NEW C, NEW s \in Switches(C), NEW conv \in C, NEW id \in MsgIds,
         id = msg_get_avail_msgid(s)
  PROVE  Turns(C, s, msg_create(s, conv), id, NewFor(conv, 0), s.pending_msgs, s.pending_resps)
<1> DEFINE n == NewFor(conv, 0)
           a == At(s, id, n)
<1>1. id # -1 BY DEF MsgIds
<1>2. n \in Messages(C) BY NewFacts, MaxMsgIdAssumption
<1>3. msg_create(s, conv) = msg_check_selectability(a, id)
  BY <1>1, NewIsFor DEF msg_create, At
<1> HIDE DEF n
<1>4. Turns(C, s, a, id, n, s.pending_msgs, s.pending_resps) BY <1>2, AtTurns
<1> HIDE DEF a
<1>5. a \in Switches(C) /\ Exists(a, id) /\ a.msgs[id] = n /\ a.pending_msgs = s.pending_msgs
      /\ a.pending_resps = s.pending_resps
  BY <1>2, <1>4, TurnsAt, TurnsExists
<1>6. Turns(C, a, msg_check_selectability(a, id), id, n, s.pending_msgs, s.pending_resps)
  BY <1>5, CheckTurns
<1> QED BY <1>3, <1>4, <1>6, TurnsTwice DEF n

\* A new message keeps Loc.
LEMMA AddLoc ==
  ASSUME NEW C, NEW s, Loc(C, s), NEW id \in MsgIds, s.msgs[id] = NoMsg, NEW t,
         NEW n \in Messages(C), NEW r, Turns(C, s, t, id, n, s.pending_msgs, r), n.imsgid = 0,
         Sound(n), "WRITING" \notin n.status
  PROVE  Loc(C, t)
<1>1. s \in Switches(C) /\ MapOK(s) BY DEF Loc
<1>2. /\ t \in Switches(C) /\ t.msgs[id] = n /\ t.pending_msgs = s.pending_msgs
      /\ t.imsgid_map = s.imsgid_map /\ \A j \in MsgIds \ {id} : t.msgs[j] = s.msgs[j]
  BY <1>1, TurnsAt
<1>3. n # NoMsg BY MessageFacts
<1>4. MapOK(t)
  <2> SUFFICES ASSUME NEW i \in MsgIds, NEW j \in MsgIds
               PROVE  t.imsgid_map[i] = j <=> (Exists(t, j) /\ t.msgs[j].imsgid = i)
    BY DEF MapOK
  <2>1. s.imsgid_map[i] = j <=> (Exists(s, j) /\ s.msgs[j].imsgid = i) BY <1>1 DEF MapOK
  <2>2. i # 0 BY DEF MsgIds
  <2> QED BY <1>2, <2>1, <2>2 DEF Exists
<1>5. ASSUME NEW j \in MsgIds PROVE Tidy(t.pending_msgs, t.msgs[j], j)
  <2>1. Tidy(s.pending_msgs, s.msgs[j], j) BY DEF Loc
  <2> QED BY <1>2, <1>3, <2>1 DEF Tidy, PendFor
<1> QED BY <1>2, <1>4, <1>5 DEF Loc

\* The switch has not failed.
Unfailed(s) == s.failed = None

\* msg_open, when there is a msgid.
LEMMA OpenTurns ==
  ASSUME NEW C, NEW s \in Switches(C), NEW conv \in C, NEW id \in MsgIds,
         id = msg_get_avail_msgid(s), Unfailed(s)
  PROVE  Turns(C, s, msg_open(s, conv), id,
               Flagged(NewFor(conv, 0), NewFor(conv, 0).status \cup {"CONNECTED"}),
               s.pending_msgs, s.pending_resps)
<1> DEFINE n == NewFor(conv, 0)
           st == n.status \cup {"CONNECTED"}
           k == Flagged(n, st)
           a == msg_create(s, conv)
           b == SetFlags(a, id, {"CONNECTED"}, {})
<1>1. n \in Messages(C) BY NewFacts, MaxMsgIdAssumption
<1>2. st \in SUBSET Flags /\ (n.status \ {}) \cup {"CONNECTED"} = st BY <1>1, MessageFacts
        DEF Flags
<1>3. Turns(C, s, a, id, n, s.pending_msgs, s.pending_resps) BY CreateTurns
<1> HIDE DEF n, a, st
<1>4. a \in Switches(C) /\ a.msgs[id] = n /\ a.pending_msgs = s.pending_msgs
      /\ a.pending_resps = s.pending_resps /\ a.failed = None
  <2>1. Turns(C, s, a, id, n, s.pending_msgs, s.pending_resps) BY <1>3
  <2>2. a \in Switches(C) /\ a.msgs[id] = n /\ a.pending_msgs = s.pending_msgs
      /\ a.pending_resps = s.pending_resps
    BY <2>1, TurnsAt
  <2>3. a.failed = s.failed BY <2>1 DEF Turns, Core
  <2> QED BY <2>2, <2>3 DEF Unfailed
<1>5. {"CONNECTED"} \in SUBSET Flags BY DEF Flags
<1>6. Turns(C, a, b, id, k, s.pending_msgs, s.pending_resps)
  BY <1>1, <1>2, <1>4, <1>5, FlagTurns
<1>7. msg_open(s, conv) = msg_check_selectability(b, id) BY <1>4 DEF msg_open, a
<1>8. k \in Messages(C) BY <1>1, <1>2, FlaggedType
<1> HIDE DEF b, k
<1>9. b \in Switches(C) /\ Exists(b, id) /\ b.msgs[id] = k /\ b.pending_msgs = s.pending_msgs
      /\ b.pending_resps = s.pending_resps
  <2>1. Exists(b, id) BY <1>4, <1>6, <1>8, TurnsExists
  <2>2. b \in Switches(C) /\ b.msgs[id] = k /\ b.pending_msgs = s.pending_msgs
      /\ b.pending_resps = s.pending_resps
    BY <1>4, <1>6, TurnsAt
  <2> QED BY <2>1, <2>2
<1>10. Turns(C, b, msg_check_selectability(b, id), id, k, s.pending_msgs, s.pending_resps)
  BY <1>9, CheckTurns
<1>11. Turns(C, s, b, id, k, s.pending_msgs, s.pending_resps) BY <1>3, <1>6, TurnsTwice
<1>12. Turns(C, s, msg_check_selectability(b, id), id, k, s.pending_msgs, s.pending_resps)
  BY <1>10, <1>11, TurnsTwice
<1> QED BY <1>7, <1>12 DEF k, n, st

\* Failing changes nothing else.
LEMMA FailType ==
  ASSUME NEW C, NEW s \in Switches(C), NEW where \in Failures
  PROVE  /\ Fail(s, where) \in Switches(C)
         /\ Fail(s, where).msgs = s.msgs /\ Fail(s, where).imsgid_map = s.imsgid_map
         /\ Fail(s, where).pending_msgs = s.pending_msgs
         /\ Fail(s, where).pending_resps = s.pending_resps
         /\ Fail(s, where).failed = IF s.failed = None THEN where ELSE s.failed
<1> DEFINE f == IF s.failed = None THEN where ELSE s.failed
<1>1. f \in Failures BY SwitchFacts
<1>2. Fail(s, where) = [s EXCEPT !.failed = f] BY DEF Fail, Switches
<1> HIDE DEF f
<1>3. [s EXCEPT !.failed = f] \in Switches(C) BY <1>1 DEF Switches
<1> QED BY <1>2, <1>3 DEF Switches, f

\* The parts of the switch that the link depends on are the same.
Keeps(C, s, t) ==
  /\ t \in Switches(C)
  /\ t.msgs = s.msgs /\ t.imsgid_map = s.imsgid_map
  /\ t.pending_msgs = s.pending_msgs /\ t.pending_resps = s.pending_resps

\* Failing keeps them.
LEMMA FailKeeps ==
  ASSUME NEW C, NEW s \in Switches(C), NEW where \in Failures
  PROVE  Keeps(C, s, Fail(s, where))
BY FailType DEF Keeps

\* Loc depends on those parts only.
LEMMA KeepsLoc ==
  ASSUME NEW C, NEW s, Loc(C, s), NEW t, Keeps(C, s, t)
  PROVE  Loc(C, t)
BY DEF Loc, Keeps, MapOK, Exists

\* msg_check_selectability keeps them.
LEMMA CheckKeeps ==
  ASSUME NEW C, NEW s \in Switches(C), NEW id \in MsgIds, Exists(s, id)
  PROVE  Keeps(C, s, msg_check_selectability(s, id)) /\ msg_check_selectability(s,
      id).failed = s.failed
<1> DEFINE t == msg_check_selectability(s, id)
<1>1. Turns(C, s, t, id, s.msgs[id], s.pending_msgs, s.pending_resps) BY CheckTurns
<1>2. [s.msgs EXCEPT ![id] = s.msgs[id]] = s.msgs BY SwitchFacts
<1> HIDE DEF t
<1>3. Keeps(C, s, t) /\ t.failed = s.failed BY <1>1, <1>2 DEF Turns, Core, Keeps
<1> QED BY <1>3 DEF t

\* Two such steps are one.
LEMMA KeepsTwice ==
  ASSUME NEW C, NEW s, NEW t, NEW u, Keeps(C, s, t), Keeps(C, t, u)
  PROVE  Keeps(C, s, u)
BY DEF Keeps

\* msg_clr_read and msg_clr_write keep them.
LEMMA ClrKeeps ==
  ASSUME NEW C, NEW s \in Switches(C), NEW id \in MsgIds, Exists(s, id)
  PROVE  LET t == msg_clr_write(msg_clr_read(s, id), id)
         IN  Keeps(C, s, t) /\ t.failed = s.failed
<1>1. ASSUME NEW a \in Switches(C), Exists(a, id)
      PROVE  LET t == SetActive(a, id) IN Keeps(C, a, t) /\ t.failed = a.failed
  <2> DEFINE h == Hashed(a, id)
  <2>1. Keeps(C, a, h) /\ h.failed = a.failed
    <3> DEFINE S == IF id \in a.active_read \cup a.active_write THEN a.active_hash \cup {id}
                    ELSE a.active_hash \ {id}
    <3>1. h = [a EXCEPT !.active_hash = S] BY <1>1 DEF Hashed, Switches
    <3>2. S \in SUBSET MsgIds BY <1>1, SwitchFacts
    <3> HIDE DEF h, S
    <3> QED BY <1>1, <3>1, <3>2 DEF Keeps, Switches
  <2> HIDE DEF h
  <2>2. h \in Switches(C) /\ Exists(h, id) BY <1>1, <2>1 DEF Keeps, Exists
  <2> DEFINE t == msg_check_selectability(h, id)
  <2>3. Keeps(C, h, t) /\ t.failed = h.failed BY <2>2, CheckKeeps
  <2>4. SetActive(a, id) = t BY DEF SetActive, h
  <2> HIDE DEF t
  <2>5. Keeps(C, a, t) /\ t.failed = a.failed BY <2>1, <2>3, KeepsTwice
  <2> QED BY <2>4, <2>5
<1> DEFINE a == [s EXCEPT !.active_read = @ \ {id}]
           b == SetActive(a, id)
           c == [b EXCEPT !.active_write = @ \ {id}]
           d == SetActive(c, id)
<1>2. Keeps(C, s, a) /\ a.failed = s.failed
  <2>1. s.active_read \ {id} \in SUBSET MsgIds BY SwitchFacts
  <2> QED BY <2>1 DEF Keeps, Switches
<1> HIDE DEF a
<1>3. a \in Switches(C) /\ Exists(a, id) BY <1>2 DEF Keeps, Exists
<1>4. Keeps(C, a, b) /\ b.failed = a.failed BY <1>1, <1>3
<1> HIDE DEF b
<1>5. b \in Switches(C) /\ Exists(b, id) BY <1>3, <1>4 DEF Keeps, Exists
<1>6. Keeps(C, b, c) /\ c.failed = b.failed
  <2>1. b.active_write \ {id} \in SUBSET MsgIds BY <1>5, SwitchFacts
  <2> QED BY <1>5, <2>1 DEF Keeps, Switches
<1> HIDE DEF c
<1>7. c \in Switches(C) /\ Exists(c, id) BY <1>5, <1>6 DEF Keeps, Exists
<1>8. Keeps(C, c, d) /\ d.failed = c.failed BY <1>1, <1>7
<1> HIDE DEF d
<1>9. Keeps(C, s, d) /\ d.failed = s.failed BY <1>2, <1>4, <1>6, <1>8, KeepsTwice
<1>10. msg_clr_write(msg_clr_read(s, id), id) = d BY DEF msg_clr_write, msg_clr_read, a, b, c, d
<1> QED BY <1>9, <1>10

\* msg_accept of a message that is not disconnected.
LEMMA AcceptTurns ==
  ASSUME NEW C, NEW s \in Switches(C), NEW id \in MsgIds, NEW m \in Messages(C),
         s.msgs[id] = m, "DISCONNECTED" \notin m.status
  PROVE  Turns(C, s, msg_accept(s, id), id, Flagged(m, m.status \cup {"CONNECTED"}),
               s.pending_msgs, s.pending_resps)
<1> DEFINE st == m.status \cup {"CONNECTED"}
           k == Flagged(m, st)
           a == SetFlags(s, id, {"CONNECTED"}, {})
           b == [a EXCEPT !.active_hash = @ \ {id}]
           c == msg_check_selectability(b, id)
<1>1. (m.status \ {}) \cup {"CONNECTED"} = st /\ {"CONNECTED"} \in SUBSET Flags BY DEF Flags
<1>2. Turns(C, s, a, id, k, s.pending_msgs, s.pending_resps) BY <1>1, FlagTurns
<1>3. st \in SUBSET Flags BY <1>1, MessageFacts
<1>4. k \in Messages(C) BY <1>3, FlaggedType
<1>5. msg_accept(s, id) = c BY DEF msg_accept, Has
<1> HIDE DEF a, k, st
<1>6. a \in Switches(C) BY <1>2 DEF Turns
<1>7. a.active_hash \ {id} \in SUBSET MsgIds BY <1>6, SwitchFacts
<1>8. Keeps(C, a, b) /\ b.failed = a.failed BY <1>6, <1>7 DEF Keeps, Switches
<1> HIDE DEF b
<1>9. Turns(C, s, b, id, k, s.pending_msgs, s.pending_resps) BY <1>2, <1>8 DEF Turns, Keeps,
        Core
<1>10. b \in Switches(C) /\ Exists(b, id) BY <1>4, <1>9, TurnsAt, TurnsExists
<1>11. Keeps(C, b, c) /\ c.failed = b.failed BY <1>10, CheckKeeps
<1> HIDE DEF c
<1>12. Turns(C, s, c, id, k, s.pending_msgs, s.pending_resps) BY <1>9, <1>11 DEF Turns, Keeps,
         Core
<1> QED BY <1>5, <1>12 DEF k, st

----------------------------------------------------------------------------
(* A message that the other end disconnects, and one that it opens. *)

\* A message once the other end has disconnected it.
Parted(m) ==
  [m EXCEPT !.status = @ \cup {"SENT_DISCONNECT", "DISCONNECTED"}, !.imsgid = 0]

\* Its fields.
LEMMA PartedFacts ==
  ASSUME NEW C, NEW m \in Messages(C)
  PROVE  LET n == Parted(m) IN
         /\ n \in Messages(C) /\ n.imsgid = 0 /\ n.conv = m.conv /\ n.n_writ = m.n_writ
         /\ n.n_read = m.n_read /\ n.incomplete = m.incomplete /\ n.writ_queue = m.writ_queue
         /\ n.read_queue = m.read_queue
         /\ n.status = m.status \cup {"SENT_DISCONNECT", "DISCONNECTED"}
         /\ Sound(m) => Sound(n)
<1> DEFINE st == m.status \cup {"SENT_DISCONNECT", "DISCONNECTED"}
           n == Parted(m)
<1>1. st \in SUBSET Flags BY MessageFacts DEF Flags
<1>2. n = [m EXCEPT !.status = st, !.imsgid = 0] BY DEF Parted
<1>3. "SENT_DISCONNECT" \in st /\ "DISCONNECTED" \in st OBVIOUS
<1> HIDE DEF st, n
<1>4. 0 \in 0 .. MaxMsgId BY MaxMsgIdAssumption
<1>5. /\ n \in Messages(C) /\ n.imsgid = 0 /\ n.conv = m.conv /\ n.n_writ = m.n_writ
      /\ n.n_read = m.n_read /\ n.incomplete = m.incomplete /\ n.writ_queue = m.writ_queue
      /\ n.read_queue = m.read_queue /\ n.status = st
  BY <1>1, <1>2, <1>4 DEF Messages
<1>6. Sound(m) => Sound(n) BY <1>3, <1>5 DEF Sound
<1> QED BY <1>5, <1>6 DEF n, st

\* The switch after that, the place in imsgid_map given back.
Gone(s, id) ==
  LET replied == msg_send_resp(s, id, "DISCON")
      i == s.msgs[id].imsgid
  IN  [replied EXCEPT
         !.msgs[id].status = @ \cup {"SENT_DISCONNECT", "DISCONNECTED"},
         !.msgs[id].imsgid = 0,
         !.imsgid_map = IF i # 0 THEN [@ EXCEPT ![i] = 0] ELSE @]

\* Its fields.
LEMMA GoneFacts ==
  ASSUME NEW C, NEW s \in Switches(C), NEW id \in MsgIds, NEW m \in Messages(C), s.msgs[id] = m
  PROVE  LET g == Gone(s, id) IN
         /\ g \in Switches(C)
         /\ g.msgs = [s.msgs EXCEPT ![id] = Parted(m)]
         /\ g.imsgid_map = Unmapped(s.imsgid_map, m.imsgid)
         /\ g.pending_msgs = s.pending_msgs
         /\ g.pending_resps = Append(s.pending_resps, Reply(m, id, "DISCON"))
         /\ g.failed = s.failed
<1> DEFINE r == Append(s.pending_resps, Reply(m, id, "DISCON"))
           a == msg_send_resp(s, id, "DISCON")
           map == Unmapped(s.imsgid_map, m.imsgid)
           st == m.status \cup {"SENT_DISCONNECT", "DISCONNECTED"}
           z == [s.msgs EXCEPT ![id] = Parted(m)]
           g == Gone(s, id)
<1>1. Turns(C, s, a, id, m, s.pending_msgs, r) BY DisconTurns
<1>2. m.imsgid \in 0 .. MaxMsgId BY MessageFacts
<1>3. map \in [MsgIds -> 0 .. MaxMsgId] BY <1>2, SwitchFacts, UnmappedType
<1>4. Parted(m) \in Messages(C) BY PartedFacts
<1>5. z \in [MsgIds -> Messages(C) \cup {NoMsg}] BY <1>4, SwitchFacts
<1>6. Parted(m) = [m EXCEPT !.status = st, !.imsgid = 0] BY DEF Parted
<1> HIDE DEF a, r
<1>7. /\ a \in Switches(C) /\ a.msgs = s.msgs /\ a.imsgid_map = s.imsgid_map
      /\ a.pending_msgs = s.pending_msgs /\ a.pending_resps = r /\ a.failed = s.failed
  <2>1. [s.msgs EXCEPT ![id] = m] = s.msgs BY SwitchFacts
  <2> QED BY <1>1, <2>1 DEF Turns, Core
<1>8. g = [a EXCEPT !.msgs = z, !.imsgid_map = map]
  <2>1. g = [a EXCEPT !.msgs[id].status = st, !.msgs[id].imsgid = 0, !.imsgid_map = map]
    BY <1>7 DEF Gone, Unmapped, a, Switches
  <2> HIDE DEF g, st, map
  <2>2. [a EXCEPT !.msgs[id].status = st, !.msgs[id].imsgid = 0, !.imsgid_map = map]
          = [a EXCEPT !.msgs = [a.msgs EXCEPT ![id] = [m EXCEPT !.status = st, !.imsgid = 0]],
             !.imsgid_map = map]
    BY <1>7 DEF Switches
  <2> QED BY <1>6, <1>7, <2>1, <2>2
<1> HIDE DEF g, z, map
<1>9. g \in Switches(C) BY <1>3, <1>5, <1>7, <1>8 DEF Switches
<1>10. /\ g.msgs = z /\ g.imsgid_map = map /\ g.pending_msgs = s.pending_msgs
       /\ g.pending_resps = r /\ g.failed = s.failed
  BY <1>7, <1>8 DEF Switches
<1> QED BY <1>9, <1>10 DEF g, z, map, r

\* A disconnected message keeps Loc.
LEMMA GoneLoc ==
  ASSUME NEW C, NEW s, Loc(C, s), NEW id \in MsgIds, Exists(s, id)
  PROVE  Loc(C, Gone(s, id))
<1> DEFINE m == s.msgs[id]
           g == Gone(s, id)
<1>1. s \in Switches(C) /\ MapOK(s) /\ m \in Messages(C) /\ Sound(m) BY LocFacts
<1>2. /\ g \in Switches(C) /\ g.msgs = [s.msgs EXCEPT ![id] = Parted(m)]
      /\ g.imsgid_map = Unmapped(s.imsgid_map, m.imsgid) /\ g.pending_msgs = s.pending_msgs
  BY <1>1, GoneFacts
<1>3. /\ Parted(m) \in Messages(C) /\ Parted(m).imsgid = 0 /\ Sound(Parted(m))
      /\ "DISCONNECTED" \in Parted(m).status /\ Parted(m) # NoMsg
  <2>1. Parted(m).status = m.status \cup {"SENT_DISCONNECT", "DISCONNECTED"} BY <1>1,
          PartedFacts
  <2> QED BY <1>1, <2>1, PartedFacts, MessageFacts
<1> HIDE DEF g
<1>4. g.msgs[id] = Parted(m) /\ \A j \in MsgIds \ {id} : g.msgs[j] = s.msgs[j]
  BY <1>1, <1>2, SwitchFacts
<1>5. MapOK(g) BY <1>1, <1>2, <1>3, <1>4, UnmapOK
<1>6. ASSUME NEW j \in MsgIds PROVE Tidy(g.pending_msgs, g.msgs[j], j)
  <2>1. Tidy(s.pending_msgs, s.msgs[j], j) BY DEF Loc
  <2>2. CASE j = id BY <1>3, <1>4, <2>2 DEF Tidy, PendFor
  <2>3. CASE j # id BY <1>2, <1>4, <2>1, <2>3
  <2> QED BY <2>2, <2>3
<1>7. Loc(C, g) BY <1>2, <1>5, <1>6 DEF Loc
<1> QED BY <1>7 DEF g

\* A message that the other end opened, created for its first packet.
Joined(s, conv, x) ==
  LET new == msg_get_avail_msgid(s)
  IN  [msg_create(s, conv) EXCEPT !.msgs[new].imsgid = x,
                                  !.imsgid_map[x] = new,
                                  !.active_hash = IF s.selecting THEN @ \cup {new} ELSE @]

\* The fields of the switch after that.
LEMMA JoinedFacts ==
  ASSUME NEW C, NEW s \in Switches(C), NEW conv \in C, NEW id \in MsgIds,
         id = msg_get_avail_msgid(s), NEW x \in MsgIds
  PROVE  LET g == Joined(s, conv, x) IN
         /\ g \in Switches(C)
         /\ g.msgs = [s.msgs EXCEPT ![id] = NewFor(conv, x)]
         /\ g.imsgid_map = [s.imsgid_map EXCEPT ![x] = id]
         /\ g.pending_msgs = s.pending_msgs /\ g.pending_resps = s.pending_resps
         /\ g.failed = s.failed
<1> DEFINE a == msg_create(s, conv)
           n == NewFor(conv, 0)
           k == NewFor(conv, x)
           z == [s.msgs EXCEPT ![id] = k]
           map == [s.imsgid_map EXCEPT ![x] = id]
           h == IF s.selecting THEN a.active_hash \cup {id} ELSE a.active_hash
           g == Joined(s, conv, x)
<1>1. Turns(C, s, a, id, n, s.pending_msgs, s.pending_resps) BY CreateTurns
<1>2. k \in Messages(C) BY NewFacts DEF MsgIds
<1>3. z \in [MsgIds -> Messages(C) \cup {NoMsg}] BY <1>2, SwitchFacts
<1>4. map \in [MsgIds -> 0 .. MaxMsgId] BY SwitchFacts DEF MsgIds
<1>5. [n EXCEPT !.imsgid = x] = k
  <2> DEFINE st == {"SPACE_AVAIL_FOR_READ",
                    "SPACE_AVAIL_FOR_WRIT"} e == << >> np == NoPacket f == FALSE z0 == 0
  <2>1. n = [free |-> f, imsgid |-> z0, status |-> st, n_writ |-> z0, n_read |-> z0,
             incomplete |-> np,
                 read_queue |-> e, writ_queue |-> e, conv |-> conv] BY DEF NewFor
  <2>2. k = [free |-> f, imsgid |-> x, status |-> st, n_writ |-> z0, n_read |-> z0,
             incomplete |-> np,
                 read_queue |-> e, writ_queue |-> e, conv |-> conv] BY DEF NewFor
  <2> HIDE DEF n, k, st, e, np, f, z0
  <2> QED BY <2>1, <2>2
<1>6. g = [a EXCEPT !.msgs[id].imsgid = x, !.imsgid_map[x] = id, !.active_hash = h]
  BY DEF Joined
<1> HIDE DEF a, n, k, g
<1>7. /\ a \in Switches(C) /\ a.msgs = [s.msgs EXCEPT ![id] = n] /\ a.imsgid_map = s.imsgid_map
      /\ a.pending_msgs = s.pending_msgs /\ a.pending_resps = s.pending_resps
         /\ a.failed = s.failed
  BY <1>1 DEF Turns, Core
<1>8. h \in SUBSET MsgIds BY <1>7, SwitchFacts
<1> HIDE DEF h
<1>9. g = [a EXCEPT !.msgs = z, !.imsgid_map = map, !.active_hash = h]
  <2>1. a.msgs[id] = n /\ [a.msgs EXCEPT ![id] = k] = z BY <1>7, SwitchFacts
  <2>2. [a EXCEPT !.msgs[id].imsgid = x, !.imsgid_map[x] = id, !.active_hash = h]
          = [a EXCEPT !.msgs = [a.msgs EXCEPT ![id] = [n EXCEPT !.imsgid = x]],
             !.imsgid_map = map,
                      !.active_hash = h]
    BY <1>7, <2>1 DEF Switches
  <2> QED BY <1>5, <1>6, <2>1, <2>2
<1> HIDE DEF z, map
<1>10. g \in Switches(C) BY <1>3, <1>4, <1>7, <1>8, <1>9 DEF Switches
<1>11. /\ g.msgs = z /\ g.imsgid_map = map /\ g.pending_msgs = s.pending_msgs
       /\ g.pending_resps = s.pending_resps /\ g.failed = s.failed
  BY <1>7, <1>9 DEF Switches
<1> QED BY <1>10, <1>11 DEF g, z, map, k

\* The same, as a relation.
Joins(C, s, t, id, conv, x) ==
  /\ t \in Switches(C)
  /\ t.msgs = [s.msgs EXCEPT ![id] = NewFor(conv, x)]
  /\ t.imsgid_map = [s.imsgid_map EXCEPT ![x] = id]
  /\ t.pending_msgs = s.pending_msgs /\ t.pending_resps = s.pending_resps
  /\ t.failed = s.failed

\* Creating a message for its first packet adds one message and one entry of
\* imsgid_map.
LEMMA JoinedJoins ==
  ASSUME NEW C, NEW s \in Switches(C), NEW conv \in C, NEW id \in MsgIds,
         id = msg_get_avail_msgid(s), NEW x \in MsgIds
  PROVE  Joins(C, s, Joined(s, conv, x), id, conv, x)
BY JoinedFacts DEF Joins

\* It keeps Loc when that entry was free.
LEMMA JoinedLoc ==
  ASSUME NEW C, NEW s, Loc(C, s), NEW conv \in C, NEW id \in MsgIds,
         id = msg_get_avail_msgid(s), s.msgs[id] = NoMsg, NEW x \in MsgIds, s.imsgid_map[x] = 0
  PROVE  Loc(C, Joined(s, conv, x))
<1> DEFINE g == Joined(s, conv, x)
           n == NewFor(conv, x)
<1>1. s \in Switches(C) /\ MapOK(s) BY DEF Loc
<1>2. /\ g \in Switches(C) /\ g.msgs = [s.msgs EXCEPT ![id] = n]
      /\ g.imsgid_map = [s.imsgid_map EXCEPT ![x] = id] /\ g.pending_msgs = s.pending_msgs
  BY <1>1, JoinedFacts
<1>3. /\ n \in Messages(C) /\ n.imsgid = x /\ Sound(n) /\ n # NoMsg /\ "WRITING" \notin n.status
  <2>1. x \in 0 .. MaxMsgId BY DEF MsgIds
  <2>2. n.status = {"SPACE_AVAIL_FOR_READ", "SPACE_AVAIL_FOR_WRIT"} BY <2>1, NewFacts
  <2> QED BY <2>1, <2>2, NewFacts, MessageFacts
<1> HIDE DEF g, n
<1>4. g.msgs[id] = n /\ \A j \in MsgIds \ {id} : g.msgs[j] = s.msgs[j]
  BY <1>1, <1>2, SwitchFacts
<1>5. \A i \in MsgIds : g.imsgid_map[i] = IF i = x THEN id ELSE s.imsgid_map[i]
  BY <1>1, <1>2, SwitchFacts
<1>6. MapOK(g)
  <2> SUFFICES ASSUME NEW i \in MsgIds, NEW j \in MsgIds
               PROVE  g.imsgid_map[i] = j <=> (Exists(g, j) /\ g.msgs[j].imsgid = i)
    BY DEF MapOK
  <2>1. s.imsgid_map[i] = j <=> (Exists(s, j) /\ s.msgs[j].imsgid = i) BY <1>1 DEF MapOK
  <2>2. j # 0 BY DEF MsgIds
  <2>3. CASE j = id
    <3>1. Exists(g, j) /\ g.msgs[j].imsgid = x BY <1>3, <1>4, <2>3 DEF Exists
    <3>2. ~Exists(s, j) BY <2>3 DEF Exists
    <3> QED BY <1>5, <2>1, <2>3, <3>1, <3>2
  <2>4. CASE j # id
    <3>1. Exists(g, j) <=> Exists(s, j) BY <1>4, <2>4 DEF Exists
    <3>2. g.msgs[j] = s.msgs[j] BY <1>4, <2>4
    <3> QED BY <1>5, <2>1, <2>2, <2>4, <3>1, <3>2
  <2> QED BY <2>3, <2>4
<1>7. ASSUME NEW j \in MsgIds PROVE Tidy(g.pending_msgs, g.msgs[j], j)
  <2>1. Tidy(s.pending_msgs, s.msgs[j], j) BY DEF Loc
  <2>2. CASE j = id BY <1>2, <1>3, <1>4, <2>1, <2>2 DEF Tidy, PendFor
  <2>3. CASE j # id BY <1>2, <1>4, <2>1, <2>3
  <2> QED BY <2>2, <2>3
<1>8. Loc(C, g) BY <1>2, <1>6, <1>7 DEF Loc
<1> QED BY <1>8 DEF g

----------------------------------------------------------------------------
(* The loops of msg_write, msg_read and DropWrits. *)

\* n passes of the loop of msg_write.
News(s, id, n) == Repeat(LAMBDA t : msg_packet_new(t, id), n, s)

\* n passes of the loop of DropWrits.
PopWrits(s, id, n) == Repeat(LAMBDA t : msg_pop_writ_packet(t, id), n, s)

\* What every pass of msg_packet_new keeps, n passes keep.
LEMMA RepeatNew ==
  ASSUME NEW id, NEW n \in Nat, NEW Z, NEW s \in Z[0],
         \A i \in 0 .. (n - 1) : \A t \in Z[i] : msg_packet_new(t, id) \in Z[i + 1]
  PROVE  News(s, id, n) \in Z[n]
<1> DEFINE T == UNION {Z[i] : i \in 0 .. n}
           F == [t \in T |-> msg_packet_new(t, id)]
           D(f) == [i \in 0 .. n |-> IF i = 0 THEN s ELSE msg_packet_new(f[i - 1], id)]
           c == CHOOSE f : f = D(f)
<1>1. \A i \in 0 .. n : \A t \in Z[i] : F[t] = msg_packet_new(t, id) OBVIOUS
<1>2. \A i \in 0 .. (n - 1) : \A t \in Z[i] : F[t] \in Z[i + 1] BY <1>1
<1>3. \E f : f = D(f)
  <2> HIDE DEF F
  <2>1. PICK f : Iterates(f, F, Z, s, n) BY <1>2, Iterate
  <2>2. /\ f = [i \in 0 .. n |-> IF i = 0 THEN s ELSE F[f[i - 1]]]
        /\ \A i \in 0 .. n : f[i] \in Z[i]
    BY <2>1 DEF Iterates
  <2>3. \A i \in 0 .. n : i # 0 => F[f[i - 1]] = msg_packet_new(f[i - 1], id)
    <3> SUFFICES ASSUME NEW i \in 0 .. n, i # 0 PROVE F[f[i - 1]] = msg_packet_new(f[i - 1],
        id) OBVIOUS
    <3>1. i - 1 \in 0 .. n BY <2>2
    <3>2. f[i - 1] \in Z[i - 1] BY <2>2, <3>1
    <3> QED BY <1>1, <3>1, <3>2
  <2>4. f = D(f) BY <2>2, <2>3
  <2> QED BY <2>4
<1>4. c = D(c) BY <1>3
<1>5. News(s, id, n) = c[n] BY DEF News, Repeat
<1> HIDE DEF c
<1>6. c[0] = s /\ \A i \in 1 .. n : c[i] = msg_packet_new(c[i - 1], id) BY <1>4
<1> DEFINE S == {k \in Nat : k <= n => c[k] \in Z[k]}
<1>7. n \in S
  <2>1. 0 \in S BY <1>6
  <2>2. ASSUME NEW k \in Nat, k \in S, k + 1 <= n PROVE c[k + 1] \in Z[k + 1]
    <3>1. c[k] \in Z[k] /\ k \in 0 .. (n - 1) /\ k + 1 \in 1 .. n /\ (k + 1) - 1 = k BY <2>2
    <3>2. c[k + 1] = msg_packet_new(c[k], id) BY <1>6, <3>1
    <3> QED BY <3>1, <3>2
  <2>3. \A k \in Nat : k \in S => k + 1 \in S BY <2>2
  <2> HIDE DEF S
  <2> QED BY <2>1, <2>3, Induct
<1> QED BY <1>5, <1>7

\* What every pass of msg_pop_read_packet keeps, msg_read keeps.
LEMMA RepeatPopRead ==
  ASSUME NEW id, NEW n \in Nat, NEW Z, NEW s \in Z[0],
         \A i \in 0 .. (n - 1) : \A t \in Z[i] : msg_pop_read_packet(t, id) \in Z[i + 1]
  PROVE  msg_read(s, id, n) \in Z[n]
<1> DEFINE T == UNION {Z[i] : i \in 0 .. n}
           F == [t \in T |-> msg_pop_read_packet(t, id)]
           D(f) == [i \in 0 .. n |-> IF i = 0 THEN s ELSE msg_pop_read_packet(f[i - 1], id)]
           c == CHOOSE f : f = D(f)
<1>1. \A i \in 0 .. n : \A t \in Z[i] : F[t] = msg_pop_read_packet(t, id) OBVIOUS
<1>2. \A i \in 0 .. (n - 1) : \A t \in Z[i] : F[t] \in Z[i + 1] BY <1>1
<1>3. \E f : f = D(f)
  <2> HIDE DEF F
  <2>1. PICK f : Iterates(f, F, Z, s, n) BY <1>2, Iterate
  <2>2. /\ f = [i \in 0 .. n |-> IF i = 0 THEN s ELSE F[f[i - 1]]]
        /\ \A i \in 0 .. n : f[i] \in Z[i]
    BY <2>1 DEF Iterates
  <2>3. \A i \in 0 .. n : i # 0 => F[f[i - 1]] = msg_pop_read_packet(f[i - 1], id)
    <3> SUFFICES ASSUME NEW i \in 0 .. n, i # 0
        PROVE F[f[i - 1]] = msg_pop_read_packet(f[i - 1], id) OBVIOUS
    <3>1. i - 1 \in 0 .. n BY <2>2
    <3>2. f[i - 1] \in Z[i - 1] BY <2>2, <3>1
    <3> QED BY <1>1, <3>1, <3>2
  <2>4. f = D(f) BY <2>2, <2>3
  <2> QED BY <2>4
<1>4. c = D(c) BY <1>3
<1>5. msg_read(s, id, n) = c[n] BY DEF msg_read, Repeat
<1> HIDE DEF c
<1>6. c[0] = s /\ \A i \in 1 .. n : c[i] = msg_pop_read_packet(c[i - 1], id) BY <1>4
<1> DEFINE S == {k \in Nat : k <= n => c[k] \in Z[k]}
<1>7. n \in S
  <2>1. 0 \in S BY <1>6
  <2>2. ASSUME NEW k \in Nat, k \in S, k + 1 <= n PROVE c[k + 1] \in Z[k + 1]
    <3>1. c[k] \in Z[k] /\ k \in 0 .. (n - 1) /\ k + 1 \in 1 .. n /\ (k + 1) - 1 = k BY <2>2
    <3>2. c[k + 1] = msg_pop_read_packet(c[k], id) BY <1>6, <3>1
    <3> QED BY <3>1, <3>2
  <2>3. \A k \in Nat : k \in S => k + 1 \in S BY <2>2
  <2> HIDE DEF S
  <2> QED BY <2>1, <2>3, Induct
<1> QED BY <1>5, <1>7

\* What every pass of msg_pop_writ_packet keeps, n passes keep.
LEMMA RepeatPopWrit ==
  ASSUME NEW id, NEW n \in Nat, NEW Z, NEW s \in Z[0],
         \A i \in 0 .. (n - 1) : \A t \in Z[i] : msg_pop_writ_packet(t, id) \in Z[i + 1]
  PROVE  PopWrits(s, id, n) \in Z[n]
<1> DEFINE T == UNION {Z[i] : i \in 0 .. n}
           F == [t \in T |-> msg_pop_writ_packet(t, id)]
           D(f) == [i \in 0 .. n |-> IF i = 0 THEN s ELSE msg_pop_writ_packet(f[i - 1], id)]
           c == CHOOSE f : f = D(f)
<1>1. \A i \in 0 .. n : \A t \in Z[i] : F[t] = msg_pop_writ_packet(t, id) OBVIOUS
<1>2. \A i \in 0 .. (n - 1) : \A t \in Z[i] : F[t] \in Z[i + 1] BY <1>1
<1>3. \E f : f = D(f)
  <2> HIDE DEF F
  <2>1. PICK f : Iterates(f, F, Z, s, n) BY <1>2, Iterate
  <2>2. /\ f = [i \in 0 .. n |-> IF i = 0 THEN s ELSE F[f[i - 1]]]
        /\ \A i \in 0 .. n : f[i] \in Z[i]
    BY <2>1 DEF Iterates
  <2>3. \A i \in 0 .. n : i # 0 => F[f[i - 1]] = msg_pop_writ_packet(f[i - 1], id)
    <3> SUFFICES ASSUME NEW i \in 0 .. n, i # 0
        PROVE F[f[i - 1]] = msg_pop_writ_packet(f[i - 1], id) OBVIOUS
    <3>1. i - 1 \in 0 .. n BY <2>2
    <3>2. f[i - 1] \in Z[i - 1] BY <2>2, <3>1
    <3> QED BY <1>1, <3>1, <3>2
  <2>4. f = D(f) BY <2>2, <2>3
  <2> QED BY <2>4
<1>4. c = D(c) BY <1>3
<1>5. PopWrits(s, id, n) = c[n] BY DEF PopWrits, Repeat
<1> HIDE DEF c
<1>6. c[0] = s /\ \A i \in 1 .. n : c[i] = msg_pop_writ_packet(c[i - 1], id) BY <1>4
<1> DEFINE S == {k \in Nat : k <= n => c[k] \in Z[k]}
<1>7. n \in S
  <2>1. 0 \in S BY <1>6
  <2>2. ASSUME NEW k \in Nat, k \in S, k + 1 <= n PROVE c[k + 1] \in Z[k + 1]
    <3>1. c[k] \in Z[k] /\ k \in 0 .. (n - 1) /\ k + 1 \in 1 .. n /\ (k + 1) - 1 = k BY <2>2
    <3>2. c[k + 1] = msg_pop_writ_packet(c[k], id) BY <1>6, <3>1
    <3> QED BY <3>1, <3>2
  <2>3. \A k \in Nat : k \in S => k + 1 \in S BY <2>2
  <2> HIDE DEF S
  <2> QED BY <2>1, <2>3, Induct
<1> QED BY <1>5, <1>7

----------------------------------------------------------------------------
(* Every call of the program keeps Loc. *)

\* A message that can be written: not one that has sent DISCON and waits for
\* the answer.
Writable(m) == "SENT_DISCONNECT" \in m.status => "DISCONNECTED" \in m.status

\* What Loc says of the message at id.
LEMMA LocAt ==
  ASSUME NEW C, NEW s, Loc(C, s), NEW id \in MsgIds, Exists(s, id), NEW m, s.msgs[id] = m
  PROVE  /\ s \in Switches(C) /\ m \in Messages(C) /\ Sound(m) /\ PendFor(s.pending_msgs, id, m)
         /\ LocBut(C, s, id)
BY LocFacts

\* What an edit leaves at id.
LEMMA EditsAt ==
  ASSUME NEW C, NEW s \in Switches(C), NEW t, NEW id \in MsgIds, NEW n \in Messages(C),
         Edits(C, s, t, id, n)
  PROVE  /\ t \in Switches(C) /\ t.msgs[id] = Settled(n) /\ Exists(t, id)
         /\ \A j \in MsgIds \ {id} : t.msgs[j] = s.msgs[j]
         /\ t.failed = s.failed
<1> DEFINE p == IF Queues(n) THEN Append(s.pending_msgs, id) ELSE s.pending_msgs
           r == IF Acks(n) THEN Append(s.pending_resps, Reply(n, id, "OK")) ELSE s.pending_resps
           k == Settled(n)
<1>1. Turns(C, s, t, id, k, p, r) BY DEF Edits
<1>2. k \in Messages(C) BY SettledFacts
<1> HIDE DEF k, p, r
<1>3. Exists(t, id) BY <1>1, <1>2, TurnsExists
<1>4. t.failed = s.failed BY <1>1 DEF Turns, Core
<1>5. t \in Switches(C) /\ t.msgs[id] = k /\ \A j \in MsgIds \ {id} : t.msgs[j] = s.msgs[j]
  BY <1>1, TurnsAt
<1> QED BY <1>3, <1>4, <1>5 DEF k

\* The flags that msg_update_status changes.
LEMMA SettledStatusFacts ==
  ASSUME NEW m
  PROVE  /\ \A f \in Flags \ {"NEED_TO_SEND_RESP", "WRITING"} : f \in SettledStatus(m) <=>
              f \in m.status
         /\ "WRITING" \in SettledStatus(m) <=> "WRITING" \in m.status \/ Queues(m)
         /\ "NEED_TO_SEND_RESP" \in SettledStatus(m) <=> "NEED_TO_SEND_RESP" \in m.status
            /\ ~Acks(m)
BY DEF SettledStatus

\* msg_push_writ_packet keeps Loc.
LEMMA PushWritLoc ==
  ASSUME NEW C, NEW s, Loc(C, s), NEW id \in MsgIds, Exists(s, id), Writable(s.msgs[id]),
         s.msgs[id].incomplete # NoPacket
  PROVE  Loc(C, msg_push_writ_packet(s, id))
<1> DEFINE m == s.msgs[id]
           n == PushWrit(m)
<1>1. s \in Switches(C) /\ m \in Messages(C) /\ Sound(m) /\ PendFor(s.pending_msgs, id, m)
        /\ LocBut(C, s, id)
  BY LocAt
<1>2. Edits(C, s, msg_push_writ_packet(s, id), id, n) BY <1>1, PushWritEdits
<1>3. n \in Messages(C) /\ n.imsgid = m.imsgid BY <1>1, PushWritFacts
<1>4. Sound(n) BY <1>1, PushWritSound DEF Writable
<1>5. n.status = (m.status \cup {"PACKET_AVAIL_TO_WRIT"})
              \ (IF Len(Append(m.writ_queue, m.incomplete)) >= NBuff
                 THEN {"SPACE_AVAIL_FOR_WRIT"} ELSE {})
  BY <1>1, PushWritFacts
<1>6. PendFor(s.pending_msgs, id, n) BY <1>1, <1>5 DEF PendFor
<1> HIDE DEF n
<1> QED BY <1>1, <1>2, <1>3, <1>4, <1>6, EditsLoc

\* What msg_push_writ_packet leaves at id.
LEMMA PushWritAt ==
  ASSUME NEW C, NEW s \in Switches(C), NEW id \in MsgIds, s.msgs[id] \in Messages(C),
         s.msgs[id].incomplete # NoPacket
  PROVE  LET m == s.msgs[id]
             t == msg_push_writ_packet(s, id)
             k == t.msgs[id]
         IN  /\ t \in Switches(C) /\ Exists(t, id) /\ t.failed = s.failed
             /\ k \in Messages(C) /\ k.incomplete = NoPacket /\ k.n_writ = m.n_writ
             /\ \A f \in {"SENT_DISCONNECT", "DISCONNECTED", "CLOSED"} : f \in k.status <=>
                  f \in m.status
<1> DEFINE m == s.msgs[id]
           n == PushWrit(m)
           t == msg_push_writ_packet(s, id)
<1>1. Edits(C, s, t, id, n) BY PushWritEdits
<1>2. n \in Messages(C) /\ n.incomplete = NoPacket /\ n.n_writ = m.n_writ BY PushWritFacts
<1>3. n.status = (m.status \cup {"PACKET_AVAIL_TO_WRIT"})
              \ (IF Len(Append(m.writ_queue, m.incomplete)) >= NBuff
                 THEN {"SPACE_AVAIL_FOR_WRIT"} ELSE {})
  BY PushWritFacts
<1>4. \A f \in {"SENT_DISCONNECT", "DISCONNECTED", "CLOSED"} : f \in n.status <=>
        f \in m.status BY <1>3
<1> HIDE DEF t, n
<1>5. t \in Switches(C) /\ Exists(t, id) /\ t.failed = s.failed /\ t.msgs[id] = Settled(n)
  BY <1>1, <1>2, EditsAt
<1>6. /\ Settled(n) \in Messages(C) /\ Settled(n).incomplete = n.incomplete
         /\ Settled(n).n_writ = n.n_writ
      /\ Settled(n).status = SettledStatus(n)
  BY <1>2, SettledFacts
<1>7. \A f \in {"SENT_DISCONNECT", "DISCONNECTED", "CLOSED"} : f \in SettledStatus(n) <=>
        f \in n.status
  BY SettledStatusFacts DEF Flags
<1>8. \A f \in {"SENT_DISCONNECT", "DISCONNECTED", "CLOSED"} : f \in Settled(n).status <=>
        f \in m.status
  BY <1>4, <1>6, <1>7
<1> QED BY <1>2, <1>5, <1>6, <1>8 DEF t

\* msg_packet_new keeps Loc when no packet was begun.
LEMMA BeginLoc ==
  ASSUME NEW C, NEW s, Loc(C, s), NEW id \in MsgIds, Exists(s, id),
         s.msgs[id].incomplete = NoPacket
  PROVE  LET t == msg_packet_new(s, id)
         IN  /\ Loc(C, t) /\ Exists(t, id) /\ t.failed = s.failed
             /\ t.msgs[id].status = s.msgs[id].status
<1> DEFINE m == s.msgs[id]
           n == Begin(m, id)
           t == msg_packet_new(s, id)
<1>1. s \in Switches(C) /\ m \in Messages(C) /\ Sound(m) /\ PendFor(s.pending_msgs, id, m)
        /\ LocBut(C, s, id)
  BY LocAt
<1>2. Turns(C, s, t, id, n, s.pending_msgs, s.pending_resps) BY <1>1, BeginTurns
<1>3. n \in Messages(C) /\ n.imsgid = m.imsgid /\ n.status = m.status BY <1>1, BeginFacts
<1>4. Sound(n) BY <1>1, BeginSound
<1>5. PendFor(s.pending_msgs, id, n) BY <1>1, <1>3 DEF PendFor
<1> HIDE DEF n, t
<1>6. Loc(C, t) BY <1>1, <1>2, <1>3, <1>4, <1>5, TurnsLoc, SameSpares
<1>7. t.msgs[id] = n BY <1>1, <1>2, TurnsAt
<1>8. Exists(t, id) BY <1>1, <1>2, <1>3, TurnsExists
<1>9. t.failed = s.failed BY <1>2 DEF Turns, Core
<1> QED BY <1>3, <1>6, <1>7, <1>8, <1>9 DEF t

\* msg_packet_new keeps Loc.
LEMMA NewLoc ==
  ASSUME NEW C, NEW s, Loc(C, s), NEW id \in MsgIds, Exists(s, id), Writable(s.msgs[id])
  PROVE  LET t == msg_packet_new(s, id)
         IN  Loc(C, t) /\ Exists(t, id) /\ Writable(t.msgs[id])
<1>1. CASE s.msgs[id].incomplete = NoPacket BY <1>1, BeginLoc DEF Writable
<1>2. CASE s.msgs[id].incomplete # NoPacket
  <2> DEFINE u == msg_push_writ_packet(s, id)
  <2>1. s \in Switches(C) /\ s.msgs[id] \in Messages(C) BY LocAt
  <2>2. Loc(C, u) BY <1>2, PushWritLoc
  <2>3. Exists(u, id) /\ u.msgs[id].incomplete = NoPacket
    BY <1>2, <2>1, PushWritAt
  <2>4. \A f \in {"SENT_DISCONNECT", "DISCONNECTED", "CLOSED"} : f \in u.msgs[id].status <=>
          f \in s.msgs[id].status
    BY <1>2, <2>1, PushWritAt
  <2>5. msg_packet_new(s, id) = msg_packet_new(u, id)
    BY <1>2, <2>1, <2>3, PushBegin DEF Exists
  <2> HIDE DEF u
  <2>6. Writable(u.msgs[id]) BY <2>4 DEF Writable
  <2> QED BY <2>2, <2>3, <2>5, <2>6, BeginLoc DEF Writable
<1> QED BY <1>1, <1>2

\* msg_write keeps Loc, whatever the number of packets it completes.
LEMMA WriteLoc ==
  ASSUME NEW C, NEW s, Loc(C, s), NEW id \in MsgIds, Exists(s, id), Writable(s.msgs[id]),
         NEW k \in Nat
  PROVE  Loc(C, msg_write(s, id, k))
<1> DEFINE X == {t \in Switches(C) : Loc(C, t) /\ Exists(t, id) /\ Writable(t.msgs[id])}
           Z == [i \in Nat |-> X]
           begun == IF s.msgs[id].incomplete = NoPacket THEN msg_packet_new(s, id) ELSE s
<1>1. \A t \in X : msg_packet_new(t, id) \in X
  <2> SUFFICES ASSUME NEW t \in X PROVE msg_packet_new(t, id) \in X OBVIOUS
  <2>1. Loc(C, msg_packet_new(t, id)) /\ Exists(msg_packet_new(t, id), id)
          /\ Writable(msg_packet_new(t, id).msgs[id])
    BY NewLoc
  <2>2. msg_packet_new(t, id) \in Switches(C) BY <2>1 DEF Loc
  <2> QED BY <2>1, <2>2
<1>2. s \in X BY DEF Loc
<1> HIDE DEF X
<1>3. begun \in X BY <1>1, <1>2
<1>4. msg_write(s, id, k) = News(begun, id, k) BY DEF msg_write, News
<1> HIDE DEF begun
<1>5. News(begun, id, k) \in Z[k]
  <2>1. begun \in Z[0] BY <1>3
  <2>2. \A i \in 0 .. (k - 1) : \A t \in Z[i] : msg_packet_new(t, id) \in Z[i + 1] BY <1>1
  <2> HIDE DEF Z
  <2> QED BY <2>1, <2>2, RepeatNew
<1>6. msg_write(s, id, k) \in X BY <1>4, <1>5
<1> QED BY <1>6 DEF X

\* msg_flush keeps Loc.
LEMMA FlushLoc ==
  ASSUME NEW C, NEW s, Loc(C, s), NEW id \in MsgIds, Exists(s, id),
         "CLOSED" \in s.msgs[id].status \/ Writable(s.msgs[id])
  PROVE  LET t == msg_flush(s, id)
         IN  /\ Loc(C, t) /\ Exists(t, id) /\ t.failed = s.failed
             /\ \A f \in {"SENT_DISCONNECT", "DISCONNECTED", "CLOSED"} :
                  f \in t.msgs[id].status <=> f \in s.msgs[id].status
<1>1. CASE "CLOSED" \in s.msgs[id].status \/ s.msgs[id].incomplete = NoPacket
  BY <1>1 DEF msg_flush, Has
<1>2. CASE ~("CLOSED" \in s.msgs[id].status \/ s.msgs[id].incomplete = NoPacket)
  <2>1. s \in Switches(C) /\ s.msgs[id] \in Messages(C) BY LocAt
  <2> DEFINE t == msg_push_writ_packet(s, id)
  <2>2. Loc(C, t) BY <1>2, PushWritLoc
  <2>3. Exists(t, id) /\ t.failed = s.failed BY <1>2, <2>1, PushWritAt
  <2>4. \A f \in {"SENT_DISCONNECT", "DISCONNECTED", "CLOSED"} :
                  f \in t.msgs[id].status <=> f \in s.msgs[id].status
    BY <1>2, <2>1, PushWritAt
  <2>5. msg_flush(s, id) = t BY <1>2 DEF msg_flush, Has
  <2> HIDE DEF t
  <2> QED BY <2>2, <2>3, <2>4, <2>5
<1> QED BY <1>1, <1>2

\* msg_pop_read_packet keeps Loc.
LEMMA PopReadLoc ==
  ASSUME NEW C, NEW s, Loc(C, s), NEW id \in MsgIds, Exists(s, id)
  PROVE  Loc(C, msg_pop_read_packet(s, id)) /\ Exists(msg_pop_read_packet(s, id), id)
<1> DEFINE m == s.msgs[id]
           n == PopRead(m)
           t == msg_pop_read_packet(s, id)
<1>1. s \in Switches(C) /\ m \in Messages(C) /\ Sound(m) /\ PendFor(s.pending_msgs, id, m)
        /\ LocBut(C, s, id)
  BY LocAt
<1>2. Edits(C, s, t, id, n) BY <1>1, PopReadEdits
<1>3. n \in Messages(C) /\ n.imsgid = m.imsgid BY <1>1, PopReadFacts
<1>4. Sound(n) BY <1>1, PopReadSound
<1> DEFINE q == IF m.read_queue = << >> THEN << >> ELSE Tail(m.read_queue)
<1>5. n.status = (m.status \cup IF Len(q) < NBuff THEN {"SPACE_AVAIL_FOR_READ"} ELSE {})
                   \ (IF q = << >> THEN {"PACKET_AVAIL_TO_READ"} ELSE {})
  BY <1>1, PopReadFacts
<1> HIDE DEF q, n, t
<1>6. PendFor(s.pending_msgs, id, n) BY <1>1, <1>5 DEF PendFor
<1>7. Loc(C, t) BY <1>1, <1>2, <1>3, <1>4, <1>6, EditsLoc
<1>8. Exists(t, id) BY <1>1, <1>2, <1>3, EditsAt
<1> QED BY <1>7, <1>8 DEF t

\* msg_read keeps Loc, whatever the number of packets it takes.
LEMMA ReadLoc ==
  ASSUME NEW C, NEW s, Loc(C, s), NEW id \in MsgIds, Exists(s, id), NEW k \in Nat
  PROVE  Loc(C, msg_read(s, id, k))
<1> DEFINE X == {t \in Switches(C) : Loc(C, t) /\ Exists(t, id)}
           Z == [i \in Nat |-> X]
<1>1. \A t \in X : msg_pop_read_packet(t, id) \in X
  <2> SUFFICES ASSUME NEW t \in X PROVE msg_pop_read_packet(t, id) \in X OBVIOUS
  <2>1. Loc(C, msg_pop_read_packet(t, id)) /\ Exists(msg_pop_read_packet(t, id),
                                                     id) BY PopReadLoc
  <2>2. msg_pop_read_packet(t, id) \in Switches(C) BY <2>1 DEF Loc
  <2> QED BY <2>1, <2>2
<1>2. s \in X BY DEF Loc
<1> HIDE DEF X
<1>3. msg_read(s, id, k) \in Z[k]
  <2>1. s \in Z[0] BY <1>2
  <2>2. \A i \in 0 .. (k - 1) : \A t \in Z[i] : msg_pop_read_packet(t, id) \in Z[i + 1] BY <1>1
  <2> HIDE DEF Z
  <2> QED BY <2>1, <2>2, RepeatPopRead
<1> QED BY <1>3 DEF X

\* Dropping what was not read keeps Loc.
LEMMA DropReadsLoc ==
  ASSUME NEW C, NEW s, Loc(C, s), NEW id \in MsgIds, Exists(s, id)
  PROVE  Loc(C, DropReads(s, id))
<1>1. s.msgs[id] \in Messages(C) BY LocAt
<1>2. Len(s.msgs[id].read_queue) \in Nat BY <1>1, MessageFacts
<1> QED BY <1>2, ReadLoc DEF DropReads

\* Changing flags keeps Loc when the message stays sound and WRITING and
\* DISCONNECTED stay.
LEMMA FlagLoc ==
  ASSUME NEW C, NEW s, Loc(C, s), NEW id \in MsgIds, Exists(s, id), NEW set \in SUBSET Flags,
         NEW clr, NEW st, st = (s.msgs[id].status \ clr) \cup set,
         Sound(Flagged(s.msgs[id], st)),
         \A f \in {"WRITING", "DISCONNECTED"} : f \in st <=> f \in s.msgs[id].status
  PROVE  LET t == SetFlags(s, id, set, clr)
         IN  Loc(C, t) /\ Exists(t, id) /\ t.msgs[id] = Flagged(s.msgs[id], st)
<1> DEFINE m == s.msgs[id]
           n == Flagged(m, st)
           t == SetFlags(s, id, set, clr)
<1>1. s \in Switches(C) /\ m \in Messages(C) /\ Sound(m) /\ PendFor(s.pending_msgs, id, m)
        /\ LocBut(C, s, id)
  BY LocAt
<1>2. Turns(C, s, t, id, n, s.pending_msgs, s.pending_resps) BY <1>1, FlagTurns
<1>3. st \in SUBSET Flags BY <1>1, MessageFacts
<1>4. n \in Messages(C) /\ n.imsgid = m.imsgid /\ n.status = st BY <1>1, <1>3, FlaggedType
<1>5. PendFor(s.pending_msgs, id, n) BY <1>1, <1>4 DEF PendFor
<1> HIDE DEF t
<1>6. Loc(C, t)
  <2>1. Sound(n) OBVIOUS
  <2> HIDE DEF n
  <2> QED BY <2>1, <1>1, <1>2, <1>4, <1>5, TurnsLoc, SameSpares
<1> HIDE DEF n
<1>7. t.msgs[id] = n BY <1>1, <1>2, TurnsAt
<1>8. Exists(t, id) BY <1>1, <1>2, <1>4, TurnsExists
<1> QED BY <1>6, <1>7, <1>8 DEF t, n

\* Sending DISCON keeps Loc.
LEMMA DisconLoc ==
  ASSUME NEW C, NEW s, Loc(C, s), NEW id \in MsgIds, Exists(s, id)
  PROVE  LET t == msg_send_resp(s, id, "DISCON")
         IN  Loc(C, t) /\ Exists(t, id) /\ t.msgs[id] = s.msgs[id]
<1> DEFINE m == s.msgs[id]
           t == msg_send_resp(s, id, "DISCON")
           r == Append(s.pending_resps, Reply(m, id, "DISCON"))
<1>1. s \in Switches(C) /\ m \in Messages(C) /\ Sound(m) /\ PendFor(s.pending_msgs, id, m)
        /\ LocBut(C, s, id)
  BY LocAt
<1>2. Turns(C, s, t, id, m, s.pending_msgs, r) BY <1>1, DisconTurns
<1> HIDE DEF t, r
<1>3. Loc(C, t) BY <1>1, <1>2, TurnsLoc, SameSpares
<1>4. t.msgs[id] = m BY <1>1, <1>2, TurnsAt
<1>5. Exists(t, id) BY <1>1, <1>2, TurnsExists
<1> QED BY <1>3, <1>4, <1>5 DEF t

\* msg_free keeps Loc.
LEMMA FreeLoc ==
  ASSUME NEW C, NEW s, Loc(C, s), NEW id \in MsgIds, Exists(s, id)
  PROVE  Loc(C, msg_free(s, id))
<1>1. s \in Switches(C) /\ s.msgs[id] \in Messages(C) BY LocAt
<1>2. Frees(C, s, msg_free(s, id), id) BY <1>1, FreeFrees
<1> QED BY <1>2, FreesLoc

\* Closing a message keeps it sound.
LEMMA FlaggedClosed ==
  ASSUME NEW C, NEW m \in Messages(C), Sound(m), NEW st, st = (m.status \ {}) \cup {"CLOSED"}
  PROVE  Sound(Flagged(m, st)) /\ \A f \in Flags \ {"CLOSED"} : f \in st <=> f \in m.status
<1>1. st \in SUBSET Flags BY MessageFacts DEF Flags
<1> DEFINE n == Flagged(m, st)
<1>2. /\ n.status = st /\ n.n_writ = m.n_writ /\ n.incomplete = m.incomplete
      /\ n.read_queue = m.read_queue /\ n.writ_queue = m.writ_queue
  BY <1>1, FlaggedType
<1> HIDE DEF n
<1>3. Sound(n) BY <1>2 DEF Sound
<1> QED BY <1>3 DEF n

\* A message with nothing left to send is sound after DISCON.
LEMMA FlaggedSent ==
  ASSUME NEW C, NEW m \in Messages(C), Sound(m), NEW st,
         st = (m.status \ {}) \cup {"SENT_DISCONNECT"}, "CLOSED" \in m.status,
         "PACKET_AVAIL_TO_WRIT" \notin m.status
  PROVE  Sound(Flagged(m, st)) /\ \A f \in Flags \ {"SENT_DISCONNECT"} : f \in st <=>
      f \in m.status
<1>1. st \in SUBSET Flags BY MessageFacts DEF Flags
<1> DEFINE n == Flagged(m, st)
<1>2. /\ n.status = st /\ n.n_writ = m.n_writ /\ n.incomplete = m.incomplete
      /\ n.read_queue = m.read_queue /\ n.writ_queue = m.writ_queue
  BY <1>1, FlaggedType
<1> HIDE DEF n
<1>3. Sound(n) BY <1>2 DEF Sound
<1> QED BY <1>3 DEF n

\* DISCON is sent, and the message knows it.
SendDiscon(s, id) == SetFlags(msg_send_resp(s, id, "DISCON"), id, {"SENT_DISCONNECT"}, {})

\* That keeps Loc.
LEMMA SendDisconLoc ==
  ASSUME NEW C, NEW s, Loc(C, s), NEW id \in MsgIds, Exists(s, id),
         "CLOSED" \in s.msgs[id].status, "PACKET_AVAIL_TO_WRIT" \notin s.msgs[id].status
  PROVE  Loc(C, SendDiscon(s, id)) /\ Exists(SendDiscon(s, id), id)
<1> DEFINE a == msg_send_resp(s, id, "DISCON")
           m == s.msgs[id]
           st == (m.status \ {}) \cup {"SENT_DISCONNECT"}
<1>1. m \in Messages(C) /\ Sound(m) BY LocAt
<1>2. Sound(Flagged(m, st)) /\ \A f \in Flags \ {"SENT_DISCONNECT"} : f \in st <=>
        f \in m.status
  <2> HIDE DEF m
  <2> QED BY <1>1, FlaggedSent DEF m
<1>3. Loc(C, a) /\ Exists(a, id) /\ a.msgs[id] = m BY DisconLoc
<1>4. {"SENT_DISCONNECT"} \in SUBSET Flags BY DEF Flags
<1> HIDE DEF a
<1>5. \A f \in {"WRITING", "DISCONNECTED"} : f \in st <=> f \in a.msgs[id].status BY <1>2, <1>3
        DEF Flags
<1>6. Sound(Flagged(a.msgs[id], st))
        /\ st = (a.msgs[id].status \ {}) \cup {"SENT_DISCONNECT"} BY <1>2, <1>3
<1> HIDE DEF st, m
<1>7. Loc(C, SetFlags(a, id, {"SENT_DISCONNECT"}, {}))
        /\ Exists(SetFlags(a, id, {"SENT_DISCONNECT"}, {}), id)
  BY <1>3, <1>4, <1>5, <1>6, FlagLoc
<1> QED BY <1>7 DEF SendDiscon, a

\* msg_close keeps Loc: the message waits for its packets, for the answer to
\* its DISCON, or is freed.
LEMMA CloseLoc ==
  ASSUME NEW C, NEW s, Loc(C, s), NEW id \in MsgIds, Exists(s, id),
         "CLOSED" \notin s.msgs[id].status
  PROVE  Loc(C, msg_close(s, id))
<1> DEFINE c == msg_clr_write(msg_clr_read(s, id), id)
           f == msg_flush(c, id)
           t == SetFlags(f, id, {"CLOSED"}, {})
           d == SendDiscon(t, id)
<1>1. s \in Switches(C) BY DEF Loc
<1>2. Keeps(C, s, c) BY <1>1, ClrKeeps
<1>3. msg_close(s, id) =
        IF Has(s, id, "DISCONNECTED") THEN msg_free(c, id)
        ELSE IF Has(t, id, "PACKET_AVAIL_TO_WRIT") THEN DropReads(t, id)
        ELSE IF t.msgs[id].n_writ = 0 /\ t.msgs[id].n_read = 0 THEN msg_free(t, id)
        ELSE DropReads(d, id)
  BY DEF msg_close, SendDiscon
<1> HIDE DEF c
<1>4. Loc(C, c) /\ Exists(c, id) /\ c.msgs = s.msgs BY <1>2, KeepsLoc DEF Keeps, Exists
<1>5. CASE Has(s, id, "DISCONNECTED") BY <1>3, <1>4, <1>5, FreeLoc
<1>6. CASE ~Has(s, id, "DISCONNECTED")
  <2>1. c.msgs[id] \in Messages(C) /\ Sound(c.msgs[id]) BY <1>4, LocAt
  <2>2. Writable(c.msgs[id]) BY <1>4, <1>6, <2>1 DEF Sound, Writable, Has
  <2>3. Loc(C, f) /\ Exists(f, id) BY <1>4, <2>2, FlushLoc
  <2> HIDE DEF f
  <2> DEFINE m == f.msgs[id]
             st == (m.status \ {}) \cup {"CLOSED"}
  <2>4. m \in Messages(C) /\ Sound(m) BY <2>3, LocAt
  <2>5. Sound(Flagged(m, st)) /\ \A g \in Flags \ {"CLOSED"} : g \in st <=> g \in m.status
    <3> HIDE DEF m
    <3> QED BY <2>4, FlaggedClosed
  <2>6. \A g \in {"WRITING", "DISCONNECTED"} : g \in st <=> g \in m.status BY <2>5 DEF Flags
  <2>7. "CLOSED" \in st /\ st \in SUBSET Flags BY <2>4, MessageFacts DEF Flags
  <2>8. Loc(C, t) /\ Exists(t, id) /\ t.msgs[id] = Flagged(m, st)
    <3>1. {"CLOSED"} \in SUBSET Flags BY DEF Flags
    <3>2. st = (f.msgs[id].status \ {}) \cup {"CLOSED"}
            /\ Sound(Flagged(f.msgs[id], st)) BY <2>5
    <3> HIDE DEF st
    <3> QED BY <2>3, <2>6, <3>1, <3>2, FlagLoc
  <2>9. "CLOSED" \in t.msgs[id].status
    <3> HIDE DEF st, m
    <3>1. Flagged(m, st).status = st BY <2>4, <2>7, FlaggedType
    <3> QED BY <2>7, <2>8, <3>1
  <2> HIDE DEF t
  <2>10. CASE Has(t, id, "PACKET_AVAIL_TO_WRIT") BY <1>3, <1>6, <2>8, <2>10, DropReadsLoc
  <2>11. CASE ~Has(t, id, "PACKET_AVAIL_TO_WRIT") /\ t.msgs[id].n_writ = 0
           /\ t.msgs[id].n_read = 0
    BY <1>3, <1>6, <2>8, <2>11, FreeLoc
  <2>12. CASE ~Has(t, id, "PACKET_AVAIL_TO_WRIT") /\ ~(t.msgs[id].n_writ = 0
                                                       /\ t.msgs[id].n_read = 0)
    <3>1. Loc(C, d) /\ Exists(d, id) BY <2>8, <2>9, <2>12, SendDisconLoc DEF Has
    <3> HIDE DEF d
    <3> QED BY <1>3, <1>6, <2>12, <3>1, DropReadsLoc
  <2> QED BY <2>10, <2>11, <2>12
<1> QED BY <1>5, <1>6

----------------------------------------------------------------------------
(* DISCON and OK arrive. *)

\* k is m, once disconnected.
Departed(m, k) ==
  /\ k.conv = m.conv /\ k.imsgid = 0 /\ "DISCONNECTED" \in k.status
     /\ "SENT_DISCONNECT" \in k.status
  /\ k.n_writ = m.n_writ /\ k.n_read = m.n_read /\ k.incomplete = m.incomplete
  /\ k.read_queue = m.read_queue \/ k.read_queue = << >>
  /\ "CLOSED" \in k.status => "CLOSED" \in m.status
  /\ "PACKET_AVAIL_TO_READ" \in m.status /\ k.read_queue # << >> =>
       "PACKET_AVAIL_TO_READ" \in k.status

\* j packets of the disconnected message are still to be dropped.
Draining(C, g, t, id, m, j) ==
  /\ t.pending_resps = g.pending_resps /\ t.failed = g.failed
  /\ \E k \in Messages(C) : /\ t.msgs = [g.msgs EXCEPT ![id] = k]
                            /\ Departed(m, k) /\ Len(k.writ_queue) = j

\* One of them is dropped.
LEMMA PopDrains ==
  ASSUME NEW C, NEW g \in Switches(C), NEW id \in MsgIds, NEW m, NEW j \in Nat, NEW s,
         Loc(C, s), Draining(C, g, s, id, m, j + 1)
  PROVE  LET t == msg_pop_writ_packet(s, id) IN Loc(C, t) /\ Draining(C, g, t, id, m, j)
<1>1. PICK k \in Messages(C) : /\ s.msgs = [g.msgs EXCEPT ![id] = k]
                               /\ Departed(m, k) /\ Len(k.writ_queue) = j + 1
  BY DEF Draining
<1>2. s.msgs[id] = k /\ k # NoMsg /\ Exists(s, id) BY <1>1, SwitchFacts, MessageFacts DEF Exists
<1>3. s \in Switches(C) /\ Sound(k) /\ LocBut(C, s, id) BY <1>2, LocAt
<1>4. k.writ_queue # << >> BY <1>1
<1> DEFINE t == msg_pop_writ_packet(s, id)
           n == PopWrit(k)
           z == Settled(n)
<1>5. Edits(C, s, t, id, n) BY <1>2, <1>3, <1>4, PopWritEdits
<1>6. /\ n \in Messages(C) /\ n.imsgid = k.imsgid /\ n.conv = k.conv /\ n.n_writ = k.n_writ
      /\ n.n_read = k.n_read /\ n.incomplete = k.incomplete /\ n.read_queue = k.read_queue
      /\ n.writ_queue = Tail(k.writ_queue) /\ n.status = AfterPopWrit(k)
  BY <1>4, PopWritFacts
<1>7. Sound(n) BY <1>3, <1>4, PopWritSound
<1>8. /\ "DISCONNECTED" \in n.status /\ "SENT_DISCONNECT" \in n.status
      /\ \A f \in {"CLOSED", "PACKET_AVAIL_TO_READ"} : f \in n.status <=> f \in k.status
  <2>1. "DISCONNECTED" \in k.status /\ "SENT_DISCONNECT" \in k.status BY <1>1 DEF Departed
  <2> QED BY <1>6, <2>1 DEF AfterPopWrit
<1>9. Len(n.writ_queue) = j
  <2>1. k.writ_queue \in Seq(Packets(C)) BY MessageFacts
  <2> QED BY <1>1, <1>4, <1>6, <2>1, TailSome
<1> HIDE DEF n, t
<1>10. Loc(C, t)
  <2>1. PendFor(s.pending_msgs, id, n) BY <1>8 DEF PendFor
  <2>2. n.imsgid = s.msgs[id].imsgid BY <1>2, <1>6
  <2> QED BY <1>2, <1>3, <1>5, <1>6, <1>7, <2>1, <2>2, EditsLoc
<1>11. /\ z \in Messages(C) /\ z.imsgid = n.imsgid /\ z.conv = n.conv /\ z.n_writ = n.n_writ
       /\ z.n_read = n.n_read /\ z.incomplete = n.incomplete /\ z.read_queue = n.read_queue
       /\ z.writ_queue = n.writ_queue /\ z.status = SettledStatus(n)
  BY <1>6, SettledFacts
<1>12. /\ "DISCONNECTED" \in z.status /\ "SENT_DISCONNECT" \in z.status
       /\ \A f \in {"CLOSED", "PACKET_AVAIL_TO_READ"} : f \in z.status <=> f \in k.status
  BY <1>8, <1>11, SettledStatusFacts DEF Flags
<1>13. ~Acks(n) BY <1>8 DEF Acks
<1> HIDE DEF z
<1>14. t.pending_resps = s.pending_resps /\ t.failed = s.failed
         /\ t.msgs = [s.msgs EXCEPT ![id] = z]
  BY <1>5, <1>13 DEF Edits, Turns, Core, z
<1>15. t.msgs = [g.msgs EXCEPT ![id] = z] BY <1>1, <1>14, SwitchFacts
<1>16. Departed(m, z) BY <1>1, <1>6, <1>11, <1>12 DEF Departed
<1>17. Draining(C, g, t, id, m, j) BY <1>9, <1>11, <1>14, <1>15, <1>16 DEF Draining
<1> QED BY <1>10, <1>17 DEF t

\* DropWrits drops them all and keeps Loc.
LEMMA DropWritsDrains ==
  ASSUME NEW C, NEW g, Loc(C, g), NEW id \in MsgIds, NEW m, NEW k \in Messages(C),
         g.msgs[id] = k, Departed(m, k)
  PROVE  Loc(C, DropWrits(g, id)) /\ Draining(C, g, DropWrits(g, id), id, m, 0)
<1> DEFINE n == Len(k.writ_queue)
           Z == [i \in 0 .. n |-> {t \in Switches(C) : Loc(C, t)
                                   /\ Draining(C, g, t, id, m, n - i)}]
<1>1. n \in Nat BY MessageFacts
<1>2. g \in Switches(C) BY DEF Loc
<1>3. g \in Z[0]
  <2>1. g.msgs = [g.msgs EXCEPT ![id] = k] BY <1>2, SwitchFacts
  <2>2. Draining(C, g, g, id, m, n - 0) BY <1>1, <2>1 DEF Draining
  <2> HIDE DEF n
  <2> QED BY <1>1, <1>2, <2>2
<1>4. ASSUME NEW i \in 0 .. (n - 1), NEW t \in Z[i] PROVE msg_pop_writ_packet(t,
        id) \in Z[i + 1]
  <2> HIDE DEF n
  <2>1. n - i = (n - (i + 1)) + 1 /\ n - (i + 1) \in Nat /\ i \in 0 .. n
          /\ i + 1 \in 0 .. n BY <1>1
  <2>2. t \in Switches(C) /\ Loc(C, t) /\ Draining(C, g, t, id, m, n - i) BY <2>1
  <2>3. Draining(C, g, t, id, m, (n - (i + 1)) + 1) BY <2>1, <2>2
  <2> DEFINE u == msg_pop_writ_packet(t, id)
  <2>4. Loc(C, u) /\ Draining(C, g, u, id, m, n - (i + 1)) BY <1>2, <2>1, <2>2, <2>3, PopDrains
  <2>5. u \in Switches(C) BY <2>4 DEF Loc
  <2> HIDE DEF u
  <2>6. u \in Z[i + 1] BY <2>1, <2>4, <2>5
  <2> QED BY <2>6 DEF u
<1>5. DropWrits(g, id) = PopWrits(g, id, n) BY DEF DropWrits, PopWrits
<1>6. PopWrits(g, id, n) \in Z[n]
  <2> HIDE DEF Z, n
  <2> QED BY <1>1, <1>3, <1>4, RepeatPopWrit
<1> HIDE DEF n
<1>7. n - n = 0 /\ n \in 0 .. n BY <1>1
<1> QED BY <1>5, <1>6, <1>7

\* The switch of an end whose message m at id was disconnected by the other
\* end.
Left(C, s, t, id, m) ==
  /\ Loc(C, t) /\ t.failed = s.failed
  /\ t.pending_resps = Append(s.pending_resps, Reply(m, id, "DISCON"))
  /\ \E k \in Messages(C) : t.msgs = [s.msgs EXCEPT ![id] = k] /\ Departed(m, k)
     /\ k.writ_queue = << >>

\* DISCON for a message that has not sent its own leaves that.
LEMMA RecvDisconLeft ==
  ASSUME NEW C, NEW s, Loc(C, s), NEW id \in MsgIds, Exists(s, id), NEW m, s.msgs[id] = m,
         "SENT_DISCONNECT" \notin m.status
  PROVE  Left(C, s, RecvDiscon(s, id), id, m)
<1> DEFINE g == Gone(s, id)
           n == Parted(m)
           t == RecvDiscon(s, id)
<1>1. s \in Switches(C) /\ m \in Messages(C) /\ Sound(m) BY LocAt
<1>2. Loc(C, g) BY GoneLoc
<1>3. /\ g \in Switches(C) /\ g.msgs = [s.msgs EXCEPT ![id] = n] /\ g.failed = s.failed
      /\ g.pending_resps = Append(s.pending_resps, Reply(m, id, "DISCON"))
  BY <1>1, GoneFacts
<1>4. /\ n \in Messages(C) /\ n.imsgid = 0 /\ n.conv = m.conv /\ n.n_writ = m.n_writ
      /\ n.n_read = m.n_read /\ n.incomplete = m.incomplete /\ n.writ_queue = m.writ_queue
      /\ n.read_queue = m.read_queue
      /\ n.status = m.status \cup {"SENT_DISCONNECT", "DISCONNECTED"}
  BY <1>1, PartedFacts
<1>5. t = IF Has(s, id, "PACKET_AVAIL_TO_READ") THEN DropWrits(g, id) ELSE msg_clear(g, id)
  BY DEF RecvDiscon, Gone, Has
<1>6. Departed(m, n)
  <2>1. /\ "SENT_DISCONNECT" \in n.status /\ "DISCONNECTED" \in n.status
        /\ \A f \in {"CLOSED", "PACKET_AVAIL_TO_READ"} : f \in n.status <=> f \in m.status
    BY <1>4
  <2> QED BY <1>4, <2>1 DEF Departed
<1> HIDE DEF g, t
<1>7. "SENT_DISCONNECT" \in n.status /\ "DISCONNECTED" \in n.status BY <1>4
<1> HIDE DEF n
<1>8. g.msgs[id] = n /\ n # NoMsg /\ Exists(g, id) BY <1>1, <1>3, <1>4, SwitchFacts,
        MessageFacts DEF Exists
<1>9. CASE Has(s, id, "PACKET_AVAIL_TO_READ")
  <2>1. Loc(C, t) /\ Draining(C, g, t, id, m, 0) BY <1>2, <1>4, <1>5, <1>6, <1>8, <1>9,
          DropWritsDrains
  <2>2. PICK k \in Messages(C) : /\ t.msgs = [g.msgs EXCEPT ![id] = k]
                                 /\ Departed(m, k) /\ Len(k.writ_queue) = 0
    BY <2>1 DEF Draining
  <2>3. t.msgs = [s.msgs EXCEPT ![id] = k] BY <1>1, <1>3, <2>2, SwitchFacts
  <2>4. k.writ_queue = << >>
    <3>1. k.writ_queue \in Seq(Packets(C)) BY MessageFacts
    <3> QED BY <2>2, <3>1
  <2>5. t.pending_resps = g.pending_resps /\ t.failed = g.failed BY <2>1 DEF Draining
  <2>6. Left(C, s, t, id, m) BY <1>3, <2>1, <2>2, <2>3, <2>4, <2>5 DEF Left
  <2> QED BY <2>6 DEF t
<1>10. CASE ~Has(s, id, "PACKET_AVAIL_TO_READ")
  <2> DEFINE k == Cleared(n)
             u == Unlisted(g.pending_msgs, n, id)
  <2>1. Turns(C, g, t, id, k, u, g.pending_resps) BY <1>3, <1>4, <1>5, <1>8, <1>10, ClearTurns
  <2>2. /\ k \in Messages(C)
        /\ k.imsgid = n.imsgid /\ k.conv = n.conv /\ k.n_writ = n.n_writ /\ k.n_read = n.n_read
        /\ k.incomplete = n.incomplete /\ k.writ_queue = << >> /\ k.read_queue = << >>
        /\ k.status = n.status \cap {"CONNECTED", "CLOSED", "SENT_DISCONNECT", "DISCONNECTED"}
    BY <1>4, ClearedFacts
  <2>3. g.pending_msgs \in Seq(0 .. MaxMsgId) BY <1>3, SwitchFacts
  <2>4. Spares(g.pending_msgs, u, id) BY <2>3, UnlistedFacts DEF Spares
  <2> HIDE DEF k, u
  <2>5. "SENT_DISCONNECT" \in k.status /\ "DISCONNECTED" \in k.status BY <1>7, <2>2
  <2>6. Sound(n) BY <1>2, <1>8, LocAt
  <2>7. Sound(k) BY <2>2, <2>5, <2>6 DEF Sound
  <2>8. PendFor(u, id, k) BY <2>5 DEF PendFor
  <2>9. LocBut(C, g, id) /\ k.imsgid = g.msgs[id].imsgid BY <1>2, <1>8, <2>2, LocAt
  <2>10. Loc(C, t) BY <1>8, <2>1, <2>2, <2>4, <2>7, <2>8, <2>9, TurnsLoc
  <2>11. t.msgs = [g.msgs EXCEPT ![id] = k] /\ t.pending_resps = g.pending_resps
           /\ t.failed = g.failed
    BY <2>1 DEF Turns, Core
  <2>12. t.msgs = [s.msgs EXCEPT ![id] = k] BY <1>1, <1>3, <2>11, SwitchFacts
  <2>13. Departed(m, k)
    <3>1. "CLOSED" \in k.status => "CLOSED" \in n.status BY <2>2
    <3> QED BY <1>6, <2>2, <2>5, <3>1 DEF Departed
  <2>14. Left(C, s, t, id, m) BY <1>3, <2>2, <2>10, <2>11, <2>12, <2>13 DEF Left
  <2> QED BY <2>14 DEF t
<1> QED BY <1>9, <1>10

\* The passes of msg_recv_resp over a message that is acknowledged: it waits
\* no more, ...
Acked(s, id) == SetFlags(s, id, {}, {"WAITING_FOR_RESP"})

\* ... a packet that was begun is queued if nothing else is, ...
Flushed(s, id) ==
  IF Has(s, id, "PACKET_AVAIL_TO_WRIT") THEN Acked(s, id) ELSE msg_flush(Acked(s, id), id)

\* ... a closed message with nothing left to send sends DISCON, ...
Ended(f, id) ==
  IF ~Has(f, id, "PACKET_AVAIL_TO_WRIT") /\ Has(f, id, "CLOSED") THEN SendDiscon(f, id) ELSE f

\* ... and the status is brought up to date.
Refreshed(s, id) == msg_update_status(msg_check_selectability(s, id), id)

\* msg_recv_resp of OK is these passes.
LEMMA RecvOkPasses ==
  ASSUME NEW s, NEW id, ~Has(s, id, "SENT_DISCONNECT"), Has(s, id, "WAITING_FOR_RESP")
  PROVE  RecvOk(s, id) = Refreshed(Ended(Flushed(s, id), id), id)
BY DEF RecvOk, Refreshed, Ended, Flushed, Acked, SendDiscon

\* The last pass edits nothing but the status.
LEMMA RefreshEdits ==
  ASSUME NEW C, NEW s \in Switches(C), NEW id \in MsgIds, NEW m \in Messages(C), s.msgs[id] = m
  PROVE  Edits(C, s, Refreshed(s, id), id, m)
<1>1. At(s, id, m) = s
  <2>1. [s.msgs EXCEPT ![id] = m] = s.msgs BY SwitchFacts
  <2> QED BY <2>1 DEF At, Switches
<1>2. Edits(C, s, msg_update_status(msg_check_selectability(At(s, id, m), id), id), id,
            m) BY EditEdits
<1> QED BY <1>1, <1>2 DEF Refreshed

\* The last pass keeps Loc.
LEMMA RefreshLoc ==
  ASSUME NEW C, NEW s, Loc(C, s), NEW id \in MsgIds, Exists(s, id)
  PROVE  Loc(C, Refreshed(s, id))
<1> DEFINE m == s.msgs[id]
<1>1. s \in Switches(C) /\ m \in Messages(C) /\ Sound(m) /\ PendFor(s.pending_msgs, id, m)
        /\ LocBut(C, s, id)
  BY LocAt
<1>2. Edits(C, s, Refreshed(s, id), id, m) BY <1>1, RefreshEdits
<1> QED BY <1>1, <1>2, EditsLoc

\* The first pass, on the message.
Unwaiting(m) == Flagged(m, m.status \ {"WAITING_FOR_RESP"})

\* The fields after it.
LEMMA UnwaitingFacts ==
  ASSUME NEW C, NEW m \in Messages(C)
  PROVE  LET n == Unwaiting(m) IN
         /\ n \in Messages(C) /\ n.status = m.status \ {"WAITING_FOR_RESP"}
         /\ n.imsgid = m.imsgid /\ n.conv = m.conv /\ n.n_writ = m.n_writ /\ n.n_read = m.n_read
         /\ n.incomplete = m.incomplete /\ n.read_queue = m.read_queue
            /\ n.writ_queue = m.writ_queue
         /\ Sound(m) => Sound(n)
<1> DEFINE st == m.status \ {"WAITING_FOR_RESP"}
           n == Unwaiting(m)
<1>1. st \in SUBSET Flags BY MessageFacts
<1>2. /\ n \in Messages(C) /\ n.status = st
      /\ n.imsgid = m.imsgid /\ n.conv = m.conv /\ n.n_writ = m.n_writ /\ n.n_read = m.n_read
      /\ n.incomplete = m.incomplete /\ n.read_queue = m.read_queue
         /\ n.writ_queue = m.writ_queue
  BY <1>1, FlaggedType DEF Unwaiting
<1> HIDE DEF n
<1>3. Sound(m) => Sound(n) BY <1>2 DEF Sound
<1> QED BY <1>2, <1>3 DEF n

\* The first pass changes one message.
LEMMA AckedTurns ==
  ASSUME NEW C, NEW s \in Switches(C), NEW id \in MsgIds, NEW m \in Messages(C), s.msgs[id] = m
  PROVE  Turns(C, s, Acked(s, id), id, Unwaiting(m), s.pending_msgs, s.pending_resps)
<1>1. {} \in SUBSET Flags
        /\ (m.status \ {"WAITING_FOR_RESP"}) \cup {} = m.status \ {"WAITING_FOR_RESP"} OBVIOUS
<1> QED BY <1>1, FlagTurns DEF Acked, Unwaiting

\* The first pass keeps Loc.
LEMMA AckedLoc ==
  ASSUME NEW C, NEW s, Loc(C, s), NEW id \in MsgIds, Exists(s, id)
  PROVE  Loc(C, Acked(s, id)) /\ Exists(Acked(s, id), id)
      /\ Acked(s, id).msgs[id] = Unwaiting(s.msgs[id])
<1> DEFINE m == s.msgs[id]
           n == Unwaiting(m)
           t == Acked(s, id)
<1>1. s \in Switches(C) /\ m \in Messages(C) /\ Sound(m) /\ PendFor(s.pending_msgs, id, m)
        /\ LocBut(C, s, id)
  BY LocAt
<1>2. Turns(C, s, t, id, n, s.pending_msgs, s.pending_resps) BY <1>1, AckedTurns
<1>3. n \in Messages(C) /\ n.imsgid = m.imsgid /\ Sound(n)
        /\ n.status = m.status \ {"WAITING_FOR_RESP"}
  BY <1>1, UnwaitingFacts
<1>4. PendFor(s.pending_msgs, id, n) BY <1>1, <1>3 DEF PendFor
<1> HIDE DEF n, t
<1>5. Loc(C, t) BY <1>1, <1>2, <1>3, <1>4, TurnsLoc, SameSpares
<1>6. t.msgs[id] = n BY <1>1, <1>2, TurnsAt
<1>7. Exists(t, id) BY <1>1, <1>2, <1>3, TurnsExists
<1> QED BY <1>5, <1>6, <1>7 DEF t, n

\* OK keeps Loc.
LEMMA RecvOkLoc ==
  ASSUME NEW C, NEW s, Loc(C, s), NEW id \in MsgIds, Exists(s, id)
  PROVE  Loc(C, RecvOk(s, id))
<1> DEFINE a == Acked(s, id)
           f == Flushed(s, id)
           e == Ended(f, id)
<1>1. CASE Has(s, id, "SENT_DISCONNECT") BY <1>1 DEF RecvOk
<1>2. CASE ~Has(s, id, "SENT_DISCONNECT") /\ ~Has(s, id, "WAITING_FOR_RESP")
  <2>1. s \in Switches(C) BY DEF Loc
  <2>2. Keeps(C, s, Fail(s, "unexpected OK"))
    <3> DEFINE w == "unexpected OK"
    <3>1. w \in Failures BY DEF w, Failures
    <3> HIDE DEF w
    <3>2. Keeps(C, s, Fail(s, w)) BY <2>1, <3>1, FailKeeps
    <3> QED BY <3>2 DEF w
  <2> QED BY <1>2, <2>2, KeepsLoc DEF RecvOk
<1>3. CASE ~Has(s, id, "SENT_DISCONNECT") /\ Has(s, id, "WAITING_FOR_RESP")
  <2>1. Loc(C, a) /\ Exists(a, id) /\ a.msgs[id] = Unwaiting(s.msgs[id]) BY AckedLoc
  <2>2. s.msgs[id] \in Messages(C) BY LocAt
  <2>3. Writable(a.msgs[id])
    <3>1. Unwaiting(s.msgs[id]).status = s.msgs[id].status \ {"WAITING_FOR_RESP"} BY <2>2,
            UnwaitingFacts
    <3> QED BY <1>3, <2>1, <3>1 DEF Writable, Has
  <2> HIDE DEF a
  <2>4. Loc(C, f) /\ Exists(f, id) BY <2>1, <2>3, FlushLoc DEF Flushed, a
  <2> HIDE DEF f
  <2>5. Loc(C, e) /\ Exists(e, id) BY <2>4, SendDisconLoc DEF Ended, Has
  <2> HIDE DEF e
  <2>6. RecvOk(s, id) = Refreshed(e, id) BY <1>3, RecvOkPasses DEF e, f
  <2> QED BY <2>5, <2>6, RefreshLoc
<1> QED BY <1>1, <1>2, <1>3

----------------------------------------------------------------------------
(* The frames that go out and come in. *)

\* Loc does not depend on pending_resps.
LEMMA RespsLoc ==
  ASSUME NEW C, NEW s, Loc(C, s), NEW r \in Seq(Resps(C))
  PROVE  Loc(C, [s EXCEPT !.pending_resps = r])
<1> DEFINE t == [s EXCEPT !.pending_resps = r]
<1>1. s \in Switches(C) BY DEF Loc
<1>2. t \in Switches(C) /\ t.msgs = s.msgs /\ t.imsgid_map = s.imsgid_map
        /\ t.pending_msgs = s.pending_msgs
  BY <1>1 DEF Switches
<1> HIDE DEF t
<1>3. Loc(C, t) BY <1>2 DEF Loc, MapOK, Exists
<1> QED BY <1>3 DEF t

\* The switch once the head of pending_msgs is taken off.
Popped(s) == [s EXCEPT !.pending_msgs = Tail(@)]

\* A message at the head of pending_msgs exists, and unless it is
\* disconnected it is WRITING and was there only once.
LEMMA PoppedFacts ==
  ASSUME NEW C, NEW s, Loc(C, s), s.pending_msgs # << >>, NEW id, id = Head(s.pending_msgs),
         id # Dangling
  PROVE  LET t == Popped(s) IN
         /\ id \in MsgIds /\ Exists(s, id) /\ t \in Switches(C) /\ LocBut(C, t, id)
         /\ t.msgs = s.msgs /\ t.pending_resps = s.pending_resps /\ t.failed = s.failed
         /\ t.imsgid_map = s.imsgid_map
         /\ "DISCONNECTED" \notin s.msgs[id].status =>
              "WRITING" \in s.msgs[id].status /\ ~Listed(t.pending_msgs, id)
<1> DEFINE q == s.pending_msgs
           t == Popped(s)
<1>1. s \in Switches(C) /\ MapOK(s) BY DEF Loc
<1>2. q \in Seq(0 .. MaxMsgId) BY <1>1, SwitchFacts
<1>3. id \in MsgIds /\ q[1] = id /\ 1 \in 1 .. Len(q)
  <2> DEFINE S == 0 .. MaxMsgId
  <2>1. q \in Seq(S) /\ q # << >> BY <1>2
  <2>2. \A x \in S : x # 0 => x \in MsgIds BY MaxMsgIdAssumption DEF MsgIds
  <2> HIDE DEF S, q
  <2>3. Len(q) \in Nat \ {0} BY <2>1, TailSome
  <2>4. 1 \in 1 .. Len(q) BY <2>3
  <2>5. q[1] \in S /\ q[1] = Head(q) BY <2>1, <2>4
  <2> QED BY <2>2, <2>4, <2>5 DEF q, Dangling
<1>4. Listed(q, id) BY <1>3 DEF Listed
<1>5. Tidy(q, s.msgs[id], id) BY <1>3 DEF Loc
<1>6. Exists(s, id) BY <1>3, <1>4, <1>5 DEF Tidy, Exists
<1>7. Tail(q) \in Seq(0 .. MaxMsgId) BY <1>2, TailWithout
<1>8. Spares(q, Tail(q), id) /\ (Once(q, id) => ~Listed(Tail(q), id)) BY <1>2, TailSpares
<1>9. /\ t \in Switches(C) /\ t.msgs = s.msgs /\ t.pending_resps = s.pending_resps
         /\ t.failed = s.failed
      /\ t.imsgid_map = s.imsgid_map /\ t.pending_msgs = Tail(q)
  <2> DEFINE r == Tail(q)
  <2>1. t = [s EXCEPT !.pending_msgs = r] BY <1>1 DEF Popped, Switches
  <2>2. r \in Seq(0 .. MaxMsgId) BY <1>7
  <2> HIDE DEF r, t
  <2>3. /\ t \in Switches(C) /\ t.msgs = s.msgs /\ t.pending_resps = s.pending_resps
           /\ t.failed = s.failed
        /\ t.imsgid_map = s.imsgid_map /\ t.pending_msgs = r
    BY <1>1, <2>1, <2>2 DEF Switches
  <2> QED BY <2>3 DEF r
<1> HIDE DEF t
<1>10. MapOK(t) BY <1>1, <1>9 DEF MapOK, Exists
<1>11. ASSUME NEW j \in MsgIds \ {id} PROVE Tidy(t.pending_msgs, t.msgs[j], j)
  <2>1. Tidy(q, s.msgs[j], j) BY DEF Loc
  <2> HIDE DEF q
  <2> QED BY <1>8, <1>9, <2>1, SparesTidy
<1>12. LocBut(C, t, id) BY <1>9, <1>10, <1>11 DEF LocBut
<1>13. "DISCONNECTED" \notin s.msgs[id].status =>
              "WRITING" \in s.msgs[id].status /\ ~Listed(t.pending_msgs, id)
  BY <1>4, <1>5, <1>6, <1>8, <1>9 DEF Tidy, Exists, PendFor
<1> QED BY <1>3, <1>6, <1>9, <1>12, <1>13 DEF t

\* Sending a frame keeps Loc.
LEMMA SwitchWriteLoc ==
  ASSUME NEW C, NEW s, Loc(C, s), HasAvailWrits(s)
  PROVE  Loc(C, msg_switch_write(s))
<1>1. s \in Switches(C) BY DEF Loc
<1>2. CASE s.pending_resps # << >>
  <2>1. s.pending_resps \in Seq(Resps(C)) BY <1>1, SwitchFacts
  <2>2. Tail(s.pending_resps) \in Seq(Resps(C)) BY <1>2, <2>1, TailSome
  <2>3. msg_switch_write(s) = [s EXCEPT !.pending_resps = Tail(s.pending_resps)]
    BY <1>1, <1>2 DEF msg_switch_write, Switches
  <2> DEFINE r == Tail(s.pending_resps)
  <2>4. r \in Seq(Resps(C)) /\ msg_switch_write(s) = [s EXCEPT !.pending_resps = r] BY <2>2,
          <2>3
  <2> HIDE DEF r
  <2> QED BY <2>4, RespsLoc
<1>3. CASE s.pending_resps = << >> /\ Head(s.pending_msgs) = Dangling
  <2>1. Keeps(C, s, Fail(s, "freed message in pending_msgs"))
    <3> DEFINE w == "freed message in pending_msgs"
    <3>1. w \in Failures BY DEF w, Failures
    <3> HIDE DEF w
    <3>2. Keeps(C, s, Fail(s, w)) BY <1>1, <3>1, FailKeeps
    <3> QED BY <3>2 DEF w
  <2> QED BY <1>3, <2>1, KeepsLoc DEF msg_switch_write
<1>4. CASE s.pending_resps = << >> /\ Head(s.pending_msgs) # Dangling
  <2> DEFINE id == Head(s.pending_msgs)
             t == Popped(s)
             m == s.msgs[id]
             u == msg_pop_writ_packet(t, id)
  <2>1. s.pending_msgs # << >> BY <1>4 DEF HasAvailWrits
  <2>2. /\ id \in MsgIds /\ Exists(s, id) /\ t \in Switches(C) /\ LocBut(C, t, id)
        /\ t.msgs = s.msgs
        /\ "DISCONNECTED" \notin m.status =>
             "WRITING" \in m.status /\ ~Listed(t.pending_msgs, id)
    BY <1>4, <2>1, PoppedFacts
  <2>3. msg_switch_write(s) = u BY <1>4 DEF msg_switch_write, Popped
  <2> HIDE DEF id, t
  <2>4. m \in Messages(C) /\ Sound(m) BY <2>2, LocAt
  <2>5. t.msgs[id] = m /\ Exists(t, id) BY <2>2 DEF Exists
  <2>6. CASE m.writ_queue = << >>
    <3>1. "DISCONNECTED" \in m.status BY <2>2, <2>4, <2>6 DEF Sound
    <3>2. PendFor(t.pending_msgs, id, m) BY <3>1 DEF PendFor
    <3>3. Turns(C, t, t, id, m, t.pending_msgs, t.pending_resps)
      <4>1. [t.msgs EXCEPT ![id] = m] = t.msgs BY <2>2, <2>5, SwitchFacts
      <4> QED BY <2>2, <4>1 DEF Turns, Core
    <3> HIDE DEF m
    <3>4. Loc(C, t) BY <2>2, <2>4, <2>5, <3>2, <3>3, TurnsLoc, SameSpares
    <3>5. u = Fail(t, "NULL packet") BY <2>5, <2>6 DEF msg_pop_writ_packet
    <3>6. Keeps(C, t, Fail(t, "NULL packet"))
      <4> DEFINE w == "NULL packet"
      <4>1. w \in Failures BY DEF w, Failures
      <4> HIDE DEF w
      <4>2. Keeps(C, t, Fail(t, w)) BY <2>2, <4>1, FailKeeps
      <4> QED BY <4>2 DEF w
    <3> QED BY <2>3, <3>4, <3>5, <3>6, KeepsLoc
  <2>7. CASE m.writ_queue # << >>
    <3> DEFINE n == PopWrit(m)
    <3>1. "DISCONNECTED" \notin m.status => ~Listed(t.pending_msgs, id) BY <2>2
    <3> HIDE DEF m
    <3>2. Edits(C, t, u, id, n) BY <2>2, <2>4, <2>5, <2>7, PopWritEdits
    <3>3. n \in Messages(C) /\ n.imsgid = m.imsgid /\ n.status = AfterPopWrit(m) BY <2>4, <2>7,
            PopWritFacts
    <3>4. Sound(n) BY <2>4, <2>7, PopWritSound
    <3>5. /\ "WRITING" \notin n.status
          /\ "DISCONNECTED" \in n.status <=> "DISCONNECTED" \in m.status
      BY <3>3 DEF AfterPopWrit
    <3> HIDE DEF n
    <3>6. PendFor(t.pending_msgs, id, n) BY <3>1, <3>5 DEF PendFor
    <3>7. Loc(C, u) BY <2>2, <2>5, <3>2, <3>3, <3>4, <3>6, EditsLoc
    <3> QED BY <2>3, <3>7
  <2> QED BY <2>6, <2>7
<1> QED BY <1>2, <1>3, <1>4

\* What msg_switch_write sends is a frame.
LEMMA NextTokenType ==
  ASSUME NEW C, NEW s, Loc(C, s), HasAvailWrits(s), ~WriteFails(s)
  PROVE  NextToken(s) \in Packets(C) \cup Resps(C)
<1>1. s \in Switches(C) BY DEF Loc
<1>2. CASE s.pending_resps # << >>
  <2>1. s.pending_resps \in Seq(Resps(C)) BY <1>1, SwitchFacts
  <2>2. Head(s.pending_resps) \in Resps(C) BY <1>2, <2>1
  <2> QED BY <1>2, <2>2 DEF NextToken
<1>3. CASE s.pending_resps = << >>
  <2> DEFINE id == Head(s.pending_msgs)
  <2>1. s.pending_msgs # << >> /\ id # Dangling /\ s.msgs[id].writ_queue # << >>
    BY <1>3 DEF HasAvailWrits, WriteFails
  <2>2. id \in MsgIds /\ Exists(s, id) BY <2>1, PoppedFacts
  <2> HIDE DEF id
  <2>3. s.msgs[id] \in Messages(C) BY <2>2, LocAt
  <2>4. s.msgs[id].writ_queue \in Seq(Packets(C)) BY <2>3, MessageFacts
  <2>5. Head(s.msgs[id].writ_queue) \in Packets(C) BY <2>1, <2>4
  <2> QED BY <1>3, <2>5 DEF NextToken, id
<1> QED BY <1>2, <1>3

\* A message that its program has not closed can be written.
LEMMA HoldsWritable ==
  ASSUME NEW C, NEW s, Loc(C, s), NEW id \in MsgIds, Exists(s, id), ~Has(s, id, "CLOSED")
  PROVE  Writable(s.msgs[id])
<1>1. Sound(s.msgs[id]) BY LocAt
<1> QED BY <1>1 DEF Sound, Writable, Has

\* The message that a frame is for.
LEMMA GetFacts ==
  ASSUME NEW C, NEW s, Loc(C, s), NEW wid \in WireIds
  PROVE  LET g == msg_get(s, wid) IN
         /\ g # 0 => /\ g \in MsgIds /\ Exists(s, g)
                     /\ wid > 0 => g = wid
                     /\ wid < 0 => s.msgs[g].imsgid = -wid
         /\ wid < 0 => -wid \in MsgIds /\ (g = 0 => s.imsgid_map[-wid] = 0)
         /\ wid < 0 => \A j \in MsgIds : Exists(s, j) /\ s.msgs[j].imsgid = -wid => g = j
         /\ wid > 0 => wid \in MsgIds /\ (Exists(s, wid) => g = wid)
<1>1. s \in Switches(C) /\ MapOK(s) BY DEF Loc
<1>2. s.imsgid_map \in [MsgIds -> 0 .. MaxMsgId] BY <1>1, SwitchFacts
<1>3. wid \in Int /\ wid # 0 /\ wid <= MaxMsgId /\ -MaxMsgId <= wid BY MaxMsgIdAssumption
        DEF WireIds
<1>4. CASE wid > 0
  <2>1. wid \in MsgIds BY <1>3, <1>4, MaxMsgIdAssumption DEF MsgIds
  <2>2. msg_get(s, wid) = IF Exists(s, wid) THEN wid ELSE 0 BY <1>4 DEF msg_get
  <2>3. ~(wid < 0) BY <1>3, <1>4
  <2> QED BY <1>4, <2>1, <2>2, <2>3
<1>5. CASE ~(wid > 0)
  <2> DEFINE x == -wid
  <2>1. x \in MsgIds /\ wid < 0 BY <1>3, <1>5, MaxMsgIdAssumption DEF MsgIds
  <2> DEFINE k == s.imsgid_map[x]
  <2>2. msg_get(s, wid) = IF Exists(s, k) THEN k ELSE 0 BY <1>5 DEF msg_get
  <2>3. k \in 0 .. MaxMsgId BY <1>2, <2>1
  <2>4. k # 0 => k \in MsgIds BY <2>3 DEF MsgIds
  <2>5. \A j \in MsgIds : k = j <=> (Exists(s, j) /\ s.msgs[j].imsgid = x) BY <1>1, <2>1
          DEF MapOK
  <2>6. 0 \notin MsgIds BY DEF MsgIds
  <2>7. ~Exists(s, 0) BY <2>6 DEF Exists
  <2> HIDE DEF k, x
  <2>8. k # 0 => Exists(s, k) /\ s.msgs[k].imsgid = x BY <2>4, <2>5
  <2>9. msg_get(s, wid) = k BY <2>2, <2>7, <2>8
  <2>10. \A j \in MsgIds : Exists(s, j) /\ s.msgs[j].imsgid = x => k = j BY <2>5
  <2> QED BY <1>5, <2>1, <2>4, <2>8, <2>9, <2>10 DEF x, k
<1> QED BY <1>4, <1>5

\* msg_push_read_packet keeps Loc.
LEMMA PushReadLoc ==
  ASSUME NEW C, NEW s, Loc(C, s), NEW id \in MsgIds, Exists(s, id), NEW t \in Packets(C)
  PROVE  Loc(C, msg_push_read_packet(s, id, t))
<1> DEFINE m == s.msgs[id]
           seq == t.seq
           n == PushRead(m, seq)
           u == msg_push_read_packet(s, id, t)
<1>1. seq \in Nat BY DEF Packets
<1>2. s \in Switches(C) /\ m \in Messages(C) /\ Sound(m) /\ PendFor(s.pending_msgs, id, m)
        /\ LocBut(C, s, id)
  BY LocAt
<1>3. Edits(C, s, u, id, n) BY <1>2, PushReadEdits
<1> HIDE DEF seq
<1>4. n \in Messages(C) /\ n.imsgid = m.imsgid BY <1>1, <1>2, PushReadFacts
<1>5. Sound(n) BY <1>1, <1>2, PushReadSound
<1> DEFINE q == IF "CLOSED" \in m.status THEN m.read_queue ELSE Append(m.read_queue, seq)
<1>6. n.status = (m.status \cup {"NEED_TO_SEND_RESP", "PACKET_AVAIL_TO_READ"})
                   \ (IF Len(q) >= NBuff THEN {"SPACE_AVAIL_FOR_READ"} ELSE {})
  <2>1. m \in Messages(C) BY <1>2
  <2> HIDE DEF m
  <2> QED BY <1>1, <2>1, PushReadFacts
<1> HIDE DEF q, n, u
<1>7. PendFor(s.pending_msgs, id, n) BY <1>2, <1>6 DEF PendFor
<1>8. Loc(C, u) BY <1>2, <1>3, <1>4, <1>5, <1>7, EditsLoc
<1> QED BY <1>8 DEF u

\* A packet keeps Loc, for a message that is there and for one that it
\* opens.
LEMMA ReadPacketLoc ==
  ASSUME NEW C, NEW s, Loc(C, s), NEW t \in Packets(C)
  PROVE  Loc(C, ReadPacket(s, t))
<1> DEFINE id == msg_get(s, t.id)
           new == msg_get_avail_msgid(s)
           x == -t.id
           conv == t.conv
           g == Joined(s, conv, x)
<1>1. s \in Switches(C) BY DEF Loc
<1>2. t.id \in WireIds /\ conv \in C BY DEF Packets
<1>3. CASE id # 0
  <2>1. id \in MsgIds /\ Exists(s, id) BY <1>2, <1>3, GetFacts
  <2> QED BY <1>3, <2>1, PushReadLoc DEF ReadPacket
<1>4. CASE id = 0 /\ t.id >= 0
  <2>1. Keeps(C, s, Fail(s, "packet for an unknown message"))
    <3> DEFINE w == "packet for an unknown message"
    <3>1. w \in Failures BY DEF w, Failures
    <3> HIDE DEF w
    <3>2. Keeps(C, s, Fail(s, w)) BY <1>1, <3>1, FailKeeps
    <3> QED BY <3>2 DEF w
  <2> QED BY <1>4, <2>1, KeepsLoc DEF ReadPacket
<1>5. CASE id = 0 /\ ~(t.id >= 0) /\ new = -1
  <2>1. Keeps(C, s, Fail(s, "msgs[-1]"))
    <3> DEFINE w == "msgs[-1]"
    <3>1. w \in Failures BY DEF w, Failures
    <3> HIDE DEF w
    <3>2. Keeps(C, s, Fail(s, w)) BY <1>1, <3>1, FailKeeps
    <3> QED BY <3>2 DEF w
  <2>2. ReadPacket(s, t) = Fail(s, "msgs[-1]") BY <1>5 DEF ReadPacket, msg_create
  <2> QED BY <2>1, <2>2, KeepsLoc
<1>6. CASE id = 0 /\ ~(t.id >= 0) /\ new # -1
  <2>1. new \in MsgIds /\ s.msgs[new] = NoMsg BY <1>1, <1>6, AvailFacts
  <2>2. t.id < 0 BY <1>2, <1>6, MaxMsgIdAssumption DEF WireIds
  <2>3. x \in MsgIds /\ s.imsgid_map[x] = 0 BY <1>2, <1>6, <2>2, GetFacts
  <2>4. ReadPacket(s, t) = msg_push_read_packet(g, new, t) BY <1>6 DEF ReadPacket, Joined
  <2> HIDE DEF x, conv
  <2>5. Loc(C, g) BY <1>2, <2>1, <2>3, JoinedLoc
  <2>6. g.msgs = [s.msgs EXCEPT ![new] = NewFor(conv, x)]
    <3>1. new \in MsgIds /\ new = msg_get_avail_msgid(s) /\ g = Joined(s, conv, x) BY <2>1
    <3>2. conv \in C /\ x \in MsgIds BY <1>2, <2>3 DEF conv
    <3> HIDE DEF new, g, conv, x
    <3>3. Joins(C, s, Joined(s, conv, x), new, conv, x) BY <1>1, <3>1, <3>2, JoinedJoins
    <3> QED BY <3>1, <3>3 DEF Joins
  <2>7. NewFor(conv, x) \in Messages(C) BY <1>2, <2>3, NewFacts DEF MsgIds
  <2> HIDE DEF g, new
  <2>8. Exists(g, new) BY <1>1, <2>1, <2>6, <2>7, SwitchFacts, MessageFacts DEF Exists
  <2> QED BY <2>1, <2>4, <2>5, <2>8, PushReadLoc
<1> QED BY <1>3, <1>4, <1>5, <1>6

\* Reading a frame keeps Loc, whatever the frame.
LEMMA SwitchReadLoc ==
  ASSUME NEW C, NEW s, Loc(C, s), NEW t \in Packets(C) \cup Resps(C)
  PROVE  Loc(C, msg_switch_read(s, t))
<1>1. CASE t.kind = "PACK"
  <2>1. t \in Packets(C) BY <1>1 DEF Resps
  <2> QED BY <1>1, <2>1, ReadPacketLoc DEF msg_switch_read
<1>2. CASE t.kind # "PACK"
  <2>1. t \in Resps(C) BY <1>2 DEF Packets
  <2>2. t.id \in WireIds BY <2>1 DEF Resps
  <2> DEFINE id == msg_get(s, t.id)
  <2>3. CASE id = 0 BY <1>2, <2>3 DEF msg_switch_read
  <2>4. CASE id # 0
    <3>1. id \in MsgIds /\ Exists(s, id) BY <2>2, <2>4, GetFacts
    <3>2. msg_switch_read(s, t) = IF t.what = "DISCON" THEN RecvDiscon(s, id) ELSE RecvOk(s, id)
      BY <1>2, <2>4 DEF msg_switch_read, msg_recv_resp
    <3> HIDE DEF id
    <3>3. Loc(C, RecvOk(s, id)) BY <3>1, RecvOkLoc
    <3>4. Loc(C, RecvDiscon(s, id))
      <4>1. CASE "SENT_DISCONNECT" \in s.msgs[id].status BY <3>1, <4>1, FreeLoc DEF RecvDiscon,
              Has
      <4>2. CASE "SENT_DISCONNECT" \notin s.msgs[id].status BY <3>1, <4>2, RecvDisconLeft
              DEF Left
      <4> QED BY <4>1, <4>2
    <3> QED BY <3>2, <3>3, <3>4
  <2> QED BY <2>3, <2>4
<1> QED BY <1>1, <1>2

----------------------------------------------------------------------------
(* Opening, accepting, and the switch that has only begun. *)

\* msg_open keeps Loc, with a msgid and without one.
LEMMA OpenLoc ==
  ASSUME NEW C, NEW s, Loc(C, s), Unfailed(s), NEW conv,
         msg_get_avail_msgid(s) \in MsgIds => conv \in C
  PROVE  Loc(C, msg_open(s, conv))
<1> DEFINE id == msg_get_avail_msgid(s)
           n == Flagged(NewFor(conv, 0), NewFor(conv, 0).status \cup {"CONNECTED"})
           t == msg_open(s, conv)
<1>1. s \in Switches(C) BY DEF Loc
<1>2. CASE id = -1
  <2>1. t = Fail(s, "msgs[-1]")
    <3>1. msg_create(s, conv) = Fail(s, "msgs[-1]") BY <1>2 DEF msg_create
    <3>2. Fail(s, "msgs[-1]").failed # None
      <4> DEFINE w == "msgs[-1]"
      <4>1. w \in Failures /\ w # None BY DEF w, Failures, None
      <4> HIDE DEF w
      <4>2. Fail(s, w).failed # None BY <1>1, <4>1, FailType DEF Unfailed
      <4> QED BY <4>2 DEF w
    <3> QED BY <3>1, <3>2 DEF msg_open
  <2>2. Keeps(C, s, Fail(s, "msgs[-1]"))
    <3> DEFINE w == "msgs[-1]"
    <3>1. w \in Failures BY DEF w, Failures
    <3> HIDE DEF w
    <3>2. Keeps(C, s, Fail(s, w)) BY <1>1, <3>1, FailKeeps
    <3> QED BY <3>2 DEF w
  <2> QED BY <2>1, <2>2, KeepsLoc
<1>3. CASE id # -1
  <2>1. id \in MsgIds /\ s.msgs[id] = NoMsg BY <1>1, <1>3, AvailFacts
  <2>2. id = msg_get_avail_msgid(s) /\ conv \in C BY <2>1
  <2>3. NewFor(conv, 0) \in Messages(C) /\ NewFor(conv, 0).imsgid = 0 /\ Sound(NewFor(conv, 0))
        /\ NewFor(conv, 0).status = {"SPACE_AVAIL_FOR_READ", "SPACE_AVAIL_FOR_WRIT"}
        /\ NewFor(conv, 0).incomplete = NoPacket /\ NewFor(conv, 0).writ_queue = << >>
        /\ NewFor(conv, 0).read_queue = << >> /\ NewFor(conv, 0).n_writ = 0
    BY <2>2, MaxMsgIdAssumption, NewFacts
  <2> DEFINE k == NewFor(conv, 0)
             st == k.status \cup {"CONNECTED"}
  <2>4. st \in SUBSET Flags BY <2>3 DEF Flags
  <2>5. n \in Messages(C) /\ n.imsgid = 0 /\ n.status = st /\ n.incomplete = NoPacket
        /\ n.writ_queue = << >> /\ n.read_queue = << >>
    <3> HIDE DEF k, st
    <3>1. k \in Messages(C) BY <2>3 DEF k
    <3>2. n = Flagged(k, st) BY DEF k, st
    <3> HIDE DEF n
    <3> QED BY <2>3, <2>4, <3>1, <3>2, FlaggedType DEF k
  <2>6. Turns(C, s, t, id, n, s.pending_msgs, s.pending_resps)
    <3> HIDE DEF id
    <3> QED BY <1>1, <2>1, <2>2, OpenTurns
  <2> HIDE DEF id, n, t, k
  <2>7. Sound(n) /\ "WRITING" \notin n.status
    <3>1. n.status = {"SPACE_AVAIL_FOR_READ", "SPACE_AVAIL_FOR_WRIT", "CONNECTED"} BY <2>3, <2>5
            DEF k
    <3>2. Len(n.read_queue) = 0 BY <2>5
    <3> QED BY <2>5, <3>1, <3>2, NBuffAssumption DEF Sound
  <2>8. Loc(C, t) BY <2>1, <2>5, <2>6, <2>7, AddLoc
  <2> QED BY <2>8 DEF t
<1> QED BY <1>2, <1>3

\* msg_accept keeps Loc.
LEMMA AcceptLoc ==
  ASSUME NEW C, NEW s, Loc(C, s), NEW id \in MsgIds, Exists(s, id)
  PROVE  Loc(C, msg_accept(s, id))
<1> DEFINE m == s.msgs[id]
           st == m.status \cup {"CONNECTED"}
           n == Flagged(m, st)
           t == msg_accept(s, id)
<1>1. s \in Switches(C) /\ m \in Messages(C) /\ Sound(m) /\ PendFor(s.pending_msgs, id, m)
        /\ LocBut(C, s, id)
  BY LocAt
<1>2. CASE "DISCONNECTED" \in m.status BY <1>2, FreeLoc DEF msg_accept, Has
<1>3. CASE "DISCONNECTED" \notin m.status
  <2>1. Turns(C, s, t, id, n, s.pending_msgs, s.pending_resps) BY <1>1, <1>3, AcceptTurns
  <2>2. st \in SUBSET Flags BY <1>1, MessageFacts DEF Flags
  <2>3. /\ n \in Messages(C) /\ n.status = st
        /\ n.imsgid = m.imsgid /\ n.conv = m.conv /\ n.n_writ = m.n_writ /\ n.n_read = m.n_read
        /\ n.incomplete = m.incomplete /\ n.read_queue = m.read_queue
           /\ n.writ_queue = m.writ_queue
    BY <1>1, <2>2, FlaggedType
  <2> HIDE DEF n, t
  <2>4. Sound(n) BY <1>1, <2>3 DEF Sound
  <2>5. PendFor(s.pending_msgs, id, n) BY <1>1, <2>3 DEF PendFor
  <2>6. Loc(C, t) BY <1>1, <2>1, <2>3, <2>4, <2>5, TurnsLoc, SameSpares
  <2> QED BY <2>6 DEF t
<1> QED BY <1>2, <1>3

\* The fields of the switch of a new connection.
LEMMA EmptyFacts ==
  ASSUME NEW C
  PROVE  /\ EmptySwitch \in Switches(C)
         /\ \A i \in MsgIds : EmptySwitch.msgs[i] = NoMsg /\ EmptySwitch.imsgid_map[i] = 0
         /\ EmptySwitch.pending_msgs = << >> /\ EmptySwitch.pending_resps = << >>
         /\ Unfailed(EmptySwitch)
<1> DEFINE e == << >>
           M == [i \in MsgIds |-> NoMsg]
           Z == [i \in MsgIds |-> 0]
           f == FALSE
           z == {}
           N == None
<1>1. e \in Seq(0 .. MaxMsgId) /\ e \in Seq(Resps(C)) OBVIOUS
<1>2. M \in [MsgIds -> Messages(C) \cup {NoMsg}] OBVIOUS
<1>3. Z \in [MsgIds -> 0 .. MaxMsgId] BY MaxMsgIdAssumption
<1>4. f \in BOOLEAN /\ z \in SUBSET MsgIds /\ N \in Failures BY DEF Failures
<1>5. EmptySwitch =
  [msgs          |-> M,
   imsgid_map    |-> Z,
   pending_msgs  |-> e,
   pending_resps |-> e,
   failed        |-> N,
   selecting     |-> f,
   selectable    |-> z,
   active_read   |-> z,
   active_write  |-> z,
   active_hash   |-> z] BY DEF EmptySwitch
<1>6. \A i \in MsgIds : M[i] = NoMsg /\ Z[i] = 0 OBVIOUS
<1> HIDE DEF e, M, Z, f, z, N
<1>7. EmptySwitch \in Switches(C) BY <1>1, <1>2, <1>3, <1>4, <1>5 DEF Switches
<1>8. EmptySwitch.msgs = M /\ EmptySwitch.imsgid_map = Z /\ EmptySwitch.pending_msgs = e
      /\ EmptySwitch.pending_resps = e /\ EmptySwitch.failed = N
  BY <1>5
<1> QED BY <1>6, <1>7, <1>8 DEF e, N, Unfailed

\* The switch of a new connection has Loc.
LEMMA EmptyLoc ==
  ASSUME NEW C
  PROVE  Loc(C, EmptySwitch)
<1> DEFINE e == EmptySwitch
<1>1. e \in Switches(C) /\ e.pending_msgs = << >>
      /\ \A i \in MsgIds : e.msgs[i] = NoMsg /\ e.imsgid_map[i] = 0
  BY EmptyFacts
<1> HIDE DEF e
<1>2. 0 \notin MsgIds BY DEF MsgIds
<1>3. MapOK(e) BY <1>1, <1>2 DEF MapOK, Exists
<1>4. \A j \in MsgIds : ~Listed(e.pending_msgs, j)
  <2>1. Len(e.pending_msgs) = 0 BY <1>1
  <2> QED BY <2>1 DEF Listed
<1>5. Loc(C, e) BY <1>1, <1>3, <1>4 DEF Loc, Tidy
<1> QED BY <1>5 DEF e
=============================================================================
