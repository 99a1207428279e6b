------------------------------ MODULE MsgLink ------------------------------
(***************************************************************************)
(* Two message switches, the proxy daemon's and a web application's, over  *)
(* one TCP connection.  chan[p] is what p has written to the socket and    *)
(* the other end has not read, one token per message-switch frame.         *)
(*                                                                         *)
(* The programs behind the two ends open, accept, write, flush, read and   *)
(* close messages as their handlers do: any message they hold, at any      *)
(* time, and never a message they have closed.                             *)
(***************************************************************************)
EXTENDS MsgSwitch

CONSTANTS
  Ends,         \* the two ends of the connection
  Openers,      \* the ends whose program opens messages
  LateFlush,    \* whether a program may flush a message already disconnected
  MaxOpens,     \* bound: msg_open calls of each opener
  MaxPackets,   \* bound: packets of one message in one direction
  MaxBurst,     \* bound: packets one msg_write may complete
  MaxInFlight,  \* bound: frames the socket buffers hold in one direction
  MaxBreaks     \* bound: connections lost for a reason outside the program

ASSUME EndsAssumption == IsFiniteSet(Ends) /\ Cardinality(Ends) = 2 /\ Openers \subseteq Ends
ASSUME BoundsAssumption == MaxBurst \in Nat

VARIABLES
  sw,      \* the switch of each end
  chan,    \* the frames each end has sent and the other has not read
  up,      \* whether the end has a connection
  opens,   \* msg_open calls made so far
  breaks,  \* connections lost so far
  misled   \* history: the messages that took an acknowledgement of another one

vars == <<sw, chan, up, opens, breaks, misled>>

Other(p) == CHOOSE q \in Ends : q # p

Init ==
  /\ sw = [p \in Ends |-> EmptySwitch]
  /\ chan = [p \in Ends |-> << >>]
  /\ up = [p \in Ends |-> TRUE]
  /\ opens = [p \in Ends |-> 0]
  /\ breaks = 0
  /\ misled = {}

\* p is connected and its process runs.
Running(p) == up[p] /\ sw[p].failed = None

\* The program at p holds message id: it opened or accepted it and has not
\* closed it.
Holds(p, id) ==
  /\ Running(p)
  /\ Exists(sw[p], id)
  /\ Has(sw[p], id, "CONNECTED")
  /\ ~Has(sw[p], id, "CLOSED")

Call(p, result) ==
  /\ sw' = [sw EXCEPT ![p] = result]
  /\ UNCHANGED <<chan, up, breaks, misled>>

Open(p) ==
  /\ Running(p)
  /\ opens[p] < MaxOpens
  /\ opens' = [opens EXCEPT ![p] = @ + 1]
  /\ Call(p, msg_open(sw[p], <<p, opens[p] + 1, msg_get_avail_msgid(sw[p])>>))

\* Both programs accept a message on its MSG_EVT_ACCEPT_READY.
Accept(p, id) ==
  /\ Running(p)
  /\ Exists(sw[p], id)
  /\ ~Has(sw[p], id, "CONNECTED")
  /\ Call(p, msg_accept(sw[p], id))
  /\ UNCHANGED opens

Write(p, id, k) ==
  /\ Holds(p, id)
  /\ ~Has(sw[p], id, "DISCONNECTED")
  /\ Has(sw[p], id, "SPACE_AVAIL_FOR_WRIT")
  /\ sw[p].msgs[id].n_writ + k + 1 <= MaxPackets
  /\ Call(p, msg_write(sw[p], id, k))
  /\ UNCHANGED opens

Flush(p, id) ==
  /\ Holds(p, id)
  /\ LateFlush \/ ~Has(sw[p], id, "DISCONNECTED")
  /\ sw[p].msgs[id].incomplete # NoPacket
  /\ Call(p, msg_flush(sw[p], id))
  /\ UNCHANGED opens

Read(p, id, k) ==
  /\ Holds(p, id)
  /\ Has(sw[p], id, "PACKET_AVAIL_TO_READ")
  /\ k <= Len(sw[p].msgs[id].read_queue)
  /\ Call(p, msg_read(sw[p], id, k))
  /\ UNCHANGED opens

Close(p, id) ==
  /\ Holds(p, id)
  /\ Call(p, msg_close(sw[p], id))
  /\ UNCHANGED opens

\* ZS_EVT_WRITE_READY: the socket takes one more frame.
SwitchWrite(p) ==
  /\ Running(p)
  /\ HasAvailWrits(sw[p])
  /\ Len(chan[p]) < MaxInFlight
  /\ sw' = [sw EXCEPT ![p] = msg_switch_write(@)]
  /\ chan' = IF WriteFails(sw[p]) THEN chan ELSE [chan EXCEPT ![p] = Append(@, NextToken(sw[p]))]
  /\ UNCHANGED <<up, opens, breaks, misled>>

\* ZS_EVT_READ_READY: the next frame has arrived in full.
SwitchRead(p) ==
  LET q == Other(p)
      t == Head(chan[q])
      id == msg_get(sw[p], t.id)
  IN  /\ Running(p)
      /\ chan[q] # << >>
      /\ sw' = [sw EXCEPT ![p] = msg_switch_read(@, t)]
      /\ chan' = [chan EXCEPT ![q] = Tail(@)]
      /\ misled' = IF t.kind = "RESP" /\ t.what = "OK" /\ id # 0 /\ sw[p].msgs[id].conv # t.conv
                   THEN misled \cup {sw[p].msgs[id].conv}
                   ELSE misled
      /\ UNCHANGED <<up, opens, breaks>>

\* zs_read or zs_write fails, or the process ended: msg_switch_failed, whose
\* handler in both programs closes every message and destroys the switch.
Drop(p) ==
  /\ up[p]
  /\ sw' = [sw EXCEPT ![p] = EmptySwitch]
  /\ chan' = [chan EXCEPT ![Other(p)] = << >>]
  /\ up' = [up EXCEPT ![p] = FALSE]
  /\ UNCHANGED <<opens, misled>>

Eof(p) ==
  /\ sw[p].failed # None \/ (~up[Other(p)] /\ chan[Other(p)] = << >>)
  /\ Drop(p)
  /\ UNCHANGED breaks

Break(p) ==
  /\ breaks < MaxBreaks
  /\ breaks' = breaks + 1
  /\ Drop(p)

\* A new connection, with a new switch at both ends.
Connect ==
  /\ \A p \in Ends : ~up[p]
  /\ up' = [p \in Ends |-> TRUE]
  /\ chan' = [p \in Ends |-> << >>]
  /\ UNCHANGED <<sw, opens, breaks, misled>>

System(p) == SwitchWrite(p) \/ SwitchRead(p) \/ Eof(p) \/ \E id \in MsgIds : Accept(p, id)

Program(p) ==
  \/ p \in Openers /\ Open(p)
  \/ \E id \in MsgIds :
       \/ \E k \in 0 .. MaxBurst : Write(p, id, k)
       \/ Flush(p, id)
       \/ \E k \in 1 .. NBuff : Read(p, id, k)
       \/ Close(p, id)

Next ==
  \/ \E p \in Ends : System(p) \/ Program(p) \/ Break(p)
  \/ Connect

Spec == Init /\ [][Next]_vars

\* msg_read returned 0: both programs close the message.
CloseAtEof(p, id) ==
  /\ Holds(p, id)
  /\ Has(sw[p], id, "DISCONNECTED")
  /\ ~Has(sw[p], id, "PACKET_AVAIL_TO_READ")
  /\ Close(p, id)

\* The select loops serve every ready socket and message; the programs read
\* what has arrived and close a message at its end of file.
Fairness ==
  /\ WF_vars(Connect)
  /\ \A p \in Ends :
       /\ WF_vars(SwitchWrite(p)) /\ WF_vars(SwitchRead(p)) /\ WF_vars(Eof(p))
       /\ \A id \in MsgIds :
            /\ WF_vars(Accept(p, id)) /\ WF_vars(CloseAtEof(p, id))
            /\ WF_vars(\E k \in 1 .. NBuff : Read(p, id, k))

FairSpec == Spec /\ Fairness
----------------------------------------------------------------------------
(* Properties. *)

Live(p) == {id \in MsgIds : Exists(sw[p], id)}
Msg(p, id) == sw[p].msgs[id]

\* Both ends run and have the connection.
Connected == \A p \in Ends : Running(p)

\* The messages of p that descend from the same msg_open as message id of q.
Peers(p, conv) == {id \in Live(p) : Msg(p, id).conv = conv}

TokenOK(t) ==
  \/ t.kind = "PACK" /\ t.seq \in 1 .. MaxPackets
  \/ t.kind = "RESP" /\ t.what \in {"OK", "DISCON"}

MsgOK(m) ==
  /\ m.imsgid \in 0 .. MaxMsgId
  /\ m.status \subseteq Flags
  /\ m.n_writ \in 0 .. MaxPackets
  /\ m.n_read \in 0 .. MaxPackets
  /\ m.read_queue \in Seq(1 .. MaxPackets)
  /\ \A i \in DOMAIN m.writ_queue : TokenOK(m.writ_queue[i])

\* Every id in a switch or on the wire is a msgid, every flag one of msg_switch.h.
TypeOK ==
  /\ up \in [Ends -> BOOLEAN]
  /\ \A p \in Ends :
       /\ \A id \in Live(p) : MsgOK(Msg(p, id))
       /\ sw[p].imsgid_map \in [MsgIds -> 0 .. MaxMsgId]
       /\ sw[p].pending_msgs \in Seq(0 .. MaxMsgId)
       /\ \A i \in DOMAIN chan[p] : TokenOK(chan[p][i]) /\ chan[p][i].id \in -MaxMsgId .. MaxMsgId

\* A sender that stops on its own never overruns its reader: read_queue holds
\* at most MSG_N_BUFF_PACKETS_ALLOWED packets whatever the writer, the socket
\* and the reading program do (msg_push_read_packet appends unconditionally).
\* Only an acknowledgement meant for an earlier message can break this.
FlowControl ==
  \A p \in Ends : \A id \in Live(p) :
    Msg(p, id).conv \notin misled => Len(Msg(p, id).read_queue) <= NBuff

Count(S(_), seq) == Cardinality({i \in DOMAIN seq : S(seq[i])})

\* Packets of conv that p has sent and has not seen acknowledged: the packet
\* itself, the duty to acknowledge it, or the acknowledgement, is somewhere.
Unacknowledged(p, conv) ==
  LET q == Other(p)
      IsPacket(t) == t.kind = "PACK" /\ t.conv = conv
      IsOk(t) == t.kind = "RESP" /\ t.conv = conv /\ t.what = "OK"
  IN  Count(IsPacket, chan[p]) + Count(IsOk, chan[q]) + Count(IsOk, sw[q].pending_resps)
        + Cardinality({id \in Peers(q, conv) : Has(sw[q], id, "NEED_TO_SEND_RESP")})

\* Stop and wait: until a message takes part in its disconnection, it waits
\* for a response exactly when one packet of it is unacknowledged.  No
\* acknowledgement is lost, and none is sent twice, across the responses that
\* msg_read, msg_close and the arrival of packets trigger.  (A message misled
\* by an acknowledgement of an earlier one is past saving.)
StopAndWait ==
  \A p \in Ends : \A id \in Live(p) :
    Connected /\ Msg(p, id).conv \notin misled /\ ~Has(sw[p], id, "SENT_DISCONNECT") =>
       Unacknowledged(p, Msg(p, id).conv) = IF Has(sw[p], id, "WAITING_FOR_RESP") THEN 1 ELSE 0

\* What message m has begun and not handed to the socket, oldest first.
Unsent(m) ==
  [i \in DOMAIN m.writ_queue |-> m.writ_queue[i].seq]
    \o IF m.incomplete = NoPacket THEN << >> ELSE <<m.incomplete.seq>>

EndsAt(s, n) == \A i \in DOMAIN s : s[i] = n - Len(s) + i

\* The packets of conv among these frames are the ones from the a-th, exclusive,
\* to the b-th, in order.
Carries(frames, conv, a, b) ==
  LET at == {i \in DOMAIN frames : frames[i].kind = "PACK" /\ frames[i].conv = conv}
  IN  /\ a <= b
      /\ {frames[i].seq : i \in at} = (a + 1) .. b
      /\ \A i, j \in at : i < j => frames[i].seq < frames[j].seq

\* Packets reach the reading program in the order they were written, without
\* a gap or a duplicate: what waits in read_queue ends with the last packet
\* received, and the packets underway, in the socket and then in writ_queue,
\* continue it up to the last one written.
InOrder ==
  \A p \in Ends : \A id \in Live(p) :
    LET m == Msg(p, id)
        sent == m.n_writ - Len(Unsent(m))
        peers == Peers(Other(p), m.conv)
    IN  /\ EndsAt(m.read_queue, m.n_read)
        /\ Connected /\ ~Has(sw[p], id, "DISCONNECTED") =>
              /\ EndsAt(Unsent(m), m.n_writ)
              /\ \A j \in peers : Carries(chan[p], m.conv, Msg(Other(p), j).n_read, sent)
              /\ peers = {} => \E a \in 0 .. sent : Carries(chan[p], m.conv, a, sent)

\* A message that is not disconnected is in pending_msgs, once, exactly while
\* its WRITING flag says so, and then it has a packet to write.
WritingIsPending ==
  \A p \in Ends : \A id \in Live(p) :
    LET Mine(x) == x = id
    IN  ~Has(sw[p], id, "DISCONNECTED") =>
          /\ Count(Mine, sw[p].pending_msgs) = IF Has(sw[p], id, "WRITING") THEN 1 ELSE 0
          /\ Has(sw[p], id, "WRITING") => Msg(p, id).writ_queue # << >>

\* The packet or the disconnect an end reads next, when it resolves to a
\* message there, is one that the other end sent for that very message: ids of
\* messages opened at the two ends are not confused, and an id is not reused
\* while a packet or a disconnect of its previous message is underway.
\* (Acknowledgements are not so lucky: ResponseExpected.)
Addressed ==
  \A p \in Ends :
    LET q == Other(p)
        t == Head(chan[p])
        id == msg_get(sw[q], t.id)
    IN  chan[p] # << >> /\ (t.kind = "PACK" \/ t.what = "DISCON") /\ id # 0 =>
          Msg(q, id).conv = t.conv

\* imsgid_map and the imsgid fields are inverse to one another.
ImsgidMap ==
  \A p \in Ends : \A i, id \in MsgIds :
    sw[p].imsgid_map[i] = id <=> (Exists(sw[p], id) /\ Msg(p, id).imsgid = i)

\* Closed by its program with packets still to send when the other end's
\* disconnect arrived: msg_recv_resp answers, and no call is left that would
\* free the message.
Stranded(p, id) == {"CLOSED", "DISCONNECTED"} \subseteq Msg(p, id).status

\* Every closed message is freed in the end, by the disconnect handshake or
\* with its switch; the one exception is a message stranded by a disconnect.
ClosedIsFreed ==
  \A p \in Ends, id \in MsgIds :
    (Exists(sw[p], id) /\ Has(sw[p], id, "CLOSED")) ~> (~Exists(sw[p], id) \/ Stranded(p, id))

\* A packet handed to the socket is acknowledged, or its message ends: no
\* message waits for a response for ever while the readers read.
WaitEnds ==
  \A p \in Ends, id \in MsgIds :
    (Exists(sw[p], id) /\ Has(sw[p], id, "WAITING_FOR_RESP"))
       ~> (~Exists(sw[p], id) \/ ~Has(sw[p], id, "WAITING_FOR_RESP") \/ Stranded(p, id))

\* When one end closes a message, the program at the other end is not left
\* holding it for ever.
CloseReachesPeer ==
  \A p \in Ends, id \in MsgIds :
    (Exists(sw[p], id) /\ Has(sw[p], id, "CLOSED"))
       ~> (\A j \in MsgIds : ~Holds(Other(p), j))

\* The assertion of msg_recv_resp on a response that is not a disconnect:
\* assert( FL_ISSET( msg->status, MSG_STAT_WAITING_FOR_RESP ) ).
ResponseExpected == \A p \in Ends : sw[p].failed # "unexpected OK"

\* The assertion of msg_switch_read on a packet for a message that does not
\* exist: assert( msg_switch->read.data.packet.header.msgid < 0 ).
PacketExpected == \A p \in Ends : sw[p].failed # "packet for an unknown message"

\* The assertion of msg_pop_writ_packet on the message msg_switch_write popped:
\* assert( msg = msg_get( msg_switch, msgid ) ).
PendingExists == \A p \in Ends : sw[p].failed # "freed message in pending_msgs"
=============================================================================
