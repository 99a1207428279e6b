--------------------------- MODULE MsgOrderProofs ---------------------------
(*************************************************************************)
(* The packets of a message arrive in the order they were written,       *)
(* without loss, gap or duplicate, for any number of messages, packets   *)
(* and buffers: InOrder. The invariant adds to LinkInv that each end     *)
(* counts its own packets without a gap, and that the packets of a       *)
(* message in the socket go from the last one its reader has read to the *)
(* last one its writer has handed over.                                  *)
(*************************************************************************)
EXTENDS MsgLinkProofs

----------------------------------------------------------------------------
(* The counts of one message. *)

\* How many packets of m have been begun and not put into writ_queue.
Held(m) == IF m.incomplete = NoPacket THEN 0 ELSE 1

\* The number of the last packet of m that has left writ_queue for the
\* socket.
Base(m) == m.n_writ - Held(m) - Len(m.writ_queue)

\* The packets of q are numbered from b + 1.
Counts(q, b) == \A i \in 1 .. Len(q) : q[i].seq = b + i

\* What m has written and not sent is numbered up to n_writ without a gap.
Writes(m) ==
  /\ Base(m) >= 0
  /\ Counts(m.writ_queue, Base(m))
  /\ m.incomplete # NoPacket => m.incomplete.seq = m.n_writ

\* The numbers of q go up to n without a gap.
Runup(q, n) == \A i \in 1 .. Len(q) : q[i] = n - Len(q) + i

\* What m has received and the program has not read goes up to n_read
\* without a gap, and is announced to the program.
Reading(m) ==
  /\ Runup(m.read_queue, m.n_read)
  /\ m.read_queue # << >> => "PACKET_AVAIL_TO_READ" \in m.status

\* The numbers of a message, in both directions.
Numb(m) == Writes(m) /\ Reading(m)

\* A message that was closed keeps nothing for the program to read.
Shut(m) == "CLOSED" \in m.status => m.read_queue = << >>

\* A step from m to n neither sends nor receives a packet, and does not undo
\* a disconnect. A message that the step disconnects loses its writ_queue.
Kept(m, n) ==
  /\ n.conv = m.conv /\ n.n_read = m.n_read
  /\ "SENT_DISCONNECT" \notin n.status => "SENT_DISCONNECT" \notin m.status
  /\ "DISCONNECTED" \notin n.status => "DISCONNECTED" \notin m.status /\ Base(n) = Base(m)

\* Kept is transitive ...
LEMMA KeptTwice ==
  ASSUME NEW m, NEW n, NEW k, Kept(m, n), Kept(n, k)
  PROVE  Kept(m, k)
BY DEF Kept

\* ... and reflexive.
LEMMA KeptSelf ==
  ASSUME NEW m
  PROVE  Kept(m, m)
BY DEF Kept

\* A step that leaves n_writ, the packet begun and writ_queue alone leaves
\* their numbers alone.
LEMMA WritesSame ==
  ASSUME NEW m, NEW n, n.n_writ = m.n_writ, n.incomplete = m.incomplete,
         n.writ_queue = m.writ_queue
  PROVE  Base(n) = Base(m) /\ (Writes(m) => Writes(n))
BY DEF Writes, Base, Held

\* So does one that leaves n_read and read_queue alone, and does not
\* withdraw what was announced.
LEMMA ReadingSame ==
  ASSUME NEW m, NEW n, n.n_read = m.n_read, n.read_queue = m.read_queue,
         "PACKET_AVAIL_TO_READ" \in m.status => "PACKET_AVAIL_TO_READ" \in n.status
  PROVE  Reading(m) => Reading(n)
BY DEF Reading

\* The counts of a message are numbers.
LEMMA BaseInt ==
  ASSUME NEW C, NEW m \in Messages(C)
  PROVE  /\ Base(m) \in Int /\ Held(m) \in {0, 1} /\ Len(m.writ_queue) \in Nat
            /\ m.n_writ \in Nat
         /\ Base(m) + Held(m) + Len(m.writ_queue) = m.n_writ
<1>1. m.writ_queue \in Seq(Packets(C)) /\ m.n_writ \in Nat BY MessageFacts
<1>2. Len(m.writ_queue) \in Nat BY <1>1
<1> QED BY <1>1, <1>2 DEF Base, Held

\* A change of the flags keeps the counts, if it takes away none of these.
LEMMA FlaggedNumb ==
  ASSUME NEW C, NEW m \in Messages(C), Numb(m), NEW st \in SUBSET Flags,
         "PACKET_AVAIL_TO_READ" \in m.status => "PACKET_AVAIL_TO_READ" \in st,
         \A f \in {"SENT_DISCONNECT", "DISCONNECTED"} : f \in m.status => f \in st
  PROVE  /\ Numb(Flagged(m, st)) /\ Kept(m, Flagged(m, st))
         /\ Flagged(m, st).read_queue = m.read_queue
         /\ Shut(m) /\ ("CLOSED" \in st => "CLOSED" \in m.status) => Shut(Flagged(m, st))
<1> DEFINE n == Flagged(m, st)
<1>1. /\ n.status = st /\ n.conv = m.conv /\ n.n_writ = m.n_writ /\ n.n_read = m.n_read
      /\ n.incomplete = m.incomplete /\ n.read_queue = m.read_queue
      /\ n.writ_queue = m.writ_queue
  BY FlaggedType
<1> HIDE DEF n
<1>2. Base(n) = Base(m) /\ (Writes(m) => Writes(n)) BY <1>1, WritesSame
<1>3. Reading(m) => Reading(n) BY <1>1, ReadingSame
<1>4. Numb(n) BY <1>2, <1>3 DEF Numb
<1>5. Kept(m, n) BY <1>1, <1>2 DEF Kept
<1>6. Shut(m) /\ ("CLOSED" \in st => "CLOSED" \in m.status) => Shut(n) BY <1>1 DEF Shut
<1> QED BY <1>1, <1>4, <1>5, <1>6 DEF n

\* msg_update_status keeps the counts of a message ...
LEMMA SettledNumb ==
  ASSUME NEW C, NEW m \in Messages(C), Numb(m)
  PROVE  /\ Numb(Settled(m)) /\ Kept(m, Settled(m)) /\ Settled(m).read_queue = m.read_queue
         /\ Shut(m) => Shut(Settled(m))
<1>1. SettledStatus(m) \in SUBSET Flags BY SettledType
<1>2. \A f \in Flags \ {"NEED_TO_SEND_RESP", "WRITING"} : f \in SettledStatus(m) <=>
        f \in m.status
  BY SettledStatusFacts
<1>3. \A f \in {"SENT_DISCONNECT", "DISCONNECTED", "CLOSED", "PACKET_AVAIL_TO_READ"} :
        f \in SettledStatus(m) <=> f \in m.status
  BY <1>2 DEF Flags
<1> DEFINE st == SettledStatus(m)
<1> HIDE DEF st
<1>4. st \in SUBSET Flags /\ \A f \in {"SENT_DISCONNECT", "DISCONNECTED", "CLOSED",
                                       "PACKET_AVAIL_TO_READ"} :
        f \in st <=> f \in m.status
  BY <1>1, <1>3 DEF st
<1>5. /\ Numb(Flagged(m, st)) /\ Kept(m, Flagged(m, st))
      /\ Flagged(m, st).read_queue = m.read_queue
      /\ Shut(m) => Shut(Flagged(m, st))
  BY <1>4, FlaggedNumb
<1> QED BY <1>5 DEF Settled, st

\* ... msg_push_writ_packet does ...
LEMMA PushWritNumb ==
  ASSUME NEW C, NEW m \in Messages(C), Numb(m), m.incomplete # NoPacket
  PROVE  /\ Numb(PushWrit(m)) /\ Kept(m, PushWrit(m)) /\ PushWrit(m).read_queue = m.read_queue
         /\ Shut(m) => Shut(PushWrit(m))
<1> DEFINE n == PushWrit(m)
<1> DEFINE q == m.writ_queue
<1> DEFINE x == m.incomplete
<1>1. /\ n \in Messages(C) /\ n.conv = m.conv /\ n.n_writ = m.n_writ /\ n.n_read = m.n_read
      /\ n.incomplete = NoPacket /\ n.read_queue = m.read_queue
      /\ n.writ_queue = Append(q, x)
      /\ \A f \in {"SENT_DISCONNECT", "DISCONNECTED", "CLOSED", "PACKET_AVAIL_TO_READ"} :
           f \in n.status <=> f \in m.status
  <2>1. n.status = (m.status \cup {"PACKET_AVAIL_TO_WRIT"})
              \ (IF Len(Append(m.writ_queue, m.incomplete)) >= NBuff
                 THEN {"SPACE_AVAIL_FOR_WRIT"} ELSE {})
    BY PushWritFacts
  <2> QED BY <2>1, PushWritFacts
<1>2. q \in Seq(Packets(C)) /\ x \in Packets(C) BY MessageFacts
<1>3. /\ Len(q) \in Nat /\ Len(Append(q, x)) = Len(q) + 1 /\ Append(q, x)[Len(q) + 1] = x
      /\ \A i \in 1 .. Len(q) : Append(q, x)[i] = q[i]
  BY <1>2
<1>4. /\ Base(m) \in Int /\ m.n_writ \in Nat /\ Held(m) = 1
      /\ Base(m) + 1 + Len(q) = m.n_writ
  BY BaseInt DEF Held
<1>5. Base(m) >= 0 /\ Counts(q, Base(m)) /\ x.seq = m.n_writ BY DEF Numb, Writes
<1> DEFINE z == Append(q, x)
<1> HIDE DEF n, z, q, x
<1>6. Base(n) = Base(m)
  <2>1. Held(n) = 0 BY <1>1 DEF Held
  <2>2. Base(n) = n.n_writ - 0 - Len(n.writ_queue) BY <2>1 DEF Base
  <2> QED BY <1>1, <1>3, <1>4, <2>2
<1>7. Counts(z, Base(m))
  <2>1. SUFFICES ASSUME NEW i \in 1 .. Len(z) PROVE z[i].seq = Base(m) + i BY DEF Counts
  <2>2. i \in 1 .. Len(q) \/ i = Len(q) + 1 BY <1>3 DEF z
  <2>3. CASE i \in 1 .. Len(q) BY <1>3, <1>5, <2>3 DEF Counts, z
  <2>4. CASE i = Len(q) + 1
    <3>1. z[i].seq = m.n_writ BY <1>3, <1>5, <2>4 DEF z
    <3> QED BY <1>3, <1>4, <2>4, <3>1
  <2> QED BY <2>2, <2>3, <2>4
<1>8. Writes(n)
  <2>1. n.writ_queue = z /\ n.incomplete = NoPacket BY <1>1 DEF z
  <2> QED BY <1>5, <1>6, <1>7, <2>1 DEF Writes
<1>9. Reading(n)
  <2>1. Reading(m) BY DEF Numb
  <2> QED BY <1>1, <2>1, ReadingSame
<1>10. Kept(m, n) BY <1>1, <1>6 DEF Kept
<1>11. Shut(m) => Shut(n) BY <1>1 DEF Shut
<1> QED BY <1>1, <1>8, <1>9, <1>10, <1>11 DEF Numb, n

\* ... and msg_packet_new does, which begins the next packet.
LEMMA BeginNumb ==
  ASSUME NEW C, NEW m \in Messages(C), Numb(m), NEW id \in MsgIds, m.incomplete = NoPacket
  PROVE  /\ Numb(Begin(m, id)) /\ Kept(m, Begin(m, id))
         /\ Shut(m) => Shut(Begin(m, id))
<1> DEFINE n == Begin(m, id)
<1>1. /\ n \in Messages(C) /\ n.conv = m.conv /\ n.n_writ = m.n_writ + 1 /\ n.n_read = m.n_read
      /\ n.incomplete = Packet(m, id) /\ n.writ_queue = m.writ_queue
      /\ n.read_queue = m.read_queue /\ n.status = m.status
  BY BeginFacts
<1>2. n.incomplete # NoPacket /\ n.incomplete.seq = n.n_writ
  <2>1. Packet(m, id) # NoPacket BY PacketType
  <2>2. Packet(m, id).seq = m.n_writ + 1 BY DEF Packet
  <2> QED BY <1>1, <2>1, <2>2
<1>3. /\ Base(m) \in Int /\ Held(m) = 0 /\ Len(m.writ_queue) \in Nat /\ m.n_writ \in Nat
      /\ Base(m) + 0 + Len(m.writ_queue) = m.n_writ
  BY BaseInt DEF Held
<1>4. Base(m) >= 0 /\ Counts(m.writ_queue, Base(m)) BY DEF Numb, Writes
<1> HIDE DEF n
<1>5. Base(n) = Base(m)
  <2>1. Held(n) = 1 BY <1>2 DEF Held
  <2>2. Base(n) = n.n_writ - 1 - Len(n.writ_queue) BY <2>1 DEF Base
  <2> QED BY <1>1, <1>3, <2>2
<1>6. Writes(n) BY <1>1, <1>2, <1>4, <1>5 DEF Writes
<1>7. Reading(n)
  <2>1. Reading(m) BY DEF Numb
  <2> QED BY <1>1, <2>1, ReadingSame
<1>8. Kept(m, n) BY <1>1, <1>5 DEF Kept
<1>9. Shut(m) => Shut(n) BY <1>1 DEF Shut
<1> QED BY <1>6, <1>7, <1>8, <1>9 DEF Numb, n

\* msg_pop_writ_packet takes the packet that follows the last one sent.
LEMMA PopWritNumb ==
  ASSUME NEW C, NEW m \in Messages(C), Numb(m), m.writ_queue # << >>
  PROVE  LET n == PopWrit(m) IN
         /\ Numb(n) /\ Base(n) = Base(m) + 1 /\ Base(m) >= 0
            /\ Head(m.writ_queue).seq = Base(m) + 1
         /\ n.conv = m.conv /\ n.n_read = m.n_read
         /\ \A f \in {"SENT_DISCONNECT", "DISCONNECTED"} : f \in n.status <=> f \in m.status
         /\ Shut(m) => Shut(n)
<1> DEFINE n == PopWrit(m)
<1> DEFINE q == m.writ_queue
<1>1. /\ n \in Messages(C) /\ n.conv = m.conv /\ n.n_writ = m.n_writ /\ n.n_read = m.n_read
      /\ n.incomplete = m.incomplete /\ n.read_queue = m.read_queue
      /\ n.writ_queue = Tail(q)
      /\ \A f \in {"SENT_DISCONNECT", "DISCONNECTED", "CLOSED", "PACKET_AVAIL_TO_READ"} :
           f \in n.status <=> f \in m.status
  <2>1. n.status = AfterPopWrit(m) BY PopWritFacts
  <2>2. \A f \in {"SENT_DISCONNECT", "DISCONNECTED", "CLOSED", "PACKET_AVAIL_TO_READ"} :
           f \in AfterPopWrit(m) <=> f \in m.status
    BY DEF AfterPopWrit
  <2> QED BY <2>1, <2>2, PopWritFacts
<1>2. q \in Seq(Packets(C)) BY MessageFacts
<1>3. /\ Len(q) \in Nat \ {0} /\ Len(Tail(q)) = Len(q) - 1 /\ Head(q) = q[1]
      /\ \A i \in 1 .. Len(Tail(q)) : Tail(q)[i] = q[i + 1]
  BY <1>2
<1>4. /\ Base(m) \in Int /\ m.n_writ \in Nat /\ Held(m) \in {0, 1}
      /\ Base(m) + Held(m) + Len(q) = m.n_writ
  BY BaseInt
<1>5. Base(m) >= 0 /\ Counts(q, Base(m)) /\ (m.incomplete # NoPacket =>
                                             m.incomplete.seq = m.n_writ)
  BY DEF Numb, Writes
<1> DEFINE z == Tail(q)
<1> HIDE DEF n, z, q
<1>6. Base(n) = Base(m) + 1
  <2>1. Held(n) = Held(m) BY <1>1 DEF Held
  <2>2. Base(n) = m.n_writ - Held(m) - Len(n.writ_queue) BY <1>1, <2>1 DEF Base
  <2>3. Len(n.writ_queue) = Len(q) - 1 BY <1>1, <1>3
  <2>4. Len(q) \in Nat BY <1>3
  <2> QED BY <1>4, <2>2, <2>3, <2>4
<1>7. Counts(z, Base(m) + 1)
  <2>1. SUFFICES ASSUME NEW i \in 1 .. Len(z) PROVE z[i].seq = Base(m) + 1 + i BY DEF Counts
  <2>2. z[i] = q[i + 1] /\ i + 1 \in 1 .. Len(q) BY <1>3 DEF z
  <2>3. q[i + 1].seq = Base(m) + (i + 1) BY <1>5, <2>2 DEF Counts
  <2> QED BY <1>4, <2>2, <2>3
<1>8. Head(q).seq = Base(m) + 1
  <2>1. 1 \in 1 .. Len(q) BY <1>3
  <2> QED BY <1>3, <1>5, <2>1 DEF Counts
<1>9. Writes(n)
  <2>1. n.writ_queue = z /\ n.incomplete = m.incomplete /\ n.n_writ = m.n_writ BY <1>1 DEF z
  <2>2. Base(m) + 1 >= 0 BY <1>4, <1>5
  <2> QED BY <1>5, <1>6, <1>7, <2>1, <2>2 DEF Writes
<1>10. Reading(n)
  <2>1. Reading(m) BY DEF Numb
  <2> QED BY <1>1, <2>1, ReadingSame
<1>11. Shut(m) => Shut(n) BY <1>1 DEF Shut
<1> QED BY <1>1, <1>5, <1>6, <1>8, <1>9, <1>10, <1>11 DEF Numb, n, q

\* msg_pop_read_packet takes one packet from what the program can read.
LEMMA PopReadNumb ==
  ASSUME NEW C, NEW m \in Messages(C), Numb(m)
  PROVE  LET n == PopRead(m) IN
         /\ n \in Messages(C) /\ Numb(n) /\ Kept(m, n) /\ (Shut(m) => Shut(n))
         /\ Len(m.read_queue) \in Nat
         /\ m.read_queue # << >> => Len(n.read_queue) = Len(m.read_queue) - 1
<1> DEFINE n == PopRead(m)
<1> DEFINE q == m.read_queue
<1> DEFINE z == IF q = << >> THEN << >> ELSE Tail(q)
<1>1. /\ n \in Messages(C) /\ n.conv = m.conv /\ n.n_writ = m.n_writ /\ n.n_read = m.n_read
      /\ n.incomplete = m.incomplete /\ n.writ_queue = m.writ_queue /\ n.read_queue = z
      /\ \A f \in {"SENT_DISCONNECT", "DISCONNECTED", "CLOSED"} : f \in n.status <=>
           f \in m.status
      /\ z # << >> /\ "PACKET_AVAIL_TO_READ" \in m.status => "PACKET_AVAIL_TO_READ" \in n.status
  <2>1. n.status = (m.status \cup IF Len(z) < NBuff THEN {"SPACE_AVAIL_FOR_READ"} ELSE {})
                   \ (IF z = << >> THEN {"PACKET_AVAIL_TO_READ"} ELSE {})
    BY PopReadFacts
  <2>2. /\ \A f \in {"SENT_DISCONNECT", "DISCONNECTED", "CLOSED"} : f \in n.status <=>
             f \in m.status
        /\ z # << >> /\ "PACKET_AVAIL_TO_READ" \in m.status =>
             "PACKET_AVAIL_TO_READ" \in n.status
    <3> HIDE DEF n, z
    <3> QED BY <2>1
  <2> QED BY <2>2, PopReadFacts
<1>2. q \in Seq(Nat) /\ m.n_read \in Nat BY MessageFacts
<1>3. Len(q) \in Nat /\ Runup(q, m.n_read) /\ (q # << >> => "PACKET_AVAIL_TO_READ" \in m.status)
  BY <1>2 DEF Numb, Reading
<1>4. q # << >> => /\ z = Tail(q) /\ Len(z) = Len(q) - 1
                   /\ \A i \in 1 .. Len(z) : z[i] = q[i + 1] /\ i + 1 \in 1 .. Len(q)
  BY <1>2
<1>5. q = << >> => z = << >> OBVIOUS
<1> HIDE DEF n, z, q
<1>6. Runup(z, m.n_read)
  <2>1. CASE q = << >>
    <3>1. Len(z) = 0 BY <1>5, <2>1
    <3> QED BY <3>1 DEF Runup
  <2>2. CASE q # << >>
    <3>1. SUFFICES ASSUME NEW i \in 1 .. Len(z) PROVE z[i] = m.n_read - Len(z) + i BY DEF Runup
    <3>2. z[i] = q[i + 1] /\ i + 1 \in 1 .. Len(q) /\ Len(z) = Len(q) - 1 BY <1>4, <2>2
    <3>3. q[i + 1] = m.n_read - Len(q) + (i + 1) BY <1>3, <3>2 DEF Runup
    <3>4. i \in Int /\ Len(q) \in Int /\ m.n_read \in Int BY <1>2, <1>3, <3>2
    <3> DEFINE k == Len(q)
    <3> DEFINE r == m.n_read
    <3> HIDE DEF k, r
    <3>5. i \in Int /\ k \in Int /\ r \in Int /\ z[i] = r - k + (i + 1) /\ Len(z) = k - 1
      BY <3>2, <3>3, <3>4 DEF k, r
    <3>6. z[i] = r - Len(z) + i BY <3>5
    <3> QED BY <3>6 DEF r
  <2> QED BY <2>1, <2>2
<1>7. Base(n) = Base(m) /\ (Writes(m) => Writes(n)) BY <1>1, WritesSame
<1>8. Reading(n)
  <2>1. z # << >> => q # << >> BY <1>5
  <2>2. n.read_queue = z /\ n.n_read = m.n_read BY <1>1
  <2>3. z # << >> => "PACKET_AVAIL_TO_READ" \in n.status BY <1>1, <1>3, <2>1
  <2> QED BY <1>6, <2>2, <2>3 DEF Reading
<1>9. Numb(n) BY <1>7, <1>8 DEF Numb
<1>10. Kept(m, n) BY <1>1, <1>7 DEF Kept
<1>11. Shut(m) => Shut(n) BY <1>1, <1>5 DEF Shut, q
<1>12. q # << >> => Len(n.read_queue) = Len(q) - 1 BY <1>1, <1>4
<1> QED BY <1>1, <1>3, <1>9, <1>10, <1>11, <1>12 DEF n, q

\* What msg_push_read_packet leaves: the packet is dropped when the message
\* was closed.
LEMMA PushReadFlags ==
  ASSUME NEW C, NEW m \in Messages(C), NEW e \in Nat
  PROVE  LET n == PushRead(m, e)
             z == IF "CLOSED" \in m.status THEN m.read_queue ELSE Append(m.read_queue, e) IN
         /\ n \in Messages(C) /\ n.conv = m.conv /\ n.n_writ = m.n_writ
         /\ n.n_read = m.n_read + 1 /\ n.incomplete = m.incomplete
         /\ n.writ_queue = m.writ_queue /\ n.read_queue = z
         /\ \A f \in {"SENT_DISCONNECT", "DISCONNECTED", "CLOSED"} :
              f \in n.status <=> f \in m.status
         /\ "PACKET_AVAIL_TO_READ" \in n.status
<1> DEFINE n == PushRead(m, e)
           z == IF "CLOSED" \in m.status THEN m.read_queue ELSE Append(m.read_queue, e)
           full == IF Len(z) >= NBuff THEN {"SPACE_AVAIL_FOR_READ"} ELSE {}
<1>1. /\ n \in Messages(C) /\ n.conv = m.conv /\ n.n_writ = m.n_writ
      /\ n.n_read = m.n_read + 1 /\ n.incomplete = m.incomplete
      /\ n.writ_queue = m.writ_queue /\ n.read_queue = z
      /\ n.status = (m.status \cup {"NEED_TO_SEND_RESP", "PACKET_AVAIL_TO_READ"}) \ full
  BY PushReadFacts, SMTT(40)
<1>2. full \subseteq {"SPACE_AVAIL_FOR_READ"} OBVIOUS
<1> HIDE DEF n, full
<1>3. /\ \A f \in {"SENT_DISCONNECT", "DISCONNECTED", "CLOSED"} :
           f \in n.status <=> f \in m.status
      /\ "PACKET_AVAIL_TO_READ" \in n.status
  BY <1>1, <1>2
<1> QED BY <1>1, <1>3 DEF n

\* msg_push_read_packet keeps the counts if the packet follows the last one
\* received.
LEMMA PushReadNumb ==
  ASSUME NEW C, NEW m \in Messages(C), Numb(m), Shut(m), NEW e, e = m.n_read + 1
  PROVE  LET n == PushRead(m, e) IN
         /\ n \in Messages(C) /\ Numb(n) /\ Shut(n)
         /\ n.conv = m.conv /\ n.n_read = m.n_read + 1 /\ Base(n) = Base(m)
         /\ \A f \in {"SENT_DISCONNECT", "DISCONNECTED"} : f \in n.status <=> f \in m.status
<1> DEFINE n == PushRead(m, e)
<1> DEFINE q == m.read_queue
<1> DEFINE z == IF "CLOSED" \in m.status THEN q ELSE Append(q, e)
<1>1. q \in Seq(Nat) /\ m.n_read \in Nat /\ e \in Nat BY MessageFacts
<1>2. /\ n \in Messages(C) /\ n.conv = m.conv /\ n.n_writ = m.n_writ /\ n.n_read = m.n_read + 1
      /\ n.incomplete = m.incomplete /\ n.writ_queue = m.writ_queue /\ n.read_queue = z
      /\ \A f \in {"SENT_DISCONNECT", "DISCONNECTED", "CLOSED"} : f \in n.status <=>
           f \in m.status
      /\ "PACKET_AVAIL_TO_READ" \in n.status
  BY <1>1, PushReadFlags
<1>3. Len(q) \in Nat /\ Runup(q, m.n_read)
  BY <1>1 DEF Numb, Reading
<1>4. /\ "CLOSED" \in m.status => z = << >>
      /\ "CLOSED" \notin m.status =>
           /\ Len(z) = Len(q) + 1 /\ z[Len(q) + 1] = e
           /\ \A i \in 1 .. Len(q) : z[i] = q[i]
  BY <1>1 DEF Shut
<1> HIDE DEF n, z, q
<1>5. Runup(z, e)
  <2>1. CASE "CLOSED" \in m.status
    <3>1. Len(z) = 0 BY <1>4, <2>1
    <3> QED BY <3>1 DEF Runup
  <2>2. CASE "CLOSED" \notin m.status
    <3>1. SUFFICES ASSUME NEW i \in 1 .. Len(z) PROVE z[i] = e - Len(z) + i BY DEF Runup
    <3>2. /\ Len(z) = Len(q) + 1 /\ z[Len(q) + 1] = e
          /\ \A j \in 1 .. Len(q) : z[j] = q[j]
      BY <1>4, <2>2
    <3>3. CASE i = Len(q) + 1 BY <1>1, <1>3, <3>2, <3>3
    <3>4. CASE i \in 1 .. Len(q)
      <4>1. z[i] = q[i] BY <3>2, <3>4
      <4>2. q[i] = m.n_read - Len(q) + i BY <1>3, <3>4 DEF Runup
      <4>3. i \in Int BY <3>4
      <4> DEFINE k == Len(q)
      <4> DEFINE r == m.n_read
      <4> HIDE DEF k, r
      <4>4. i \in Int /\ k \in Int /\ r \in Int /\ z[i] = r - k + i /\ Len(z) = k + 1
              /\ e = r + 1
        BY <1>1, <1>3, <3>2, <4>1, <4>2, <4>3 DEF k, r
      <4> QED BY <4>4
    <3>5. i = Len(q) + 1 \/ i \in 1 .. Len(q) BY <1>3, <3>2
    <3> QED BY <3>3, <3>4, <3>5
  <2> QED BY <2>1, <2>2
<1>6. Base(n) = Base(m) /\ (Writes(m) => Writes(n)) BY <1>2, WritesSame
<1>7. Reading(n)
  <2>1. n.read_queue = z /\ n.n_read = e BY <1>2
  <2> QED BY <1>2, <1>5, <2>1 DEF Reading
<1>8. Numb(n) BY <1>6, <1>7 DEF Numb
<1>9. Shut(n) BY <1>2, <1>4 DEF Shut
<1> QED BY <1>2, <1>6, <1>8, <1>9 DEF n

\* A message that has neither written nor read.
LEMMA NewNumb ==
  ASSUME NEW m, m.n_writ = 0, m.n_read = 0, m.incomplete = NoPacket, m.read_queue = << >>,
         m.writ_queue = << >>
  PROVE  Numb(m) /\ Shut(m) /\ Base(m) = 0
<1>1. Len(m.writ_queue) = 0 /\ Len(m.read_queue) = 0 OBVIOUS
<1>2. Held(m) = 0 BY DEF Held
<1>3. Base(m) = 0 - 0 - 0 BY <1>1, <1>2 DEF Base
<1>4. Base(m) = 0 BY <1>3
<1> QED BY <1>1, <1>4 DEF Numb, Writes, Reading, Counts, Runup, Shut

\* A message that the other end has disconnected keeps what the program has
\* not read of it, in order.
LEMMA DepartedNumb ==
  ASSUME NEW C, NEW m \in Messages(C), NEW k \in Messages(C), Departed(m, k),
         k.writ_queue = << >>, Numb(m), Shut(m),
         k.read_queue # << >> => "PACKET_AVAIL_TO_READ" \in k.status,
         "CLOSED" \in k.status => "CLOSED" \in m.status
  PROVE  Numb(k) /\ Kept(m, k) /\ Shut(k)
<1>1. /\ k.conv = m.conv /\ "DISCONNECTED" \in k.status /\ "SENT_DISCONNECT" \in k.status
      /\ k.n_writ = m.n_writ /\ k.n_read = m.n_read /\ k.incomplete = m.incomplete
      /\ k.read_queue = m.read_queue \/ k.read_queue = << >>
  BY DEF Departed
<1>2. Kept(m, k) BY <1>1 DEF Kept
<1>3. Shut(k) BY <1>1 DEF Shut
<1>4. Reading(k)
  <2>1. Runup(k.read_queue, k.n_read)
    <3>1. CASE k.read_queue = m.read_queue BY <1>1, <3>1 DEF Numb, Reading
    <3>2. CASE k.read_queue = << >>
      <4>1. Len(k.read_queue) = 0 BY <3>2
      <4> QED BY <4>1 DEF Runup
    <3> QED BY <1>1, <3>1, <3>2
  <2> QED BY <2>1 DEF Reading
<1>5. Writes(k)
  <2>1. Len(k.writ_queue) = 0 OBVIOUS
  <2>2. k.n_writ \in Nat BY MessageFacts
  <2>3. Base(k) = k.n_writ - Held(k) /\ Held(k) \in {0, 1} BY <2>1, <2>2 DEF Base, Held
  <2>4. k.incomplete # NoPacket => k.incomplete.seq = k.n_writ BY <1>1 DEF Numb, Writes
  <2>5. Base(k) >= 0
    <3>1. Base(m) >= 0 /\ Base(m) + Held(m) + Len(m.writ_queue) = m.n_writ
            /\ Len(m.writ_queue) \in Nat /\ Base(m) \in Int
          /\ Held(m) \in {0, 1}
      BY BaseInt DEF Numb, Writes
    <3>2. Held(m) = Held(k) BY <1>1 DEF Held
    <3> QED BY <1>1, <2>2, <2>3, <3>1, <3>2
  <2> QED BY <2>1, <2>4, <2>5 DEF Writes, Counts
<1> QED BY <1>2, <1>3, <1>4, <1>5 DEF Numb

----------------------------------------------------------------------------
(* A call that is about one message. *)

\* The step from s to t is about the message id only, and neither sends nor
\* receives.
Near(C, s, t, id) ==
  /\ t \in Switches(C) /\ t.msgs[id] \in Messages(C)
  /\ Numb(t.msgs[id]) /\ Kept(s.msgs[id], t.msgs[id])
  /\ \A j \in MsgIds \ {id} : t.msgs[j] = s.msgs[j]

\* ... and a message that keeps nothing after it was closed still does.
Keen(s, t, id) == Shut(s.msgs[id]) => Shut(t.msgs[id])

\* s has a message id whose packets are numbered without a gap.
Well(C, s, id) == s \in Switches(C) /\ id \in MsgIds /\ s.msgs[id] \in Messages(C)
    /\ Numb(s.msgs[id])

\* Two such steps are one.
LEMMA NearTwice ==
  ASSUME NEW C, NEW s, NEW t, NEW u, NEW id, Near(C, s, t, id), Near(C, t, u, id)
  PROVE  Near(C, s, u, id)
<1>1. Kept(s.msgs[id], u.msgs[id]) BY KeptTwice DEF Near
<1> QED BY <1>1 DEF Near

\* So are two that keep Shut.
LEMMA KeenTwice ==
  ASSUME NEW s, NEW t, NEW u, NEW id, Keen(s, t, id), Keen(t, u, id)
  PROVE  Keen(s, u, id)
BY DEF Keen

\* A step that does nothing is one.
LEMMA NearSelf ==
  ASSUME NEW C, NEW s, NEW id, Well(C, s, id)
  PROVE  Near(C, s, s, id) /\ Keen(s, s, id)
BY KeptSelf DEF Near, Keen, Well

\* The message is well after it.
LEMMA NearWell ==
  ASSUME NEW C, NEW s, NEW t, NEW id, Near(C, s, t, id), Well(C, s, id)
  PROVE  Well(C, t, id)
BY DEF Near, Well

\* What Well says of the message.
LEMMA WellExists ==
  ASSUME NEW C, NEW s, NEW id, Well(C, s, id)
  PROVE  /\ Exists(s, id) /\ s \in Switches(C) /\ id \in MsgIds /\ s.msgs[id] \in Messages(C)
         /\ Numb(s.msgs[id]) /\ s.msgs[id] # NoMsg
BY MessageFacts DEF Exists, Well

\* A step at one message that keeps its counts.
LEMMA TurnsNear ==
  ASSUME NEW C, NEW s, NEW id, Well(C, s, id), NEW t, NEW n \in Messages(C), NEW p, NEW r,
         Turns(C, s, t, id, n, p, r), Numb(n), Kept(s.msgs[id], n)
  PROVE  Near(C, s, t, id) /\ t.msgs[id] = n
<1>1. /\ t \in Switches(C) /\ t.msgs[id] = n
      /\ \A j \in MsgIds \ {id} : t.msgs[j] = s.msgs[j]
  BY TurnsAt DEF Well
<1> QED BY <1>1 DEF Near

\* An edit that keeps the counts, with the msg_update_status that ends it.
LEMMA EditsNear ==
  ASSUME NEW C, NEW s, NEW id, Well(C, s, id), NEW t, NEW n \in Messages(C),
         Edits(C, s, t, id, n), Numb(n), Kept(s.msgs[id], n)
  PROVE  /\ Near(C, s, t, id) /\ t.msgs[id].read_queue = n.read_queue
         /\ (Shut(s.msgs[id]) => Shut(n)) => Keen(s, t, id)
<1>1. /\ t \in Switches(C) /\ t.msgs[id] = Settled(n)
      /\ \A j \in MsgIds \ {id} : t.msgs[j] = s.msgs[j]
  BY EditsAt DEF Well
<1>2. /\ Numb(Settled(n)) /\ Kept(n, Settled(n)) /\ Settled(n).read_queue = n.read_queue
      /\ Shut(n) => Shut(Settled(n))
  BY SettledNumb
<1>3. Settled(n) \in Messages(C) BY SettledType
<1>4. Kept(s.msgs[id], Settled(n)) BY <1>2, KeptTwice
<1> QED BY <1>1, <1>2, <1>3, <1>4 DEF Near, Keen

\* A change of the flags.
LEMMA FlagNear ==
  ASSUME NEW C, NEW s, NEW id, Well(C, s, id), NEW t, NEW st \in SUBSET Flags, NEW p, NEW r,
         Turns(C, s, t, id, Flagged(s.msgs[id], st), p, r),
         \A f \in {"PACKET_AVAIL_TO_READ", "SENT_DISCONNECT", "DISCONNECTED"} :
             f \in s.msgs[id].status => f \in st
  PROVE  /\ Near(C, s, t, id) /\ t.msgs[id].read_queue = s.msgs[id].read_queue
         /\ t.msgs[id].status = st
         /\ ("CLOSED" \in st => "CLOSED" \in s.msgs[id].status) => Keen(s, t, id)
<1> DEFINE m == s.msgs[id]
           n == Flagged(m, st)
<1>1. m \in Messages(C) /\ Numb(m) BY DEF Well
<1>2. n \in Messages(C) /\ n.status = st BY <1>1, FlaggedType
<1>3. /\ Numb(n) /\ Kept(m, n) /\ n.read_queue = m.read_queue
      /\ Shut(m) /\ ("CLOSED" \in st => "CLOSED" \in m.status) => Shut(n)
  BY <1>1, FlaggedNumb
<1>4. Turns(C, s, t, id, n, p, r) OBVIOUS
<1> HIDE DEF n
<1>5. Near(C, s, t, id) /\ t.msgs[id] = n BY <1>2, <1>3, <1>4, TurnsNear
<1> QED BY <1>2, <1>3, <1>5 DEF Keen

\* msg_push_writ_packet.
LEMMA PushWritNear ==
  ASSUME NEW C, NEW s, NEW id, Well(C, s, id), s.msgs[id].incomplete # NoPacket
  PROVE  LET t == msg_push_writ_packet(s, id) IN Near(C, s, t, id) /\ Keen(s, t, id)
<1> DEFINE m == s.msgs[id]
           n == PushWrit(m)
           t == msg_push_writ_packet(s, id)
<1>1. m \in Messages(C) /\ Numb(m) /\ s \in Switches(C) /\ id \in MsgIds BY DEF Well
<1>2. Edits(C, s, t, id, n) BY <1>1, PushWritEdits
<1>3. n \in Messages(C) BY <1>1, PushWritFacts
<1>4. Numb(n) /\ Kept(m, n) /\ (Shut(m) => Shut(n)) BY <1>1, PushWritNumb
<1> HIDE DEF n, t
<1>5. Near(C, s, t, id) /\ Keen(s, t, id) BY <1>2, <1>3, <1>4, EditsNear
<1> QED BY <1>5 DEF t

\* msg_packet_new, when no packet is begun ...
LEMMA BeginNear ==
  ASSUME NEW C, NEW s, NEW id, Well(C, s, id), s.msgs[id].incomplete = NoPacket
  PROVE  LET t == msg_packet_new(s, id) IN Near(C, s, t, id) /\ Keen(s, t, id)
<1> DEFINE m == s.msgs[id]
           n == Begin(m, id)
           t == msg_packet_new(s, id)
<1>1. m \in Messages(C) /\ Numb(m) /\ s \in Switches(C) /\ id \in MsgIds BY DEF Well
<1>2. Turns(C, s, t, id, n, s.pending_msgs, s.pending_resps) BY <1>1, BeginTurns
<1>3. n \in Messages(C) BY <1>1, BeginFacts
<1>4. Numb(n) /\ Kept(m, n) /\ (Shut(m) => Shut(n)) BY <1>1, BeginNumb
<1> HIDE DEF n, t
<1>5. Near(C, s, t, id) /\ t.msgs[id] = n BY <1>2, <1>3, <1>4, TurnsNear
<1> QED BY <1>4, <1>5 DEF t, Keen

\* ... and when one is, which it first puts into writ_queue.
LEMMA NewNear ==
  ASSUME NEW C, NEW s, NEW id, Well(C, s, id)
  PROVE  LET t == msg_packet_new(s, id) IN Near(C, s, t, id) /\ Keen(s, t, id)
<1>1. CASE s.msgs[id].incomplete = NoPacket BY <1>1, BeginNear
<1>2. CASE s.msgs[id].incomplete # NoPacket
  <2> DEFINE u == msg_push_writ_packet(s, id)
  <2>1. s \in Switches(C) /\ id \in MsgIds /\ s.msgs[id] \in Messages(C) /\ s.msgs[id] # NoMsg
    BY WellExists
  <2>2. u.msgs[id].incomplete = NoPacket BY <1>2, <2>1, PushWritAt
  <2>3. Near(C, s, u, id) /\ Keen(s, u, id) BY <1>2, PushWritNear
  <2>4. msg_packet_new(s, id) = msg_packet_new(u, id) BY <1>2, <2>1, <2>2, PushBegin
  <2> HIDE DEF u
  <2>5. Well(C, u, id) BY <2>3, NearWell
  <2> DEFINE v == msg_packet_new(u, id)
  <2>6. Near(C, u, v, id) /\ Keen(u, v, id) BY <2>2, <2>5, BeginNear
  <2> HIDE DEF v
  <2>7. Near(C, s, v, id) /\ Keen(s, v, id) BY <2>3, <2>6, NearTwice, KeenTwice
  <2> QED BY <2>4, <2>7 DEF v
<1> QED BY <1>1, <1>2

\* msg_write, for any number of packets.
LEMMA WriteNear ==
  ASSUME NEW C, NEW s, NEW id, Well(C, s, id), NEW k \in Nat
  PROVE  LET t == msg_write(s, id, k) IN Near(C, s, t, id) /\ Keen(s, t, id)
<1> DEFINE b == IF s.msgs[id].incomplete = NoPacket THEN msg_packet_new(s, id) ELSE s
           G == {t \in Switches(C) : Near(C, s, t, id) /\ Keen(s, t, id)}
           Z == [i \in 0 .. k |-> G]
<1>1. Near(C, s, b, id) /\ Keen(s, b, id) BY NewNear, NearSelf
<1>2. msg_write(s, id, k) = News(b, id, k) BY DEF msg_write, News
<1> HIDE DEF b
<1>3. \A u : Near(C, s, u, id) => u \in Switches(C) BY DEF Near
<1>4. b \in G BY <1>1, <1>3
<1>5. b \in Z[0] BY <1>4
<1>6. ASSUME NEW i \in 0 .. (k - 1), NEW t \in Z[i] PROVE msg_packet_new(t, id) \in Z[i + 1]
  <2>1. i \in 0 .. k /\ i + 1 \in 0 .. k OBVIOUS
  <2>2. Near(C, s, t, id) /\ Keen(s, t, id) BY <2>1
  <2>3. Well(C, t, id) BY <2>2, NearWell
  <2> DEFINE u == msg_packet_new(t, id)
  <2>4. Near(C, t, u, id) /\ Keen(t, u, id) BY <2>3, NewNear
  <2> HIDE DEF u
  <2>5. Near(C, s, u, id) /\ Keen(s, u, id) BY <2>2, <2>4, NearTwice, KeenTwice
  <2>6. u \in G BY <1>3, <2>5
  <2>7. u \in Z[i + 1] BY <2>1, <2>6
  <2> QED BY <2>7 DEF u
<1>7. News(b, id, k) \in Z[k]
  <2> HIDE DEF Z
  <2> QED BY <1>5, <1>6, RepeatNew
<1>8. Z[k] = G BY k \in 0 .. k
<1> QED BY <1>2, <1>7, <1>8

\* msg_flush.
LEMMA FlushNear ==
  ASSUME NEW C, NEW s, NEW id, Well(C, s, id)
  PROVE  LET t == msg_flush(s, id) IN Near(C, s, t, id) /\ Keen(s, t, id)
<1>1. CASE Has(s, id, "CLOSED") \/ s.msgs[id].incomplete = NoPacket
  <2>1. msg_flush(s, id) = s BY <1>1 DEF msg_flush
  <2> QED BY <2>1, NearSelf
<1>2. CASE ~(Has(s, id, "CLOSED") \/ s.msgs[id].incomplete = NoPacket)
  <2>1. msg_flush(s, id) = msg_push_writ_packet(s, id) BY <1>2 DEF msg_flush
  <2> QED BY <1>2, <2>1, PushWritNear
<1> QED BY <1>1, <1>2

\* msg_pop_read_packet.
LEMMA PopReadNear ==
  ASSUME NEW C, NEW s, NEW id, Well(C, s, id)
  PROVE  LET t == msg_pop_read_packet(s, id)
         IN  /\ Near(C, s, t, id) /\ Keen(s, t, id)
             /\ Len(s.msgs[id].read_queue) \in Nat
             /\ s.msgs[id].read_queue # << >> =>
                  Len(t.msgs[id].read_queue) = Len(s.msgs[id].read_queue) - 1
<1> DEFINE m == s.msgs[id]
           n == PopRead(m)
           t == msg_pop_read_packet(s, id)
<1>1. m \in Messages(C) /\ Numb(m) /\ s \in Switches(C) /\ id \in MsgIds BY DEF Well
<1>2. Edits(C, s, t, id, n) BY <1>1, PopReadEdits
<1>3. /\ n \in Messages(C) /\ Numb(n) /\ Kept(m, n) /\ (Shut(m) => Shut(n))
      /\ Len(m.read_queue) \in Nat
      /\ m.read_queue # << >> => Len(n.read_queue) = Len(m.read_queue) - 1
  BY <1>1, PopReadNumb
<1> HIDE DEF n, t
<1>4. Near(C, s, t, id) /\ t.msgs[id].read_queue = n.read_queue /\ Keen(s, t, id)
  BY <1>2, <1>3, EditsNear
<1> QED BY <1>3, <1>4 DEF t

\* msg_read, for any number of packets.
LEMMA ReadNear ==
  ASSUME NEW C, NEW s, NEW id, Well(C, s, id), NEW k \in Nat, k <= Len(s.msgs[id].read_queue)
  PROVE  LET t == msg_read(s, id, k)
         IN  /\ Near(C, s, t, id) /\ Keen(s, t, id)
             /\ k = Len(s.msgs[id].read_queue) => t.msgs[id].read_queue = << >>
<1> DEFINE l == Len(s.msgs[id].read_queue)
           Z == [i \in 0 .. k |-> {t \in Switches(C) : Near(C, s, t, id) /\ Keen(s, t, id)
                                     /\ Len(t.msgs[id].read_queue) = l - i}]
<1>1. \A u : Near(C, s, u, id) => u \in Switches(C) BY DEF Near
<1>2. l \in Nat BY MessageFacts, WellExists
<1>3. s \in Z[0]
  <2>1. Near(C, s, s, id) /\ Keen(s, s, id) BY NearSelf
  <2>2. Len(s.msgs[id].read_queue) = l - 0 BY <1>2
  <2> HIDE DEF l
  <2> QED BY <1>1, <2>1, <2>2
<1>4. k <= l OBVIOUS
<1>5. ASSUME NEW i \in 0 .. (k - 1), NEW t \in Z[i] PROVE msg_pop_read_packet(t,
        id) \in Z[i + 1]
  <2> HIDE DEF l
  <2>1. i \in 0 .. k /\ i + 1 \in 0 .. k /\ l - i > 0 /\ l - i - 1 = l - (i + 1) BY <1>2, <1>4
  <2>2. Near(C, s, t, id) /\ Keen(s, t, id) /\ Len(t.msgs[id].read_queue) = l - i BY <2>1
  <2>3. Well(C, t, id) BY <2>2, NearWell
  <2>4. t.msgs[id].read_queue # << >> BY <2>1, <2>2
  <2> DEFINE u == msg_pop_read_packet(t, id)
  <2>5. /\ Near(C, t, u, id) /\ Keen(t, u, id)
        /\ Len(u.msgs[id].read_queue) = Len(t.msgs[id].read_queue) - 1
    BY <2>3, <2>4, PopReadNear
  <2> HIDE DEF u
  <2>6. Near(C, s, u, id) /\ Keen(s, u, id) BY <2>2, <2>5, NearTwice, KeenTwice
  <2>7. Len(u.msgs[id].read_queue) = l - (i + 1) BY <2>1, <2>2, <2>5
  <2>8. u \in Z[i + 1] BY <1>1, <2>1, <2>6, <2>7
  <2> QED BY <2>8 DEF u
<1>6. msg_read(s, id, k) \in Z[k]
  <2> HIDE DEF Z, l
  <2> QED BY <1>3, <1>5, RepeatPopRead
<1> DEFINE t == msg_read(s, id, k)
<1> HIDE DEF t, l
<1>7. Near(C, s, t, id) /\ Keen(s, t, id) /\ Len(t.msgs[id].read_queue) = l - k BY <1>6 DEF t
<1>8. k = l => t.msgs[id].read_queue = << >>
  <2>1. t.msgs[id].read_queue \in Seq(Nat) BY <1>7, MessageFacts DEF Near
  <2>2. k = l => Len(t.msgs[id].read_queue) = 0 BY <1>2, <1>7
  <2> QED BY <2>1, <2>2
<1> QED BY <1>7, <1>8 DEF t, l

\* msg_close drops all that was not read.
LEMMA DropReadsNear ==
  ASSUME NEW C, NEW s, NEW id, Well(C, s, id)
  PROVE  LET t == DropReads(s, id) IN Near(C, s, t, id) /\ Shut(t.msgs[id])
<1>1. CASE Has(s, id, "PACKET_AVAIL_TO_READ")
  <2> DEFINE k == Len(s.msgs[id].read_queue)
  <2>1. k \in Nat BY MessageFacts, WellExists
  <2>2. DropReads(s, id) = msg_read(s, id, k) BY <1>1 DEF DropReads
  <2>3. k <= k BY <2>1
  <2> DEFINE t == msg_read(s, id, k)
  <2>4. Near(C, s, t, id) /\ t.msgs[id].read_queue = << >> BY <2>1, <2>3, ReadNear
  <2> HIDE DEF t
  <2> QED BY <2>2, <2>4 DEF Shut, t
<1>2. CASE ~Has(s, id, "PACKET_AVAIL_TO_READ")
  <2>1. DropReads(s, id) = s BY <1>2 DEF DropReads
  <2>2. s.msgs[id].read_queue = << >> BY <1>2, WellExists DEF Has, Numb, Reading
  <2> QED BY <2>1, <2>2, NearSelf DEF Shut
<1> QED BY <1>1, <1>2

\* DISCON is put into pending_resps.
LEMMA SendDisconNear ==
  ASSUME NEW C, NEW s, NEW id, Well(C, s, id)
  PROVE  LET t == SendDiscon(s, id) IN Near(C, s, t, id) /\ Keen(s, t, id)
<1> DEFINE m == s.msgs[id]
           st == m.status \cup {"SENT_DISCONNECT"}
           t == SendDiscon(s, id)
           r == Append(s.pending_resps, Reply(m, id, "DISCON"))
<1>1. m \in Messages(C) /\ s \in Switches(C) /\ id \in MsgIds BY DEF Well
<1>2. st \in SUBSET Flags BY <1>1, MessageFacts DEF Flags
<1>3. Turns(C, s, t, id, Flagged(m, st), s.pending_msgs, r) BY <1>1, SendDisconTurns
<1>4. /\ \A f \in {"PACKET_AVAIL_TO_READ", "SENT_DISCONNECT", "DISCONNECTED"} :
         f \in m.status => f \in st
      /\ "CLOSED" \in st => "CLOSED" \in m.status
  OBVIOUS
<1> HIDE DEF st, t, r
<1>5. Near(C, s, t, id) /\ Keen(s, t, id) BY <1>2, <1>3, <1>4, FlagNear
<1> QED BY <1>5 DEF t

\* An acknowledgement clears WAITING_FOR_RESP.
LEMMA AckedNear ==
  ASSUME NEW C, NEW s, NEW id, Well(C, s, id)
  PROVE  LET t == Acked(s, id) IN Near(C, s, t, id) /\ Keen(s, t, id)
<1> DEFINE m == s.msgs[id]
           st == m.status \ {"WAITING_FOR_RESP"}
           t == Acked(s, id)
           pm == s.pending_msgs
           r == s.pending_resps
<1>1. m \in Messages(C) /\ s \in Switches(C) /\ id \in MsgIds BY DEF Well
<1>2. st \in SUBSET Flags BY <1>1, MessageFacts DEF Flags
<1>3. Turns(C, s, t, id, Flagged(m, st), pm, r) BY <1>1, AckedTurns DEF Unwaiting
<1>4. /\ \A f \in {"PACKET_AVAIL_TO_READ", "SENT_DISCONNECT", "DISCONNECTED"} :
         f \in m.status => f \in st
      /\ "CLOSED" \in st => "CLOSED" \in m.status
  OBVIOUS
<1> HIDE DEF st, t, pm, r
<1>5. Near(C, s, t, id) /\ Keen(s, t, id) BY <1>2, <1>3, <1>4, FlagNear
<1> QED BY <1>5 DEF t

\* msg_update_status, by itself.
LEMMA RefreshNear ==
  ASSUME NEW C, NEW s, NEW id, Well(C, s, id)
  PROVE  LET t == Refreshed(s, id) IN Near(C, s, t, id) /\ Keen(s, t, id)
<1> DEFINE m == s.msgs[id]
           t == Refreshed(s, id)
<1>1. m \in Messages(C) /\ Numb(m) /\ s \in Switches(C) /\ id \in MsgIds BY DEF Well
<1>2. Edits(C, s, t, id, m) BY <1>1, RefreshEdits
<1>3. Kept(m, m) BY KeptSelf
<1> HIDE DEF t
<1>4. Near(C, s, t, id) /\ Keen(s, t, id) BY <1>1, <1>2, <1>3, EditsNear
<1> QED BY <1>4 DEF t

\* An acknowledgement is received by a message that waits for it.
LEMMA RecvOkNear ==
  ASSUME NEW C, NEW s, NEW id, Well(C, s, id), ~Has(s, id, "SENT_DISCONNECT"),
         Has(s, id, "WAITING_FOR_RESP")
  PROVE  LET t == RecvOk(s, id) IN Near(C, s, t, id) /\ Keen(s, t, id)
<1> DEFINE a == Acked(s, id)
           f == Flushed(s, id)
           e == Ended(f, id)
           t == Refreshed(e, id)
<1>1. RecvOk(s, id) = t BY RecvOkPasses
<1>2. Near(C, s, a, id) /\ Keen(s, a, id) BY AckedNear
<1>3. Well(C, a, id) BY <1>2, NearWell
<1>4. Near(C, a, f, id) /\ Keen(a, f, id)
  <2> HIDE DEF a
  <2>1. f = a \/ f = msg_flush(a, id) BY DEF Flushed, a
  <2> QED BY <1>3, <2>1, NearSelf, FlushNear
<1> HIDE DEF a, f
<1>5. Near(C, s, f, id) /\ Keen(s, f, id) BY <1>2, <1>4, NearTwice, KeenTwice
<1>6. Well(C, f, id) BY <1>5, NearWell
<1>7. Near(C, f, e, id) /\ Keen(f, e, id)
  <2>1. e = f \/ e = SendDiscon(f, id) BY DEF Ended
  <2> QED BY <1>6, <2>1, NearSelf, SendDisconNear
<1> HIDE DEF e
<1>8. Near(C, s, e, id) /\ Keen(s, e, id) BY <1>5, <1>7, NearTwice, KeenTwice
<1>9. Well(C, e, id) BY <1>8, NearWell
<1>10. Near(C, e, t, id) /\ Keen(e, t, id) BY <1>9, RefreshNear
<1> HIDE DEF t
<1>11. Near(C, s, t, id) /\ Keen(s, t, id) BY <1>8, <1>10, NearTwice, KeenTwice
<1> QED BY <1>1, <1>11

----------------------------------------------------------------------------
(* What a step of one end does to all its messages. *)

\* A message that may be freed and whose reading nobody misses: it is
\* DISCONNECTED, or has read nothing.
Spent(m) == Apart(m) \/ m.n_read = 0

\* From the messages A to the messages Z: a message is freed when it is
\* Spent, and is otherwise kept with its counts.
Goes(A, Z) ==
  \A i \in MsgIds : IF Z[i] = NoMsg THEN A[i] = NoMsg \/ Spent(A[i])
                    ELSE A[i] # NoMsg /\ Kept(A[i], Z[i])

\* Every message of the switch counts its packets, and a closed one keeps
\* none to read.
Good(s) ==
  /\ s \in Switches(Convs)
  /\ \A i \in MsgIds : s.msgs[i] # NoMsg => Numb(s.msgs[i]) /\ Shut(s.msgs[i])

\* A step of a switch that neither sends nor receives a packet.
Fares(s, t) == Good(t) /\ Goes(s.msgs, t.msgs)

\* A message of a good switch is well.
LEMMA GoodAt ==
  ASSUME NEW s, Good(s), NEW id \in MsgIds, Exists(s, id)
  PROVE  Well(Convs, s, id) /\ Shut(s.msgs[id])
<1>1. s.msgs[id] # NoMsg BY DEF Exists
<1>2. s \in Switches(Convs) BY DEF Good
<1>3. s.msgs[id] \in Messages(Convs) BY <1>1, <1>2, SwitchFacts
<1> QED BY <1>1, <1>2, <1>3 DEF Good, Well

\* A step about one message, which is Shut after it ...
LEMMA NearFares ==
  ASSUME NEW s, Good(s), NEW id \in MsgIds, Exists(s, id), NEW t, Near(Convs, s, t, id),
         Shut(t.msgs[id])
  PROVE  Fares(s, t)
<1>1. t.msgs[id] # NoMsg BY MessageFacts DEF Near
<1>2. s.msgs[id] # NoMsg BY DEF Exists
<1>3. /\ t \in Switches(Convs) /\ Numb(t.msgs[id]) /\ Kept(s.msgs[id], t.msgs[id])
      /\ \A j \in MsgIds \ {id} : t.msgs[j] = s.msgs[j]
  BY DEF Near
<1>4. Good(t)
  <2>1. SUFFICES ASSUME NEW i \in MsgIds, t.msgs[i] # NoMsg PROVE Numb(t.msgs[i])
          /\ Shut(t.msgs[i])
    BY <1>3 DEF Good
  <2>2. CASE i = id BY <1>3, <2>2
  <2>3. CASE i # id
    <3>1. t.msgs[i] = s.msgs[i] BY <1>3, <2>3
    <3> QED BY <2>1, <3>1 DEF Good
  <2> QED BY <2>2, <2>3
<1>5. Goes(s.msgs, t.msgs)
  <2>1. SUFFICES ASSUME NEW i \in MsgIds
                 PROVE  IF t.msgs[i] = NoMsg THEN s.msgs[i] = NoMsg \/ Spent(s.msgs[i])
                        ELSE s.msgs[i] # NoMsg /\ Kept(s.msgs[i], t.msgs[i])
    BY DEF Goes
  <2>2. CASE i = id BY <1>1, <1>2, <1>3, <2>2
  <2>3. CASE i # id
    <3>1. t.msgs[i] = s.msgs[i] BY <1>3, <2>3
    <3> QED BY <3>1, KeptSelf
  <2> QED BY <2>2, <2>3
<1> QED BY <1>4, <1>5 DEF Fares

\* ... or which stays so.
LEMMA KeenFares ==
  ASSUME NEW s, Good(s), NEW id \in MsgIds, Exists(s, id), NEW t, Near(Convs, s, t, id),
         Keen(s, t, id)
  PROVE  Fares(s, t)
<1>1. Shut(t.msgs[id]) BY GoodAt DEF Keen
<1> QED BY <1>1, NearFares

\* A step that leaves the messages alone.
LEMMA SameFares ==
  ASSUME NEW s, Good(s), NEW t \in Switches(Convs), t.msgs = s.msgs
  PROVE  Fares(s, t)
<1>1. Good(t) BY DEF Good
<1>2. Goes(s.msgs, t.msgs) BY KeptSelf DEF Goes
<1> QED BY <1>1, <1>2 DEF Fares

\* msg_free leaves the other messages alone.
LEMMA FreeGood ==
  ASSUME NEW s, Good(s), NEW id \in MsgIds, Exists(s, id)
  PROVE  LET t == msg_free(s, id)
         IN  /\ Good(t) /\ t.msgs[id] = NoMsg
             /\ \A j \in MsgIds \ {id} : t.msgs[j] = s.msgs[j]
<1> DEFINE t == msg_free(s, id)
           m == s.msgs[id]
<1>1. s \in Switches(Convs) /\ m \in Messages(Convs) BY GoodAt DEF Well
<1>2. Frees(Convs, s, t, id) BY <1>1, FreeFrees
<1> HIDE DEF t
<1>3. /\ t \in Switches(Convs) /\ t.msgs[id] = NoMsg
      /\ \A j \in MsgIds \ {id} : t.msgs[j] = s.msgs[j]
  BY <1>1, <1>2, FreesAt
<1>4. Good(t) BY <1>3 DEF Good
<1> QED BY <1>3, <1>4 DEF t

\* A message that is Spent may be freed.
LEMMA FreeFares ==
  ASSUME NEW s, Good(s), NEW id \in MsgIds, Exists(s, id), Spent(s.msgs[id])
  PROVE  Fares(s, msg_free(s, id))
<1> DEFINE t == msg_free(s, id)
<1>1. /\ Good(t) /\ t.msgs[id] = NoMsg
      /\ \A j \in MsgIds \ {id} : t.msgs[j] = s.msgs[j]
  BY FreeGood
<1> HIDE DEF t
<1>2. Goes(s.msgs, t.msgs)
  <2>1. SUFFICES ASSUME NEW i \in MsgIds
                 PROVE  IF t.msgs[i] = NoMsg THEN s.msgs[i] = NoMsg \/ Spent(s.msgs[i])
                        ELSE s.msgs[i] # NoMsg /\ Kept(s.msgs[i], t.msgs[i])
    BY DEF Goes
  <2>2. CASE i = id BY <1>1, <2>2
  <2>3. CASE i # id
    <3>1. t.msgs[i] = s.msgs[i] BY <1>1, <2>3
    <3> QED BY <3>1, KeptSelf
  <2> QED BY <2>2, <2>3
<1> QED BY <1>1, <1>2 DEF Fares, t

\* A change of the queues comes before such a step.
LEMMA FaresTwice ==
  ASSUME NEW s, NEW t, NEW u, t.msgs = s.msgs, Fares(t, u)
  PROVE  Fares(s, u)
BY DEF Fares

\* msg_accept neither sends nor receives a packet ...
LEMMA AcceptFares ==
  ASSUME NEW s, Good(s), NEW id \in MsgIds, Exists(s, id)
  PROVE  Fares(s, msg_accept(s, id))
<1> DEFINE m == s.msgs[id]
           st == m.status \cup {"CONNECTED"}
           t == msg_accept(s, id)
<1>1. m \in Messages(Convs) /\ s \in Switches(Convs) /\ Well(Convs, s, id) BY GoodAt DEF Well
<1>2. CASE "DISCONNECTED" \in m.status
  <2>1. t = msg_free(s, id) BY <1>2 DEF msg_accept, Has
  <2> QED BY <1>2, <2>1, FreeFares DEF Spent, Apart
<1>3. CASE "DISCONNECTED" \notin m.status
  <2>1. st \in SUBSET Flags BY <1>1, MessageFacts DEF Flags
  <2> DEFINE pm == s.pending_msgs
             r == s.pending_resps
  <2>2. Turns(Convs, s, t, id, Flagged(m, st), pm, r)
    BY <1>1, <1>3, AcceptTurns
  <2>3. /\ \A f \in {"PACKET_AVAIL_TO_READ", "SENT_DISCONNECT", "DISCONNECTED"} :
           f \in m.status => f \in st
        /\ "CLOSED" \in st => "CLOSED" \in m.status
    OBVIOUS
  <2> HIDE DEF st, t, pm, r
  <2>4. Near(Convs, s, t, id) /\ Keen(s, t, id) BY <1>1, <2>1, <2>2, <2>3, FlagNear
  <2>5. Fares(s, t) BY <2>4, KeenFares
  <2> QED BY <2>5 DEF t
<1> QED BY <1>2, <1>3

\* ... nor does msg_close, which frees the message when the other end has
\* disconnected it.
LEMMA CloseFares ==
  ASSUME NEW s, Good(s), NEW id \in MsgIds, Exists(s, id)
  PROVE  Fares(s, msg_close(s, id))
<1> DEFINE c == msg_clr_write(msg_clr_read(s, id), id)
           f == msg_flush(c, id)
           k == f.msgs[id]
           st == (k.status \ {}) \cup {"CLOSED"}
           z == SetFlags(f, id, {"CLOSED"}, {})
           d == SendDiscon(z, id)
           t == msg_close(s, id)
<1>1. s \in Switches(Convs) /\ Well(Convs, s, id) BY GoodAt DEF Well
<1>2. Keeps(Convs, s, c) BY <1>1, ClrKeeps
<1>3. t = IF Has(s, id, "DISCONNECTED") THEN msg_free(c, id)
          ELSE IF Has(z, id, "PACKET_AVAIL_TO_WRIT") THEN DropReads(z, id)
          ELSE IF z.msgs[id].n_writ = 0 /\ z.msgs[id].n_read = 0 THEN msg_free(z, id)
          ELSE DropReads(d, id)
  BY DEF msg_close, SendDiscon
<1> HIDE DEF t, c
<1>4. c \in Switches(Convs) /\ c.msgs = s.msgs BY <1>2 DEF Keeps
<1>5. Good(c) /\ Well(Convs, c, id) /\ Exists(c, id) BY <1>1, <1>4 DEF Good, Well, Exists
<1>6. CASE Has(s, id, "DISCONNECTED")
  <2>1. Spent(c.msgs[id]) BY <1>4, <1>6 DEF Has, Spent, Apart
  <2>2. Fares(c, msg_free(c, id)) BY <1>5, <2>1, FreeFares
  <2>3. t = msg_free(c, id) BY <1>3, <1>6
  <2>4. Fares(s, t) BY <1>4, <2>2, <2>3, FaresTwice
  <2> QED BY <2>4 DEF t
<1>7. CASE ~Has(s, id, "DISCONNECTED")
  <2>1. Near(Convs, c, f, id) BY <1>5, FlushNear
  <2>2. Well(Convs, f, id) BY <1>5, <2>1, NearWell
  <2> HIDE DEF f
  <2>3. k \in Messages(Convs) /\ f \in Switches(Convs) BY <2>2 DEF Well
  <2>4. st \in SUBSET Flags /\ {"CLOSED"} \in SUBSET Flags BY <2>3, MessageFacts DEF Flags
  <2>5. Turns(Convs, f, z, id, Flagged(k, st), f.pending_msgs, f.pending_resps)
    BY <2>3, <2>4, FlagTurns
  <2>6. \A g \in {"PACKET_AVAIL_TO_READ", "SENT_DISCONNECT", "DISCONNECTED"} : g \in k.status =>
          g \in st
    OBVIOUS
  <2> HIDE DEF z, st
  <2>7. Near(Convs, f, z, id) BY <2>2, <2>4, <2>5, <2>6, FlagNear, ZenonT(30)
  <2>8. Near(Convs, c, z, id) BY <2>1, <2>7, NearTwice
  <2>9. Well(Convs, z, id) BY <1>5, <2>8, NearWell
  <2>10. CASE Has(z, id, "PACKET_AVAIL_TO_WRIT")
    <3> DEFINE u == DropReads(z, id)
    <3>1. Near(Convs, z, u, id) /\ Shut(u.msgs[id]) BY <2>9, DropReadsNear
    <3>2. t = u BY <1>3, <1>7, <2>10
    <3> HIDE DEF u
    <3>3. Near(Convs, c, u, id) BY <2>8, <3>1, NearTwice
    <3>4. Fares(c, u) BY <1>5, <3>1, <3>3, NearFares
    <3>5. Fares(s, t) BY <1>4, <3>2, <3>4, FaresTwice
    <3> QED BY <3>5 DEF t
  <2>11. CASE ~Has(z, id, "PACKET_AVAIL_TO_WRIT") /\ z.msgs[id].n_writ = 0
           /\ z.msgs[id].n_read = 0
    <3>1. t = msg_free(z, id) BY <1>3, <1>7, <2>11
    <3>2. z \in Switches(Convs) /\ z.msgs[id] \in Messages(Convs) BY <2>9 DEF Well
    <3> DEFINE u == msg_free(z, id)
    <3>3. Frees(Convs, z, u, id) BY <3>2, FreeFrees
    <3> HIDE DEF u
    <3>4. /\ u \in Switches(Convs) /\ u.msgs[id] = NoMsg
          /\ \A j \in MsgIds \ {id} : u.msgs[j] = z.msgs[j]
      BY <3>2, <3>3, FreesAt
    <3>5. Kept(c.msgs[id], z.msgs[id]) /\ \A j \in MsgIds \ {id} : z.msgs[j] = c.msgs[j] BY <2>8
            DEF Near
    <3>6. c.msgs[id].n_read = 0 BY <2>11, <3>5 DEF Kept
    <3>7. Good(u) BY <1>5, <3>4, <3>5 DEF Good
    <3>8. Goes(c.msgs, u.msgs)
      <4>1. SUFFICES ASSUME NEW i \in MsgIds
                     PROVE  IF u.msgs[i] = NoMsg THEN c.msgs[i] = NoMsg \/ Spent(c.msgs[i])
                            ELSE c.msgs[i] # NoMsg /\ Kept(c.msgs[i], u.msgs[i])
        BY DEF Goes
      <4>2. CASE i = id BY <3>4, <3>6, <4>2 DEF Spent
      <4>3. CASE i # id
        <5>1. u.msgs[i] = c.msgs[i] BY <3>4, <3>5, <4>3
        <5> QED BY <5>1, KeptSelf
      <4> QED BY <4>2, <4>3
    <3>9. Fares(c, u) BY <3>7, <3>8 DEF Fares
    <3>10. t = u BY <3>1 DEF u
    <3>11. Fares(s, t) BY <1>4, <3>9, <3>10, FaresTwice
    <3> QED BY <3>11 DEF t
  <2>12. CASE ~Has(z, id, "PACKET_AVAIL_TO_WRIT") /\ ~(z.msgs[id].n_writ = 0
                                                       /\ z.msgs[id].n_read = 0)
    <3>1. Near(Convs, z, d, id) BY <2>9, SendDisconNear
    <3> HIDE DEF d
    <3>2. Near(Convs, c, d, id) BY <2>8, <3>1, NearTwice
    <3>3. Well(Convs, d, id) BY <1>5, <3>2, NearWell
    <3> DEFINE u == DropReads(d, id)
    <3>4. Near(Convs, d, u, id) /\ Shut(u.msgs[id]) BY <3>3, DropReadsNear
    <3>5. t = u BY <1>3, <1>7, <2>12
    <3> HIDE DEF u
    <3>6. Near(Convs, c, u, id) BY <3>2, <3>4, NearTwice
    <3>7. Fares(c, u) BY <1>5, <3>4, <3>6, NearFares
    <3>8. Fares(s, t) BY <1>4, <3>5, <3>7, FaresTwice
    <3> QED BY <3>8 DEF t
  <2> QED BY <2>10, <2>11, <2>12
<1> QED BY <1>6, <1>7

----------------------------------------------------------------------------
(* The packets of one message among the frames of a socket. *)

\* The packets of c in X are those after the a-th up to the b-th, in order.
Span(X, c, a, b) ==
  /\ a <= b
  /\ \A i \in 1 .. Len(X) : Of(X[i], "PACK", c) => X[i].seq \in (a + 1) .. b
  /\ \A n \in (a + 1) .. b : \E i \in 1 .. Len(X) : Of(X[i], "PACK", c) /\ X[i].seq = n
  /\ \A i, j \in 1 .. Len(X) : Of(X[i], "PACK", c) /\ Of(X[j], "PACK", c) /\ i < j =>
       X[i].seq < X[j].seq

\* What it is to be a packet of c.
LEMMA PackOf ==
  ASSUME NEW t \in Tokens, NEW c
  PROVE  Of(t, "PACK", c) <=> t.kind = "PACK" /\ t.conv = c
<1>1. Kind(t) = "PACK" <=> t.kind = "PACK" BY FrameKinds DEF Kind
<1> QED BY <1>1 DEF Of

\* Span is what MsgLink calls Carries.
LEMMA SpanCarries ==
  ASSUME NEW X \in Seq(Tokens), NEW c, NEW a, NEW b
  PROVE  Span(X, c, a, b) <=> Carries(X, c, a, b)
<1> DEFINE at == {i \in DOMAIN X : X[i].kind = "PACK" /\ X[i].conv = c}
<1>1. DOMAIN X = 1 .. Len(X) /\ \A i \in 1 .. Len(X) : X[i] \in Tokens OBVIOUS
<1>2. \A i \in 1 .. Len(X) : i \in at <=> Of(X[i], "PACK", c) BY <1>1, PackOf
<1>3. at \subseteq 1 .. Len(X) BY <1>1
<1>4. Carries(X, c, a, b) <=> /\ a <= b
                              /\ {X[i].seq : i \in at} = (a + 1) .. b
                              /\ \A i, j \in at : i < j => X[i].seq < X[j].seq
  BY DEF Carries
<1> HIDE DEF at
<1>5. {X[i].seq : i \in at} = (a + 1) .. b <=>
        /\ \A i \in 1 .. Len(X) : Of(X[i], "PACK", c) => X[i].seq \in (a + 1) .. b
        /\ \A n \in (a + 1) .. b : \E i \in 1 .. Len(X) : Of(X[i], "PACK", c) /\ X[i].seq = n
  <2> DEFINE N == (a + 1) .. b
  <2>1. (\A i \in 1 .. Len(X) : Of(X[i], "PACK", c) => X[i].seq \in N) <=> \A i \in at :
          X[i].seq \in N
    BY <1>2, <1>3
  <2>2. (\A n \in N : \E i \in 1 .. Len(X) : Of(X[i], "PACK", c) /\ X[i].seq = n)
          <=> \A n \in N : \E i \in at : X[i].seq = n
    BY <1>2, <1>3
  <2> HIDE DEF N
  <2>3. {X[i].seq : i \in at} = N <=> (\A i \in at : X[i].seq \in N) /\ \A n \in N :
          \E i \in at : X[i].seq = n
    OBVIOUS
  <2> QED BY <2>1, <2>2, <2>3 DEF N
<1>6. (\A i, j \in at : i < j => X[i].seq < X[j].seq) <=>
        \A i, j \in 1 .. Len(X) : Of(X[i], "PACK", c) /\ Of(X[j], "PACK", c) /\ i < j =>
            X[i].seq < X[j].seq
  BY <1>2, <1>3
<1> QED BY <1>4, <1>5, <1>6 DEF Span

\* Reading a frame that is no packet of c leaves the packets of c.
LEMMA SpanTail ==
  ASSUME NEW X \in Seq(Tokens), X # << >>, NEW c, ~Of(Head(X), "PACK", c), NEW a, NEW b,
         Span(X, c, a, b)
  PROVE  Span(Tail(X), c, a, b)
<1> DEFINE Z == Tail(X)
<1>1. /\ Z \in Seq(Tokens) /\ Head(X) = X[1] /\ Len(X) \in Nat \ {0} /\ Len(Z) = Len(X) - 1
      /\ \A i \in 1 .. Len(Z) : Z[i] = X[i + 1] /\ i + 1 \in 1 .. Len(X)
      /\ \A i \in 1 .. Len(X) : i = 1 \/ (i - 1 \in 1 .. Len(Z) /\ Z[i - 1] = X[i])
  BY TailAt DEF Part
<1> HIDE DEF Z
<1>2. \A i \in 1 .. Len(Z) : Of(Z[i], "PACK", c) => Z[i].seq \in (a + 1) .. b BY <1>1 DEF Span
<1>3. ASSUME NEW n \in (a + 1) .. b PROVE \E i \in 1 .. Len(Z) : Of(Z[i], "PACK", c)
        /\ Z[i].seq = n
  <2>1. PICK i \in 1 .. Len(X) : Of(X[i], "PACK", c) /\ X[i].seq = n BY DEF Span
  <2>2. i # 1 BY <1>1, <2>1
  <2> QED BY <1>1, <2>1, <2>2
<1>4. ASSUME NEW i \in 1 .. Len(Z), NEW j \in 1 .. Len(Z), Of(Z[i], "PACK", c),
        Of(Z[j], "PACK", c), i < j
      PROVE  Z[i].seq < Z[j].seq
  <2>1. Z[i] = X[i + 1] /\ Z[j] = X[j + 1] /\ i + 1 \in 1 .. Len(X) /\ j + 1 \in 1 .. Len(X)
          /\ i + 1 < j + 1
    BY <1>1, <1>4
  <2> QED BY <1>4, <2>1 DEF Span
<1>5. a <= b BY DEF Span
<1>6. Span(Z, c, a, b) BY <1>2, <1>3, <1>4, <1>5 DEF Span
<1> QED BY <1>6 DEF Z

\* Reading a packet of c: it is the next one.
LEMMA SpanTake ==
  ASSUME NEW X \in Seq(Tokens), X # << >>, NEW c, Of(Head(X), "PACK", c), NEW a \in Nat,
         NEW b \in Nat, Span(X, c, a, b)
  PROVE  Head(X).seq = a + 1 /\ Span(Tail(X), c, a + 1, b)
<1> DEFINE Z == Tail(X)
<1>1. /\ Z \in Seq(Tokens) /\ Head(X) = X[1] /\ Len(X) \in Nat \ {0} /\ Len(Z) = Len(X) - 1
      /\ \A i \in 1 .. Len(Z) : Z[i] = X[i + 1] /\ i + 1 \in 1 .. Len(X)
      /\ \A i \in 1 .. Len(X) : i = 1 \/ (i - 1 \in 1 .. Len(Z) /\ Z[i - 1] = X[i])
  BY TailAt DEF Part
<1>2. 1 \in 1 .. Len(X) /\ Of(X[1], "PACK", c) BY <1>1
<1> DEFINE h == X[1].seq
<1>3. h \in (a + 1) .. b BY <1>2 DEF Span
<1> HIDE DEF Z, h
<1>4. \A i \in 1 .. Len(Z) : Of(Z[i], "PACK", c) => h < Z[i].seq /\ Z[i].seq \in (a + 1) .. b
  <2>1. SUFFICES ASSUME NEW i \in 1 .. Len(Z), Of(Z[i], "PACK", c) PROVE h < Z[i].seq
          /\ Z[i].seq \in (a + 1) .. b
    OBVIOUS
  <2>2. Z[i] = X[i + 1] /\ i + 1 \in 1 .. Len(X) /\ 1 < i + 1 BY <1>1
  <2> QED BY <1>2, <2>1, <2>2 DEF Span, h
<1>5. h = a + 1
  <2>1. a + 1 \in (a + 1) .. b BY <1>3
  <2>2. PICK i \in 1 .. Len(X) : Of(X[i], "PACK", c) /\ X[i].seq = a + 1 BY <2>1 DEF Span
  <2>3. CASE i = 1 BY <2>2, <2>3 DEF h
  <2>4. CASE i # 1
    <3>1. i - 1 \in 1 .. Len(Z) /\ Z[i - 1] = X[i] BY <1>1, <2>4
    <3>2. h < a + 1 BY <1>4, <2>2, <3>1
    <3> QED BY <1>3, <3>2
  <2> QED BY <2>3, <2>4
<1>6. \A i \in 1 .. Len(Z) : Of(Z[i], "PACK", c) => Z[i].seq \in (a + 1 + 1) .. b BY <1>4, <1>5
<1>7. ASSUME NEW n \in (a + 1 + 1) .. b PROVE \E i \in 1 .. Len(Z) : Of(Z[i], "PACK", c)
        /\ Z[i].seq = n
  <2>1. n \in (a + 1) .. b /\ n # h BY <1>5
  <2>2. PICK i \in 1 .. Len(X) : Of(X[i], "PACK", c) /\ X[i].seq = n BY <2>1 DEF Span
  <2>3. i # 1 BY <2>1, <2>2 DEF h
  <2> QED BY <1>1, <2>2, <2>3
<1>8. ASSUME NEW i \in 1 .. Len(Z), NEW j \in 1 .. Len(Z), Of(Z[i], "PACK", c),
        Of(Z[j], "PACK", c), i < j
      PROVE  Z[i].seq < Z[j].seq
  <2>1. Z[i] = X[i + 1] /\ Z[j] = X[j + 1] /\ i + 1 \in 1 .. Len(X) /\ j + 1 \in 1 .. Len(X)
          /\ i + 1 < j + 1
    BY <1>1, <1>8
  <2> QED BY <1>8, <2>1 DEF Span
<1>9. a + 1 <= b BY <1>3
<1>10. Span(Z, c, a + 1, b) BY <1>6, <1>7, <1>8, <1>9 DEF Span
<1> QED BY <1>1, <1>5, <1>10 DEF Z, h

\* Sending a frame that is no packet of c leaves the packets of c.
LEMMA SpanSkip ==
  ASSUME NEW X \in Seq(Tokens), NEW t \in Tokens, NEW c, ~Of(t, "PACK", c), NEW a, NEW b,
         Span(X, c, a, b)
  PROVE  Span(Append(X, t), c, a, b)
<1> DEFINE Z == Append(X, t)
<1>1. /\ Z \in Seq(Tokens) /\ Len(X) \in Nat /\ Len(Z) = Len(X) + 1
      /\ \A i \in 1 .. Len(X) : Z[i] = X[i] /\ i \in 1 .. Len(Z)
      /\ Z[Len(X) + 1] = t
      /\ \A i \in 1 .. Len(Z) : i \in 1 .. Len(X) \/ i = Len(X) + 1
  BY AppendAt
<1> HIDE DEF Z
<1>2. \A i \in 1 .. Len(Z) : Of(Z[i], "PACK", c) =>
        i \in 1 .. Len(X) /\ Of(X[i], "PACK", c) BY <1>1
<1>3. \A i \in 1 .. Len(Z) : Of(Z[i], "PACK", c) =>
        Z[i].seq \in (a + 1) .. b BY <1>1, <1>2 DEF Span
<1>4. \A n \in (a + 1) .. b : \E i \in 1 .. Len(Z) : Of(Z[i], "PACK", c) /\ Z[i].seq = n BY <1>1
        DEF Span
<1>5. \A i, j \in 1 .. Len(Z) : Of(Z[i], "PACK", c) /\ Of(Z[j], "PACK", c) /\ i < j =>
        Z[i].seq < Z[j].seq
  BY <1>1, <1>2 DEF Span
<1>6. a <= b BY DEF Span
<1>7. Span(Z, c, a, b) BY <1>3, <1>4, <1>5, <1>6 DEF Span
<1> QED BY <1>7 DEF Z

\* Sending the next packet of c.
LEMMA SpanAdd ==
  ASSUME NEW X \in Seq(Tokens), NEW t \in Tokens, NEW c, Of(t, "PACK", c), NEW a \in Nat,
         NEW b \in Nat, Span(X, c, a, b), t.seq = b + 1
  PROVE  Span(Append(X, t), c, a, b + 1)
<1> DEFINE Z == Append(X, t)
<1>1. /\ Z \in Seq(Tokens) /\ Len(X) \in Nat /\ Len(Z) = Len(X) + 1
      /\ \A i \in 1 .. Len(X) : Z[i] = X[i] /\ i \in 1 .. Len(Z)
      /\ Z[Len(X) + 1] = t /\ Len(X) + 1 \in 1 .. Len(Z)
      /\ \A i \in 1 .. Len(Z) : i \in 1 .. Len(X) \/ i = Len(X) + 1
  BY AppendAt
<1> HIDE DEF Z
<1>2. a <= b BY DEF Span
<1>3. \A i \in 1 .. Len(X) : Of(Z[i], "PACK", c) => Z[i].seq \in (a + 1) .. b BY <1>1 DEF Span
<1>4. \A i \in 1 .. Len(Z) : Of(Z[i], "PACK", c) => Z[i].seq \in (a + 1) .. (b + 1)
  <2>1. SUFFICES ASSUME NEW i \in 1 .. Len(Z), Of(Z[i], "PACK", c)
          PROVE Z[i].seq \in (a + 1) .. (b + 1)
    OBVIOUS
  <2>2. CASE i \in 1 .. Len(X)
    <3>1. Z[i].seq \in (a + 1) .. b BY <1>3, <2>1, <2>2
    <3> QED BY <3>1
  <2>3. CASE i = Len(X) + 1 BY <1>1, <1>2, <2>3
  <2> QED BY <1>1, <2>2, <2>3
<1>5. ASSUME NEW n \in (a + 1) .. (b + 1) PROVE \E i \in 1 .. Len(Z) : Of(Z[i], "PACK", c)
        /\ Z[i].seq = n
  <2>1. CASE n = b + 1 BY <1>1, <2>1
  <2>2. CASE n # b + 1
    <3>1. n \in (a + 1) .. b BY <2>2
    <3>2. PICK i \in 1 .. Len(X) : Of(X[i], "PACK", c) /\ X[i].seq = n BY <3>1 DEF Span
    <3> QED BY <1>1, <3>2
  <2> QED BY <2>1, <2>2
<1>6. ASSUME NEW i \in 1 .. Len(Z), NEW j \in 1 .. Len(Z), Of(Z[i], "PACK", c),
        Of(Z[j], "PACK", c), i < j
      PROVE  Z[i].seq < Z[j].seq
  <2>1. i \in 1 .. Len(X) BY <1>1, <1>6
  <2>2. CASE j \in 1 .. Len(X) BY <1>1, <1>6, <2>1, <2>2 DEF Span
  <2>3. CASE j = Len(X) + 1
    <3>1. Z[i].seq \in (a + 1) .. b BY <1>3, <1>6, <2>1
    <3>2. Z[j].seq = b + 1 BY <1>1, <2>3
    <3> QED BY <3>1, <3>2
  <2> QED BY <1>1, <2>2, <2>3
<1>7. a <= b + 1 BY <1>2
<1>8. Span(Z, c, a, b + 1) BY <1>4, <1>5, <1>6, <1>7 DEF Span
<1> QED BY <1>8 DEF Z

\* No packet of c is underway.
LEMMA SpanNone ==
  ASSUME NEW X, NEW c, ~Sent(X, "PACK", c), NEW a \in Nat
  PROVE  Span(X, c, a, a)
<1>1. \A i \in 1 .. Len(X) : ~Of(X[i], "PACK", c) BY DEF Sent
<1>2. (a + 1) .. a = {} /\ a <= a OBVIOUS
<1> QED BY <1>1, <1>2 DEF Span

----------------------------------------------------------------------------
(* The packets of one message, from its writer to its reader. *)

\* The messages of c among B have received up to the a-th packet.
ReadTo(B, c, a) == \A i \in MsgIds : B[i] # NoMsg /\ B[i].conv = c => B[i].n_read = a

\* The messages of c among A that are connected have sent up to the b-th
\* packet.
SentTo(A, c, b) == \A i \in MsgIds : A[i] # NoMsg /\ A[i].conv = c /\ ~Apart(A[i]) =>
    Base(A[i]) = b

\* If the reader has no message of c yet, and one is on its way, its first
\* packet is the first one.
Begins(A, X, B, c, a) ==
  "alive" \notin View(B, c) /\ (Sent(X, "PACK", c) \/ "open" \in View(A, c)) => a = 0

\* The packets of c in X are those that the messages A have sent and the
\* messages B have not received.
Flow(A, X, B, c) ==
  \E a, b \in Nat : Span(X, c, a, b) /\ ReadTo(B, c, a) /\ SentTo(A, c, b)
      /\ Begins(A, X, B, c, a)

\* Nothing of c comes from B any more.
Over(B, T, c) == ~Sent(T, "PACK", c) /\ "open" \notin View(B, c)

\* From A to Z, what Flow says of the writer of c does not change.
Stays(A, Z, c) ==
  \A i \in MsgIds : Z[i] # NoMsg /\ Z[i].conv = c =>
    /\ A[i] # NoMsg /\ A[i].conv = c
    /\ "SENT_DISCONNECT" \notin Z[i].status => "SENT_DISCONNECT" \notin A[i].status
    /\ ~Apart(Z[i]) => ~Apart(A[i]) /\ Base(Z[i]) = Base(A[i])

\* From A to Z, what Flow says of the reader of c does not change; a message
\* that is freed has received nothing, or will receive nothing more.
Leaves(A, Z, B, T, c) ==
  /\ \A i \in MsgIds : Z[i] # NoMsg /\ Z[i].conv = c =>
       A[i] # NoMsg /\ A[i].conv = c /\ Z[i].n_read = A[i].n_read
  /\ \A i \in MsgIds : A[i] # NoMsg /\ A[i].conv = c =>
       (Z[i] # NoMsg /\ Z[i].conv = c) \/ A[i].n_read = 0 \/ Over(B, T, c)

\* From Y to T, the packets of c are the same.
Carried(Y, T, c) ==
  /\ \A a, b \in Nat : Span(Y, c, a, b) => Span(T, c, a, b)
  /\ Sent(T, "PACK", c) <=> Sent(Y, "PACK", c)

\* No change of the frames is one.
LEMMA CarriedSame ==
  ASSUME NEW Y, NEW c
  PROVE  Carried(Y, Y, c)
BY DEF Carried

\* A conversation is open while an end has not sent DISCON for it.
LEMMA OpenView ==
  ASSUME NEW A, NEW c
  PROVE  "open" \in View(A, c) <=>
           \E i \in MsgIds : A[i] # NoMsg /\ A[i].conv = c
               /\ "SENT_DISCONNECT" \notin A[i].status
<1>1. "open" \in View(A, c) <=> \E i \in MsgIds : A[i] # NoMsg /\ A[i].conv = c
        /\ "open" \in Aspects(A[i])
  BY ViewIn
<1>2. \A i : "open" \in Aspects(A[i]) <=> "SENT_DISCONNECT" \notin A[i].status BY AspectFacts
<1> QED BY <1>1, <1>2

\* A conversation is gone at an end whose message is DISCONNECTED.
LEMMA GoneView ==
  ASSUME NEW A, NEW c
  PROVE  "gone" \in View(A, c) <=> \E i \in MsgIds : A[i] # NoMsg /\ A[i].conv = c
      /\ Apart(A[i])
<1>1. "gone" \in View(A, c) <=> \E i \in MsgIds : A[i] # NoMsg /\ A[i].conv = c
        /\ "gone" \in Aspects(A[i])
  BY ViewIn
<1>2. \A i : "gone" \in Aspects(A[i]) <=> Apart(A[i]) BY AspectFacts DEF Apart
<1> QED BY <1>1, <1>2

\* A step that neither sends nor receives is no change to a writer ...
LEMMA GoesStays ==
  ASSUME NEW A, NEW Z, Goes(A, Z), NEW c
  PROVE  Stays(A, Z, c)
BY DEF Goes, Kept, Stays, Apart

\* ... nor to a reader, when a conversation that is gone is over.
LEMMA GoesLeaves ==
  ASSUME NEW A, NEW Z, Goes(A, Z), NEW c, NEW B, NEW T, "gone" \in View(A, c) => Over(B, T, c)
  PROVE  Leaves(A, Z, B, T, c)
<1>1. ASSUME NEW i \in MsgIds, Z[i] # NoMsg, Z[i].conv = c
      PROVE  A[i] # NoMsg /\ A[i].conv = c /\ Z[i].n_read = A[i].n_read
  BY <1>1 DEF Goes, Kept
<1>2. ASSUME NEW i \in MsgIds, A[i] # NoMsg, A[i].conv = c
      PROVE  (Z[i] # NoMsg /\ Z[i].conv = c) \/ A[i].n_read = 0 \/ Over(B, T, c)
  <2>1. CASE Z[i] # NoMsg BY <1>2, <2>1 DEF Goes, Kept
  <2>2. CASE Z[i] = NoMsg
    <3>1. Apart(A[i]) \/ A[i].n_read = 0 BY <1>2, <2>2 DEF Goes, Spent
    <3>2. Apart(A[i]) => "gone" \in View(A, c) BY <1>2, GoneView
    <3> QED BY <3>1, <3>2
  <2> QED BY <2>1, <2>2
<1> QED BY <1>1, <1>2 DEF Leaves

\* The writer takes such a step.
LEMMA FlowOut ==
  ASSUME NEW A, NEW X, NEW B, NEW c, Flow(A, X, B, c), NEW Z, Stays(A, Z, c), NEW S,
         Carried(X, S, c)
  PROVE  Flow(Z, S, B, c)
<1>1. PICK a \in Nat, b \in Nat : Span(X, c, a, b) /\ ReadTo(B, c, a) /\ SentTo(A, c, b)
        /\ Begins(A, X, B, c, a)
  BY DEF Flow
<1>2. Span(S, c, a, b) BY <1>1 DEF Carried
<1>3. SentTo(Z, c, b) BY <1>1 DEF SentTo, Stays
<1>4. "open" \in View(Z, c) => "open" \in View(A, c) BY OpenView DEF Stays
<1>5. Begins(Z, S, B, c, a) BY <1>1, <1>4 DEF Begins, Carried
<1> QED BY <1>1, <1>2, <1>3, <1>5 DEF Flow

\* The reader takes such a step.
LEMMA FlowIn ==
  ASSUME NEW B, NEW Y, NEW A, NEW c, Flow(B, Y, A, c), NEW T, Carried(Y, T, c), NEW Z,
         Leaves(A, Z, B, T, c)
  PROVE  Flow(B, T, Z, c)
<1>1. PICK a \in Nat, b \in Nat : Span(Y, c, a, b) /\ ReadTo(A, c, a) /\ SentTo(B, c, b)
        /\ Begins(B, Y, A, c, a)
  BY DEF Flow
<1>2. Span(T, c, a, b) BY <1>1 DEF Carried
<1>3. ReadTo(Z, c, a) BY <1>1 DEF ReadTo, Leaves
<1>4. ASSUME "alive" \notin View(Z, c), Sent(T, "PACK", c) \/ "open" \in View(B, c) PROVE a = 0
  <2>1. CASE "alive" \notin View(A, c) BY <1>1, <1>4, <2>1 DEF Begins, Carried
  <2>2. CASE "alive" \in View(A, c)
    <3>1. PICK i \in MsgIds : A[i] # NoMsg /\ A[i].conv = c BY <2>2, AliveIn
    <3>2. ~(Z[i] # NoMsg /\ Z[i].conv = c) BY <1>4, AliveIn
    <3>3. ~Over(B, T, c) BY <1>4 DEF Over
    <3>4. A[i].n_read = 0 BY <3>1, <3>2, <3>3 DEF Leaves
    <3> QED BY <1>1, <3>1, <3>4 DEF ReadTo
  <2> QED BY <2>1, <2>2
<1>5. Begins(B, T, Z, c, a) BY <1>4 DEF Begins
<1> QED BY <1>1, <1>2, <1>3, <1>5 DEF Flow

\* A conversation that is gone at one end is over, by LinkInv: DISCON is the
\* last frame an end sends.
LEMMA GoneOver ==
  ASSUME NEW p, NEW A, NEW X, NEW B, NEW Y, NEW U, NEW R, NEW mi, NEW c,
         Facing(p, A, X, B, Y, U, R, mi, c), "gone" \in View(A, c), NEW y,
         Sent(y, "PACK", c) => Sent(Y, "PACK", c)
  PROVE  Over(B, y, c)
BY DEF Facing, Pair, Half, Over

\* A frame that is no packet of c is read.
LEMMA CarriedTail ==
  ASSUME NEW Y \in Seq(Tokens), Y # << >>, NEW c, ~Of(Head(Y), "PACK", c)
  PROVE  Carried(Y, Tail(Y), c)
<1>1. \A a, b \in Nat : Span(Y, c, a, b) => Span(Tail(Y), c, a, b) BY SpanTail
<1>2. Sent(Tail(Y), "PACK", c) <=> Sent(Y, "PACK", c)
  <2>1. CASE Head(Y).conv # c BY <2>1, TailOther DEF Kinds
  <2>2. CASE Head(Y).conv = c
    <3>1. Kind(Head(Y)) # "PACK" BY <2>2 DEF Of
    <3>2. "PACK" \in Kinds \ {Kind(Head(Y))} BY <3>1 DEF Kinds
    <3> QED BY <2>2, <3>2, TailOwn
  <2> QED BY <2>1, <2>2
<1> QED BY <1>1, <1>2 DEF Carried

\* A frame that is no packet of c is sent.
LEMMA CarriedAppend ==
  ASSUME NEW X \in Seq(Tokens), NEW t \in Tokens, NEW c, ~Of(t, "PACK", c)
  PROVE  Carried(X, Append(X, t), c)
<1>1. \A a, b \in Nat : Span(X, c, a, b) => Span(Append(X, t), c, a, b) BY SpanSkip
<1>2. Sent(Append(X, t), "PACK", c) <=> Sent(X, "PACK", c)
  <2>1. CASE t.conv # c BY <2>1, AppendOther DEF Kinds
  <2>2. CASE t.conv = c
    <3>1. Kind(t) # "PACK" BY <2>2 DEF Of
    <3> QED BY <2>2, <3>1, AppendOwn DEF Kinds
  <2> QED BY <2>1, <2>2
<1> QED BY <1>1, <1>2 DEF Carried

----------------------------------------------------------------------------
(* Steps at one message only. *)

\* From A to Z only the message id changes, and it is the only one of c.
Lone(A, Z, id, c) ==
  /\ \A j \in MsgIds \ {id} : Z[j] = A[j] /\ ~(A[j] # NoMsg /\ A[j].conv = c)
  /\ A[id] # NoMsg => A[id].conv = c
  /\ Z[id] # NoMsg => Z[id].conv = c

\* A message that is there is the only one of its conversation.
LEMMA UniqueLone ==
  ASSUME NEW A, Unique(A), NEW id \in MsgIds, NEW c, A[id] # NoMsg, A[id].conv = c, NEW Z,
         \A j \in MsgIds \ {id} : Z[j] = A[j], Z[id] # NoMsg => Z[id].conv = c
  PROVE  Lone(A, Z, id, c)
BY DEF Unique, Lone

\* So is one that is made for a conversation that has none.
LEMMA NewLone ==
  ASSUME NEW A, NEW id \in MsgIds, NEW c, A[id] = NoMsg, "alive" \notin View(A, c), NEW Z,
         \A j \in MsgIds \ {id} : Z[j] = A[j], Z[id] # NoMsg => Z[id].conv = c
  PROVE  Lone(A, Z, id, c)
BY AliveIn DEF Lone

\* The other conversations see nothing of the step.
LEMMA LoneElse ==
  ASSUME NEW A, NEW Z, NEW id \in MsgIds, NEW c, Lone(A, Z, id, c), NEW d, d # c, NEW B, NEW T
  PROVE  Stays(A, Z, d) /\ Leaves(A, Z, B, T, d)
<1>1. \A i \in MsgIds : Z[i] # NoMsg /\ Z[i].conv = d => Z[i] = A[i] BY DEF Lone
<1>2. \A i \in MsgIds : A[i] # NoMsg /\ A[i].conv = d => Z[i] = A[i] BY DEF Lone
<1>3. Stays(A, Z, d) BY <1>1 DEF Stays
<1>4. Leaves(A, Z, B, T, d) BY <1>1, <1>2 DEF Leaves
<1> QED BY <1>3, <1>4

\* The writer hands its next packet to the socket.
LEMMA FlowSend ==
  ASSUME NEW A, NEW X \in Seq(Tokens), NEW B, NEW c, Flow(A, X, B, c), NEW id \in MsgIds,
         NEW Z, Lone(A, Z, id, c), A[id] # NoMsg, ~Apart(A[id]),
         "SENT_DISCONNECT" \notin A[id].status, NEW t \in Tokens, Of(t, "PACK", c), NEW v,
         v = Base(A[id]), t.seq = v + 1, ~Apart(Z[id]) => Base(Z[id]) = v + 1
  PROVE  Flow(Z, Append(X, t), B, c)
<1>1. PICK a \in Nat, b \in Nat : Span(X, c, a, b) /\ ReadTo(B, c, a) /\ SentTo(A, c, b)
        /\ Begins(A, X, B, c, a)
  BY DEF Flow
<1>2. A[id].conv = c BY DEF Lone
<1>3. v = b BY <1>1, <1>2 DEF SentTo
<1>4. Span(Append(X, t), c, a, b + 1) BY <1>1, <1>3, SpanAdd
<1>5. SentTo(Z, c, b + 1)
  <2>1. SUFFICES ASSUME NEW i \in MsgIds, Z[i] # NoMsg, Z[i].conv = c, ~Apart(Z[i])
          PROVE Base(Z[i]) = b + 1
    BY DEF SentTo
  <2>2. i = id BY <2>1 DEF Lone
  <2> QED BY <1>3, <2>1, <2>2
<1>6. "open" \in View(A, c) BY <1>2, OpenView
<1>7. Begins(Z, Append(X, t), B, c, a) BY <1>1, <1>6 DEF Begins
<1>8. b + 1 \in Nat OBVIOUS
<1> QED BY <1>1, <1>4, <1>5, <1>7, <1>8 DEF Flow

\* x is the packet after the n-th.
Follows(x, n) == x.seq = n + 1

\* The reader receives a packet: it is the one after the last it has
\* received.
LEMMA FlowTake ==
  ASSUME NEW B, NEW Y \in Seq(Tokens), Y # << >>, NEW A, NEW c, Of(Head(Y), "PACK", c),
         Flow(B, Y, A, c), NEW id \in MsgIds, A[id] # NoMsg, A[id].conv = c, NEW v \in Nat,
         v = A[id].n_read
  PROVE  /\ Follows(Head(Y), v)
         /\ \A Z : Lone(A, Z, id, c) /\ Z[id] # NoMsg /\ Z[id].n_read = v + 1 =>
              Flow(B, Tail(Y), Z, c)
<1>1. PICK a \in Nat, b \in Nat : Span(Y, c, a, b) /\ ReadTo(A, c, a) /\ SentTo(B, c, b)
        /\ Begins(B, Y, A, c, a)
  BY DEF Flow
<1>2. v = a BY <1>1 DEF ReadTo
<1>3. Head(Y).seq = a + 1 /\ Span(Tail(Y), c, a + 1, b) BY <1>1, SpanTake
<1>4. ASSUME NEW Z, Lone(A, Z, id, c), Z[id] # NoMsg, Z[id].n_read = v + 1
        PROVE Flow(B, Tail(Y), Z, c)
  <2>1. ReadTo(Z, c, a + 1)
    <3>1. SUFFICES ASSUME NEW i \in MsgIds, Z[i] # NoMsg, Z[i].conv = c
            PROVE Z[i].n_read = a + 1
      BY DEF ReadTo
    <3>2. i = id BY <1>4, <3>1 DEF Lone
    <3> QED BY <1>2, <1>4, <3>2
  <2>2. Z[id].conv = c BY <1>4 DEF Lone
  <2>3. "alive" \in View(Z, c) BY <1>4, <2>2, AliveIn
  <2>4. Begins(B, Tail(Y), Z, c, a + 1) BY <2>3 DEF Begins
  <2>5. a + 1 \in Nat OBVIOUS
  <2> QED BY <1>1, <1>3, <2>1, <2>4, <2>5 DEF Flow
<1>5. Follows(Head(Y), v) BY <1>2, <1>3 DEF Follows
<1> QED BY <1>4, <1>5

\* A packet arrives that makes a message: it is the first one.
LEMMA FlowCreate ==
  ASSUME NEW B, NEW Y \in Seq(Tokens), Y # << >>, NEW A, NEW c, Of(Head(Y), "PACK", c),
         Flow(B, Y, A, c), "alive" \notin View(A, c), NEW id \in MsgIds
  PROVE  /\ Head(Y).seq = 1
         /\ \A Z : Lone(A, Z, id, c) /\ Z[id] # NoMsg /\ Z[id].n_read = 1 =>
              Flow(B, Tail(Y), Z, c)
<1>1. PICK a \in Nat, b \in Nat : Span(Y, c, a, b) /\ ReadTo(A, c, a) /\ SentTo(B, c, b)
        /\ Begins(B, Y, A, c, a)
  BY DEF Flow
<1>2. Sent(Y, "PACK", c)
  <2>1. Head(Y) = Y[1] /\ 1 \in 1 .. Len(Y) BY TailAt
  <2> QED BY <2>1 DEF Sent
<1>3. a = 0 BY <1>1, <1>2 DEF Begins
<1>4. Head(Y).seq = a + 1 /\ Span(Tail(Y), c, a + 1, b) BY <1>1, SpanTake
<1>5. a + 1 = 1 BY <1>3
<1>6. ASSUME NEW Z, Lone(A, Z, id, c), Z[id] # NoMsg, Z[id].n_read = 1
        PROVE Flow(B, Tail(Y), Z, c)
  <2>1. ReadTo(Z, c, 1)
    <3>1. SUFFICES ASSUME NEW i \in MsgIds, Z[i] # NoMsg, Z[i].conv = c PROVE Z[i].n_read = 1
      BY DEF ReadTo
    <3>2. i = id BY <1>6, <3>1 DEF Lone
    <3> QED BY <1>6, <3>2
  <2>2. Z[id].conv = c BY <1>6 DEF Lone
  <2>3. "alive" \in View(Z, c) BY <1>6, <2>2, AliveIn
  <2>4. Begins(B, Tail(Y), Z, c, 1) BY <2>3 DEF Begins
  <2>5. Span(Tail(Y), c, 1, b) BY <1>4, <1>5
  <2> QED BY <1>1, <2>1, <2>4, <2>5 DEF Flow
<1> QED BY <1>4, <1>5, <1>6

\* A conversation in which nothing was sent.
LEMMA FlowFresh ==
  ASSUME NEW A, NEW X, NEW B, NEW c, ~Sent(X, "PACK", c), ReadTo(B, c, 0), SentTo(A, c, 0)
  PROVE  Flow(A, X, B, c)
<1>1. Span(X, c, 0, 0) BY SpanNone
<1>2. Begins(A, X, B, c, 0) BY DEF Begins
<1> QED BY <1>1, <1>2 DEF Flow

\* An end without a message of c has neither sent nor received in it.
LEMMA NoneTo ==
  ASSUME NEW A, NEW c, "alive" \notin View(A, c)
  PROVE  ReadTo(A, c, 0) /\ SentTo(A, c, 0)
BY AliveIn DEF ReadTo, SentTo

\* Nor has one whose only message of c has just been made.
LEMMA LoneTo ==
  ASSUME NEW A, NEW Z, NEW id \in MsgIds, NEW c, Lone(A, Z, id, c)
  PROVE  /\ Z[id] # NoMsg /\ Z[id].n_read = 0 => ReadTo(Z, c, 0)
         /\ ~Apart(Z[id]) /\ Base(Z[id]) = 0 => SentTo(Z, c, 0)
BY DEF ReadTo, SentTo, Lone

\* A message that LinkInv says has read nothing has received nothing.
LEMMA UnreadTo ==
  ASSUME NEW B, Unique(B), NEW c, "alive" \in View(B, c) => "unread" \in View(B, c)
  PROVE  ReadTo(B, c, 0)
<1>1. SUFFICES ASSUME NEW i \in MsgIds, B[i] # NoMsg, B[i].conv = c PROVE B[i].n_read = 0
  BY DEF ReadTo
<1>2. "alive" \in View(B, c) BY <1>1, AliveIn
<1>3. View(B, c) = Aspects(B[i]) BY <1>1, ViewOf
<1> QED BY <1>2, <1>3, AspectFacts

----------------------------------------------------------------------------
(* The packets of all messages. *)

\* Flow, for every conversation.
Flows(A, X, B) == \A c \in Convs : Flow(A, X, B, c)

\* The packets of y are among those of Y.
Within(y, Y) == \A c : Sent(y, "PACK", c) => Sent(Y, "PACK", c)

\* The step of one end from s to t, the other end having the messages B: its
\* socket goes from ch to k and the other end's socket is T after it. The
\* packets stay in step in both directions.
Moves(B, s, ch, t, k, T) ==
  /\ Good(t)
  /\ Flows(s.msgs, ch, B) => Flows(t.msgs, k, B)
  /\ Unfailed(t) => Flows(B, T, t.msgs)

\* What Joint says of the end that takes a step.
LEMMA JointFaces ==
  ASSUME NEW w, NEW s, NEW ch, NEW Y, NEW mi, Joint(w, s, ch, Y, mi)
  PROVE  /\ s \in Switches(Convs) /\ ch \in Seq(Tokens) /\ Y \in Seq(Tokens) /\ s.msgs \in Slots
         /\ Loc(Convs, s) /\ Unique(s.msgs) /\ Unique(w.B)
         /\ \A c \in Convs : Facing(w.p, s.msgs, ch \o s.pending_resps, w.B, Y, w.U, w.R, mi, c)
BY LinkFacts DEF Joint, Linked, Side

\* A step that neither sends nor receives a packet, with the same packets in
\* the sockets ...
LEMMA FaresMoves ==
  ASSUME NEW w, NEW s, NEW ch, NEW Y, NEW mi, Joint(w, s, ch, Y, mi), NEW y, Within(y, Y),
         Flows(w.B, y, s.msgs), NEW t, Fares(s, t), NEW k, \A c \in Convs : Carried(ch, k, c),
         NEW T, \A c \in Convs : Carried(y, T, c)
  PROVE  Moves(w.B, s, ch, t, k, T)
<1>1. Good(t) /\ Goes(s.msgs, t.msgs) BY DEF Fares
<1> DEFINE A == s.msgs
           Z == t.msgs
           B == w.B
           X == ch \o s.pending_resps
<1>2. Goes(A, Z) BY <1>1
<1>3. \A c \in Convs : Facing(w.p, A, X, B, Y, w.U, w.R, mi, c) BY JointFaces
<1>4. Flows(B, y, A) OBVIOUS
<1> HIDE DEF A, Z, B, X
<1>5. ASSUME NEW c \in Convs, Flow(A, ch, B, c) PROVE Flow(Z, k, B, c)
  BY <1>2, <1>5, GoesStays, FlowOut
<1>6. ASSUME NEW c \in Convs PROVE Flow(B, T, Z, c)
  <2>1. Flow(B, y, A, c) BY <1>4 DEF Flows
  <2>2. Carried(y, T, c) OBVIOUS
  <2>3. Sent(T, "PACK", c) => Sent(Y, "PACK", c) BY <2>2 DEF Carried, Within
  <2>4. "gone" \in View(A, c) => Over(B, T, c) BY <1>3, <2>3, GoneOver
  <2>5. Leaves(A, Z, B, T, c) BY <1>2, <2>4, GoesLeaves
  <2> QED BY <2>1, <2>2, <2>5, FlowIn
<1>7. Flows(A, ch, B) => Flows(Z, k, B) BY <1>5 DEF Flows
<1>8. Flows(B, T, Z) BY <1>6 DEF Flows
<1> QED BY <1>1, <1>7, <1>8 DEF Moves, A, Z, B

\* ... or the same frames.
LEMMA CallMoves ==
  ASSUME NEW w, NEW s, NEW ch, NEW Y, NEW mi, Joint(w, s, ch, Y, mi), NEW y, Within(y, Y),
         Flows(w.B, y, s.msgs), NEW t, Fares(s, t)
  PROVE  Moves(w.B, s, ch, t, ch, y)
<1>1. (\A c \in Convs : Carried(ch, ch, c)) /\ \A c \in Convs : Carried(y, y, c) BY CarriedSame
<1> QED BY <1>1, FaresMoves

\* One message changes: the packets of its conversation have to be shown to
\* be in step.
LEMMA LoneMoves ==
  ASSUME NEW s, NEW ch, NEW B, NEW y, Flows(B, y, s.msgs), NEW t, Good(t), NEW id \in MsgIds,
         NEW c \in Convs, Lone(s.msgs, t.msgs, id, c), NEW k, NEW T,
         \A d \in Convs : d # c => Carried(ch, k, d) /\ Carried(y, T, d),
         Flow(s.msgs, ch, B, c) => Flow(t.msgs, k, B, c), Flow(B, T, t.msgs, c)
  PROVE  Moves(B, s, ch, t, k, T)
<1> DEFINE A == s.msgs
           Z == t.msgs
<1>1. Lone(A, Z, id, c) /\ Flows(B, y, A) /\ (Flow(A, ch, B, c) => Flow(Z, k, B, c))
        /\ Flow(B, T, Z, c) OBVIOUS
<1> HIDE DEF A, Z
<1>2. ASSUME NEW d \in Convs, Flow(A, ch, B, d) PROVE Flow(Z, k, B, d)
  <2>1. CASE d = c BY <1>1, <1>2, <2>1
  <2>2. CASE d # c
    <3>1. Stays(A, Z, d) BY <1>1, <2>2, LoneElse
    <3> QED BY <1>2, <2>2, <3>1, FlowOut
  <2> QED BY <2>1, <2>2
<1>3. ASSUME NEW d \in Convs PROVE Flow(B, T, Z, d)
  <2>1. CASE d = c BY <1>1, <2>1
  <2>2. CASE d # c
    <3>1. Leaves(A, Z, B, T, d) BY <1>1, <2>2, LoneElse
    <3>2. Flow(B, y, A, d) BY <1>1 DEF Flows
    <3> QED BY <2>2, <3>1, <3>2, FlowIn
  <2> QED BY <2>1, <2>2
<1>4. Flows(A, ch, B) => Flows(Z, k, B) BY <1>2 DEF Flows
<1>5. Flows(B, T, Z) BY <1>3 DEF Flows
<1> QED BY <1>4, <1>5 DEF Moves, A, Z

\* A switch in which one message is replaced.
LEMMA GoodPut ==
  ASSUME NEW s, Good(s), NEW t \in Switches(Convs), NEW id \in MsgIds,
         \A j \in MsgIds \ {id} : t.msgs[j] = s.msgs[j],
         t.msgs[id] # NoMsg => Numb(t.msgs[id]) /\ Shut(t.msgs[id])
  PROVE  Good(t)
BY DEF Good

----------------------------------------------------------------------------
(* A packet is read, or written. *)

\* An edit of one message leaves a good switch.
LEMMA EditGood ==
  ASSUME NEW g \in Switches(Convs), NEW id \in MsgIds, NEW n \in Messages(Convs), NEW t,
         Edits(Convs, g, t, id, n), Numb(n), Shut(n), NEW s, Good(s),
         \A j \in MsgIds \ {id} : g.msgs[j] = s.msgs[j]
  PROVE  /\ Good(t) /\ t.msgs[id] # NoMsg /\ Kept(n, t.msgs[id]) /\ t.failed = g.failed
         /\ \A j \in MsgIds \ {id} : t.msgs[j] = s.msgs[j]
<1>1. /\ t \in Switches(Convs) /\ t.msgs[id] = Settled(n)
      /\ \A j \in MsgIds \ {id} : t.msgs[j] = g.msgs[j]
      /\ t.failed = g.failed
  BY EditsAt
<1>2. Numb(Settled(n)) /\ Kept(n, Settled(n)) /\ Shut(Settled(n)) BY SettledNumb
<1>3. Settled(n) # NoMsg BY SettledFacts, MessageFacts
<1>4. \A j \in MsgIds \ {id} : t.msgs[j] = s.msgs[j] BY <1>1
<1>5. Good(t) BY <1>1, <1>2, <1>4, GoodPut
<1> QED BY <1>1, <1>2, <1>3, <1>4, <1>5

\* A packet of a message that is there is received.
LEMMA PackMoves ==
  ASSUME NEW B, NEW s, Good(s), Unique(s.msgs), NEW ch, NEW y \in Seq(Tokens), y # << >>,
         Flows(B, y, s.msgs), NEW x \in Packets(Convs), x = Head(y), NEW id \in MsgIds,
         Exists(s, id), NEW c \in Convs, Of(x, "PACK", c), s.msgs[id].conv = c
  PROVE  Moves(B, s, ch, msg_push_read_packet(s, id, x), ch, Tail(y))
<1> DEFINE m == s.msgs[id]
           t == msg_push_read_packet(s, id, x)
           e == x.seq
           v == m.n_read
           A == s.msgs
           Z == t.msgs
           n == PushRead(m, e)
<1>1. s \in Switches(Convs) /\ m \in Messages(Convs) /\ Numb(m) /\ Shut(m) /\ m # NoMsg
  BY GoodAt DEF Well, Exists
<1>2. Flow(B, y, A, c) BY DEF Flows
<1>3. Of(Head(y), "PACK", c) OBVIOUS
<1>4. /\ Follows(Head(y), v)
      /\ \A S : Lone(A, S, id, c) /\ S[id] # NoMsg /\ S[id].n_read = v + 1 =>
           Flow(B, Tail(y), S, c)
  <2>1. A[id] # NoMsg /\ A[id].conv = c /\ v = A[id].n_read /\ v \in Nat BY <1>1, MessageFacts
  <2> HIDE DEF A, v, m, t, e, n, Z
  <2>2. Follows(Head(y), v) BY <1>2, <1>3, <2>1, FlowTake
  <2>3. ASSUME NEW S, Lone(A, S, id, c), S[id] # NoMsg, S[id].n_read = v + 1
          PROVE Flow(B, Tail(y), S, c)
    BY <1>2, <1>3, <2>1, <2>3, FlowTake
  <2> QED BY <2>2, <2>3
<1>5. e = m.n_read + 1 BY <1>4 DEF Follows
<1>6. Edits(Convs, s, t, id, n) BY <1>1, PushReadEdits
<1> HIDE DEF e, m, t
<1>7. /\ n \in Messages(Convs) /\ Numb(n) /\ Shut(n)
      /\ n.conv = m.conv /\ n.n_read = m.n_read + 1 /\ Base(n) = Base(m)
      /\ \A f \in {"SENT_DISCONNECT", "DISCONNECTED"} : f \in n.status <=> f \in m.status
  BY <1>1, <1>5, PushReadNumb
<1>8. m.conv = c /\ s.msgs[id] = m BY DEF m
<1> HIDE DEF n
<1>9. /\ Good(t) /\ Z[id] # NoMsg /\ Kept(n, Z[id])
      /\ \A j \in MsgIds \ {id} : Z[j] = A[j]
  BY <1>1, <1>6, <1>7, EditGood
<1>10. Z[id].conv = c /\ Z[id].n_read = v + 1 BY <1>7, <1>8, <1>9 DEF Kept
<1>11. Lone(A, Z, id, c)
  <2>1. Unique(A) /\ A[id] # NoMsg /\ A[id].conv = c BY <1>1, <1>8
  <2> HIDE DEF A, Z
  <2> QED BY <1>9, <1>10, <2>1, UniqueLone
<1>12. Flow(B, Tail(y), Z, c) BY <1>4, <1>9, <1>10, <1>11
<1>13. Stays(A, Z, c)
  <2>1. SUFFICES ASSUME NEW i \in MsgIds, Z[i] # NoMsg, Z[i].conv = c
        PROVE  /\ A[i] # NoMsg /\ A[i].conv = c
               /\ "SENT_DISCONNECT" \notin Z[i].status => "SENT_DISCONNECT" \notin A[i].status
               /\ ~Apart(Z[i]) => ~Apart(A[i]) /\ Base(Z[i]) = Base(A[i])
    BY DEF Stays
  <2>2. i = id BY <1>11, <2>1 DEF Lone
  <2>3. A[i] = m BY <1>8, <2>2
  <2>4. Kept(n, Z[i]) BY <1>9, <2>2
  <2> HIDE DEF A, Z
  <2> QED BY <1>1, <1>7, <1>8, <2>3, <2>4 DEF Kept, Apart
<1>14. Flow(A, ch, B, c) => Flow(Z, ch, B, c) BY <1>13, FlowOut, CarriedSame
<1>15. ASSUME NEW d \in Convs, d # c PROVE Carried(ch, ch, d) /\ Carried(y, Tail(y), d)
  <2>1. ~Of(Head(y), "PACK", d) BY <1>3, <1>15 DEF Of
  <2> QED BY <2>1, CarriedSame, CarriedTail
<1>16. Moves(B, s, ch, t, ch, Tail(y)) BY <1>9, <1>11, <1>12, <1>14, <1>15, LoneMoves
<1> QED BY <1>16 DEF t

\* A packet is received that makes a message.
LEMMA CreateMoves ==
  ASSUME NEW B, Unique(B), NEW s, Good(s), NEW ch, NEW y \in Seq(Tokens), y # << >>,
         Flows(B, y, s.msgs), NEW x \in Packets(Convs), x = Head(y), NEW c \in Convs,
         Of(x, "PACK", c), "alive" \notin View(s.msgs, c), ~Sent(ch, "PACK", c),
         "alive" \in View(B, c) => "unread" \in View(B, c), NEW i \in MsgIds,
         NEW id \in MsgIds, id = msg_get_avail_msgid(s)
  PROVE  Moves(B, s, ch, msg_push_read_packet(Joined(s, c, i), id, x), ch, Tail(y))
<1> DEFINE g == Joined(s, c, i)
           m == NewFor(c, i)
           t == msg_push_read_packet(g, id, x)
           e == x.seq
           A == s.msgs
           Z == t.msgs
           n == PushRead(m, e)
<1>1. s \in Switches(Convs) BY DEF Good
<1>2. s.msgs[id] = NoMsg
  <2>1. id # -1 BY DEF MsgIds
  <2> QED BY <1>1, <2>1, AvailFacts
<1>3. Flow(B, y, A, c) BY DEF Flows
<1>4. Of(Head(y), "PACK", c) OBVIOUS
<1>5. /\ Head(y).seq = 1
      /\ \A S : Lone(A, S, id, c) /\ S[id] # NoMsg /\ S[id].n_read = 1 => Flow(B, Tail(y), S, c)
  <2>1. "alive" \notin View(A, c) OBVIOUS
  <2> HIDE DEF A
  <2> QED BY <1>3, <1>4, <2>1, FlowCreate
<1>6. Joins(Convs, s, g, id, c, i) BY <1>1, JoinedJoins
<1> HIDE DEF g
<1>7. g \in Switches(Convs) /\ g.msgs[id] = m /\ \A j \in MsgIds \ {id} : g.msgs[j] = s.msgs[j]
  <2>1. s.msgs \in [MsgIds -> Messages(Convs) \cup {NoMsg}] BY <1>1, SwitchFacts
  <2>2. g.msgs = [s.msgs EXCEPT ![id] = m] /\ g \in Switches(Convs) BY <1>6 DEF Joins
  <2> HIDE DEF m
  <2> QED BY <2>1, <2>2
<1>8. i \in 0 .. MaxMsgId BY MaxMsgIdAssumption DEF MsgIds
<1>9. /\ m \in Messages(Convs) /\ m.conv = c /\ m.n_writ = 0 /\ m.n_read = 0
      /\ m.incomplete = NoPacket /\ m.read_queue = << >> /\ m.writ_queue = << >>
      /\ m.status = {"SPACE_AVAIL_FOR_READ", "SPACE_AVAIL_FOR_WRIT"}
  BY <1>8, NewFacts
<1> HIDE DEF m
<1>10. Numb(m) /\ Shut(m) /\ Base(m) = 0 BY <1>9, NewNumb
<1>11. e = m.n_read + 1 BY <1>5, <1>9
<1>12. Edits(Convs, g, t, id, n) BY <1>7, <1>9, PushReadEdits
<1> HIDE DEF e, t
<1>13. /\ n \in Messages(Convs) /\ Numb(n) /\ Shut(n)
       /\ n.conv = m.conv /\ n.n_read = m.n_read + 1 /\ Base(n) = Base(m)
       /\ \A f \in {"SENT_DISCONNECT", "DISCONNECTED"} : f \in n.status <=> f \in m.status
  BY <1>9, <1>10, <1>11, PushReadNumb
<1> HIDE DEF n
<1>14. /\ Good(t) /\ Z[id] # NoMsg /\ Kept(n, Z[id])
       /\ \A j \in MsgIds \ {id} : Z[j] = A[j]
  BY <1>7, <1>12, <1>13, EditGood
<1>15. Z[id].conv = c /\ Z[id].n_read = 1 /\ (~Apart(Z[id]) => Base(Z[id]) = 0)
  BY <1>9, <1>10, <1>13, <1>14 DEF Kept, Apart
<1>16. Lone(A, Z, id, c)
  <2>1. A[id] = NoMsg /\ "alive" \notin View(A, c) BY <1>2
  <2> HIDE DEF A, Z
  <2> QED BY <1>14, <1>15, <2>1, NewLone
<1>17. Flow(B, Tail(y), Z, c) BY <1>5, <1>14, <1>15, <1>16
<1>18. SentTo(Z, c, 0)
  <2>1. SUFFICES ASSUME NEW j \in MsgIds, Z[j] # NoMsg, Z[j].conv = c, ~Apart(Z[j])
          PROVE Base(Z[j]) = 0
    BY DEF SentTo
  <2>2. j = id BY <1>16, <2>1 DEF Lone
  <2> QED BY <1>15, <2>1, <2>2
<1>19. ReadTo(B, c, 0) BY UnreadTo
<1>20. Flow(Z, ch, B, c) BY <1>18, <1>19, FlowFresh
<1>21. ASSUME NEW d \in Convs, d # c PROVE Carried(ch, ch, d) /\ Carried(y, Tail(y), d)
  <2>1. ~Of(Head(y), "PACK", d) BY <1>4, <1>21 DEF Of
  <2> QED BY <2>1, CarriedSame, CarriedTail
<1>22. Moves(B, s, ch, t, ch, Tail(y)) BY <1>14, <1>16, <1>17, <1>20, <1>21, LoneMoves
<1> QED BY <1>22 DEF t, g

\* A packet is handed to the socket.
LEMMA SendMoves ==
  ASSUME NEW w, NEW s, NEW ch, NEW Y, NEW mi, Joint(w, s, ch, Y, mi), Good(s),
         s.pending_resps = << >>, s.pending_msgs # << >>, NEW id, id = Head(s.pending_msgs),
         id # Dangling, NEW m, s.msgs[id] = m, m.writ_queue # << >>, NEW y, Within(y, Y),
         Flows(w.B, y, s.msgs)
  PROVE  Moves(w.B, s, ch, msg_pop_writ_packet(Popped(s), id), Append(ch, Head(m.writ_queue)),
               y)
<1> DEFINE u == Popped(s)
           c == m.conv
           x == Head(m.writ_queue)
           n == PopWrit(m)
           t == msg_pop_writ_packet(u, id)
           A == s.msgs
           Z == t.msgs
           B == w.B
           X == ch \o s.pending_resps
           v == Base(m)
<1>1. Loc(Convs, s) /\ Link(w, s, ch, Y, mi) BY DEF Joint
<1>2. /\ id \in MsgIds /\ Exists(s, id) /\ u \in Switches(Convs)
      /\ u.msgs = s.msgs
      /\ "DISCONNECTED" \notin s.msgs[id].status => "WRITING" \in s.msgs[id].status
  BY <1>1, PoppedFacts
<1>3. m \in Messages(Convs) /\ Sound(m) /\ Named(w.p, id, m, w.O) BY <1>2, JointAt
<1>4. Numb(m) /\ Shut(m) /\ m # NoMsg /\ c \in Convs
  BY <1>2, <1>3, GoodAt, MessageFacts DEF Well
<1>5. "DISCONNECTED" \notin m.status BY <1>3 DEF Named
<1>6. "SENT_DISCONNECT" \notin m.status
  <2>1. "WRITING" \in m.status BY <1>2, <1>5
  <2> QED BY <1>3, <1>5, <2>1 DEF Sound
<1>7. x \in Tokens /\ Of(x, "PACK", c)
  <2> DEFINE a == m.writ_queue
  <2>1. a \in Seq(Packets(Convs)) /\ a # << >> BY <1>3, MessageFacts
  <2>2. \A i \in 1 .. Len(a) : Mine(w.p, m.conv, a[i]) BY <1>3 DEF Named
  <2> HIDE DEF a
  <2>3. Head(a) \in Packets(Convs) /\ Head(a) = a[1] /\ 1 \in 1 .. Len(a) BY <2>1
  <2>4. Head(a).kind = "PACK" /\ Head(a) \in Tokens BY <2>3 DEF Packets, Tokens
  <2>5. Head(a).conv = c BY <2>2, <2>3 DEF Mine
  <2>6. Of(Head(a), "PACK", c) BY <2>4, <2>5, PackOf
  <2> QED BY <2>4, <2>6 DEF a
<1>8. /\ Numb(n) /\ Base(n) = Base(m) + 1 /\ Base(m) >= 0 /\ x.seq = Base(m) + 1
      /\ n.conv = m.conv /\ n.n_read = m.n_read
      /\ \A f \in {"SENT_DISCONNECT", "DISCONNECTED"} : f \in n.status <=> f \in m.status
      /\ Shut(n)
  BY <1>3, <1>4, PopWritNumb
<1>9. n \in Messages(Convs) BY <1>3, PopWritFacts
<1>10. Edits(Convs, u, t, id, n) BY <1>2, <1>3, PopWritEdits
<1>11. /\ ch \in Seq(Tokens) /\ Unique(A)
       /\ Facing(w.p, A, X, B, Y, w.U, w.R, mi, c)
  BY <1>4, JointFaces
<1> HIDE DEF u, n, t, x
<1>12. /\ Good(t) /\ Z[id] # NoMsg /\ Kept(n, Z[id])
       /\ \A j \in MsgIds \ {id} : Z[j] = A[j]
  BY <1>2, <1>8, <1>9, <1>10, EditGood
<1>13. Z[id].conv = c /\ Z[id].n_read = m.n_read /\ (~Apart(Z[id]) => Base(Z[id]) = v + 1)
  BY <1>8, <1>12 DEF Kept, Apart
<1>14. A[id] = m /\ v = Base(A[id]) /\ x.seq = v + 1 BY <1>8
<1> HIDE DEF A, Z, v, X, B
<1>15. Lone(A, Z, id, c)
  <2>1. A[id] # NoMsg /\ A[id].conv = c BY <1>4, <1>14
  <2> HIDE DEF c
  <2> QED BY <1>2, <1>11, <1>12, <1>13, <2>1, UniqueLone
<1>16. Flow(A, ch, B, c) => Flow(Z, Append(ch, x), B, c)
  <2>1. A[id] # NoMsg /\ ~Apart(A[id]) /\ "SENT_DISCONNECT" \notin A[id].status
    BY <1>4, <1>5, <1>6, <1>14 DEF Apart
  <2> HIDE DEF c
  <2> QED BY <1>2, <1>7, <1>11, <1>13, <1>14, <1>15, <2>1, FlowSend
<1>17. Flows(B, y, A) BY DEF B, A
<1>18. Flow(B, y, Z, c)
  <2>1. Leaves(A, Z, B, y, c)
    <3>1. ASSUME NEW i \in MsgIds, Z[i] # NoMsg, Z[i].conv = c
          PROVE  A[i] # NoMsg /\ A[i].conv = c /\ Z[i].n_read = A[i].n_read
      <4>1. i = id BY <1>15, <3>1 DEF Lone
      <4> QED BY <1>4, <1>13, <1>14, <4>1
    <3>2. ASSUME NEW i \in MsgIds, A[i] # NoMsg, A[i].conv = c
          PROVE  Z[i] # NoMsg /\ Z[i].conv = c
      <4>1. i = id BY <1>15, <3>2 DEF Lone
      <4> QED BY <1>12, <1>13, <4>1
    <3> HIDE DEF c
    <3> QED BY <3>1, <3>2 DEF Leaves
  <2>2. Flow(B, y, A, c) BY <1>4, <1>17 DEF Flows
  <2> QED BY <2>1, <2>2, FlowIn, CarriedSame
<1>19. ASSUME NEW d \in Convs, d # c PROVE Carried(ch, Append(ch, x), d) /\ Carried(y, y, d)
  <2>1. ~Of(x, "PACK", d) BY <1>7, <1>19 DEF Of
  <2> QED BY <1>7, <1>11, <2>1, CarriedSame, CarriedAppend
<1>20. Moves(B, s, ch, t, Append(ch, x), y)
  <2>1. /\ Flows(B, y, s.msgs) /\ Lone(s.msgs, t.msgs, id, c)
        /\ Flow(s.msgs, ch, B, c) => Flow(t.msgs, Append(ch, x), B, c)
        /\ Flow(B, y, t.msgs, c)
    BY <1>15, <1>16, <1>17, <1>18 DEF A, Z
  <2> HIDE DEF c
  <2> QED BY <1>2, <1>4, <1>12, <1>19, <2>1, LoneMoves
<1> QED BY <1>20 DEF t, u, x, B

----------------------------------------------------------------------------
(* The other frames. *)

\* A response is taken from pending_resps.
LEMMA RespTail ==
  ASSUME NEW s \in Switches(Convs), s.pending_resps # << >>
  PROVE  /\ [s EXCEPT !.pending_resps = Tail(@)] \in Switches(Convs)
         /\ [s EXCEPT !.pending_resps = Tail(@)].msgs = s.msgs
         /\ Head(s.pending_resps) \in Tokens /\ \A c : ~Of(Head(s.pending_resps), "PACK", c)
<1> DEFINE r == s.pending_resps
           k == Tail(r)
<1>1. r \in Seq(Resps(Convs)) BY SwitchFacts
<1>2. k \in Seq(Resps(Convs)) BY <1>1, TailSome
<1>3. [s EXCEPT !.pending_resps = Tail(@)] = [s EXCEPT !.pending_resps = k] BY DEF Switches
<1>4. Head(r) \in Resps(Convs) /\ Head(r) = r[1] /\ 1 \in 1 .. Len(r)
  <2>1. r # << >> OBVIOUS
  <2> HIDE DEF r
  <2> QED BY <1>1, <2>1
<1>5. Head(r) \in Tokens BY <1>4 DEF Tokens
<1>6. ASSUME NEW c PROVE ~Of(Head(r), "PACK", c)
  <2>1. ~Sent(r, "PACK", c) BY <1>1, RespsNoPackets
  <2> QED BY <1>4, <2>1 DEF Sent
<1> HIDE DEF k
<1>7. [s EXCEPT !.pending_resps = k] \in Switches(Convs)
        /\ [s EXCEPT !.pending_resps = k].msgs = s.msgs
  BY <1>2 DEF Switches
<1> QED BY <1>3, <1>5, <1>6, <1>7

\* A frame is written, or nothing is when the switch fails.
LEMMA WriteMoves ==
  ASSUME NEW w, NEW s, NEW ch, NEW Y, NEW mi, Joint(w, s, ch, Y, mi), Good(s),
         HasAvailWrits(s), NEW y, Within(y, Y), Flows(w.B, y, s.msgs)
  PROVE  Moves(w.B, s, ch, msg_switch_write(s), IF WriteFails(s) THEN ch
               ELSE Append(ch, NextToken(s)), y)
<1> DEFINE t == msg_switch_write(s)
           id == Head(s.pending_msgs)
<1>1. Loc(Convs, s) /\ s \in Switches(Convs) /\ ch \in Seq(Tokens) BY JointFaces
<1>2. CASE s.pending_resps # << >>
  <2> DEFINE h == Head(s.pending_resps)
             u == [s EXCEPT !.pending_resps = Tail(@)]
  <2>1. t = u /\ ~WriteFails(s) /\ NextToken(s) = h
    BY <1>2 DEF msg_switch_write, WriteFails, NextToken
  <2>2. u \in Switches(Convs) /\ u.msgs = s.msgs /\ h \in Tokens /\ \A c : ~Of(h, "PACK", c)
    BY <1>1, <1>2, RespTail
  <2> HIDE DEF u, t, h
  <2>3. Fares(s, u) BY <2>2, SameFares
  <2>4. (\A c \in Convs : Carried(ch, Append(ch, h), c)) /\ \A c \in Convs : Carried(y, y, c)
    BY <1>1, <2>2, CarriedAppend, CarriedSame
  <2>5. Moves(w.B, s, ch, u, Append(ch, h), y) BY <2>3, <2>4, FaresMoves
  <2> QED BY <2>1, <2>5 DEF t
<1>3. CASE s.pending_resps = << >>
  <2>1. s.pending_msgs # << >> BY <1>3 DEF HasAvailWrits
  <2>2. CASE id = Dangling
    <3>1. t = Fail(s, "freed message in pending_msgs") /\ WriteFails(s)
      BY <1>3, <2>2 DEF msg_switch_write, WriteFails
    <3>2. Keeps(Convs, s, Fail(s, "freed message in pending_msgs")) BY <1>1, FailKeeps
            DEF Failures
    <3> HIDE DEF t
    <3>3. t \in Switches(Convs) /\ t.msgs = s.msgs BY <3>1, <3>2 DEF Keeps
    <3>4. Moves(w.B, s, ch, t, ch, y) BY <3>3, SameFares, CallMoves
    <3> QED BY <3>1, <3>4 DEF t
  <2>3. CASE id # Dangling
    <3> DEFINE u == Popped(s)
               m == s.msgs[id]
    <3>1. t = msg_pop_writ_packet(u, id) BY <1>3, <2>3 DEF msg_switch_write, Popped
    <3>2. u \in Switches(Convs) /\ u.msgs = s.msgs BY <1>1, <2>1, <2>3, PoppedFacts
    <3>3. CASE m.writ_queue = << >>
      <4>1. WriteFails(s) BY <1>3, <3>3 DEF WriteFails
      <4>2. msg_pop_writ_packet(u, id) = Fail(u, "NULL packet") BY <3>2, <3>3
              DEF msg_pop_writ_packet
      <4>3. Keeps(Convs, u, Fail(u, "NULL packet")) BY <3>2, FailKeeps DEF Failures
      <4> HIDE DEF t, u, m
      <4>4. Keeps(Convs, u, t) BY <3>1, <4>2, <4>3
      <4>5. t \in Switches(Convs) /\ t.msgs = s.msgs BY <3>2, <4>4 DEF Keeps
      <4>6. Moves(w.B, s, ch, t, ch, y) BY <4>5, SameFares, CallMoves
      <4> QED BY <4>1, <4>6 DEF t
    <3>4. CASE m.writ_queue # << >>
      <4>1. ~WriteFails(s) /\ NextToken(s) = Head(m.writ_queue) BY <1>3, <2>3, <3>4
              DEF WriteFails, NextToken
      <4>2. Moves(w.B, s, ch, msg_pop_writ_packet(u, id), Append(ch, Head(m.writ_queue)), y)
        BY <1>3, <2>1, <2>3, <3>4, SendMoves
      <4> HIDE DEF t, u, m
      <4> QED BY <3>1, <4>1, <4>2 DEF t
    <3> QED BY <3>3, <3>4
  <2> QED BY <2>2, <2>3
<1> QED BY <1>2, <1>3

\* The frames in the socket are among those in the socket and in
\* pending_resps.
LEMMA WithinJoin ==
  ASSUME NEW y \in Seq(Tokens), NEW r \in Seq(Tokens)
  PROVE  Within(y, y \o r)
BY JoinSent DEF Within

\* A frame that is no packet is read.
LEMMA OtherFrameMoves ==
  ASSUME NEW w, NEW s, NEW ch, NEW Y, NEW mi, Joint(w, s, ch, Y, mi), NEW y \in Seq(Tokens),
         y # << >>, Within(y, Y), Flows(w.B, y, s.msgs), Kind(Head(y)) # "PACK", NEW t,
         Fares(s, t)
  PROVE  Moves(w.B, s, ch, t, ch, Tail(y))
<1>1. \A c \in Convs : Carried(y, Tail(y), c) BY CarriedTail DEF Of
<1>2. \A c \in Convs : Carried(ch, ch, c) BY CarriedSame
<1> QED BY <1>1, <1>2, FaresMoves

\* DISCON is read by a message that has sent its own, which is freed.
LEMMA EndMoves ==
  ASSUME NEW w, NEW s, NEW ch, NEW Y, NEW mi, Joint(w, s, ch, Y, mi), Good(s),
         NEW y \in Seq(Tokens), y # << >>, Within(y, Y), Flows(w.B, y, s.msgs), NEW T,
         T = Tail(Y), Within(Tail(y), T), NEW id \in MsgIds, Exists(s, id), NEW c \in Convs,
         s.msgs[id].conv = c, First(Y, "DISCON", c), Kind(Head(y)) # "PACK"
  PROVE  Moves(w.B, s, ch, msg_free(s, id), ch, Tail(y))
<1> DEFINE t == msg_free(s, id)
           A == s.msgs
           Z == t.msgs
           B == w.B
           X == ch \o s.pending_resps
<1>1. Good(t) /\ Z[id] = NoMsg /\ \A j \in MsgIds \ {id} : Z[j] = A[j] BY FreeGood
<1>2. Y \in Seq(Tokens) /\ Unique(A) /\ Facing(w.p, A, X, B, Y, w.U, w.R, mi, c) BY JointFaces
<1>3. A[id] # NoMsg /\ A[id].conv = c /\ Flows(B, y, A) BY DEF Exists
<1> HIDE DEF t, A, Z, B, X
<1>4. Lone(A, Z, id, c) BY <1>1, <1>2, <1>3, UniqueLone
<1>5. ~Sent(T, "PACK", c) /\ "open" \notin View(B, c)
  <2>1. Y # << >> /\ Head(Y).conv = c /\ Kind(Head(Y)) = "DISCON" BY DEF First
  <2>2. Takes(Y, T, "DISCON", c) BY <1>2, <2>1, TailTakes DEF Kinds
  <2>3. Sent(Y, "DISCON", c) /\ (Ordered(Y, c) => ~Sent(T, "PACK", c)) BY <2>2 DEF Takes
  <2>4. Half(View(B, c), Y, View(A, c), c) BY <1>2 DEF Facing, Pair
  <2> QED BY <2>3, <2>4 DEF Half
<1>6. Over(B, Tail(y), c) BY <1>5 DEF Over, Within
<1>7. Stays(A, Z, c) /\ Leaves(A, Z, B, Tail(y), c)
  <2>1. ASSUME NEW i \in MsgIds, Z[i] # NoMsg, Z[i].conv = c PROVE FALSE
    BY <1>1, <1>4, <2>1 DEF Lone
  <2> QED BY <1>6, <2>1 DEF Stays, Leaves
<1>8. ASSUME NEW d \in Convs PROVE Carried(ch, ch, d) /\ Carried(y, Tail(y), d)
  BY CarriedSame, CarriedTail DEF Of
<1>9. Flow(A, ch, B, c) => Flow(Z, ch, B, c) BY <1>7, <1>8, FlowOut
<1>10. Flow(B, Tail(y), Z, c)
  <2>1. Flow(B, y, A, c) BY <1>3 DEF Flows
  <2> QED BY <1>7, <1>8, <2>1, FlowIn
<1>11. Moves(B, s, ch, t, ch, Tail(y))
  <2>1. /\ Flows(B, y, s.msgs) /\ Lone(s.msgs, t.msgs, id, c)
        /\ Flow(s.msgs, ch, B, c) => Flow(t.msgs, ch, B, c)
        /\ Flow(B, Tail(y), t.msgs, c)
    BY <1>3, <1>4, <1>9, <1>10 DEF A, Z
  <2> QED BY <1>1, <1>8, <2>1, LoneMoves
<1> QED BY <1>11 DEF t, B

\* DISCON is read by a message that answers it.
LEMMA LeftFares ==
  ASSUME NEW s, Good(s), NEW id \in MsgIds, Exists(s, id), NEW m, s.msgs[id] = m, NEW t,
         Left(Convs, s, t, id, m)
  PROVE  Fares(s, t)
<1>1. PICK k \in Messages(Convs) : Puts(s.msgs, t.msgs, id, k) /\ Departed(m, k)
        /\ k.writ_queue = << >>
  BY DEF Left, Puts
<1>2. t \in Switches(Convs) BY DEF Left, Loc
<1>3. m \in Messages(Convs) /\ Numb(m) /\ Shut(m) /\ s \in Switches(Convs) /\ m # NoMsg
  BY GoodAt DEF Well, Exists
<1>4. k.read_queue # << >> => "PACKET_AVAIL_TO_READ" \in k.status
  <2>1. m.read_queue # << >> => "PACKET_AVAIL_TO_READ" \in m.status BY <1>3 DEF Numb, Reading
  <2> QED BY <1>1, <2>1 DEF Departed
<1>5. "CLOSED" \in k.status => "CLOSED" \in m.status BY <1>1 DEF Departed
<1>6. Numb(k) /\ Kept(m, k) /\ Shut(k) BY <1>1, <1>3, <1>4, <1>5, DepartedNumb
<1>7. k # NoMsg BY <1>1, MessageFacts
<1>8. t.msgs[id] = k /\ \A j \in MsgIds \ {id} : t.msgs[j] = s.msgs[j]
  <2>1. s.msgs \in [MsgIds -> Messages(Convs) \cup {NoMsg}] BY <1>3, SwitchFacts
  <2> QED BY <1>1, <2>1 DEF Puts
<1>9. Good(t) BY <1>2, <1>6, <1>8, GoodPut
<1>10. ASSUME NEW i \in MsgIds
       PROVE  IF t.msgs[i] = NoMsg THEN s.msgs[i] = NoMsg \/ Spent(s.msgs[i])
              ELSE s.msgs[i] # NoMsg /\ Kept(s.msgs[i], t.msgs[i])
  <2>1. CASE i = id BY <1>3, <1>6, <1>7, <1>8, <2>1
  <2>2. CASE i # id BY <1>8, <2>2, KeptSelf
  <2> QED BY <2>1, <2>2
<1> QED BY <1>9, <1>10 DEF Fares, Goes

\* An acknowledgement is read.
LEMMA OkFares ==
  ASSUME NEW s, Good(s), NEW id \in MsgIds, Exists(s, id)
  PROVE  Fares(s, RecvOk(s, id))
<1>1. s \in Switches(Convs) /\ Well(Convs, s, id) BY GoodAt DEF Good
<1>2. CASE RecvOk(s, id) = s BY <1>1, <1>2, SameFares
<1>3. CASE Keeps(Convs, s, RecvOk(s, id)) BY <1>3, SameFares DEF Keeps
<1>4. CASE ~Has(s, id, "SENT_DISCONNECT") /\ Has(s, id, "WAITING_FOR_RESP")
  <2> DEFINE t == RecvOk(s, id)
  <2>1. Near(Convs, s, t, id) /\ Keen(s, t, id) BY <1>1, <1>4, RecvOkNear
  <2> HIDE DEF t
  <2>2. Fares(s, t) BY <2>1, KeenFares
  <2> QED BY <2>2 DEF t
<1> QED BY <1>1, <1>2, <1>3, <1>4, RecvOkCases

----------------------------------------------------------------------------
(* Reading a frame, and opening a message. *)

\* The end that opened c has sent its first packet, and has read none.
LEMMA FirstPacket ==
  ASSUME NEW p \in Ends, NEW A, NEW X, NEW B, NEW Y, NEW U, NEW R, NEW mi, NEW c \in Convs,
         Facing(p, A, X, B, Y, U, R, mi, c), c[1] # p, p \in R, View(A, c) = {},
         Sent(Y, "PACK", c)
  PROVE  ~Sent(X, "PACK", c) /\ ("alive" \in View(B, c) => "unread" \in View(B, c))
<1>1. Other(c[1]) = p BY ConvEnds
<1>2. Unheard(View(B, c), Y, View(A, c), X, c) BY <1>1 DEF Facing, Pair
<1> QED BY <1>2 DEF Unheard, Some, Data

\* A packet is read.
LEMMA ReadPacketMoves ==
  ASSUME NEW w, Faces(w), NEW s, NEW ch, NEW Y, NEW mi, Joint(w, s, ch, Y, mi), Good(s),
         Y # << >>, NEW x, x = Head(Y), Kind(x) = "PACK", NEW y \in Seq(Tokens), y # << >>,
         x = Head(y), Flows(w.B, y, s.msgs)
  PROVE  Moves(w.B, s, ch, ReadPacket(s, x), ch, Tail(y))
<1> DEFINE c == x.conv
           g == msg_get(s, x.id)
<1>1. /\ x \in Tokens /\ c \in Convs /\ c[3] \in MsgIds /\ x.id \in WireIds
      /\ Sent(Y, "PACK", c)
      /\ c[1] # w.p => x.id = -c[3] /\ c[1] = w.q
      /\ Facing(w.p, s.msgs, ch \o s.pending_resps, w.B, Y, w.U, w.R, mi, c)
  BY FrameFacts, JointMeets
<1>2. x \in Packets(Convs) BY <1>1, FrameKinds
<1>3. /\ Loc(Convs, s) /\ s \in Switches(Convs) /\ Y \in Seq(Tokens) /\ w.p \in Ends
         /\ w.p \in w.R
      /\ ch \in Seq(Tokens) /\ s.pending_resps \in Seq(Tokens)
  BY LinkFacts DEF Joint
<1>4. Unique(s.msgs) /\ Unique(w.B) BY JointFaces
<1>5. Of(x, "PACK", c) BY DEF Of
<1>6. CASE g # 0
  <2>1. g \in MsgIds /\ Exists(s, g) /\ s.msgs[g].conv = c BY <1>6, Resolves, JointMeets
  <2>2. ReadPacket(s, x) = msg_push_read_packet(s, g, x) BY <1>6 DEF ReadPacket
  <2> HIDE DEF g, c
  <2>3. Moves(w.B, s, ch, msg_push_read_packet(s, g, x), ch, Tail(y))
    BY <1>1, <1>2, <1>4, <1>5, <2>1, PackMoves
  <2> QED BY <2>2, <2>3
<1>7. CASE g = 0
  <2> DEFINE new == msg_get_avail_msgid(s)
             i == c[3]
  <2>1. View(s.msgs, c) = {} /\ c[1] # w.p BY <1>7, Unfound
  <2>2. x.id = -i /\ i \in MsgIds /\ -x.id = i /\ x.id < 0 /\ ~(x.id >= 0) BY <1>1, <2>1
          DEF MsgIds
  <2>3. \/ new = -1
        \/ new \in MsgIds /\ s.msgs[new] = NoMsg
    BY <1>3, AvailFacts
  <2>4. CASE new = -1
    <3> DEFINE F == "msgs[-1]"
    <3>1. ReadPacket(s, x) = Fail(s, F) BY <1>7, <2>2, <2>4 DEF ReadPacket, msg_create
    <3>2. F \in Failures /\ F # None BY DEF Failures, None
    <3> HIDE DEF F
    <3> DEFINE t == Fail(s, F)
    <3>3. t \in Switches(Convs) /\ t.msgs = s.msgs /\ ~Unfailed(t)
      BY <1>3, <3>2, FailType DEF Unfailed
    <3> HIDE DEF t
    <3>4. Good(t) BY <3>3, SameFares DEF Fares
    <3>5. Moves(w.B, s, ch, t, ch, Tail(y)) BY <3>3, <3>4 DEF Moves
    <3> QED BY <3>1, <3>5 DEF t
  <2>5. CASE new \in MsgIds
    <3>1. new # -1 BY <2>5 DEF MsgIds
    <3>2. ReadPacket(s, x) = msg_push_read_packet(Joined(s, c, i), new, x)
      BY <1>7, <2>2, <3>1 DEF ReadPacket, Joined
    <3>3. "alive" \notin View(s.msgs, c) BY <2>1
    <3>4. ~Sent(ch, "PACK", c) /\ ("alive" \in View(w.B, c) => "unread" \in View(w.B, c))
      <4> DEFINE X == ch \o s.pending_resps
                 A == s.msgs
      <4>1. Sent(X, "PACK", c) <=> Sent(ch, "PACK", c) \/ Sent(s.pending_resps, "PACK", c)
        BY <1>3, JoinSent
      <4>2. Facing(w.p, A, X, w.B, Y, w.U, w.R, mi, c) /\ View(A, c) = {} BY <1>1, <2>1
      <4> HIDE DEF X, A, c
      <4> QED BY <1>1, <1>3, <2>1, <4>1, <4>2, FirstPacket
    <3>5. new = msg_get_avail_msgid(s) OBVIOUS
    <3> HIDE DEF i, c, new, g
    <3>6. Moves(w.B, s, ch, msg_push_read_packet(Joined(s, c, i), new, x), ch, Tail(y))
      BY <1>1, <1>2, <1>4, <1>5, <2>2, <2>5, <3>3, <3>4, <3>5, CreateMoves
    <3> QED BY <3>2, <3>6
  <2> QED BY <2>3, <2>4, <2>5
<1> QED BY <1>6, <1>7

\* A frame is read.
LEMMA ReadMoves ==
  ASSUME NEW w, Faces(w), NEW s, NEW ch, NEW y \in Seq(Tokens), NEW r \in Seq(Tokens), NEW mi,
         Joint(w, s, ch, y \o r, mi), Good(s), y # << >>, NEW x, x = Head(y),
         Flows(w.B, y, s.msgs)
  PROVE  Moves(w.B, s, ch, msg_switch_read(s, x), ch, Tail(y))
<1> DEFINE Y == y \o r
           T == Tail(Y)
           c == x.conv
           g == msg_get(s, x.id)
<1>1. Joint(w, s, ch, Y, mi) /\ Y # << >> /\ x = Head(Y) /\ T = Tail(y) \o r BY JoinFacts
<1>2. Within(y, Y) /\ Within(Tail(y), T)
  <2>1. Tail(y) \in Seq(Tokens) BY TailAt
  <2> HIDE DEF Y, T
  <2> QED BY <1>1, <2>1, WithinJoin DEF Y
<1>3. T = Tail(Y) OBVIOUS
<1> HIDE DEF Y, T
<1>4. x \in Tokens /\ c \in Convs /\ x.id \in WireIds /\ Kind(x) \in Kinds
  BY <1>1, FrameFacts, JointMeets
<1>5. Loc(Convs, s) BY <1>1 DEF Joint
<1>6. CASE Kind(x) = "PACK"
  <2>1. x.kind = "PACK" BY <1>4, <1>6, FrameKinds
  <2>2. msg_switch_read(s, x) = ReadPacket(s, x) BY <2>1 DEF msg_switch_read
  <2> QED BY <1>1, <1>6, <2>2, ReadPacketMoves
<1>7. CASE Kind(x) = "DISCON"
  <2>1. x.kind # "PACK" /\ x.what = "DISCON" BY <1>4, <1>7, FrameKinds
  <2>2. Kind(Head(y)) # "PACK" BY <1>7
  <2>3. CASE g = 0
    <3>1. msg_switch_read(s, x) = s BY <2>1, <2>3 DEF msg_switch_read
    <3>2. Fares(s, s) BY SameFares DEF Good
    <3>3. Moves(w.B, s, ch, s, ch, Tail(y)) BY <1>1, <1>2, <2>2, <3>2, OtherFrameMoves
    <3> QED BY <3>1, <3>3
  <2>4. CASE g # 0
    <3>1. msg_switch_read(s, x) = RecvDiscon(s, g) BY <2>1, <2>4 DEF msg_switch_read,
            msg_recv_resp
    <3>2. g \in MsgIds /\ Exists(s, g) /\ s.msgs[g].conv = c
      <4>1. Meets(w, s, ch, Y, mi) BY <1>1, JointMeets
      <4>2. Kind(x) # "OK" BY <1>7
      <4> QED BY <1>1, <2>4, <4>1, <4>2, Resolves, SMTT(40)
    <3>3. First(Y, "DISCON", c) BY <1>1, <1>7 DEF First
    <3> DEFINE m == s.msgs[g]
               t == RecvDiscon(s, g)
    <3>4. CASE "SENT_DISCONNECT" \in m.status
      <4>1. t = msg_free(s, g) BY <3>4 DEF RecvDiscon, Has
      <4> HIDE DEF g, t, c
      <4>2. Moves(w.B, s, ch, msg_free(s, g), ch, Tail(y))
        BY <1>1, <1>2, <1>3, <1>4, <2>2, <3>2, <3>3, EndMoves
      <4> QED BY <3>1, <4>1, <4>2 DEF t
    <3>5. CASE "SENT_DISCONNECT" \notin m.status
      <4>1. s.msgs[g] = m OBVIOUS
      <4> HIDE DEF m, g
      <4>2. Left(Convs, s, t, g, m) BY <1>5, <3>2, <3>5, <4>1, RecvDisconLeft
      <4> HIDE DEF t
      <4>3. Fares(s, t) BY <3>2, <4>1, <4>2, LeftFares
      <4>4. Moves(w.B, s, ch, t, ch, Tail(y)) BY <1>1, <1>2, <2>2, <4>3, OtherFrameMoves
      <4> QED BY <3>1, <4>4 DEF t
    <3> QED BY <3>4, <3>5
  <2> QED BY <2>3, <2>4
<1>8. CASE Kind(x) = "OK"
  <2>1. x.kind # "PACK" /\ x.what = "OK" BY <1>4, <1>8, FrameKinds
  <2>2. Kind(Head(y)) # "PACK" BY <1>8
  <2>3. Fares(s, msg_switch_read(s, x))
    <3>1. CASE g = 0
      <4>1. msg_switch_read(s, x) = s BY <2>1, <3>1 DEF msg_switch_read
      <4> QED BY <4>1, SameFares DEF Good
    <3>2. CASE g # 0
      <4>1. msg_switch_read(s, x) = RecvOk(s, g) BY <2>1, <3>2 DEF msg_switch_read,
              msg_recv_resp
      <4>2. g \in MsgIds /\ Exists(s, g) BY <1>4, <1>5, <3>2, GetFacts
      <4> HIDE DEF g
      <4> QED BY <4>1, <4>2, OkFares
    <3> QED BY <3>1, <3>2
  <2> QED BY <1>1, <1>2, <2>2, <2>3, OtherFrameMoves
<1> QED BY <1>4, <1>6, <1>7, <1>8 DEF Kinds

\* The message that msg_open makes.
LEMMA OpenedNumb ==
  ASSUME NEW c \in Convs
  PROVE  LET m == NewFor(c, 0)
             n == Flagged(m, m.status \cup {"CONNECTED"})
         IN  /\ n \in Messages(Convs) /\ Numb(n) /\ Shut(n) /\ n # NoMsg
             /\ n.conv = c /\ n.n_read = 0 /\ ~Apart(n) /\ Base(n) = 0
<1> DEFINE m == NewFor(c, 0)
           st == m.status \cup {"CONNECTED"}
           n == Flagged(m, st)
<1>1. 0 \in 0 .. MaxMsgId BY MaxMsgIdAssumption
<1>2. /\ m \in Messages(Convs) /\ m.conv = c /\ m.n_writ = 0 /\ m.n_read = 0
      /\ m.incomplete = NoPacket /\ m.read_queue = << >> /\ m.writ_queue = << >>
      /\ m.status = {"SPACE_AVAIL_FOR_READ", "SPACE_AVAIL_FOR_WRIT"}
  BY <1>1, NewFacts
<1> HIDE DEF m
<1>3. Numb(m) /\ Shut(m) /\ Base(m) = 0 BY <1>2, NewNumb
<1>4. /\ st \in SUBSET Flags /\ "DISCONNECTED" \notin st
      /\ "CLOSED" \in st => "CLOSED" \in m.status
      /\ "PACKET_AVAIL_TO_READ" \in m.status => "PACKET_AVAIL_TO_READ" \in st
      /\ \A f \in {"SENT_DISCONNECT", "DISCONNECTED"} : f \in m.status => f \in st
  BY <1>2 DEF Flags
<1> HIDE DEF st
<1>5. n \in Messages(Convs) /\ n.status = st /\ n # NoMsg BY <1>2, <1>4, FlaggedType,
        MessageFacts
<1>6. Numb(n) /\ Kept(m, n) /\ Shut(n) BY <1>2, <1>3, <1>4, FlaggedNumb
<1> HIDE DEF n
<1>7. n.conv = c /\ n.n_read = 0 /\ ~Apart(n) /\ Base(n) = 0 BY <1>2, <1>3, <1>4, <1>5, <1>6
        DEF Kept, Apart
<1> QED BY <1>5, <1>6, <1>7 DEF n, st, m

\* A message is opened.
LEMMA OpenMoves ==
  ASSUME NEW w, NEW s, NEW ch, NEW Y, NEW mi, Joint(w, s, ch, Y, mi), Good(s), Unfailed(s),
         NEW o \in Nat, o = w.O[w.p], NEW id, id = msg_get_avail_msgid(s), NEW c,
         c = <<w.p, o + 1, id>>, NEW y, Within(y, Y), Flows(w.B, y, s.msgs)
  PROVE  Moves(w.B, s, ch, msg_open(s, c), ch, y)
<1> DEFINE t == msg_open(s, c)
<1>1. /\ s \in Switches(Convs) /\ ch \in Seq(Tokens) /\ w.p \in Ends
         /\ s.pending_resps \in Seq(Tokens)
      /\ Linked(w.p, s.msgs, ch \o s.pending_resps, w.q, w.B, Y, w.O, w.U, w.R, mi)
  BY LinkFacts DEF Joint
<1>2. \/ id = -1
      \/ id \in MsgIds /\ s.msgs[id] = NoMsg
  BY <1>1, AvailFacts
<1>3. CASE id = -1
  <2> DEFINE F == "msgs[-1]"
  <2>1. F \in Failures /\ F # None BY DEF Failures, None
  <2>2. msg_create(s, c) = Fail(s, F) BY <1>3 DEF msg_create
  <2> HIDE DEF F
  <2>3. Fail(s, F) \in Switches(Convs) /\ Fail(s, F).msgs = s.msgs /\ Fail(s, F).failed # None
    BY <1>1, <2>1, FailType
  <2>4. t = Fail(s, F) BY <2>2, <2>3 DEF msg_open
  <2>5. t \in Switches(Convs) /\ t.msgs = s.msgs BY <2>3, <2>4
  <2> HIDE DEF t
  <2>6. Moves(w.B, s, ch, t, ch, y) BY <2>5, SameFares, CallMoves
  <2> QED BY <2>6 DEF t
<1>4. CASE id \in MsgIds /\ s.msgs[id] = NoMsg
  <2> DEFINE m == NewFor(c, 0)
             n == Flagged(m, m.status \cup {"CONNECTED"})
             A == s.msgs
             Z == t.msgs
             B == w.B
             X == ch \o s.pending_resps
  <2>1. c \in Convs /\ c[1] = w.p /\ c[2] = o + 1 /\ c[3] = id BY <1>1, <1>4 DEF Convs
  <2>2. Turns(Convs, s, t, id, n, s.pending_msgs, s.pending_resps) BY <1>1, <1>4, <2>1,
          OpenTurns
  <2>3. Side(w.p, A, X, w.O) /\ Side(w.q, B, Y, w.O) BY <1>1 DEF Linked
  <2>4. Sent(X, "PACK", c) <=> Sent(ch, "PACK", c) \/ Sent(s.pending_resps, "PACK", c)
    BY <1>1, JoinSent
  <2>5. Flows(B, y, A) OBVIOUS
  <2>6. /\ n \in Messages(Convs) /\ Numb(n) /\ Shut(n) /\ n # NoMsg
        /\ n.conv = c /\ n.n_read = 0 /\ ~Apart(n) /\ Base(n) = 0
    BY <2>1, OpenedNumb
  <2> HIDE DEF n, t
  <2>7. t \in Switches(Convs) /\ Z[id] = n /\ \A j \in MsgIds \ {id} : Z[j] = A[j]
    <3>1. s.msgs \in [MsgIds -> Messages(Convs) \cup {NoMsg}] BY <1>1, SwitchFacts
    <3>2. t \in Switches(Convs) /\ t.msgs = [s.msgs EXCEPT ![id] = n] BY <2>2 DEF Turns
    <3> QED BY <1>4, <3>1, <3>2
  <2>8. Good(t) BY <1>4, <2>6, <2>7, GoodPut
  <2>9. A[id] = NoMsg BY <1>4
  <2> HIDE DEF A, Z, B, X
  <2>10. View(A, c) = {} /\ ~Some(X, c) BY <2>1, <2>3, Unused
  <2>11. View(B, c) = {} /\ ~Some(Y, c) BY <2>1, <2>3, Unused
  <2>12. Lone(A, Z, id, c) BY <1>4, <2>6, <2>7, <2>9, <2>10, NewLone
  <2>13. ~Sent(ch, "PACK", c) /\ ~Sent(y, "PACK", c) BY <2>4, <2>10, <2>11 DEF Some, Within
  <2>14. ReadTo(Z, c, 0) /\ SentTo(Z, c, 0) BY <1>4, <2>6, <2>7, <2>12, LoneTo
  <2>15. ReadTo(B, c, 0) /\ SentTo(B, c, 0) BY <2>11, NoneTo
  <2>16. Flow(Z, ch, B, c) /\ Flow(B, y, Z, c) BY <2>13, <2>14, <2>15, FlowFresh
  <2>17. \A d \in Convs : d # c => Carried(ch, ch, d) /\ Carried(y, y, d) BY CarriedSame
  <2>18. Moves(B, s, ch, t, ch, y)
    <3>1. Flows(B, y, s.msgs) /\ Lone(s.msgs, t.msgs, id, c) /\ Flow(t.msgs, ch, B, c)
            /\ Flow(B, y, t.msgs, c)
      BY <2>5, <2>12, <2>16 DEF A, Z
    <3> QED BY <1>4, <2>1, <2>8, <2>17, <3>1, LoneMoves
  <2> QED BY <2>18 DEF t, B
<1> QED BY <1>2, <1>3, <1>4

----------------------------------------------------------------------------
(* The steps of the link. *)

\* The inductive invariant: what LinkInv says, every message counts its
\* packets, and the packets of every message are in step from each end to an
\* end that is running.
OrderInv ==
  /\ LinkInv
  /\ \A p \in Ends : Good(sw[p])
  /\ \A p \in Ends : Running(Other(p)) => Flows(sw[p].msgs, chan[p], sw[Other(p)].msgs)

\* There are two ends, and each is the other's other end.
LEMMA OtherOther ==
  ASSUME NEW p \in Ends
  PROVE  Other(p) \in Ends /\ Other(p) # p /\ Other(Other(p)) = p /\ \A e \in Ends : e = p
      \/ e = Other(p)
<1>1. Other(p) \in Ends /\ Other(p) # p /\ \A e \in Ends : e = p \/ e = Other(p) BY OtherFacts
<1> DEFINE q == Other(p)
<1>2. q \in Ends /\ q # p BY <1>1
<1> HIDE DEF q
<1>3. Other(q) \in Ends /\ Other(q) # q /\ \A e \in Ends : e = q \/ e = Other(q) BY <1>2,
        OtherFacts
<1>4. Other(q) = p BY <1>2, <1>3
<1> QED BY <1>1, <1>4 DEF q

\* What OrderInv says to an end that takes a step.
LEMMA OrderOf ==
  ASSUME OrderInv, NEW p \in Ends, Running(p)
  PROVE  LET q == Other(p) IN
         /\ Joint(World(p), sw[p], chan[p], chan[q] \o sw[q].pending_resps, misled)
         /\ Faces(World(p)) /\ Unfailed(sw[p]) /\ World(p).B = sw[q].msgs
         /\ Good(sw[p]) /\ chan[q] \in Seq(Tokens) /\ sw[q].pending_resps \in Seq(Tokens)
         /\ Within(chan[q], chan[q] \o sw[q].pending_resps)
         /\ Flows(sw[q].msgs, chan[q], sw[p].msgs)
<1> DEFINE q == Other(p)
<1>1. LinkInv /\ Good(sw[p]) BY DEF OrderInv
<1>2. q \in Ends /\ Other(q) = p BY OtherOther
<1>3. chan \in [Ends -> Seq(Tokens)] /\ sw \in [Ends -> Switches(Convs)]
  BY <1>1 DEF LinkInv, LocalInv, TypeInv
<1>4. chan[q] \in Seq(Tokens) /\ sw[q].pending_resps \in Seq(Tokens)
  <2>1. sw[q].pending_resps \in Seq(Resps(Convs)) BY <1>2, <1>3 DEF Switches
  <2> QED BY <1>2, <1>3, <2>1, RespsAreTokens
<1>5. Within(chan[q], chan[q] \o sw[q].pending_resps) BY <1>4, WithinJoin
<1>6. Flows(sw[q].msgs, chan[q], sw[p].msgs) BY <1>2 DEF OrderInv
<1>7. World(p).B = sw[q].msgs BY DEF World
<1> QED BY <1>1, <1>4, <1>5, <1>6, <1>7, JointOf

\* A step of one end that keeps the packets in step keeps OrderInv.
LEMMA OrderStep ==
  ASSUME OrderInv, LinkInv', NEW p \in Ends, NEW t, sw' = [sw EXCEPT ![p] = t], up' = up,
         Moves(sw[Other(p)].msgs, sw[p], chan[p], t, chan'[p], chan'[Other(p)])
  PROVE  OrderInv'
<1> DEFINE q == Other(p)
<1>1. q \in Ends /\ q # p /\ Other(q) = p /\ \A e \in Ends : e = p \/ e = q BY OtherOther
<1>2. sw \in [Ends -> Switches(Convs)] BY DEF OrderInv, LinkInv, LocalInv, TypeInv
<1>3. sw'[p] = t /\ sw'[q] = sw[q] BY <1>1, <1>2
<1>4. /\ Good(t)
      /\ Flows(sw[p].msgs, chan[p], sw[q].msgs) => Flows(t.msgs, chan'[p], sw[q].msgs)
      /\ Unfailed(t) => Flows(sw[q].msgs, chan'[q], t.msgs)
  BY DEF Moves
<1>5. Good(sw[q]) /\ (Running(q) => Flows(sw[p].msgs, chan[p], sw[q].msgs)) BY <1>1 DEF OrderInv
<1>6. ASSUME NEW e \in Ends PROVE Good(sw'[e])
  <2>1. CASE e = p BY <1>3, <1>4, <2>1
  <2>2. CASE e = q BY <1>3, <1>5, <2>2
  <2> QED BY <1>1, <2>1, <2>2
<1>7. Running(q)' => Running(q) BY <1>3 DEF Running
<1>8. Running(p)' => Unfailed(t) BY <1>3 DEF Running, Unfailed
<1>9. Running(q)' => Flows(sw'[p].msgs, chan'[p], sw'[q].msgs) BY <1>3, <1>4, <1>5, <1>7
<1>10. Running(p)' => Flows(sw'[q].msgs, chan'[q], sw'[p].msgs) BY <1>3, <1>4, <1>8
<1>11. ASSUME NEW e \in Ends, Running(Other(e))' PROVE Flows(sw'[e].msgs, chan'[e],
         sw'[Other(e)].msgs)
  <2>1. CASE e = p BY <1>9, <1>11, <2>1
  <2>2. CASE e = q BY <1>1, <1>10, <1>11, <2>2
  <2> QED BY <1>1, <2>1, <2>2
<1> QED BY <1>6, <1>11 DEF OrderInv

\* A call of the program that neither sends nor receives a packet keeps it.
LEMMA OrderCall ==
  ASSUME OrderInv, LinkInv', NEW p \in Ends, Running(p), NEW t, Fares(sw[p], t), Call(p, t)
  PROVE  OrderInv'
<1> DEFINE q == Other(p)
           w == World(p)
           s == sw[p]
           y == chan[q]
           Y == y \o sw[q].pending_resps
<1>1. Joint(w, s, chan[p], Y, misled) /\ w.B = sw[q].msgs /\ Within(y, Y)
        /\ Flows(w.B, y, s.msgs)
  BY OrderOf
<1>2. sw' = [sw EXCEPT ![p] = t] /\ up' = up /\ chan' = chan BY DEF Call
<1> HIDE DEF w, Y, y
<1>3. Moves(w.B, s, chan[p], t, chan[p], y) BY <1>1, CallMoves
<1>4. Moves(sw[Other(p)].msgs, sw[p], chan[p], t, chan'[p], chan'[Other(p)]) BY <1>1, <1>2, <1>3
        DEF y
<1> QED BY <1>2, <1>4, OrderStep

\* The calls of the program, msg_open aside.
LEMMA OrderProgram ==
  ASSUME OrderInv, LinkInv', NEW p \in Ends, NEW id \in MsgIds
  PROVE  /\ Accept(p, id) => OrderInv'
         /\ \A k \in 0 .. MaxBurst : Write(p, id, k) => OrderInv'
         /\ Flush(p, id) => OrderInv'
         /\ \A k \in 1 .. NBuff : Read(p, id, k) => OrderInv'
         /\ Close(p, id) => OrderInv'
<1> DEFINE s == sw[p]
<1>1. Good(s) BY DEF OrderInv
<1>2. Exists(s, id) => Well(Convs, s, id) BY <1>1, GoodAt
<1>3. Holds(p, id) => Running(p) /\ Exists(s, id) BY DEF Holds
<1>4. ASSUME NEW t, Running(p), Fares(s, t), Call(p, t) PROVE OrderInv' BY <1>4, OrderCall
<1>5. ASSUME NEW t, Running(p), Exists(s, id), Near(Convs, s, t, id), Keen(s, t, id), Call(p, t)
        PROVE OrderInv'
  <2> HIDE DEF s
  <2>1. Fares(s, t) BY <1>1, <1>5, KeenFares
  <2> QED BY <1>4, <1>5, <2>1
<1>6. ASSUME Accept(p, id) PROVE OrderInv'
  <2>1. Running(p) /\ Exists(s, id) /\ Call(p, msg_accept(s, id)) BY <1>6 DEF Accept
  <2> HIDE DEF s
  <2>2. Fares(s, msg_accept(s, id)) BY <1>1, <2>1, AcceptFares
  <2> QED BY <1>4, <2>1, <2>2
<1>7. ASSUME NEW k \in 0 .. MaxBurst, Write(p, id, k) PROVE OrderInv'
  <2>1. Holds(p, id) /\ Call(p, msg_write(s, id, k)) BY <1>7 DEF Write
  <2>2. k \in Nat BY BoundsAssumption
  <2> HIDE DEF s
  <2>3. Near(Convs, s, msg_write(s, id, k), id) /\ Keen(s, msg_write(s, id, k), id)
    BY <1>2, <1>3, <2>1, <2>2, WriteNear
  <2> QED BY <1>3, <1>5, <2>1, <2>3
<1>8. ASSUME Flush(p, id) PROVE OrderInv'
  <2>1. Holds(p, id) /\ Call(p, msg_flush(s, id)) BY <1>8 DEF Flush
  <2> HIDE DEF s
  <2>2. Near(Convs, s, msg_flush(s, id), id) /\ Keen(s, msg_flush(s, id), id) BY <1>2, <1>3,
          <2>1, FlushNear
  <2> QED BY <1>3, <1>5, <2>1, <2>2
<1>9. ASSUME NEW k \in 1 .. NBuff, Read(p, id, k) PROVE OrderInv'
  <2>1. Holds(p, id) /\ Call(p, msg_read(s, id, k)) /\ k <= Len(s.msgs[id].read_queue) BY <1>9
          DEF Read
  <2>2. k \in Nat BY NBuffAssumption
  <2> HIDE DEF s
  <2>3. Near(Convs, s, msg_read(s, id, k), id) /\ Keen(s, msg_read(s, id, k), id)
    BY <1>2, <1>3, <2>1, <2>2, ReadNear
  <2> QED BY <1>3, <1>5, <2>1, <2>3
<1>10. ASSUME Close(p, id) PROVE OrderInv'
  <2>1. Holds(p, id) /\ Call(p, msg_close(s, id)) BY <1>10 DEF Close
  <2> HIDE DEF s
  <2>2. Fares(s, msg_close(s, id)) BY <1>1, <1>3, <2>1, CloseFares
  <2> QED BY <1>3, <1>4, <2>1, <2>2
<1> QED BY <1>6, <1>7, <1>8, <1>9, <1>10

\* msg_open.
LEMMA OrderOpen ==
  ASSUME OrderInv, LinkInv', NEW p \in Ends, Open(p)
  PROVE  OrderInv'
<1> DEFINE q == Other(p)
           w == World(p)
           s == sw[p]
           y == chan[q]
           Y == y \o sw[q].pending_resps
           o == opens[p]
           id == msg_get_avail_msgid(s)
           c == <<p, o + 1, id>>
           t == msg_open(s, c)
<1>1. Running(p) /\ sw' = [sw EXCEPT ![p] = t] /\ chan' = chan /\ up' = up BY DEF Open, Call
<1>2. /\ Joint(w, s, chan[p], Y, misled) /\ Unfailed(s) /\ w.B = sw[q].msgs /\ Within(y, Y)
      /\ Flows(w.B, y, s.msgs) /\ Good(s)
  BY <1>1, OrderOf
<1>3. o \in Nat BY DEF OrderInv, LinkInv, LocalInv, TypeInv
<1>4. o = w.O[w.p] /\ w.p = p BY DEF World
<1>5. c = <<w.p, o + 1, id>> /\ id = msg_get_avail_msgid(s) BY <1>4
<1> HIDE DEF w, Y, y, s, o, id, c
<1>6. Moves(w.B, s, chan[p], msg_open(s, c), chan[p], y) BY <1>2, <1>3, <1>4, <1>5, OpenMoves
<1> HIDE DEF t
<1>7. Moves(w.B, s, chan[p], t, chan[p], y) BY <1>6 DEF t
<1>8. Moves(sw[Other(p)].msgs, sw[p], chan[p], t, chan'[p], chan'[Other(p)]) BY <1>1, <1>2, <1>7
        DEF y, s
<1> QED BY <1>1, <1>8, OrderStep

\* A frame is written.
LEMMA OrderWrite ==
  ASSUME OrderInv, LinkInv', NEW p \in Ends, SwitchWrite(p)
  PROVE  OrderInv'
<1> DEFINE q == Other(p)
           w == World(p)
           s == sw[p]
           y == chan[q]
           Y == y \o sw[q].pending_resps
           t == msg_switch_write(s)
           ch == IF WriteFails(s) THEN chan[p] ELSE Append(chan[p], NextToken(s))
<1>1. /\ Running(p) /\ HasAvailWrits(s) /\ sw' = [sw EXCEPT ![p] = t] /\ up' = up
      /\ chan' = IF WriteFails(s) THEN chan ELSE [chan EXCEPT ![p] = Append(@, NextToken(s))]
  BY DEF SwitchWrite
<1>2. /\ Joint(w, s, chan[p], Y, misled) /\ w.B = sw[q].msgs /\ Within(y, Y)
      /\ Flows(w.B, y, s.msgs) /\ Good(s)
  BY <1>1, OrderOf
<1>3. chan \in [Ends -> Seq(Tokens)] BY DEF OrderInv, LinkInv, LocalInv, TypeInv
<1>4. q \in Ends /\ q # p BY OtherOther
<1>5. chan'[p] = ch /\ chan'[q] = y BY <1>1, <1>3, <1>4
<1>6. Moves(w.B, s, chan[p], t, ch, y)
  <2> HIDE DEF w, Y, y, s
  <2> QED BY <1>1, <1>2, WriteMoves
<1> HIDE DEF w, Y, y, s, t, ch
<1>7. Moves(sw[Other(p)].msgs, sw[p], chan[p], t, chan'[p], chan'[Other(p)]) BY <1>2, <1>5, <1>6
        DEF s
<1> QED BY <1>1, <1>7, OrderStep

\* A frame is read.
LEMMA OrderRead ==
  ASSUME OrderInv, LinkInv', NEW p \in Ends, SwitchRead(p)
  PROVE  OrderInv'
<1> DEFINE q == Other(p)
           w == World(p)
           s == sw[p]
           y == chan[q]
           r == sw[q].pending_resps
           x == Head(y)
           t == msg_switch_read(s, x)
<1>1. /\ Running(p) /\ y # << >> /\ sw' = [sw EXCEPT ![p] = t] /\ up' = up
      /\ chan' = [chan EXCEPT ![q] = Tail(@)]
  BY DEF SwitchRead
<1>2. /\ Joint(w, s, chan[p], y \o r, misled) /\ w.B = sw[q].msgs /\ Faces(w)
      /\ Flows(w.B, y, s.msgs) /\ Good(s) /\ y \in Seq(Tokens) /\ r \in Seq(Tokens)
  BY <1>1, OrderOf
<1>3. chan \in [Ends -> Seq(Tokens)] BY DEF OrderInv, LinkInv, LocalInv, TypeInv
<1>4. q \in Ends /\ q # p BY OtherOther
<1>5. chan'[p] = chan[p] /\ chan'[q] = Tail(y) BY <1>1, <1>3, <1>4
<1>6. Moves(w.B, s, chan[p], t, chan[p], Tail(y))
  <2>1. x = Head(y) OBVIOUS
  <2> HIDE DEF w, y, s, r, x
  <2> QED BY <1>1, <1>2, <2>1, ReadMoves
<1> HIDE DEF w, y, s, t, r, x
<1>7. Moves(sw[Other(p)].msgs, sw[p], chan[p], t, chan'[p], chan'[Other(p)]) BY <1>2, <1>5, <1>6
        DEF s
<1> QED BY <1>1, <1>7, OrderStep

\* A switch that has only begun has no messages.
LEMMA EmptyGood == Good(EmptySwitch)
BY EmptyFacts DEF Good

\* An end that has no messages sends none of the packets that are underway.
LEMMA EmptyFlows ==
  ASSUME NEW E, \A i \in MsgIds : E[i] = NoMsg, NEW X, NEW B
  PROVE  /\ X = << >> /\ B = E => Flows(E, X, B)
         /\ \A A : Flows(A, X, B) => Flows(E, X, B)
<1>1. ASSUME X = << >>, B = E, NEW c \in Convs PROVE Flow(E, X, B, c)
  <2>1. "alive" \notin View(E, c) BY AliveIn
  <2>2. ReadTo(B, c, 0) /\ SentTo(E, c, 0) BY <1>1, <2>1, NoneTo
  <2>3. ~Sent(X, "PACK", c) BY <1>1 DEF Sent
  <2> QED BY <2>2, <2>3, FlowFresh
<1>2. ASSUME NEW A, Flows(A, X, B), NEW c \in Convs PROVE Flow(E, X, B, c)
  <2>1. Stays(A, E, c) BY DEF Stays
  <2>2. Flow(A, X, B, c) BY <1>2 DEF Flows
  <2> QED BY <2>1, <2>2, FlowOut, CarriedSame
<1> QED BY <1>1, <1>2 DEF Flows

\* An end loses its connection and destroys its switch.
LEMMA OrderDrop ==
  ASSUME OrderInv, LinkInv', NEW p \in Ends, Drop(p)
  PROVE  OrderInv'
<1> DEFINE q == Other(p)
           E == EmptySwitch.msgs
<1>1. /\ sw' = [sw EXCEPT ![p] = EmptySwitch] /\ chan' = [chan EXCEPT ![q] = << >>]
      /\ up' = [up EXCEPT ![p] = FALSE]
  BY DEF Drop
<1>2. /\ chan \in [Ends -> Seq(Tokens)] /\ sw \in [Ends -> Switches(Convs)]
         /\ up \in [Ends -> BOOLEAN]
  BY DEF OrderInv, LinkInv, LocalInv, TypeInv
<1>3. q \in Ends /\ q # p /\ Other(q) = p /\ \A e \in Ends : e = p \/ e = q BY OtherOther
<1>4. /\ sw'[p] = EmptySwitch /\ sw'[q] = sw[q] /\ chan'[p] = chan[p]
      /\ up'[p] = FALSE /\ up'[q] = up[q]
  BY <1>1, <1>2, <1>3
<1>5. ~Running(p)' /\ (Running(q)' => Running(q)) BY <1>4 DEF Running
<1>6. Good(sw[q]) /\ (Running(q) => Flows(sw[p].msgs, chan[p], sw[q].msgs)) BY <1>3 DEF OrderInv
<1>7. \A i \in MsgIds : E[i] = NoMsg BY EmptyFacts
<1>8. Flows(sw[p].msgs, chan[p], sw[q].msgs) => Flows(E, chan[p], sw[q].msgs)
  <2> DEFINE A == sw[p].msgs
             B == sw[q].msgs
  <2> HIDE DEF E, A, B
  <2>1. Flows(A, chan[p], B) => Flows(E, chan[p], B) BY <1>7, EmptyFlows
  <2> QED BY <2>1 DEF A, B
<1>9. ASSUME NEW e \in Ends PROVE Good(sw'[e])
  <2>1. CASE e = p BY <1>4, <2>1, EmptyGood
  <2>2. CASE e = q BY <1>4, <1>6, <2>2
  <2> QED BY <1>3, <2>1, <2>2
<1>10. Running(q)' => Flows(sw'[p].msgs, chan'[p], sw'[q].msgs) BY <1>4, <1>5, <1>6, <1>8
<1>11. ASSUME NEW e \in Ends, Running(Other(e))' PROVE Flows(sw'[e].msgs, chan'[e],
         sw'[Other(e)].msgs)
  <2>1. CASE e = p BY <1>10, <1>11, <2>1
  <2>2. CASE e = q BY <1>3, <1>5, <1>11, <2>2
  <2> QED BY <1>3, <2>1, <2>2
<1> QED BY <1>9, <1>11 DEF OrderInv

\* Both ends have only begun.
LEMMA EmptyEnds ==
  ASSUME NEW s, NEW h, \A e \in Ends : s[e] = EmptySwitch /\ h[e] = << >>, NEW e \in Ends
  PROVE  Good(s[e]) /\ Flows(s[e].msgs, h[e], s[Other(e)].msgs)
<1> DEFINE E == EmptySwitch.msgs
<1>1. \A i \in MsgIds : E[i] = NoMsg BY EmptyFacts
<1>2. ASSUME NEW X, X = << >> PROVE Flows(E, X, E)
  <2> HIDE DEF E
  <2> QED BY <1>1, <1>2, EmptyFlows
<1> QED BY <1>2, EmptyGood, OtherOther

----------------------------------------------------------------------------
(* The theorems. *)

\* OrderInv holds at first.
LEMMA OrderInit == Init => OrderInv
<1> SUFFICES ASSUME Init PROVE OrderInv OBVIOUS
<1>1. \A e \in Ends : sw[e] = EmptySwitch /\ chan[e] = << >> BY DEF Init
<1>2. \A e \in Ends : Good(sw[e]) /\ Flows(sw[e].msgs, chan[e], sw[Other(e)].msgs) BY <1>1,
        EmptyEnds
<1> QED BY <1>2, LinkInit DEF OrderInv

\* A new connection, which both ends begin without messages.
LEMMA OrderConnect ==
  ASSUME OrderInv, LinkInv', Connect
  PROVE  OrderInv'
<1>1. \A e \in Ends : sw'[e] = EmptySwitch /\ chan'[e] = << >> BY DEF Connect, OrderInv, LinkInv
<1>2. \A e \in Ends : Good(sw'[e]) /\ Flows(sw'[e].msgs, chan'[e], sw'[Other(e)].msgs) BY <1>1,
        EmptyEnds
<1> QED BY <1>2 DEF OrderInv

\* Every step keeps OrderInv.
LEMMA OrderNext ==
  ASSUME ~LateFlush
  PROVE  OrderInv /\ [Next]_vars => OrderInv'
<1> SUFFICES ASSUME OrderInv, [Next]_vars PROVE OrderInv' OBVIOUS
<1>1. LinkInv' BY LinkNext DEF OrderInv
<1>2. CASE UNCHANGED vars
  <2>1. sw' = sw /\ chan' = chan /\ up' = up BY <1>2 DEF vars
  <2> QED BY <1>1, <2>1 DEF OrderInv, Running
<1>3. CASE Next
  <2>1. CASE Connect BY <1>1, <2>1, OrderConnect
  <2>2. ASSUME NEW p \in Ends, System(p) PROVE OrderInv'
    <3>1. Eof(p) => Drop(p) BY DEF Eof
    <3> QED BY <1>1, <2>2, <3>1, OrderWrite, OrderRead, OrderDrop, OrderProgram DEF System
  <2>3. ASSUME NEW p \in Ends, Program(p) PROVE OrderInv'
    BY <1>1, <2>3, OrderOpen, OrderProgram DEF Program
  <2>4. ASSUME NEW p \in Ends, Break(p) PROVE OrderInv'
    <3>1. Drop(p) BY <2>4 DEF Break
    <3> QED BY <1>1, <3>1, OrderDrop
  <2> QED BY <1>3, <2>1, <2>2, <2>3, <2>4 DEF Next
<1> QED BY <1>2, <1>3

\* What a message has begun and not sent, as InOrder has it.
LEMMA UnsentEnds ==
  ASSUME NEW C, NEW m \in Messages(C), Numb(m)
  PROVE  EndsAt(Unsent(m), m.n_writ) /\ m.n_writ - Len(Unsent(m)) = Base(m)
<1> DEFINE q == m.writ_queue
           f == [i \in DOMAIN q |-> q[i].seq]
           n == m.n_writ
           b == Base(m)
           u == Unsent(m)
           l == Len(q)
<1>1. q \in Seq(Packets(C)) /\ n \in Nat BY MessageFacts
<1>2. b \in Int /\ Held(m) \in {0, 1} /\ l \in Nat /\ b + Held(m) + l = n BY BaseInt
<1>3. DOMAIN q = 1 .. l BY <1>1
<1>4. (\A i \in 1 .. l : q[i].seq = b + i) /\ (m.incomplete # NoPacket => m.incomplete.seq = n)
  BY DEF Numb, Writes, Counts
<1>5. f \in Seq(Int) /\ Len(f) = l /\ \A i \in 1 .. l : f[i] = b + i
  <2> HIDE DEF q, b, l
  <2>1. \A i \in 1 .. l : b + i \in Int BY <1>2
  <2>2. f \in [1 .. l -> Int] /\ \A i \in 1 .. l : f[i] = b + i BY <1>3, <1>4, <2>1
  <2> HIDE DEF f
  <2>3. f \in Seq(Int) BY <1>2, <2>2
  <2>4. Len(f) = l BY <1>2, <2>2, <2>3
  <2> QED BY <2>2, <2>3, <2>4
<1>6. CASE m.incomplete = NoPacket
  <2>1. u = f \o << >> BY <1>6 DEF Unsent
  <2>2. Held(m) = 0 BY <1>6 DEF Held
  <2> HIDE DEF f, u, n, b, l, q
  <2>3. u = f BY <1>5, <2>1
  <2>4. DOMAIN u = 1 .. l /\ Len(u) = l BY <1>5, <2>3
  <2>5. \A i \in DOMAIN u : u[i] = n - Len(u) + i BY <1>1, <1>2, <1>5, <2>2, <2>3, <2>4
  <2>6. n - Len(u) = b BY <1>1, <1>2, <2>2, <2>4
  <2> QED BY <2>5, <2>6 DEF EndsAt, u, n, b
<1>7. CASE m.incomplete # NoPacket
  <2> DEFINE e == m.incomplete.seq
             z == << e >>
  <2>1. u = f \o z BY <1>7 DEF Unsent
  <2>2. Held(m) = 1 /\ e = n BY <1>4, <1>7 DEF Held
  <2> HIDE DEF f, u, n, b, l, q, e
  <2>3. z \in Seq(Int) /\ Len(z) = 1 /\ z[1] = e BY <1>1, <2>2
  <2> HIDE DEF z
  <2>4. /\ u \in Seq(Int) /\ Len(u) = l + 1 /\ DOMAIN u = 1 .. (l + 1)
        /\ \A i \in 1 .. (l + 1) : u[i] = IF i <= l THEN f[i] ELSE z[i - l]
    <3>1. /\ u \in Seq(Int) /\ Len(u) = Len(f) + Len(z)
          /\ \A i \in 1 .. Len(f) + Len(z) : u[i] = IF i <= Len(f) THEN f[i] ELSE z[i - Len(f)]
      BY <1>5, <2>1, <2>3, ConcatProperties
    <3>2. DOMAIN u = 1 .. Len(u) BY <3>1
    <3> QED BY <1>2, <1>5, <2>3, <3>1, <3>2
  <2>5. n = b + 1 + l BY <1>1, <1>2, <2>2
  <2>6. ASSUME NEW i \in DOMAIN u PROVE u[i] = n - Len(u) + i
    <3>1. i \in 1 .. (l + 1) BY <2>4
    <3>2. CASE i <= l
      <4>1. i \in 1 .. l /\ u[i] = f[i] BY <1>2, <2>4, <3>1, <3>2
      <4>2. u[i] = b + i BY <1>5, <4>1
      <4> QED BY <1>1, <1>2, <2>4, <2>5, <3>1, <4>2
    <3>3. CASE ~(i <= l)
      <4>1. i = l + 1 /\ i - l = 1 BY <1>2, <3>1, <3>3
      <4>2. u[i] = z[i - l] BY <2>4, <3>1, <3>3
      <4>3. u[i] = n BY <2>2, <2>3, <4>1, <4>2
      <4> QED BY <1>1, <1>2, <2>4, <4>1, <4>3
    <3> QED BY <3>2, <3>3
  <2>7. n - Len(u) = b BY <1>1, <1>2, <2>4, <2>5
  <2> QED BY <2>6, <2>7 DEF EndsAt, u, n, b
<1> QED BY <1>6, <1>7

\* The packets that are underway, as InOrder has them.
LEMMA FlowCarries ==
  ASSUME NEW A, NEW X \in Seq(Tokens), NEW B, NEW c, Flow(A, X, B, c), NEW id \in MsgIds,
         A[id] # NoMsg, A[id].conv = c, ~Apart(A[id]), NEW v, v = Base(A[id])
  PROVE  /\ \A j \in MsgIds : B[j] # NoMsg /\ B[j].conv = c => Carries(X, c, B[j].n_read, v)
         /\ \E a \in 0 .. v : Carries(X, c, a, v)
<1>1. PICK a \in Nat, b \in Nat : Span(X, c, a, b) /\ ReadTo(B, c, a) /\ SentTo(A, c, b) BY
        DEF Flow
<1>2. b = v BY <1>1 DEF SentTo
<1>3. Carries(X, c, a, v) BY <1>1, <1>2, SpanCarries
<1>4. a \in 0 .. v
  <2>1. a <= b BY <1>1 DEF Span
  <2> QED BY <1>2, <2>1
<1>5. ASSUME NEW j \in MsgIds, B[j] # NoMsg, B[j].conv = c PROVE B[j].n_read = a BY <1>1, <1>5
        DEF ReadTo
<1> QED BY <1>3, <1>4, <1>5

\* OrderInv implies InOrder.
LEMMA OrderInOrder == OrderInv => InOrder
<1> SUFFICES ASSUME OrderInv, NEW p \in Ends, NEW id \in Live(p)
             PROVE  LET m == Msg(p, id)
                        sent == m.n_writ - Len(Unsent(m))
                        peers == Peers(Other(p), m.conv)
                    IN  /\ EndsAt(m.read_queue, m.n_read)
                        /\ Connected /\ ~Has(sw[p], id, "DISCONNECTED") =>
                              /\ EndsAt(Unsent(m), m.n_writ)
                              /\ \A j \in peers : Carries(chan[p], m.conv,
                                                          Msg(Other(p), j).n_read, sent)
                              /\ peers = {} =>
                                   \E a \in 0 .. sent : Carries(chan[p], m.conv, a, sent)
  BY DEF InOrder
<1> DEFINE m == Msg(p, id)
           q == Other(p)
           c == m.conv
           X == chan[p]
           A == sw[p].msgs
           B == sw[q].msgs
           v == m.n_writ - Len(Unsent(m))
<1>1. id \in MsgIds /\ Exists(sw[p], id) /\ A[id] = m /\ m # NoMsg BY DEF Live, Msg, Exists
<1>2. Good(sw[p]) BY DEF OrderInv
<1>3. m \in Messages(Convs) /\ Numb(m)
  <2>1. Well(Convs, sw[p], id) BY <1>1, <1>2, GoodAt
  <2> QED BY <1>1, <2>1 DEF Well
<1>4. EndsAt(m.read_queue, m.n_read)
  <2>1. m.read_queue \in Seq(Nat) BY <1>3, MessageFacts
  <2>2. Runup(m.read_queue, m.n_read) BY <1>3 DEF Numb, Reading
  <2> QED BY <2>1, <2>2 DEF EndsAt, Runup
<1>5. EndsAt(Unsent(m), m.n_writ) /\ v = Base(m) BY <1>3, UnsentEnds
<1>6. ASSUME Connected, ~Has(sw[p], id, "DISCONNECTED")
      PROVE  /\ \A j \in Peers(q, c) : Carries(X, c, Msg(q, j).n_read, v)
             /\ \E a \in 0 .. v : Carries(X, c, a, v)
  <2>1. q \in Ends /\ Running(q) BY <1>6, OtherOther DEF Connected
  <2>2. Flows(A, X, B) BY <2>1 DEF OrderInv
  <2>3. c \in Convs BY <1>3, MessageFacts
  <2>4. Flow(A, X, B, c) BY <2>2, <2>3 DEF Flows
  <2>5. ~Apart(m) BY <1>1, <1>6 DEF Apart, Has
  <2>6. X \in Seq(Tokens) BY DEF OrderInv, LinkInv, LocalInv, TypeInv
  <2>7. A[id] # NoMsg /\ A[id].conv = c /\ ~Apart(A[id]) /\ v = Base(A[id]) BY <1>1, <1>5, <2>5
  <2>8. \A j \in Peers(q, c) : j \in MsgIds /\ B[j] # NoMsg /\ B[j].conv = c
          /\ Msg(q, j).n_read = B[j].n_read
    BY DEF Peers, Live, Msg, Exists
  <2> HIDE DEF A, X, B, c, v, m, q
  <2>9. /\ \A j \in MsgIds : B[j] # NoMsg /\ B[j].conv = c => Carries(X, c, B[j].n_read, v)
        /\ \E a \in 0 .. v : Carries(X, c, a, v)
    BY <1>1, <2>4, <2>6, <2>7, FlowCarries
  <2> QED BY <2>8, <2>9
<1> QED BY <1>4, <1>5, <1>6

\* Whatever the two programs call and however often a connection is lost and
\* made again, OrderInv holds: writ_queue, the socket and read_queue of a
\* message, one behind the other, hold its packets without a gap.
THEOREM OrderInvariant ==
  ASSUME ~LateFlush
  PROVE  Spec => []OrderInv
<1>1. Init => OrderInv BY OrderInit
<1>2. OrderInv /\ [Next]_vars => OrderInv' BY OrderNext
<1> QED BY <1>1, <1>2, PTL DEF Spec

\* The packets that msg_switch_read puts into read_queue are the ones
\* msg_write began, in that order, without loss or duplicate: what the
\* program has read, what it can read, what the socket carries and what
\* waits in writ_queue are consecutive, for a message that neither end has
\* lost. Without LateFlush, as in the link runs.
THEOREM InOrderInvariant ==
  ASSUME ~LateFlush
  PROVE  Spec => []InOrder
<1>1. OrderInv => InOrder BY OrderInOrder
<1> QED BY <1>1, OrderInvariant, PTL
=============================================================================
