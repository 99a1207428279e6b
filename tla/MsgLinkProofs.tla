--------------------------- MODULE MsgLinkProofs ----------------------------
(*************************************************************************)
(* MsgLink, for any number of messages, any size of their buffers, any   *)
(* number of frames in the socket buffers and of connections lost. What  *)
(* holds at each end by itself (Loc, of MsgSwitchProofs) holds always.   *)
(* What the two ends know of each other, LinkInv, holds as long as no    *)
(* program flushes a message that was already disconnected; with         *)
(* LateFlush the model has states that break it, because such a packet   *)
(* carries the id of another message. A message is told from later ones  *)
(* of the same id by its conv: the end that opened it, how many it had   *)
(* opened and the msgid it got. Fairness plays no part.                  *)
(*************************************************************************)
EXTENDS MsgLink, MsgSwitchProofs, FiniteSetTheorems, SequenceTheorems

----------------------------------------------------------------------------
(* Each end by itself. *)

\* The messages that there can be: who opened it, its number among those
\* that end opened, and its msgid there.
Convs == Ends \X Nat \X MsgIds

\* The frames.
Tokens == Packets(Convs) \cup Resps(Convs)

\* A link has two ends.
LEMMA OtherFacts ==
  ASSUME NEW p \in Ends
  PROVE  Other(p) \in Ends /\ Other(p) # p /\ \A q \in Ends : q = p \/ q = Other(p)
<1> DEFINE A == Ends \ {p}
<1>1. IsFiniteSet(A) /\ Cardinality(A) = 1 BY EndsAssumption, FS_RemoveElement
<1>2. PICK q : A = {q} BY <1>1, FS_Singleton
<1>3. \E r \in Ends : r # p BY <1>2
<1>4. Other(p) \in Ends /\ Other(p) # p BY <1>3 DEF Other
<1> QED BY <1>2, <1>4

\* The types of the variables.
TypeInv ==
  /\ sw \in [Ends -> Switches(Convs)]
  /\ chan \in [Ends -> Seq(Tokens)]
  /\ up \in [Ends -> BOOLEAN]
  /\ opens \in [Ends -> Nat]

\* Each end's switch is as it should be by itself.
LocalInv == TypeInv /\ \A p \in Ends : Loc(Convs, sw[p])

\* It is at first.
LEMMA LocalInit == Init => LocalInv
<1> SUFFICES ASSUME Init PROVE LocalInv OBVIOUS
<1>1. EmptySwitch \in Switches(Convs) /\ Loc(Convs, EmptySwitch) BY EmptyFacts, EmptyLoc
<1>2. sw \in [Ends -> Switches(Convs)] /\ \A p \in Ends : Loc(Convs, sw[p]) BY <1>1 DEF Init
<1>3. chan \in [Ends -> Seq(Tokens)] BY DEF Init
<1>4. up \in [Ends -> BOOLEAN] /\ opens \in [Ends -> Nat] BY DEF Init
<1> QED BY <1>2, <1>3, <1>4 DEF LocalInv, TypeInv

\* One end's switch is replaced, and the rest of the state keeps its type.
LEMMA LocalCall ==
  ASSUME LocalInv, NEW p \in Ends, NEW t, Loc(Convs, t), sw' = [sw EXCEPT ![p] = t],
         chan' \in [Ends -> Seq(Tokens)], up' \in [Ends -> BOOLEAN], opens' \in [Ends -> Nat]
  PROVE  LocalInv'
<1>1. t \in Switches(Convs) BY DEF Loc
<1>2. sw' \in [Ends -> Switches(Convs)] BY <1>1 DEF LocalInv, TypeInv
<1>3. ASSUME NEW q \in Ends PROVE Loc(Convs, sw'[q])
  <2>1. Loc(Convs, sw[q]) BY DEF LocalInv
  <2>2. sw'[q] = IF q = p THEN t ELSE sw[q] BY DEF LocalInv, TypeInv
  <2> QED BY <2>1, <2>2
<1> QED BY <1>2, <1>3 DEF LocalInv, TypeInv

\* Reading a frame leaves a stream of frames.
LEMMA ChanTail ==
  ASSUME NEW f \in [Ends -> Seq(Tokens)], NEW q \in Ends, f[q] # << >>
  PROVE  /\ Head(f[q]) \in Tokens
         /\ [f EXCEPT ![q] = Tail(@)] \in [Ends -> Seq(Tokens)]
<1>1. f[q] \in Seq(Tokens) OBVIOUS
<1> DEFINE c == f[q]
<1>2. Tail(c) \in Seq(Tokens) BY <1>1, TailSome
<1>3. Head(c) \in Tokens BY <1>1
<1> QED BY <1>2, <1>3

\* Sending a frame leaves a stream of frames.
LEMMA ChanAppend ==
  ASSUME NEW f \in [Ends -> Seq(Tokens)], NEW q \in Ends, NEW t \in Tokens
  PROVE  [f EXCEPT ![q] = Append(@, t)] \in [Ends -> Seq(Tokens)]
<1>1. f[q] \in Seq(Tokens) OBVIOUS
<1>2. Append(f[q], t) \in Seq(Tokens) BY <1>1
<1> QED BY <1>2

\* An end that loses its connection begins again.
LEMMA LocalDrop ==
  ASSUME LocalInv, NEW p \in Ends, Drop(p)
  PROVE  LocalInv'
<1>1. Loc(Convs, EmptySwitch) BY EmptyLoc
<1>2. sw' = [sw EXCEPT ![p] = EmptySwitch] BY DEF Drop
<1>3. chan' \in [Ends -> Seq(Tokens)]
  <2>1. chan' = [chan EXCEPT ![Other(p)] = << >>] BY DEF Drop
  <2> DEFINE e == << >>
  <2>2. e \in Seq(Tokens) /\ chan' = [chan EXCEPT ![Other(p)] = e] BY <2>1
  <2>3. chan \in [Ends -> Seq(Tokens)] BY DEF LocalInv, TypeInv
  <2> HIDE DEF e
  <2> QED BY <2>2, <2>3
<1>4. up' \in [Ends -> BOOLEAN] BY DEF Drop, LocalInv, TypeInv
<1>5. opens' \in [Ends -> Nat] BY DEF Drop, LocalInv, TypeInv
<1> HIDE DEF EmptySwitch
<1> QED BY <1>1, <1>2, <1>3, <1>4, <1>5, LocalCall

\* Every step keeps it.
LEMMA LocalNext == LocalInv /\ [Next]_vars => LocalInv'
<1> SUFFICES ASSUME LocalInv, [Next]_vars PROVE LocalInv' OBVIOUS
<1>1. chan \in [Ends -> Seq(Tokens)] /\ up \in [Ends -> BOOLEAN] /\ opens \in [Ends -> Nat]
  BY DEF LocalInv, TypeInv
<1>2. ASSUME NEW p \in Ends, NEW t, Loc(Convs, t), Call(p, t), opens' \in [Ends -> Nat]
        PROVE LocalInv'
  <2>1. sw' = [sw EXCEPT ![p] = t] /\ chan' = chan /\ up' = up BY <1>2 DEF Call
  <2> QED BY <1>1, <1>2, <2>1, LocalCall
<1>3. ASSUME NEW p \in Ends, Open(p) PROVE LocalInv'
  <2> DEFINE s == sw[p]
             conv == <<p, opens[p] + 1, msg_get_avail_msgid(sw[p])>>
  <2>1. Loc(Convs, s) /\ Unfailed(s) BY <1>3 DEF LocalInv, Open, Running, Unfailed
  <2>2. opens[p] \in Nat BY <1>1
  <2>3. msg_get_avail_msgid(s) \in MsgIds => conv \in Convs BY <2>2 DEF Convs
  <2>4. Call(p, msg_open(s, conv)) BY <1>3 DEF Open
  <2>5. opens' \in [Ends -> Nat] BY <1>1, <1>3, <2>2 DEF Open
  <2> HIDE DEF s, conv
  <2>6. Loc(Convs, msg_open(s, conv)) BY <2>1, <2>3, OpenLoc
  <2> QED BY <1>2, <2>4, <2>5, <2>6
<1>4. ASSUME NEW p \in Ends, NEW id \in MsgIds, Accept(p, id) PROVE LocalInv'
  <2>1. Loc(Convs, sw[p]) BY DEF LocalInv
  <2>2. Exists(sw[p], id) /\ Call(p, msg_accept(sw[p], id)) /\ opens' = opens BY <1>4 DEF Accept
  <2>3. Loc(Convs, msg_accept(sw[p], id)) BY <2>1, <2>2, AcceptLoc
  <2> QED BY <1>1, <1>2, <2>2, <2>3
<1>5. ASSUME NEW p \in Ends, NEW id \in MsgIds, NEW k \in 0 .. MaxBurst, Write(p, id, k)
        PROVE LocalInv'
  <2>1. Loc(Convs, sw[p]) BY DEF LocalInv
  <2>2. Exists(sw[p], id) /\ ~Has(sw[p], id, "CLOSED") /\ Call(p, msg_write(sw[p], id, k))
          /\ opens' = opens
    BY <1>5 DEF Write, Holds
  <2>3. Writable(sw[p].msgs[id]) BY <2>1, <2>2, HoldsWritable
  <2>4. k \in Nat BY BoundsAssumption
  <2>5. Loc(Convs, msg_write(sw[p], id, k)) BY <2>1, <2>2, <2>3, <2>4, WriteLoc
  <2> QED BY <1>1, <1>2, <2>2, <2>5
<1>6. ASSUME NEW p \in Ends, NEW id \in MsgIds, Flush(p, id) PROVE LocalInv'
  <2>1. Loc(Convs, sw[p]) BY DEF LocalInv
  <2>2. Exists(sw[p], id) /\ ~Has(sw[p], id, "CLOSED") /\ Call(p, msg_flush(sw[p], id))
          /\ opens' = opens
    BY <1>6 DEF Flush, Holds
  <2>3. Writable(sw[p].msgs[id]) BY <2>1, <2>2, HoldsWritable
  <2>4. Loc(Convs, msg_flush(sw[p], id)) BY <2>1, <2>2, <2>3, FlushLoc
  <2> QED BY <1>1, <1>2, <2>2, <2>4
<1>7. ASSUME NEW p \in Ends, NEW id \in MsgIds, NEW k \in 1 .. NBuff, Read(p, id, k)
        PROVE LocalInv'
  <2>1. Loc(Convs, sw[p]) BY DEF LocalInv
  <2>2. Exists(sw[p], id) /\ Call(p, msg_read(sw[p], id, k)) /\ opens' = opens BY <1>7 DEF Read,
          Holds
  <2>3. k \in Nat BY NBuffAssumption
  <2>4. Loc(Convs, msg_read(sw[p], id, k)) BY <2>1, <2>2, <2>3, ReadLoc
  <2> QED BY <1>1, <1>2, <2>2, <2>4
<1>8. ASSUME NEW p \in Ends, NEW id \in MsgIds, Close(p, id) PROVE LocalInv'
  <2>1. Loc(Convs, sw[p]) BY DEF LocalInv
  <2>2. Exists(sw[p], id) /\ ~Has(sw[p], id, "CLOSED") /\ Call(p, msg_close(sw[p], id))
          /\ opens' = opens
    BY <1>8 DEF Close, Holds
  <2>3. Loc(Convs, msg_close(sw[p], id)) BY <2>1, <2>2, CloseLoc DEF Has
  <2> QED BY <1>1, <1>2, <2>2, <2>3
<1>9. ASSUME NEW p \in Ends, SwitchWrite(p) PROVE LocalInv'
  <2>1. Loc(Convs, sw[p]) BY DEF LocalInv
  <2>2. HasAvailWrits(sw[p]) /\ up' = up /\ opens' = opens BY <1>9 DEF SwitchWrite
  <2>3. Loc(Convs, msg_switch_write(sw[p])) BY <2>1, <2>2, SwitchWriteLoc
  <2>4. sw' = [sw EXCEPT ![p] = msg_switch_write(sw[p])] BY <1>9 DEF SwitchWrite
  <2>5. chan' \in [Ends -> Seq(Tokens)]
    <3>1. CASE WriteFails(sw[p])
      <4>1. chan' = chan BY <1>9, <3>1 DEF SwitchWrite
      <4> QED BY <1>1, <4>1
    <3>2. CASE ~WriteFails(sw[p])
      <4>1. NextToken(sw[p]) \in Tokens BY <2>1, <2>2, <3>2, NextTokenType DEF Tokens
      <4>2. chan' = [chan EXCEPT ![p] = Append(@, NextToken(sw[p]))] BY <1>9, <3>2
              DEF SwitchWrite
      <4> QED BY <1>1, <4>1, <4>2, ChanAppend
    <3> QED BY <3>1, <3>2
  <2> QED BY <1>1, <2>2, <2>3, <2>4, <2>5, LocalCall
<1>10. ASSUME NEW p \in Ends, SwitchRead(p) PROVE LocalInv'
  <2> DEFINE q == Other(p)
             t == Head(chan[q])
  <2>1. Loc(Convs, sw[p]) BY DEF LocalInv
  <2>2. q \in Ends BY OtherFacts
  <2>3. /\ chan[q] # << >> /\ up' = up /\ opens' = opens
        /\ sw' = [sw EXCEPT ![p] = msg_switch_read(sw[p], t)]
           /\ chan' = [chan EXCEPT ![q] = Tail(@)]
    BY <1>10 DEF SwitchRead
  <2> HIDE DEF q
  <2>4. t \in Tokens /\ chan' \in [Ends -> Seq(Tokens)] BY <1>1, <2>2, <2>3, ChanTail
  <2> HIDE DEF t
  <2>5. Loc(Convs, msg_switch_read(sw[p], t)) BY <2>1, <2>4, SwitchReadLoc DEF Tokens
  <2> QED BY <1>1, <2>3, <2>4, <2>5, LocalCall
<1>11. ASSUME NEW p \in Ends, Eof(p) \/ Break(p) PROVE LocalInv'
  <2>1. Drop(p) BY <1>11 DEF Eof, Break
  <2> QED BY <2>1, LocalDrop
<1>12. ASSUME Connect PROVE LocalInv'
  <2>1. sw' = sw /\ opens' = opens /\ chan' = [p \in Ends |-> << >>]
          /\ up' = [p \in Ends |-> TRUE]
    BY <1>12 DEF Connect
  <2>2. chan' \in [Ends -> Seq(Tokens)] BY <2>1
  <2>3. up' \in [Ends -> BOOLEAN] BY <2>1
  <2> QED BY <2>1, <2>2, <2>3 DEF LocalInv, TypeInv
<1>13. CASE UNCHANGED vars BY <1>13 DEF vars, LocalInv, TypeInv
<1>14. CASE Next
  <2>1. CASE Connect BY <1>12, <2>1
  <2>2. ASSUME NEW p \in Ends, System(p) PROVE LocalInv'
    BY <1>4, <1>9, <1>10, <1>11, <2>2 DEF System
  <2>3. ASSUME NEW p \in Ends, Program(p) PROVE LocalInv'
    BY <1>3, <1>5, <1>6, <1>7, <1>8, <2>3 DEF Program
  <2>4. ASSUME NEW p \in Ends, Break(p) PROVE LocalInv' BY <1>11, <2>4
  <2> QED BY <1>14, <2>1, <2>2, <2>3, <2>4 DEF Next
<1> QED BY <1>13, <1>14

\* At each end, whatever the programs, the network and the other end do,
\* imsgid_map is the inverse of the messages' imsgid, pending_msgs holds
\* exactly the messages that are WRITING, and the flags of every message say
\* what its queues hold.
THEOREM LocalInvariant == Spec => []LocalInv
BY LocalInit, LocalNext, PTL DEF Spec

\* imsgid_map finds exactly the messages that the other end opened, under
\* the id they have there: msg_switch.c gives entries back whenever a
\* message is disconnected or freed.
THEOREM ImsgidMapInvariant == Spec => []ImsgidMap
<1>1. LocalInv => ImsgidMap BY DEF LocalInv, Loc, MapOK, ImsgidMap, Msg
<1> QED BY <1>1, LocalInvariant, PTL

\* Counting what is in pending_msgs once or not at all.
LEMMA CountOnce ==
  ASSUME NEW S, NEW q \in Seq(S), NEW id
  PROVE  LET A == {i \in DOMAIN q : q[i] = id} IN
         /\ Once(q, id) => Cardinality(A) = 1
         /\ ~Listed(q, id) => Cardinality(A) = 0
<1> DEFINE A == {i \in DOMAIN q : q[i] = id}
<1>1. DOMAIN q = 1 .. Len(q) OBVIOUS
<1>2. ASSUME Once(q, id) PROVE Cardinality(A) = 1
  <2>1. PICK i \in 1 .. Len(q) : q[i] = id /\ \A j \in 1 .. Len(q) : q[j] = id =>
          j = i BY <1>2 DEF Once
  <2>2. A = {i} BY <1>1, <2>1
  <2> QED BY <2>2, FS_Singleton
<1>3. ASSUME ~Listed(q, id) PROVE Cardinality(A) = 0
  <2>1. A = {} BY <1>1, <1>3 DEF Listed
  <2> QED BY <2>1, FS_EmptySet
<1> QED BY <1>2, <1>3

\* A message that is not disconnected is in pending_msgs once exactly while
\* it is WRITING, so that its packets are sent and none is sent twice.
THEOREM WritingIsPendingInvariant == Spec => []WritingIsPending
<1>1. LocalInv => WritingIsPending
  <2> SUFFICES ASSUME LocalInv PROVE WritingIsPending OBVIOUS
  <2> SUFFICES ASSUME NEW p \in Ends, NEW id \in Live(p), ~Has(sw[p], id, "DISCONNECTED")
               PROVE  LET Mine(x) == x = id IN
                      /\ Count(Mine, sw[p].pending_msgs) = IF Has(sw[p], id, "WRITING") THEN 1
                         ELSE 0
                      /\ Has(sw[p], id, "WRITING") => Msg(p, id).writ_queue # << >>
    BY DEF WritingIsPending
  <2> DEFINE s == sw[p]
             m == s.msgs[id]
             q == s.pending_msgs
             Mine(x) == x = id
  <2>1. Loc(Convs, s) /\ id \in MsgIds /\ Exists(s, id) BY DEF LocalInv, Live
  <2>2. s \in Switches(Convs) /\ Sound(m) /\ PendFor(q, id, m) BY <2>1, LocAt
  <2>3. q \in Seq(0 .. MaxMsgId) BY <2>2, SwitchFacts
  <2>4. "WRITING" \in m.status => m.writ_queue # << >> BY <2>2 DEF Sound, Has
  <2>5. IF "WRITING" \in m.status THEN Once(q, id) ELSE ~Listed(q, id) BY <2>2 DEF PendFor, Has
  <2> DEFINE n == Count(Mine, q)
  <2>6. n = IF "WRITING" \in m.status THEN 1 ELSE 0
    <3> DEFINE A == {i \in DOMAIN q : q[i] = id}
    <3>1. n = Cardinality(A) BY DEF Count
    <3>2. /\ Once(q, id) => Cardinality(A) = 1
          /\ ~Listed(q, id) => Cardinality(A) = 0
      <4> HIDE DEF q
      <4> QED BY <2>3, CountOnce
    <3> QED BY <2>5, <3>1, <3>2
  <2> QED BY <2>4, <2>6 DEF Has, Msg
<1> QED BY <1>1, LocalInvariant, PTL

----------------------------------------------------------------------------
(* The frames of one message in a stream of frames. *)

\* PACK, OK or DISCON.
Kind(t) == IF t.kind = "PACK" THEN "PACK" ELSE t.what

\* t is a frame of kind k of the message c.
Of(t, k, c) == t.conv = c /\ Kind(t) = k

\* t is a packet or DISCON of another message that its opener gave the same
\* msgid.
Rival(t, c) == Kind(t) # "OK" /\ t.conv # c /\ t.conv[1] = c[1] /\ t.conv[3] = c[3]

\* A frame of kind k of c is in X.
Sent(X, k, c) == \E i \in 1 .. Len(X) : Of(X[i], k, c)

\* At most one is.
Single(X, k, c) == \A i, j \in 1 .. Len(X) : Of(X[i], k, c) /\ Of(X[j], k, c) => i = j

\* No packet of c comes after its DISCON.
Ordered(X, c) == \A i, j \in 1 .. Len(X) : Of(X[i], "DISCON", c) /\ Of(X[j], "PACK", c) => j < i

\* The DISCON of c comes before anything of a later message of the same id.
Ahead(X, c) == \A i \in 1 .. Len(X) : Rival(X[i], c) =>
    \E j \in 1 .. (i - 1) : Of(X[j], "DISCON", c)

\* Nothing of another message of the same id comes after a packet of c.
Newest(X, c) == \A i, j \in 1 .. Len(X) : i < j /\ Of(X[i], "PACK", c) => ~Rival(X[j], c)

\* The kinds of frames.
Kinds == {"PACK", "OK", "DISCON"}

\* Every frame is of one of these kinds.
LEMMA KindType ==
  ASSUME NEW t \in Tokens
  PROVE  Kind(t) \in Kinds
BY DEF Tokens, Packets, Resps, Kind, Kinds

\* The places of a stream and of the same with one more frame.
LEMMA AppendAt ==
  ASSUME NEW X \in Seq(Tokens), NEW t \in Tokens
  PROVE  /\ Append(X, t) \in Seq(Tokens) /\ Len(X) \in Nat /\ Len(Append(X, t)) = Len(X) + 1
         /\ \A i \in 1 .. Len(X) : Append(X, t)[i] = X[i]
         /\ Append(X, t)[Len(X) + 1] = t
         /\ \A i \in 1 .. Len(Append(X, t)) : i \in 1 .. Len(X) \/ i = Len(X) + 1
         /\ \A i \in 1 .. Len(X) : i \in 1 .. Len(Append(X, t)) /\ i < Len(X) + 1 /\ i \in Nat
         /\ Len(X) + 1 \in 1 .. Len(Append(X, t))
OBVIOUS

\* A frame of another message is sent.
LEMMA AppendOther ==
  ASSUME NEW X \in Seq(Tokens), NEW t \in Tokens, NEW c, t.conv # c
  PROVE  LET Z == Append(X, t) IN
         /\ \A k \in Kinds : (Sent(Z, k, c) <=> Sent(X, k, c))
            /\ (Single(X, k, c) => Single(Z, k, c))
         /\ Ordered(X, c) => Ordered(Z, c)
         /\ Ahead(X, c) /\ (Rival(t, c) => Sent(X, "DISCON", c)) => Ahead(Z, c)
         /\ Newest(X, c) /\ (Rival(t, c) => ~Sent(X, "PACK", c)) => Newest(Z, c)
<1> DEFINE Z == Append(X, t)
           n == Len(X)
<1>1. /\ Z \in Seq(Tokens) /\ n \in Nat /\ Len(Z) = n + 1
      /\ \A i \in 1 .. n : Z[i] = X[i]
      /\ Z[n + 1] = t
      /\ \A i \in 1 .. Len(Z) : i \in 1 .. n \/ i = n + 1
      /\ \A i \in 1 .. n : i \in 1 .. Len(Z) /\ i < n + 1 /\ i \in Nat
      /\ n + 1 \in 1 .. Len(Z)
  BY AppendAt
<1> HIDE DEF Z, n
<1>2. \A i \in 1 .. Len(Z), k \in Kinds : Of(Z[i], k, c) => i \in 1 .. n /\ Of(X[i], k, c)
  BY <1>1 DEF Of
<1>3. \A i \in 1 .. n, k \in Kinds : Of(X[i], k, c) => i \in 1 .. Len(Z) /\ Of(Z[i], k, c)
  BY <1>1 DEF Of
<1>4. "PACK" \in Kinds /\ "DISCON" \in Kinds BY DEF Kinds
<1>5. ASSUME NEW k \in Kinds PROVE (Sent(Z, k, c) <=> Sent(X, k, c))
        /\ (Single(X, k, c) => Single(Z, k, c))
  BY <1>2, <1>3 DEF Sent, Single, n
<1>6. Ordered(X, c) => Ordered(Z, c) BY <1>2, <1>4 DEF Ordered, n
<1>7. ASSUME Ahead(X, c), Rival(t, c) =>
        Sent(X, "DISCON", c), NEW i \in 1 .. Len(Z), Rival(Z[i], c)
      PROVE  \E j \in 1 .. (i - 1) : Of(Z[j], "DISCON", c)
  <2>1. CASE i \in 1 .. n
    <3>1. Rival(X[i], c) BY <1>1, <1>7, <2>1
    <3>2. PICK j \in 1 .. (i - 1) : Of(X[j], "DISCON", c) BY <1>7, <2>1, <3>1 DEF Ahead, n
    <3>3. j \in 1 .. n BY <1>1, <2>1
    <3> QED BY <1>3, <1>4, <3>2, <3>3
  <2>2. CASE i = n + 1
    <3>1. PICK j \in 1 .. n : Of(X[j], "DISCON", c) BY <1>1, <1>7, <2>2 DEF Sent, n
    <3>2. j \in 1 .. (i - 1) BY <1>1, <2>2
    <3> QED BY <1>3, <1>4, <3>1, <3>2
  <2> QED BY <1>1, <2>1, <2>2
<1>8. ASSUME Newest(X, c), Rival(t, c) =>
        ~Sent(X, "PACK", c), NEW i \in 1 .. Len(Z), NEW j \in 1 .. Len(Z), i < j,
             Of(Z[i], "PACK", c)
      PROVE  ~Rival(Z[j], c)
  <2>1. i \in 1 .. n /\ Of(X[i], "PACK", c) BY <1>2, <1>4, <1>8
  <2>2. CASE j \in 1 .. n BY <1>1, <1>8, <2>1, <2>2 DEF Newest, n
  <2>3. CASE j = n + 1 BY <1>1, <1>8, <2>1, <2>3 DEF Sent, n
  <2> QED BY <1>1, <2>2, <2>3
<1> QED BY <1>5, <1>6, <1>7, <1>8 DEF Ahead, Newest, Z

\* A frame of the message is sent.
LEMMA AppendOwn ==
  ASSUME NEW X \in Seq(Tokens), NEW t \in Tokens, NEW c, t.conv = c
  PROVE  LET Z == Append(X, t) IN
         /\ \A k \in Kinds : Sent(Z, k, c) <=> Sent(X, k, c) \/ Kind(t) = k
         /\ \A k \in Kinds : Single(X, k, c) /\ (Kind(t) = k => ~Sent(X, k, c)) =>
              Single(Z, k, c)
         /\ Ordered(X, c) /\ (Kind(t) = "PACK" => ~Sent(X, "DISCON", c)) => Ordered(Z, c)
         /\ Ahead(X, c) => Ahead(Z, c)
         /\ Newest(X, c) => Newest(Z, c)
<1> DEFINE Z == Append(X, t)
           n == Len(X)
<1>1. /\ Z \in Seq(Tokens) /\ n \in Nat /\ Len(Z) = n + 1
      /\ \A i \in 1 .. n : Z[i] = X[i]
      /\ Z[n + 1] = t
      /\ \A i \in 1 .. Len(Z) : i \in 1 .. n \/ i = n + 1
      /\ \A i \in 1 .. n : i \in 1 .. Len(Z) /\ i < n + 1 /\ i \in Nat
      /\ n + 1 \in 1 .. Len(Z)
  BY AppendAt
<1> HIDE DEF Z, n
<1>2. ~Rival(t, c) BY DEF Rival
<1>3. \A k : Of(t, k, c) <=> Kind(t) = k BY DEF Of
<1>4. ASSUME NEW k \in Kinds
      PROVE  /\ Sent(Z, k, c) <=> Sent(X, k, c) \/ Kind(t) = k
             /\ Single(X, k, c) /\ (Kind(t) = k => ~Sent(X, k, c)) => Single(Z, k, c)
  <2>1. Sent(X, k, c) => Sent(Z, k, c) BY <1>1 DEF Sent, n
  <2>2. Kind(t) = k => Sent(Z, k, c) BY <1>1, <1>3 DEF Sent
  <2>3. Sent(Z, k, c) => Sent(X, k, c) \/ Kind(t) = k BY <1>1, <1>3 DEF Sent, n
  <2>4. ASSUME Single(X, k, c), Kind(t) = k =>
          ~Sent(X, k, c), NEW i \in 1 .. Len(Z), NEW j \in 1 .. Len(Z),
               Of(Z[i], k, c), Of(Z[j], k, c)
        PROVE  i = j
    <3>1. CASE Kind(t) = k
      <4>1. \A l \in 1 .. n : ~Of(X[l], k, c) BY <2>4, <3>1 DEF Sent, n
      <4> QED BY <1>1, <2>4, <4>1
    <3>2. CASE Kind(t) # k
      <4>1. i \in 1 .. n /\ j \in 1 .. n BY <1>1, <1>3, <2>4, <3>2
      <4> QED BY <1>1, <2>4, <4>1 DEF Single, n
    <3> QED BY <3>1, <3>2
  <2> QED BY <2>1, <2>2, <2>3, <2>4 DEF Single
<1>5. ASSUME Ordered(X, c), Kind(t) = "PACK" =>
        ~Sent(X, "DISCON", c), NEW i \in 1 .. Len(Z), NEW j \in 1 .. Len(Z),
             Of(Z[i], "DISCON", c), Of(Z[j], "PACK", c)
      PROVE  j < i
  <2>1. CASE i \in 1 .. n /\ j \in 1 .. n BY <1>1, <1>5, <2>1 DEF Ordered, n
  <2>2. CASE i = n + 1 /\ j \in 1 .. n BY <1>1, <2>2
  <2>3. CASE i \in 1 .. n /\ j = n + 1
    <3>1. Kind(t) = "PACK" /\ Sent(X, "DISCON", c) BY <1>1, <1>3, <1>5, <2>3 DEF Sent, n
    <3> QED BY <1>5, <3>1
  <2>4. CASE i = n + 1 /\ j = n + 1 BY <1>1, <1>3, <1>5, <2>4
  <2> QED BY <1>1, <2>1, <2>2, <2>3, <2>4
<1>6. ASSUME Ahead(X, c), NEW i \in 1 .. Len(Z), Rival(Z[i], c)
      PROVE  \E j \in 1 .. (i - 1) : Of(Z[j], "DISCON", c)
  <2>1. i \in 1 .. n /\ Rival(X[i], c) BY <1>1, <1>2, <1>6
  <2>2. PICK j \in 1 .. (i - 1) : Of(X[j], "DISCON", c) BY <1>6, <2>1 DEF Ahead, n
  <2>3. j \in 1 .. n BY <1>1, <2>1
  <2> QED BY <1>1, <2>2, <2>3
<1>7. ASSUME Newest(X, c), NEW i \in 1 .. Len(Z), NEW j \in 1 .. Len(Z), i < j,
        Of(Z[i], "PACK", c)
      PROVE  ~Rival(Z[j], c)
  <2>1. CASE j = n + 1 BY <1>1, <1>2, <2>1
  <2>2. CASE j \in 1 .. n
    <3>1. i \in 1 .. n BY <1>1, <1>7, <2>2
    <3> QED BY <1>1, <1>7, <2>2, <3>1 DEF Newest, n
  <2> QED BY <1>1, <2>1, <2>2
<1> QED BY <1>4, <1>5, <1>6, <1>7 DEF Ordered, Ahead, Newest, Z

\* Z is a piece of X, from place o on.
Part(Z, X, o) == Len(Z) + o <= Len(X) /\ \A i \in 1 .. Len(Z) : Z[i] = X[i + o]

\* What holds of a stream holds of a piece of it.
LEMMA PartFacts ==
  ASSUME NEW X \in Seq(Tokens), NEW Z \in Seq(Tokens), NEW o \in Nat, Part(Z, X, o), NEW c
  PROVE  /\ \A k : (Sent(Z, k, c) => Sent(X, k, c)) /\ (Single(X, k, c) => Single(Z, k, c))
         /\ Ordered(X, c) => Ordered(Z, c)
         /\ Newest(X, c) => Newest(Z, c)
         /\ o = 0 /\ Ahead(X, c) => Ahead(Z, c)
<1>1. Len(X) \in Nat /\ Len(Z) \in Nat OBVIOUS
<1>2. \A i \in 1 .. Len(Z) : i + o \in 1 .. Len(X) /\ Z[i] = X[i + o] BY <1>1 DEF Part
<1>3. ASSUME NEW k PROVE (Sent(Z, k, c) => Sent(X, k, c))
        /\ (Single(X, k, c) => Single(Z, k, c))
  <2>1. Sent(Z, k, c) => Sent(X, k, c) BY <1>2 DEF Sent
  <2>2. ASSUME Single(X, k, c), NEW i \in 1 .. Len(Z), NEW j \in 1 .. Len(Z), Of(Z[i], k, c),
          Of(Z[j], k, c)
        PROVE  i = j
    <3>1. i + o = j + o BY <1>2, <2>2 DEF Single
    <3> QED BY <3>1
  <2> QED BY <2>1, <2>2 DEF Single
<1>4. ASSUME Ordered(X, c), NEW i \in 1 .. Len(Z), NEW j \in 1 .. Len(Z), Of(Z[i], "DISCON", c),
        Of(Z[j], "PACK", c)
      PROVE  j < i
  <2>1. j + o < i + o BY <1>2, <1>4 DEF Ordered
  <2> QED BY <2>1
<1>5. ASSUME Newest(X, c), NEW i \in 1 .. Len(Z), NEW j \in 1 .. Len(Z), i < j,
        Of(Z[i], "PACK", c)
      PROVE  ~Rival(Z[j], c)
  <2>1. i + o < j + o BY <1>5
  <2> QED BY <1>2, <1>5, <2>1 DEF Newest
<1>6. ASSUME o = 0, Ahead(X, c), NEW i \in 1 .. Len(Z), Rival(Z[i], c)
      PROVE  \E j \in 1 .. (i - 1) : Of(Z[j], "DISCON", c)
  <2>1. i \in 1 .. Len(X) /\ Z[i] = X[i] BY <1>2, <1>6
  <2>2. PICK j \in 1 .. (i - 1) : Of(X[j], "DISCON", c) BY <1>6, <2>1 DEF Ahead
  <2>3. j \in 1 .. Len(Z) BY <1>1
  <2>4. Z[j] = X[j] BY <1>2, <1>6, <2>3
  <2> QED BY <2>2, <2>4
<1> QED BY <1>3, <1>4, <1>5, <1>6 DEF Ordered, Newest, Ahead

\* The places of a stream and of the same without its first frame.
LEMMA TailAt ==
  ASSUME NEW X \in Seq(Tokens), X # << >>
  PROVE  /\ Tail(X) \in Seq(Tokens) /\ Part(Tail(X), X, 1) /\ Head(X) = X[1]
            /\ Head(X) \in Tokens
         /\ Len(X) \in Nat \ {0} /\ Len(Tail(X)) = Len(X) - 1 /\ 1 \in 1 .. Len(X)
         /\ \A i \in 1 .. Len(X) : i = 1 \/ (i - 1 \in 1 .. Len(Tail(X))
                                             /\ Tail(X)[i - 1] = X[i] /\ i > 1)
<1>1. Len(X) \in Nat \ {0} /\ Tail(X) \in Seq(Tokens) /\ Len(Tail(X)) = Len(X) - 1 BY TailSome
<1>2. Head(X) = X[1] /\ Head(X) \in Tokens OBVIOUS
<1>3. \A i \in 1 .. Len(Tail(X)) : Tail(X)[i] = X[i + 1] BY <1>1
<1>4. Part(Tail(X), X, 1) BY <1>1, <1>3 DEF Part
<1> QED BY <1>1, <1>2, <1>3, <1>4

\* The first frame is read; it is of another message.
LEMMA TailOther ==
  ASSUME NEW X \in Seq(Tokens), X # << >>, NEW c, Head(X).conv # c
  PROVE  LET Z == Tail(X) IN
         /\ \A k \in Kinds : (Sent(Z, k, c) <=> Sent(X, k, c))
            /\ (Single(X, k, c) => Single(Z, k, c))
         /\ Ordered(X, c) => Ordered(Z, c)
         /\ Ahead(X, c) => Ahead(Z, c) /\ ~Rival(Head(X), c)
         /\ Newest(X, c) => Newest(Z, c)
<1> DEFINE Z == Tail(X)
           h == Head(X)
<1>1. /\ Z \in Seq(Tokens) /\ Part(Z, X, 1) /\ h = X[1] /\ h \in Tokens
      /\ Len(X) \in Nat \ {0} /\ Len(Z) = Len(X) - 1 /\ 1 \in 1 .. Len(X)
      /\ \A i \in 1 .. Len(X) : i = 1 \/ (i - 1 \in 1 .. Len(Z) /\ Z[i - 1] = X[i] /\ i > 1)
  BY TailAt
<1>2. h.conv # c OBVIOUS
<1> HIDE DEF Z, h
<1>3. /\ \A k : (Sent(Z, k, c) => Sent(X, k, c)) /\ (Single(X, k, c) => Single(Z, k, c))
      /\ Ordered(X, c) => Ordered(Z, c)
      /\ Newest(X, c) => Newest(Z, c)
  BY <1>1, PartFacts
<1>4. ASSUME NEW k \in Kinds, Sent(X, k, c) PROVE Sent(Z, k, c)
  <2>1. PICK i \in 1 .. Len(X) : Of(X[i], k, c) BY <1>4 DEF Sent
  <2>2. i # 1 BY <1>1, <1>2, <2>1 DEF Of
  <2> QED BY <1>1, <2>1, <2>2 DEF Sent
<1>5. ASSUME Ahead(X, c), NEW i \in 1 .. Len(Z), Rival(Z[i], c)
      PROVE  \E j \in 1 .. (i - 1) : Of(Z[j], "DISCON", c)
  <2>1. i + 1 \in 1 .. Len(X) /\ X[i + 1] = Z[i] BY <1>1 DEF Part
  <2>2. PICK j \in 1 .. ((i + 1) - 1) : Of(X[j], "DISCON", c) BY <1>5, <2>1 DEF Ahead
  <2>3. j # 1 BY <1>1, <1>2, <2>2 DEF Of
  <2>4. j \in 1 .. Len(X) BY <1>1, <2>1
  <2>5. j - 1 \in 1 .. (i - 1) /\ Z[j - 1] = X[j] BY <1>1, <2>2, <2>3, <2>4
  <2> QED BY <2>2, <2>5
<1>6. ASSUME Ahead(X, c) PROVE ~Rival(h, c)
  <2>1. Rival(X[1], c) => \E j \in 1 .. (1 - 1) : Of(X[j], "DISCON", c) BY <1>1, <1>6 DEF Ahead
  <2>2. 1 .. (1 - 1) = {} OBVIOUS
  <2> QED BY <1>1, <2>1, <2>2
<1> QED BY <1>3, <1>4, <1>5, <1>6 DEF Ahead, Z, h

\* The first frame is read; it is of this message.
LEMMA TailOwn ==
  ASSUME NEW X \in Seq(Tokens), X # << >>, NEW c, Head(X).conv = c
  PROVE  LET Z == Tail(X)
             h == Kind(Head(X)) IN
         /\ Sent(X, h, c) /\ h \in Kinds
         /\ \A k \in Kinds \ {h} : Sent(Z, k, c) <=> Sent(X, k, c)
         /\ \A k \in Kinds : (Single(X, k, c) => Single(Z, k, c))
            /\ (Sent(Z, k, c) => Sent(X, k, c))
         /\ Single(X, h, c) => ~Sent(Z, h, c)
         /\ Ordered(X, c) => Ordered(Z, c)
         /\ Ordered(X, c) /\ h = "DISCON" => ~Sent(Z, "PACK", c)
         /\ Ahead(X, c) /\ h # "DISCON" => Ahead(Z, c)
         /\ Newest(X, c) => Newest(Z, c) /\ (h = "PACK" => Ahead(Z, c))
<1> DEFINE Z == Tail(X)
           t == Head(X)
           h == Kind(t)
<1>1. /\ Z \in Seq(Tokens) /\ Part(Z, X, 1) /\ t = X[1] /\ t \in Tokens
      /\ Len(X) \in Nat \ {0} /\ Len(Z) = Len(X) - 1 /\ 1 \in 1 .. Len(X)
      /\ \A i \in 1 .. Len(X) : i = 1 \/ (i - 1 \in 1 .. Len(Z) /\ Z[i - 1] = X[i] /\ i > 1)
  BY TailAt
<1>2. t.conv = c OBVIOUS
<1>3. h \in Kinds BY <1>1, KindType
<1>4. \A i \in 1 .. Len(Z) : i + 1 \in 1 .. Len(X) /\ X[i + 1] = Z[i] /\ 1 < i + 1 BY <1>1
        DEF Part
<1>5. \A k : Of(t, k, c) <=> h = k BY <1>2 DEF Of
<1> HIDE DEF Z, t, h
<1>6. /\ \A k : (Sent(Z, k, c) => Sent(X, k, c)) /\ (Single(X, k, c) => Single(Z, k, c))
      /\ Ordered(X, c) => Ordered(Z, c)
      /\ Newest(X, c) => Newest(Z, c)
  BY <1>1, PartFacts
<1>7. Sent(X, h, c) BY <1>1, <1>5 DEF Sent
<1>8. ASSUME NEW k \in Kinds \ {h}, Sent(X, k, c) PROVE Sent(Z, k, c)
  <2>1. PICK i \in 1 .. Len(X) : Of(X[i], k, c) BY <1>8 DEF Sent
  <2>2. i # 1 BY <1>1, <1>5, <1>8, <2>1
  <2> QED BY <1>1, <2>1, <2>2 DEF Sent
<1>9. ASSUME Single(X, h, c), Sent(Z, h, c) PROVE FALSE
  <2>1. PICK i \in 1 .. Len(Z) : Of(Z[i], h, c) BY <1>9 DEF Sent
  <2>2. 1 = i + 1 BY <1>1, <1>4, <1>5, <1>9, <2>1 DEF Single
  <2> QED BY <1>4, <2>2
<1>10. ASSUME Ordered(X, c), h = "DISCON", Sent(Z, "PACK", c) PROVE FALSE
  <2>1. PICK i \in 1 .. Len(Z) : Of(Z[i], "PACK", c) BY <1>10 DEF Sent
  <2>2. i + 1 < 1 BY <1>1, <1>4, <1>5, <1>10, <2>1 DEF Ordered
  <2> QED BY <1>4, <2>2
<1>11. ASSUME Ahead(X, c), h # "DISCON", NEW i \in 1 .. Len(Z), Rival(Z[i], c)
      PROVE  \E j \in 1 .. (i - 1) : Of(Z[j], "DISCON", c)
  <2>1. i + 1 \in 1 .. Len(X) /\ X[i + 1] = Z[i] BY <1>4
  <2>2. PICK j \in 1 .. ((i + 1) - 1) : Of(X[j], "DISCON", c) BY <1>11, <2>1 DEF Ahead
  <2>3. j # 1 BY <1>1, <1>5, <1>11, <2>2
  <2>4. j \in 1 .. Len(X) BY <1>1, <2>1
  <2>5. j - 1 \in 1 .. (i - 1) /\ Z[j - 1] = X[j] BY <1>1, <2>2, <2>3, <2>4
  <2> QED BY <2>2, <2>5
<1>12. ASSUME Newest(X, c), h = "PACK" PROVE Ahead(Z, c)
  <2>1. \A i \in 1 .. Len(Z) : ~Rival(Z[i], c) BY <1>1, <1>4, <1>5, <1>12 DEF Newest
  <2> QED BY <2>1 DEF Ahead
<1> QED BY <1>3, <1>6, <1>7, <1>8, <1>9, <1>10, <1>11, <1>12 DEF Ahead, Z, h, t

\* Nothing is out of order where nothing is sent.
LEMMA UnsentFacts ==
  ASSUME NEW X, NEW c
  PROVE  /\ ~Sent(X, "PACK", c) => Newest(X, c) /\ Ordered(X, c)
         /\ \A k : ~Sent(X, k, c) => Single(X, k, c)
         /\ (\A i \in 1 .. Len(X) : X[i].conv # c) => \A k : ~Sent(X, k, c)
BY DEF Sent, Newest, Ordered, Single, Of

----------------------------------------------------------------------------
(* What an end has of one message. *)

\* What of a message the other end depends on: that it is there, that it has
\* not sent DISCON, that it was disconnected, that it waits for an
\* acknowledgement, that it owes one, that it was never written or read, and
\* that it was sent more than its buffer takes.
Aspects(m) ==
  {"alive"}
    \cup (IF "SENT_DISCONNECT" \in m.status THEN {} ELSE {"open"})
    \cup (IF "DISCONNECTED" \in m.status THEN {"gone"} ELSE {})
    \cup (IF "SENT_DISCONNECT" \notin m.status /\ "WAITING_FOR_RESP" \in m.status THEN {"waits"}
          ELSE {})
    \cup (IF "DISCONNECTED" \notin m.status /\ "NEED_TO_SEND_RESP" \in m.status THEN {"needs"}
          ELSE {})
    \cup (IF m.n_writ = 0 THEN {"unwritten"} ELSE {})
    \cup (IF m.n_read = 0 THEN {"unread"} ELSE {})
    \cup (IF Len(m.read_queue) > NBuff THEN {"overrun"} ELSE {})

\* Each of them.
LEMMA AspectFacts ==
  ASSUME NEW m
  PROVE  LET V == Aspects(m) IN
         /\ "alive" \in V
         /\ "open" \in V <=> "SENT_DISCONNECT" \notin m.status
         /\ "gone" \in V <=> "DISCONNECTED" \in m.status
         /\ "waits" \in V <=> "SENT_DISCONNECT" \notin m.status
            /\ "WAITING_FOR_RESP" \in m.status
         /\ "needs" \in V <=> "DISCONNECTED" \notin m.status /\ "NEED_TO_SEND_RESP" \in m.status
         /\ "unwritten" \in V <=> m.n_writ = 0
         /\ "unread" \in V <=> m.n_read = 0
         /\ "overrun" \in V <=> Len(m.read_queue) > NBuff
BY DEF Aspects

\* The aspects of the messages of A that are c.
View(A, c) == UNION {Aspects(A[id]) : id \in {i \in MsgIds : A[i] # NoMsg /\ A[i].conv = c}}

\* At most one is.
Unique(A) == \A i, j \in MsgIds : A[i] # NoMsg /\ A[j] # NoMsg /\ A[i].conv = A[j].conv => i = j

\* An aspect of a message.
LEMMA ViewIn ==
  ASSUME NEW A, NEW c, NEW f
  PROVE  f \in View(A, c) <=> \E i \in MsgIds : A[i] # NoMsg /\ A[i].conv = c
      /\ f \in Aspects(A[i])
BY DEF View

\* The message that is c has its aspects.
LEMMA ViewOf ==
  ASSUME NEW A, Unique(A), NEW id \in MsgIds, A[id] # NoMsg
  PROVE  View(A, A[id].conv) = Aspects(A[id])
<1> DEFINE c == A[id].conv
<1>1. \A i \in MsgIds : A[i] # NoMsg /\ A[i].conv = c <=> i = id BY DEF Unique
<1>2. {i \in MsgIds : A[i] # NoMsg /\ A[i].conv = c} = {id} BY <1>1
<1>3. View(A, c) = UNION {Aspects(A[i]) : i \in {id}} BY <1>2 DEF View
<1>4. UNION {Aspects(A[i]) : i \in {id}} = Aspects(A[id]) OBVIOUS
<1> QED BY <1>3, <1>4

\* There is one or there is none.
LEMMA AliveIn ==
  ASSUME NEW A, NEW c
  PROVE  /\ "alive" \in View(A, c) <=> \E i \in MsgIds : A[i] # NoMsg /\ A[i].conv = c
         /\ "alive" \notin View(A, c) => View(A, c) = {}
<1>1. \A m : "alive" \in Aspects(m) BY AspectFacts
<1>2. "alive" \in View(A, c) <=> \E i \in MsgIds : A[i] # NoMsg /\ A[i].conv = c BY <1>1, ViewIn
<1>3. "alive" \notin View(A, c) => \A f : f \notin View(A, c) BY <1>2, ViewIn
<1> QED BY <1>2, <1>3

\* A step that leaves the message alone leaves its aspects.
LEMMA SameView ==
  ASSUME NEW A, NEW Z, NEW d, \A i \in MsgIds : A[i] # NoMsg /\ A[i].conv = d => Z[i] = A[i],
         \A i \in MsgIds : Z[i] # NoMsg /\ Z[i].conv = d => Z[i] = A[i]
  PROVE  View(Z, d) = View(A, d)
<1>1. ASSUME NEW f, f \in View(Z, d) PROVE f \in View(A, d)
  <2>1. PICK i \in MsgIds : Z[i] # NoMsg /\ Z[i].conv = d /\ f \in Aspects(Z[i]) BY <1>1, ViewIn
  <2>2. A[i] = Z[i] BY <2>1
  <2>3. A[i] # NoMsg /\ A[i].conv = d /\ f \in Aspects(A[i]) BY <2>1, <2>2
  <2> QED BY <2>3, ViewIn
<1>2. ASSUME NEW f, f \in View(A, d) PROVE f \in View(Z, d)
  <2>1. PICK i \in MsgIds : A[i] # NoMsg /\ A[i].conv = d /\ f \in Aspects(A[i]) BY <1>2, ViewIn
  <2>2. A[i] = Z[i] BY <2>1
  <2>3. Z[i] # NoMsg /\ Z[i].conv = d /\ f \in Aspects(Z[i]) BY <2>1, <2>2
  <2> QED BY <2>3, ViewIn
<1> QED BY <1>1, <1>2

\* No message, no aspects.
LEMMA NoView ==
  ASSUME NEW A, NEW c, \A i \in MsgIds : ~(A[i] # NoMsg /\ A[i].conv = c)
  PROVE  View(A, c) = {}
BY AliveIn

\* The message at id is c.
LEMMA ViewIs ==
  ASSUME NEW A, Unique(A), NEW id \in MsgIds, NEW m, A[id] = m, m # NoMsg, NEW c, m.conv = c
  PROVE  View(A, c) = Aspects(m)
BY ViewOf

\* The messages A with n at id.
Puts(A, Z, id, n) == Z = [A EXCEPT ![id] = n]

\* What msgs can be.
Slots == [MsgIds -> Messages(Convs) \cup {NoMsg}]

\* A message is replaced by one of the same conv.
LEMMA ViewTurn ==
  ASSUME NEW A \in Slots, Unique(A), NEW id \in MsgIds, NEW m \in Messages(Convs), A[id] = m,
         NEW n \in Messages(Convs), n.conv = m.conv, NEW Z, Puts(A, Z, id, n)
  PROVE  /\ Z \in Slots /\ Unique(Z)
         /\ View(A, m.conv) = Aspects(m) /\ View(Z, m.conv) = Aspects(n)
         /\ \A d : d # m.conv => View(Z, d) = View(A, d)
<1>1. m # NoMsg /\ n # NoMsg BY MessageFacts
<1>2. Z \in Slots BY DEF Slots, Puts
<1>3. \A i \in MsgIds : Z[i] = IF i = id THEN n ELSE A[i] BY DEF Slots, Puts
<1>4. \A i \in MsgIds : (Z[i] # NoMsg <=> A[i] # NoMsg) /\ Z[i].conv = A[i].conv BY <1>1, <1>3
<1>5. Unique(Z) BY <1>4 DEF Unique
<1>6. View(A, m.conv) = Aspects(m) BY <1>1, ViewOf
<1>7. View(Z, n.conv) = Aspects(n) BY <1>1, <1>3, <1>5, ViewIs
<1>8. ASSUME NEW d, d # m.conv PROVE View(Z, d) = View(A, d)
  <2>1. \A i \in MsgIds : A[i] # NoMsg /\ A[i].conv = d => Z[i] = A[i] BY <1>3, <1>8
  <2>2. \A i \in MsgIds : Z[i] # NoMsg /\ Z[i].conv = d => Z[i] = A[i] BY <1>3, <1>8
  <2> QED BY <2>1, <2>2, SameView
<1> QED BY <1>2, <1>5, <1>6, <1>7, <1>8

\* A message is freed.
LEMMA ViewFree ==
  ASSUME NEW A \in Slots, Unique(A), NEW id \in MsgIds, NEW m \in Messages(Convs), A[id] = m,
         NEW Z, Puts(A, Z, id, NoMsg)
  PROVE  /\ Z \in Slots /\ Unique(Z)
         /\ View(A, m.conv) = Aspects(m) /\ View(Z, m.conv) = {}
         /\ \A d : d # m.conv => View(Z, d) = View(A, d)
<1>1. m # NoMsg BY MessageFacts
<1>2. Z \in Slots BY DEF Slots, Puts
<1>3. \A i \in MsgIds : Z[i] = IF i = id THEN NoMsg ELSE A[i] BY DEF Slots, Puts
<1>4. Unique(Z) BY <1>3 DEF Unique
<1>5. View(A, m.conv) = Aspects(m) BY <1>1, ViewOf
<1>6. View(Z, m.conv) = {}
  <2>1. \A i \in MsgIds : ~(Z[i] # NoMsg /\ Z[i].conv = m.conv) BY <1>1, <1>3 DEF Unique
  <2> QED BY <2>1, NoView
<1>7. ASSUME NEW d, d # m.conv PROVE View(Z, d) = View(A, d)
  <2>1. \A i \in MsgIds : A[i] # NoMsg /\ A[i].conv = d => Z[i] = A[i] BY <1>3, <1>7
  <2>2. \A i \in MsgIds : Z[i] # NoMsg /\ Z[i].conv = d => Z[i] = A[i] BY <1>3, <1>7
  <2> QED BY <2>1, <2>2, SameView
<1> QED BY <1>2, <1>4, <1>5, <1>6, <1>7

\* A message is created.
LEMMA ViewNew ==
  ASSUME NEW A \in Slots, Unique(A), NEW id \in MsgIds, A[id] = NoMsg,
         NEW n \in Messages(Convs), "alive" \notin View(A, n.conv), NEW Z, Puts(A, Z, id, n)
  PROVE  /\ Z \in Slots /\ Unique(Z)
         /\ View(A, n.conv) = {} /\ View(Z, n.conv) = Aspects(n)
         /\ \A d : d # n.conv => View(Z, d) = View(A, d)
<1>1. n # NoMsg BY MessageFacts
<1>2. Z \in Slots BY DEF Slots, Puts
<1>3. \A i \in MsgIds : Z[i] = IF i = id THEN n ELSE A[i] BY DEF Slots, Puts
<1>4. \A i \in MsgIds : ~(A[i] # NoMsg /\ A[i].conv = n.conv) /\ View(A, n.conv) = {} BY AliveIn
<1>5. Unique(Z) BY <1>3, <1>4 DEF Unique
<1>6. View(Z, n.conv) = Aspects(n) BY <1>1, <1>3, <1>5, ViewIs
<1>7. ASSUME NEW d, d # n.conv PROVE View(Z, d) = View(A, d)
  <2>1. \A i \in MsgIds : A[i] # NoMsg /\ A[i].conv = d => Z[i] = A[i] BY <1>3, <1>7
  <2>2. \A i \in MsgIds : Z[i] # NoMsg /\ Z[i].conv = d => Z[i] = A[i] BY <1>3, <1>7
  <2> QED BY <2>1, <2>2, SameView
<1>8. View(A, n.conv) = {} BY AliveIn
<1> QED BY <1>2, <1>5, <1>6, <1>7, <1>8

\* The views of a switch that has only begun.
LEMMA ViewEmpty ==
  ASSUME NEW A, \A i \in MsgIds : A[i] = NoMsg
  PROVE  Unique(A) /\ \A c : View(A, c) = {}
BY AliveIn DEF Unique

----------------------------------------------------------------------------
(* What the two ends have of one message, and what is underway. *)

\* Aspects that go together.
Proper(V) ==
  /\ "open" \in V => "alive" \in V /\ "gone" \notin V
  /\ "gone" \in V => "alive" \in V
  /\ "waits" \in V => "open" \in V
  /\ "needs" \in V => "alive" \in V /\ "gone" \notin V
  /\ "unwritten" \in V => "alive" \in V
  /\ "unread" \in V => "alive" \in V

\* From the end with V to the end with W: one DISCON at most, no packet
\* after it, none before the message has sent it, and after the other end
\* has taken it nothing more.
Half(V, X, W, c) ==
  /\ Single(X, "DISCON", c)
  /\ Ordered(X, c)
  /\ Sent(X, "DISCON", c) => "open" \notin V
  /\ "gone" \in W => ~Sent(X, "PACK", c) /\ ~Sent(X, "DISCON", c) /\ "open" \notin V

\* A message that took no acknowledgement of another: at most one packet of
\* it is underway, or one acknowledgement, or one that is owed; none while
\* it does not wait; and its read buffer is never overrun.
Calm(V, X, W, Y, c) ==
  /\ Single(X, "PACK", c) /\ Single(X, "OK", c)
  /\ Sent(X, "PACK", c) => ~Sent(Y, "OK", c) /\ "needs" \notin W
  /\ Sent(Y, "OK", c) => "needs" \notin W
  /\ "open" \in V /\ "waits" \notin V =>
       ~Sent(X, "PACK", c) /\ ~Sent(Y, "OK", c) /\ "needs" \notin W
  /\ "overrun" \notin V

\* What it waits for is underway.
Awaited(V, X, W, Y, c) == "waits" \in V =>
    Sent(X, "PACK", c) \/ Sent(Y, "OK", c) \/ "needs" \in W

\* Something of c is in X.
Some(X, c) == Sent(X, "PACK", c) \/ Sent(X, "OK", c) \/ Sent(X, "DISCON", c)

\* A packet or DISCON of c is in X.
Data(X, c) == Sent(X, "PACK", c) \/ Sent(X, "DISCON", c)

\* What the opener knows: it has the message while the other end uses it,
\* and the other end keeps the message until DISCON reaches it.
Heard(V, X, W, Y, c) ==
  /\ Data(Y, c) \/ "open" \in W => "alive" \in V
  /\ "alive" \in W /\ "gone" \notin W => "open" \in V \/ Sent(X, "DISCON", c)

\* What the other end knows: while it does not have the message, the opener
\* has not been answered and has read nothing, and nothing of a later message
\* of the same id follows what is underway of this one.
Unheard(V, X, W, Y, c) ==
  /\ "gone" \in V /\ Data(X, c) => "alive" \in W
  /\ "alive" \notin W /\ Some(Y, c) => "open" \notin V /\ ~Data(X, c)
  /\ "alive" \notin W /\ ("open" \in V \/ Sent(X, "PACK", c)) =>
       ~Sent(X, "OK", c) /\ "needs" \notin V /\ ("alive" \in V => "unread" \in V)
  /\ "alive" \notin W => Newest(X, c)

\* A message that was never written is unknown to the other end; and a later
\* message of the same id comes after the DISCON of this one.
Begun(V, X, W, Y, c) ==
  /\ "unwritten" \in V =>
       "unread" \in V /\ "needs" \notin V /\ "alive" \notin W /\ ~Some(X, c) /\ ~Some(Y, c)
  /\ "unread" \notin W
  /\ "alive" \in W /\ "gone" \notin W => Ahead(X, c)

\* The opener has V of the message c and has sent X, the other end has W and
\* has sent Y; U are the ends that have a connection, R those whose process
\* also runs, mi the messages that took an acknowledgement of another one.
Pair(c, V, X, W, Y, U, R, mi) ==
  /\ Proper(V) /\ Proper(W)
  /\ Half(V, X, W, c) /\ Half(W, Y, V, c)
  /\ c \notin mi => Calm(V, X, W, Y, c) /\ Calm(W, Y, V, X, c)
  /\ c \notin mi /\ c[1] \in R /\ Other(c[1]) \in R =>
       Awaited(V, X, W, Y, c) /\ Awaited(W, Y, V, X, c)
  /\ c[1] \in U => Heard(V, X, W, Y, c)
  /\ Other(c[1]) \in R => Unheard(V, X, W, Y, c)
  /\ c[1] \in U /\ Other(c[1]) \in R /\ Sent(X, "PACK", c) /\ "alive" \notin W =>
       "open" \in V \/ ("alive" \in V /\ Sent(X, "DISCON", c))
  /\ Begun(V, X, W, Y, c)

----------------------------------------------------------------------------
(* How that changes: one lemma for the opener of the message (A), and one for the other end (B). *)

\* The aspect f is as before.
Same(V, Z, f) == f \in Z <=> f \in V

\* The aspect f does not come up.
Less(V, Z, f) == f \in Z => f \in V

\* What a frame of c, of kind k, at the end of X changes.
Posts(X, Z, k, c) ==
  /\ Sent(Z, "PACK", c) <=> Sent(X, "PACK", c) \/ k = "PACK"
  /\ Sent(Z, "OK", c) <=> Sent(X, "OK", c) \/ k = "OK"
  /\ Sent(Z, "DISCON", c) <=> Sent(X, "DISCON", c) \/ k = "DISCON"
  /\ Single(X, "PACK", c) /\ (k = "PACK" => ~Sent(X, "PACK", c)) => Single(Z, "PACK", c)
  /\ Single(X, "OK", c) /\ (k = "OK" => ~Sent(X, "OK", c)) => Single(Z, "OK", c)
  /\ Single(X, "DISCON", c) /\ (k = "DISCON" => ~Sent(X, "DISCON", c)) => Single(Z, "DISCON", c)
  /\ Ordered(X, c) /\ (k = "PACK" => ~Sent(X, "DISCON", c)) => Ordered(Z, c)
  /\ Ahead(X, c) => Ahead(Z, c)
  /\ Newest(X, c) => Newest(Z, c)

\* What reading a frame of c, of kind k, at the head of X changes.
Takes(X, Z, k, c) ==
  /\ Sent(X, k, c)
  /\ k # "PACK" => (Sent(Z, "PACK", c) <=> Sent(X, "PACK", c))
  /\ k # "OK" => (Sent(Z, "OK", c) <=> Sent(X, "OK", c))
  /\ k # "DISCON" => (Sent(Z, "DISCON", c) <=> Sent(X, "DISCON", c))
  /\ Single(X, "PACK", c) => Single(Z, "PACK", c) /\ (k = "PACK" => ~Sent(Z, "PACK", c))
  /\ Single(X, "OK", c) => Single(Z, "OK", c) /\ (k = "OK" => ~Sent(Z, "OK", c))
  /\ Single(X, "DISCON", c) => Single(Z, "DISCON", c) /\ (k = "DISCON" => ~Sent(Z, "DISCON", c))
  /\ Sent(Z, "PACK", c) => Sent(X, "PACK", c)
  /\ Sent(Z, "OK", c) => Sent(X, "OK", c)
  /\ Sent(Z, "DISCON", c) => Sent(X, "DISCON", c)
  /\ Ordered(X, c) => Ordered(Z, c) /\ (k = "DISCON" => ~Sent(Z, "PACK", c))
  /\ Ahead(X, c) /\ k # "DISCON" => Ahead(Z, c)
  /\ Newest(X, c) => Newest(Z, c) /\ (k = "PACK" => Ahead(Z, c))

\* Sending a frame changes that.
LEMMA AppendPosts ==
  ASSUME NEW X \in Seq(Tokens), NEW t \in Tokens, NEW k \in Kinds, NEW c, t.conv = c,
         Kind(t) = k
  PROVE  Posts(X, Append(X, t), k, c)
<1> DEFINE Z == Append(X, t)
<1>1. /\ \A j \in Kinds : Sent(Z, j, c) <=> Sent(X, j, c) \/ Kind(t) = j
      /\ \A j \in Kinds : Single(X, j, c) /\ (Kind(t) = j => ~Sent(X, j, c)) => Single(Z, j, c)
      /\ Ordered(X, c) /\ (Kind(t) = "PACK" => ~Sent(X, "DISCON", c)) => Ordered(Z, c)
      /\ Ahead(X, c) => Ahead(Z, c)
      /\ Newest(X, c) => Newest(Z, c)
  BY AppendOwn
<1>2. "PACK" \in Kinds /\ "OK" \in Kinds /\ "DISCON" \in Kinds BY DEF Kinds
<1> HIDE DEF Z
<1>3. Posts(X, Z, k, c) BY <1>1, <1>2 DEF Posts
<1> QED BY <1>3 DEF Z

\* Reading a frame changes that.
LEMMA TailTakes ==
  ASSUME NEW X \in Seq(Tokens), X # << >>, NEW k \in Kinds, NEW c, Head(X).conv = c,
         Kind(Head(X)) = k
  PROVE  Takes(X, Tail(X), k, c)
<1> DEFINE Z == Tail(X)
           h == Kind(Head(X))
<1>1. /\ Sent(X, h, c) /\ h \in Kinds
      /\ \A j \in Kinds \ {h} : Sent(Z, j, c) <=> Sent(X, j, c)
      /\ \A j \in Kinds : (Single(X, j, c) => Single(Z, j, c))
         /\ (Sent(Z, j, c) => Sent(X, j, c))
      /\ Single(X, h, c) => ~Sent(Z, h, c)
      /\ Ordered(X, c) => Ordered(Z, c)
      /\ Ordered(X, c) /\ h = "DISCON" => ~Sent(Z, "PACK", c)
      /\ Ahead(X, c) /\ h # "DISCON" => Ahead(Z, c)
      /\ Newest(X, c) => Newest(Z, c) /\ (h = "PACK" => Ahead(Z, c))
  BY TailOwn
<1>2. "PACK" \in Kinds /\ "OK" \in Kinds /\ "DISCON" \in Kinds /\ h = k BY DEF Kinds
<1> HIDE DEF Z, h
<1>3. Takes(X, Z, k, c) BY <1>1, <1>2 DEF Takes
<1> QED BY <1>3 DEF Z

\* Nothing that the other end depends on changes: V becomes Z.
IsQuiet(V, Z) ==
  /\ Proper(Z)
  /\ Same(V, Z, "alive") /\ Same(V, Z, "open") /\ Same(V, Z, "gone") /\ Same(V, Z, "waits")
     /\ Same(V, Z, "needs") /\ Same(V, Z, "unread")
  /\ Less(V, Z, "unwritten") /\ Less(V, Z, "overrun")

\* Nothing that the other end depends on changes, at its opener.
LEMMA QuietA ==
  ASSUME NEW c, NEW V, NEW X, NEW W, NEW Y, NEW U, NEW R, NEW mi,
         Pair(c, V, X, W, Y, U, R, mi), c[1] \in U, c[1] \in R, NEW Z, IsQuiet(V, Z)
  PROVE  Pair(c, Z, X, W, Y, U, R, mi)
BY DEF IsQuiet, Pair, Proper, Half, Calm, Awaited, Some, Data, Heard, Unheard, Begun, Same, Less

\* Nothing that the other end depends on changes, at the other end.
LEMMA QuietB ==
  ASSUME NEW c, NEW V, NEW X, NEW W, NEW Y, NEW U, NEW R, NEW mi,
         Pair(c, W, Y, V, X, U, R, mi), Other(c[1]) \in U, Other(c[1]) \in R, NEW Z,
         IsQuiet(V, Z)
  PROVE  Pair(c, W, Y, Z, X, U, R, mi)
BY DEF IsQuiet, Pair, Proper, Half, Calm, Awaited, Some, Data, Heard, Unheard, Begun, Same, Less

\* An acknowledgement that was owed is sent: V becomes Z.
IsAck(V, Z) ==
  /\ Proper(Z)
  /\ "needs" \in V
  /\ Same(V, Z, "alive") /\ Same(V, Z, "open") /\ Same(V, Z, "gone") /\ Same(V, Z, "waits")
     /\ Same(V, Z, "unread") /\ Same(V, Z, "unwritten") /\ Same(V, Z, "overrun")
  /\ "needs" \notin Z

\* An acknowledgement that was owed is sent, at its opener.
LEMMA AckA ==
  ASSUME NEW c, NEW V, NEW X, NEW W, NEW Y, NEW U, NEW R, NEW mi,
         Pair(c, V, X, W, Y, U, R, mi), c[1] \in U, c[1] \in R, NEW Z, IsAck(V, Z), NEW S,
         Posts(X, S, "OK", c)
  PROVE  Pair(c, Z, S, W, Y, U, R, mi)
BY DEF IsAck, Pair, Proper, Half, Calm, Awaited, Some, Data, Heard, Unheard, Begun, Same, Less,
   Posts

\* An acknowledgement that was owed is sent, at the other end.
LEMMA AckB ==
  ASSUME NEW c, NEW V, NEW X, NEW W, NEW Y, NEW U, NEW R, NEW mi,
         Pair(c, W, Y, V, X, U, R, mi), Other(c[1]) \in U, Other(c[1]) \in R, NEW Z,
         IsAck(V, Z), NEW S, Posts(X, S, "OK", c)
  PROVE  Pair(c, W, Y, Z, S, U, R, mi)
BY DEF IsAck, Pair, Proper, Half, Calm, Awaited, Some, Data, Heard, Unheard, Begun, Same, Less,
   Posts

\* DISCON is sent: V becomes Z.
IsDisc(V, Z) ==
  /\ Proper(Z)
  /\ "open" \in V
  /\ ~("unwritten" \in V /\ "unread" \in V)
  /\ Same(V, Z, "alive") /\ Same(V, Z, "gone") /\ Same(V, Z, "needs") /\ Same(V, Z, "unread")
     /\ Same(V, Z, "unwritten") /\ Same(V, Z, "overrun")
  /\ "open" \notin Z /\ "waits" \notin Z

\* DISCON is sent, at its opener.
LEMMA DiscA ==
  ASSUME NEW c, NEW V, NEW X, NEW W, NEW Y, NEW U, NEW R, NEW mi,
         Pair(c, V, X, W, Y, U, R, mi), c[1] \in U, c[1] \in R, NEW Z, IsDisc(V, Z), NEW S,
         Posts(X, S, "DISCON", c)
  PROVE  Pair(c, Z, S, W, Y, U, R, mi)
BY DEF IsDisc, Pair, Proper, Half, Calm, Awaited, Some, Data, Heard, Unheard, Begun, Same, Less,
   Posts

\* DISCON is sent, at the other end.
LEMMA DiscB ==
  ASSUME NEW c, NEW V, NEW X, NEW W, NEW Y, NEW U, NEW R, NEW mi,
         Pair(c, W, Y, V, X, U, R, mi), Other(c[1]) \in U, Other(c[1]) \in R, NEW Z,
         IsDisc(V, Z), NEW S, Posts(X, S, "DISCON", c)
  PROVE  Pair(c, W, Y, Z, S, U, R, mi)
BY DEF IsDisc, Pair, Proper, Half, Calm, Awaited, Some, Data, Heard, Unheard, Begun, Same, Less,
   Posts

\* A packet is sent: V becomes Z.
IsSend(V, Z) ==
  /\ Proper(Z)
  /\ "open" \in V
  /\ "waits" \notin V
  /\ "unwritten" \notin V
  /\ Same(V, Z, "alive") /\ Same(V, Z, "open") /\ Same(V, Z, "gone") /\ Same(V, Z, "needs")
     /\ Same(V, Z, "unread") /\ Same(V, Z, "unwritten") /\ Same(V, Z, "overrun")
  /\ "waits" \in Z

\* A packet is sent, at its opener.
LEMMA SendA ==
  ASSUME NEW c, NEW V, NEW X, NEW W, NEW Y, NEW U, NEW R, NEW mi,
         Pair(c, V, X, W, Y, U, R, mi), c[1] \in U, c[1] \in R, NEW Z, IsSend(V, Z), NEW S,
         Posts(X, S, "PACK", c)
  PROVE  Pair(c, Z, S, W, Y, U, R, mi)
BY DEF IsSend, Pair, Proper, Half, Calm, Awaited, Some, Data, Heard, Unheard, Begun, Same, Less,
   Posts

\* A packet is sent, at the other end.
LEMMA SendB ==
  ASSUME NEW c, NEW V, NEW X, NEW W, NEW Y, NEW U, NEW R, NEW mi,
         Pair(c, W, Y, V, X, U, R, mi), Other(c[1]) \in U, Other(c[1]) \in R, NEW Z,
         IsSend(V, Z), NEW S, Posts(X, S, "PACK", c)
  PROVE  Pair(c, W, Y, Z, S, U, R, mi)
BY DEF IsSend, Pair, Proper, Half, Calm, Awaited, Some, Data, Heard, Unheard, Begun, Same, Less,
   Posts

\* A disconnected message is freed: V becomes Z.
IsFreeGone(V, Z) ==
  /\ Proper(Z)
  /\ "gone" \in V
  /\ Z = {}

\* A disconnected message is freed, at its opener.
LEMMA FreeGoneA ==
  ASSUME NEW c, NEW V, NEW X, NEW W, NEW Y, NEW U, NEW R, NEW mi,
         Pair(c, V, X, W, Y, U, R, mi), c[1] \in U, c[1] \in R, NEW Z, IsFreeGone(V, Z)
  PROVE  Pair(c, Z, X, W, Y, U, R, mi)
BY DEF IsFreeGone, Pair, Proper, Half, Calm, Awaited, Some, Data, Heard, Unheard, Begun, Same,
   Less

\* A disconnected message is freed, at the other end.
LEMMA FreeGoneB ==
  ASSUME NEW c, NEW V, NEW X, NEW W, NEW Y, NEW U, NEW R, NEW mi,
         Pair(c, W, Y, V, X, U, R, mi), Other(c[1]) \in U, Other(c[1]) \in R, NEW Z,
         IsFreeGone(V, Z)
  PROVE  Pair(c, W, Y, Z, X, U, R, mi)
BY UnsentFacts DEF IsFreeGone, Pair, Proper, Half, Calm, Awaited, Some, Data, Heard, Unheard,
   Begun, Same, Less

\* A message that carried nothing is freed: V becomes Z.
IsFreeNew(V, Z) ==
  /\ Proper(Z)
  /\ "unwritten" \in V
  /\ "unread" \in V
  /\ Z = {}

\* A message that carried nothing is freed, at its opener.
LEMMA FreeNewA ==
  ASSUME NEW c, NEW V, NEW X, NEW W, NEW Y, NEW U, NEW R, NEW mi,
         Pair(c, V, X, W, Y, U, R, mi), c[1] \in U, c[1] \in R, NEW Z, IsFreeNew(V, Z)
  PROVE  Pair(c, Z, X, W, Y, U, R, mi)
BY DEF IsFreeNew, Pair, Proper, Half, Calm, Awaited, Some, Data, Heard, Unheard, Begun, Same,
   Less

\* A message that carried nothing is freed, at the other end.
LEMMA FreeNewB ==
  ASSUME NEW c, NEW V, NEW X, NEW W, NEW Y, NEW U, NEW R, NEW mi,
         Pair(c, W, Y, V, X, U, R, mi), Other(c[1]) \in U, Other(c[1]) \in R, NEW Z,
         IsFreeNew(V, Z)
  PROVE  Pair(c, W, Y, Z, X, U, R, mi)
BY DEF IsFreeNew, Pair, Proper, Half, Calm, Awaited, Some, Data, Heard, Unheard, Begun, Same,
   Less

\* The acknowledgement of another message is taken: V becomes Z.
IsUnwait(V, Z) ==
  /\ Proper(Z)
  /\ Same(V, Z, "alive") /\ Same(V, Z, "open") /\ Same(V, Z, "gone") /\ Same(V, Z, "needs")
     /\ Same(V, Z, "unread") /\ Same(V, Z, "unwritten") /\ Same(V, Z, "overrun")
  /\ "waits" \notin Z

\* The acknowledgement of another message is taken, at its opener.
LEMMA UnwaitA ==
  ASSUME NEW c, NEW V, NEW X, NEW W, NEW Y, NEW U, NEW R, NEW mi,
         Pair(c, V, X, W, Y, U, R, mi), c[1] \in U, c[1] \in R, NEW Z, IsUnwait(V, Z), c \in mi
  PROVE  Pair(c, Z, X, W, Y, U, R, mi)
BY DEF IsUnwait, Pair, Proper, Half, Calm, Awaited, Some, Data, Heard, Unheard, Begun, Same,
   Less

\* The acknowledgement of another message is taken, at the other end.
LEMMA UnwaitB ==
  ASSUME NEW c, NEW V, NEW X, NEW W, NEW Y, NEW U, NEW R, NEW mi,
         Pair(c, W, Y, V, X, U, R, mi), Other(c[1]) \in U, Other(c[1]) \in R, NEW Z,
         IsUnwait(V, Z), c \in mi
  PROVE  Pair(c, W, Y, Z, X, U, R, mi)
BY DEF IsUnwait, Pair, Proper, Half, Calm, Awaited, Some, Data, Heard, Unheard, Begun, Same,
   Less

\* A packet is taken: V becomes Z.
IsRecvPack(V, Z) ==
  /\ Proper(Z)
  /\ "alive" \in V
  /\ "gone" \notin V
  /\ Same(V, Z, "alive") /\ Same(V, Z, "open") /\ Same(V, Z, "gone") /\ Same(V, Z, "waits")
     /\ Same(V, Z, "unwritten")
  /\ "needs" \in Z
  /\ "unread" \notin Z
  /\ ("overrun" \in Z => "overrun" \in V \/ "needs" \in V)

\* A packet is taken, at its opener.
LEMMA RecvPackA ==
  ASSUME NEW c, NEW V, NEW X, NEW W, NEW Y, NEW U, NEW R, NEW mi,
         Pair(c, V, X, W, Y, U, R, mi), c[1] \in U, c[1] \in R, NEW Z, IsRecvPack(V, Z), NEW T,
         Takes(Y, T, "PACK", c)
  PROVE  Pair(c, Z, X, W, T, U, R, mi)
BY DEF IsRecvPack, Pair, Proper, Half, Calm, Awaited, Some, Data, Heard, Unheard, Begun, Same,
   Less, Takes

\* A packet is taken, at the other end.
LEMMA RecvPackB ==
  ASSUME NEW c, NEW V, NEW X, NEW W, NEW Y, NEW U, NEW R, NEW mi,
         Pair(c, W, Y, V, X, U, R, mi), Other(c[1]) \in U, Other(c[1]) \in R, NEW Z,
         IsRecvPack(V, Z), NEW T, Takes(Y, T, "PACK", c)
  PROVE  Pair(c, W, T, Z, X, U, R, mi)
BY DEF IsRecvPack, Pair, Proper, Half, Calm, Awaited, Some, Data, Heard, Unheard, Begun, Same,
   Less, Takes

\* The first packet creates the message: V becomes Z.
IsCreate(V, Z) ==
  /\ Proper(Z)
  /\ V = {}
  /\ "alive" \in Z /\ "open" \in Z /\ "needs" \in Z
  /\ "gone" \notin Z /\ "waits" \notin Z /\ "unread" \notin Z /\ "overrun" \notin Z

\* The first packet creates the message, at the other end.
LEMMA CreateB ==
  ASSUME NEW c, NEW V, NEW X, NEW W, NEW Y, NEW U, NEW R, NEW mi,
         Pair(c, W, Y, V, X, U, R, mi), Other(c[1]) \in U, Other(c[1]) \in R, NEW Z,
         IsCreate(V, Z), NEW T, Takes(Y, T, "PACK", c)
  PROVE  Pair(c, W, T, Z, X, U, R, mi)
BY DEF IsCreate, Pair, Proper, Half, Calm, Awaited, Some, Data, Heard, Unheard, Begun, Same,
   Less, Takes

\* The acknowledgement is taken: V becomes Z.
IsRecvOk(V, Z) ==
  /\ Proper(Z)
  /\ Same(V, Z, "alive") /\ Same(V, Z, "open") /\ Same(V, Z, "gone") /\ Same(V, Z, "needs")
     /\ Same(V, Z, "unread") /\ Same(V, Z, "unwritten") /\ Same(V, Z, "overrun")
  /\ "waits" \notin Z

\* The acknowledgement is taken, at its opener.
LEMMA RecvOkA ==
  ASSUME NEW c, NEW V, NEW X, NEW W, NEW Y, NEW U, NEW R, NEW mi,
         Pair(c, V, X, W, Y, U, R, mi), c[1] \in U, c[1] \in R, NEW Z, IsRecvOk(V, Z), NEW T,
         Takes(Y, T, "OK", c)
  PROVE  Pair(c, Z, X, W, T, U, R, mi)
BY DEF IsRecvOk, Pair, Proper, Half, Calm, Awaited, Some, Data, Heard, Unheard, Begun, Same,
   Less, Takes

\* The acknowledgement is taken, at the other end.
LEMMA RecvOkB ==
  ASSUME NEW c, NEW V, NEW X, NEW W, NEW Y, NEW U, NEW R, NEW mi,
         Pair(c, W, Y, V, X, U, R, mi), Other(c[1]) \in U, Other(c[1]) \in R, NEW Z,
         IsRecvOk(V, Z), NEW T, Takes(Y, T, "OK", c)
  PROVE  Pair(c, W, T, Z, X, U, R, mi)
BY DEF IsRecvOk, Pair, Proper, Half, Calm, Awaited, Some, Data, Heard, Unheard, Begun, Same,
   Less, Takes

\* DISCON is taken by a message that has sent its own: V becomes Z.
IsRecvFree(V, Z) ==
  /\ Proper(Z)
  /\ "open" \notin V
  /\ Z = {}

\* DISCON is taken by a message that has sent its own, at its opener.
LEMMA RecvFreeA ==
  ASSUME NEW c, NEW V, NEW X, NEW W, NEW Y, NEW U, NEW R, NEW mi,
         Pair(c, V, X, W, Y, U, R, mi), c[1] \in U, c[1] \in R, NEW Z, IsRecvFree(V, Z), NEW T,
         Takes(Y, T, "DISCON", c)
  PROVE  Pair(c, Z, X, W, T, U, R, mi)
BY DEF IsRecvFree, Pair, Proper, Half, Calm, Awaited, Some, Data, Heard, Unheard, Begun, Same,
   Less, Takes

\* DISCON is taken by a message that has sent its own, at the other end.
LEMMA RecvFreeB ==
  ASSUME NEW c, NEW V, NEW X, NEW W, NEW Y, NEW U, NEW R, NEW mi,
         Pair(c, W, Y, V, X, U, R, mi), Other(c[1]) \in U, Other(c[1]) \in R, NEW Z,
         IsRecvFree(V, Z), NEW T, Takes(Y, T, "DISCON", c)
  PROVE  Pair(c, W, T, Z, X, U, R, mi)
BY UnsentFacts DEF IsRecvFree, Pair, Proper, Half, Calm, Awaited, Some, Data, Heard, Unheard,
   Begun, Same, Less, Takes

\* DISCON is taken by a message that has not sent its own, which answers: V
\* becomes Z.
IsRecvLeft(V, Z) ==
  /\ Proper(Z)
  /\ "open" \in V
  /\ "alive" \in Z /\ "gone" \in Z
  /\ "open" \notin Z /\ "waits" \notin Z /\ "needs" \notin Z
  /\ Same(V, Z, "unread") /\ Same(V, Z, "unwritten")
  /\ Less(V, Z, "overrun")

\* DISCON is taken by a message that has not sent its own, which answers, at
\* its opener.
LEMMA RecvLeftA ==
  ASSUME NEW c, NEW V, NEW X, NEW W, NEW Y, NEW U, NEW R, NEW mi,
         Pair(c, V, X, W, Y, U, R, mi), c[1] \in U, c[1] \in R, NEW Z, IsRecvLeft(V, Z), NEW S,
         Posts(X, S, "DISCON", c), NEW T, Takes(Y, T, "DISCON", c)
  PROVE  Pair(c, Z, S, W, T, U, R, mi)
BY DEF IsRecvLeft, Pair, Proper, Half, Calm, Awaited, Some, Data, Heard, Unheard, Begun, Same,
   Less, Posts, Takes

\* DISCON is taken by a message that has not sent its own, which answers, at
\* the other end.
LEMMA RecvLeftB ==
  ASSUME NEW c, NEW V, NEW X, NEW W, NEW Y, NEW U, NEW R, NEW mi,
         Pair(c, W, Y, V, X, U, R, mi), Other(c[1]) \in U, Other(c[1]) \in R, NEW Z,
         IsRecvLeft(V, Z), NEW S, Posts(X, S, "DISCON", c), NEW T, Takes(Y, T, "DISCON", c)
  PROVE  Pair(c, W, T, Z, S, U, R, mi)
BY DEF IsRecvLeft, Pair, Proper, Half, Calm, Awaited, Some, Data, Heard, Unheard, Begun, Same,
   Less, Posts, Takes

\* A message is opened: V becomes Z.
IsBorn(V, Z) ==
  /\ Proper(Z)
  /\ V = {}
  /\ "alive" \in Z /\ "open" \in Z /\ "unwritten" \in Z /\ "unread" \in Z
  /\ "gone" \notin Z /\ "waits" \notin Z /\ "needs" \notin Z /\ "overrun" \notin Z

\* A message is opened, at its opener.
LEMMA BornA ==
  ASSUME NEW c, NEW V, NEW X, NEW W, NEW Y, NEW U, NEW R, NEW mi,
         Pair(c, V, X, W, Y, U, R, mi), c[1] \in U, c[1] \in R, NEW Z, IsBorn(V, Z), W = {},
         ~Some(X, c), ~Some(Y, c)
  PROVE  Pair(c, Z, X, W, Y, U, R, mi)
BY DEF IsBorn, Pair, Proper, Half, Calm, Awaited, Some, Data, Heard, Unheard, Begun, Same, Less

----------------------------------------------------------------------------
(* A frame of another message, and the end of a connection. *)

\* What a frame of another message at the end of X, or read at its head,
\* changes.
Passes(X, Z, c) ==
  /\ Sent(Z, "PACK", c) <=> Sent(X, "PACK", c)
  /\ Sent(Z, "OK", c) <=> Sent(X, "OK", c)
  /\ Sent(Z, "DISCON", c) <=> Sent(X, "DISCON", c)
  /\ Single(X, "PACK", c) => Single(Z, "PACK", c)
  /\ Single(X, "OK", c) => Single(Z, "OK", c)
  /\ Single(X, "DISCON", c) => Single(Z, "DISCON", c)
  /\ Ordered(X, c) => Ordered(Z, c)

\* Sending a frame of another message changes that.
LEMMA AppendPasses ==
  ASSUME NEW X \in Seq(Tokens), NEW t \in Tokens, NEW c, t.conv # c
  PROVE  /\ Passes(X, Append(X, t), c)
         /\ Ahead(X, c) /\ (Rival(t, c) => Sent(X, "DISCON", c)) => Ahead(Append(X, t), c)
         /\ Newest(X, c) /\ (Rival(t, c) => ~Sent(X, "PACK", c)) => Newest(Append(X, t), c)
<1> DEFINE Z == Append(X, t)
<1>1. /\ \A k \in Kinds : (Sent(Z, k, c) <=> Sent(X, k, c))
         /\ (Single(X, k, c) => Single(Z, k, c))
      /\ Ordered(X, c) => Ordered(Z, c)
      /\ Ahead(X, c) /\ (Rival(t, c) => Sent(X, "DISCON", c)) => Ahead(Z, c)
      /\ Newest(X, c) /\ (Rival(t, c) => ~Sent(X, "PACK", c)) => Newest(Z, c)
  BY AppendOther
<1>2. "PACK" \in Kinds /\ "OK" \in Kinds /\ "DISCON" \in Kinds BY DEF Kinds
<1> HIDE DEF Z
<1>3. Passes(X, Z, c) BY <1>1, <1>2 DEF Passes
<1> QED BY <1>1, <1>3 DEF Z

\* Reading a frame of another message changes that.
LEMMA TailPasses ==
  ASSUME NEW X \in Seq(Tokens), X # << >>, NEW c, Head(X).conv # c
  PROVE  /\ Passes(X, Tail(X), c)
         /\ Ahead(X, c) => Ahead(Tail(X), c) /\ ~Rival(Head(X), c)
         /\ Newest(X, c) => Newest(Tail(X), c)
<1> DEFINE Z == Tail(X)
<1>1. /\ \A k \in Kinds : (Sent(Z, k, c) <=> Sent(X, k, c))
         /\ (Single(X, k, c) => Single(Z, k, c))
      /\ Ordered(X, c) => Ordered(Z, c)
      /\ Ahead(X, c) => Ahead(Z, c) /\ ~Rival(Head(X), c)
      /\ Newest(X, c) => Newest(Z, c)
  BY TailOther
<1>2. "PACK" \in Kinds /\ "OK" \in Kinds /\ "DISCON" \in Kinds BY DEF Kinds
<1> HIDE DEF Z
<1>3. Passes(X, Z, c) BY <1>1, <1>2 DEF Passes
<1> QED BY <1>1, <1>3 DEF Z

\* The opener of c sends a frame of another message; not of one with the
\* same id while it has c.
LEMMA OtherPostA ==
  ASSUME NEW c, NEW V, NEW X \in Seq(Tokens), NEW W, NEW Y, NEW U, NEW R, NEW mi,
         Pair(c, V, X, W, Y, U, R, mi), c[1] \in U, NEW t \in Tokens, t.conv # c,
         Rival(t, c) => "alive" \notin V
  PROVE  Pair(c, V, Append(X, t), W, Y, U, R, mi)
<1> DEFINE Z == Append(X, t)
<1>1. /\ Passes(X, Z, c)
      /\ Ahead(X, c) /\ (Rival(t, c) => Sent(X, "DISCON", c)) => Ahead(Z, c)
      /\ Newest(X, c) /\ (Rival(t, c) => ~Sent(X, "PACK", c)) => Newest(Z, c)
  BY AppendPasses
<1> HIDE DEF Z
<1>2. "alive" \in W /\ "gone" \notin W => Ahead(Z, c) BY <1>1 DEF Pair, Proper, Heard, Begun
<1>3. Other(c[1]) \in R /\ "alive" \notin W => Newest(Z, c) BY <1>1 DEF Pair, Proper, Unheard
<1>4. Pair(c, V, Z, W, Y, U, R, mi)
  BY <1>1, <1>2, <1>3 DEF Pair, Half, Calm, Awaited, Some, Data, Heard, Unheard, Begun, Passes
<1> QED BY <1>4 DEF Z

\* The other end sends a frame of another message.
LEMMA OtherPostB ==
  ASSUME NEW c, NEW V, NEW X \in Seq(Tokens), NEW W, NEW Y, NEW U, NEW R, NEW mi,
         Pair(c, W, Y, V, X, U, R, mi), NEW t \in Tokens, t.conv # c
  PROVE  Pair(c, W, Y, V, Append(X, t), U, R, mi)
<1> DEFINE Z == Append(X, t)
<1>1. Passes(X, Z, c) BY AppendPasses
<1> HIDE DEF Z
<1>2. Pair(c, W, Y, V, Z, U, R, mi)
  BY <1>1 DEF Pair, Half, Calm, Awaited, Some, Data, Heard, Unheard, Begun, Passes
<1> QED BY <1>2 DEF Z

\* The opener reads a frame of another message.
LEMMA OtherTakeA ==
  ASSUME NEW c, NEW V, NEW X, NEW W, NEW Y \in Seq(Tokens), NEW U, NEW R, NEW mi,
         Pair(c, V, X, W, Y, U, R, mi), Y # << >>, Head(Y).conv # c
  PROVE  Pair(c, V, X, W, Tail(Y), U, R, mi)
<1> DEFINE Z == Tail(Y)
<1>1. Passes(Y, Z, c) BY TailPasses
<1> HIDE DEF Z
<1>2. Pair(c, V, X, W, Z, U, R, mi)
  BY <1>1 DEF Pair, Half, Calm, Awaited, Some, Data, Heard, Unheard, Begun, Passes
<1> QED BY <1>2 DEF Z

\* The other end reads a frame of another message.
LEMMA OtherTakeB ==
  ASSUME NEW c, NEW V, NEW X, NEW W, NEW Y \in Seq(Tokens), NEW U, NEW R, NEW mi,
         Pair(c, W, Y, V, X, U, R, mi), Y # << >>, Head(Y).conv # c
  PROVE  Pair(c, W, Tail(Y), V, X, U, R, mi)
<1> DEFINE Z == Tail(Y)
<1>1. Passes(Y, Z, c) /\ (Ahead(Y, c) => Ahead(Z, c)) /\ (Newest(Y, c) =>
                                                          Newest(Z, c)) BY TailPasses
<1> HIDE DEF Z
<1>2. Pair(c, W, Z, V, X, U, R, mi)
  BY <1>1 DEF Pair, Half, Calm, Awaited, Some, Data, Heard, Unheard, Begun, Passes
<1> QED BY <1>2 DEF Z

\* What losing a part of the stream changes.
Shortens(X, Z, c) ==
  /\ Sent(Z, "PACK", c) => Sent(X, "PACK", c)
  /\ Sent(Z, "OK", c) => Sent(X, "OK", c)
  /\ Sent(Z, "DISCON", c) => Sent(X, "DISCON", c)
  /\ Single(X, "PACK", c) => Single(Z, "PACK", c)
  /\ Single(X, "OK", c) => Single(Z, "OK", c)
  /\ Single(X, "DISCON", c) => Single(Z, "DISCON", c)
  /\ Ordered(X, c) => Ordered(Z, c)
  /\ Newest(X, c) => Newest(Z, c)

\* A piece of a stream is such a stream.
LEMMA PartShortens ==
  ASSUME NEW X \in Seq(Tokens), NEW Z \in Seq(Tokens), NEW o \in Nat, Part(Z, X, o), NEW c
  PROVE  Shortens(X, Z, c) /\ (o = 0 /\ Ahead(X, c) => Ahead(Z, c))
BY PartFacts DEF Shortens

\* The opener loses its connection, with what it had not read and not sent.
LEMMA DropA ==
  ASSUME NEW c, NEW V, NEW X, NEW W, NEW Y, NEW U, NEW R, NEW mi,
         Pair(c, V, X, W, Y, U, R, mi), NEW Q, NEW P, c[1] \notin Q,
         Other(c[1]) \in P => Other(c[1]) \in R, c[1] \notin P, NEW S, Shortens(X, S, c),
         Ahead(X, c) => Ahead(S, c), NEW T, Shortens(Y, T, c)
  PROVE  Pair(c, {}, S, W, T, Q, P, mi)
BY DEF Pair, Proper, Half, Calm, Awaited, Some, Data, Heard, Unheard, Begun, Shortens

\* The other end loses its connection, with what it had not read and not
\* sent.
LEMMA DropB ==
  ASSUME NEW c, NEW V, NEW X, NEW W, NEW Y, NEW U, NEW R, NEW mi,
         Pair(c, W, Y, V, X, U, R, mi), NEW Q, NEW P, c[1] \in Q => c[1] \in U,
         Other(c[1]) \notin P, NEW S, Shortens(X, S, c), NEW T, Shortens(Y, T, c)
  PROVE  Pair(c, W, T, {}, S, Q, P, mi)
BY DEF Pair, Proper, Half, Calm, Awaited, Some, Data, Heard, Unheard, Begun, Shortens

\* Fewer ends that run, fewer connections and more messages misled ask for
\* less.
LEMMA PairMono ==
  ASSUME NEW c, NEW V, NEW X, NEW W, NEW Y, NEW U, NEW R, NEW mi,
         Pair(c, V, X, W, Y, U, R, mi), NEW Q, NEW P, NEW mo, Q \subseteq U, P \subseteq R,
         mi \subseteq mo
  PROVE  Pair(c, V, X, W, Y, Q, P, mo)
BY DEF Pair

\* Two ends that have only begun.
LEMMA PairEmpty ==
  ASSUME NEW c, NEW U, NEW R, NEW mi, NEW X, X = << >>
  PROVE  Pair(c, {}, X, {}, X, U, R, mi)
<1>1. Len(X) = 0 OBVIOUS
<1>2. \A k : ~Sent(X, k, c) BY <1>1 DEF Sent
<1>3. Newest(X, c) /\ Ordered(X, c) /\ \A k : Single(X, k, c) BY <1>2, UnsentFacts
<1> QED BY <1>2, <1>3 DEF Pair, Proper, Half, Calm, Awaited, Some, Data, Heard, Unheard, Begun

----------------------------------------------------------------------------
(* The same, whichever end opened the message. *)

\* What the two ends have of c, seen from p.
Facing(p, A, X, B, Y, U, R, mi, c) ==
  IF c[1] = p THEN Pair(c, View(A, c), X, View(B, c), Y, U, R, mi)
  ELSE Pair(c, View(B, c), Y, View(A, c), X, U, R, mi)

\* A message that p did not open was opened by the other end.
LEMMA ConvEnds ==
  ASSUME NEW p \in Ends, NEW c \in Convs, c[1] # p
  PROVE  c[1] = Other(p) /\ Other(c[1]) = p
<1>1. c[1] \in Ends BY DEF Convs
<1> QED BY <1>1, OtherFacts

\* Nothing that the other end depends on changes, at p.
LEMMA FacingQuiet ==
  ASSUME NEW p \in Ends, NEW A, NEW X, NEW B, NEW Y, NEW U, NEW R, NEW mi, NEW c \in Convs,
         Facing(p, A, X, B, Y, U, R, mi, c), p \in U, p \in R, NEW Z,
         IsQuiet(View(A, c), View(Z, c))
  PROVE  Facing(p, Z, X, B, Y, U, R, mi, c)
<1>1. CASE c[1] = p BY <1>1, QuietA DEF Facing
<1>2. CASE c[1] # p
  <2>1. Other(c[1]) \in U /\ Other(c[1]) \in R BY <1>2, ConvEnds
  <2> QED BY <1>2, <2>1, QuietB DEF Facing
<1> QED BY <1>1, <1>2

\* An acknowledgement that was owed is sent, at p.
LEMMA FacingAck ==
  ASSUME NEW p \in Ends, NEW A, NEW X, NEW B, NEW Y, NEW U, NEW R, NEW mi, NEW c \in Convs,
         Facing(p, A, X, B, Y, U, R, mi, c), p \in U, p \in R, NEW Z,
         IsAck(View(A, c), View(Z, c)), NEW S, Posts(X, S, "OK", c)
  PROVE  Facing(p, Z, S, B, Y, U, R, mi, c)
<1>1. CASE c[1] = p BY <1>1, AckA DEF Facing
<1>2. CASE c[1] # p
  <2>1. Other(c[1]) \in U /\ Other(c[1]) \in R BY <1>2, ConvEnds
  <2> QED BY <1>2, <2>1, AckB DEF Facing
<1> QED BY <1>1, <1>2

\* DISCON is sent, at p.
LEMMA FacingDisc ==
  ASSUME NEW p \in Ends, NEW A, NEW X, NEW B, NEW Y, NEW U, NEW R, NEW mi, NEW c \in Convs,
         Facing(p, A, X, B, Y, U, R, mi, c), p \in U, p \in R, NEW Z,
         IsDisc(View(A, c), View(Z, c)), NEW S, Posts(X, S, "DISCON", c)
  PROVE  Facing(p, Z, S, B, Y, U, R, mi, c)
<1>1. CASE c[1] = p BY <1>1, DiscA DEF Facing
<1>2. CASE c[1] # p
  <2>1. Other(c[1]) \in U /\ Other(c[1]) \in R BY <1>2, ConvEnds
  <2> QED BY <1>2, <2>1, DiscB DEF Facing
<1> QED BY <1>1, <1>2

\* A packet is sent, at p.
LEMMA FacingSend ==
  ASSUME NEW p \in Ends, NEW A, NEW X, NEW B, NEW Y, NEW U, NEW R, NEW mi, NEW c \in Convs,
         Facing(p, A, X, B, Y, U, R, mi, c), p \in U, p \in R, NEW Z,
         IsSend(View(A, c), View(Z, c)), NEW S, Posts(X, S, "PACK", c)
  PROVE  Facing(p, Z, S, B, Y, U, R, mi, c)
<1>1. CASE c[1] = p BY <1>1, SendA DEF Facing
<1>2. CASE c[1] # p
  <2>1. Other(c[1]) \in U /\ Other(c[1]) \in R BY <1>2, ConvEnds
  <2> QED BY <1>2, <2>1, SendB DEF Facing
<1> QED BY <1>1, <1>2

\* A disconnected message is freed, at p.
LEMMA FacingFreeGone ==
  ASSUME NEW p \in Ends, NEW A, NEW X, NEW B, NEW Y, NEW U, NEW R, NEW mi, NEW c \in Convs,
         Facing(p, A, X, B, Y, U, R, mi, c), p \in U, p \in R, NEW Z,
         IsFreeGone(View(A, c), View(Z, c))
  PROVE  Facing(p, Z, X, B, Y, U, R, mi, c)
<1>1. CASE c[1] = p BY <1>1, FreeGoneA DEF Facing
<1>2. CASE c[1] # p
  <2>1. Other(c[1]) \in U /\ Other(c[1]) \in R BY <1>2, ConvEnds
  <2> QED BY <1>2, <2>1, FreeGoneB DEF Facing
<1> QED BY <1>1, <1>2

\* A message that carried nothing is freed, at p.
LEMMA FacingFreeNew ==
  ASSUME NEW p \in Ends, NEW A, NEW X, NEW B, NEW Y, NEW U, NEW R, NEW mi, NEW c \in Convs,
         Facing(p, A, X, B, Y, U, R, mi, c), p \in U, p \in R, NEW Z,
         IsFreeNew(View(A, c), View(Z, c))
  PROVE  Facing(p, Z, X, B, Y, U, R, mi, c)
<1>1. CASE c[1] = p BY <1>1, FreeNewA DEF Facing
<1>2. CASE c[1] # p
  <2>1. Other(c[1]) \in U /\ Other(c[1]) \in R BY <1>2, ConvEnds
  <2> QED BY <1>2, <2>1, FreeNewB DEF Facing
<1> QED BY <1>1, <1>2

\* The acknowledgement of another message is taken, at p.
LEMMA FacingUnwait ==
  ASSUME NEW p \in Ends, NEW A, NEW X, NEW B, NEW Y, NEW U, NEW R, NEW mi, NEW c \in Convs,
         Facing(p, A, X, B, Y, U, R, mi, c), p \in U, p \in R, NEW Z,
         IsUnwait(View(A, c), View(Z, c)), c \in mi
  PROVE  Facing(p, Z, X, B, Y, U, R, mi, c)
<1>1. CASE c[1] = p BY <1>1, UnwaitA DEF Facing
<1>2. CASE c[1] # p
  <2>1. Other(c[1]) \in U /\ Other(c[1]) \in R BY <1>2, ConvEnds
  <2> QED BY <1>2, <2>1, UnwaitB DEF Facing
<1> QED BY <1>1, <1>2

\* A packet is taken, at p.
LEMMA FacingRecvPack ==
  ASSUME NEW p \in Ends, NEW A, NEW X, NEW B, NEW Y, NEW U, NEW R, NEW mi, NEW c \in Convs,
         Facing(p, A, X, B, Y, U, R, mi, c), p \in U, p \in R, NEW Z,
         IsRecvPack(View(A, c), View(Z, c)), NEW T, Takes(Y, T, "PACK", c)
  PROVE  Facing(p, Z, X, B, T, U, R, mi, c)
<1>1. CASE c[1] = p BY <1>1, RecvPackA DEF Facing
<1>2. CASE c[1] # p
  <2>1. Other(c[1]) \in U /\ Other(c[1]) \in R BY <1>2, ConvEnds
  <2> QED BY <1>2, <2>1, RecvPackB DEF Facing
<1> QED BY <1>1, <1>2

\* The first packet creates the message, at p.
LEMMA FacingCreate ==
  ASSUME NEW p \in Ends, NEW A, NEW X, NEW B, NEW Y, NEW U, NEW R, NEW mi, NEW c \in Convs,
         Facing(p, A, X, B, Y, U, R, mi, c), p \in U, p \in R, NEW Z,
         IsCreate(View(A, c), View(Z, c)), c[1] # p, NEW T, Takes(Y, T, "PACK", c)
  PROVE  Facing(p, Z, X, B, T, U, R, mi, c)
<1>1. Other(c[1]) \in U /\ Other(c[1]) \in R BY ConvEnds
<1> QED BY <1>1, CreateB DEF Facing

\* The acknowledgement is taken, at p.
LEMMA FacingRecvOk ==
  ASSUME NEW p \in Ends, NEW A, NEW X, NEW B, NEW Y, NEW U, NEW R, NEW mi, NEW c \in Convs,
         Facing(p, A, X, B, Y, U, R, mi, c), p \in U, p \in R, NEW Z,
         IsRecvOk(View(A, c), View(Z, c)), NEW T, Takes(Y, T, "OK", c)
  PROVE  Facing(p, Z, X, B, T, U, R, mi, c)
<1>1. CASE c[1] = p BY <1>1, RecvOkA DEF Facing
<1>2. CASE c[1] # p
  <2>1. Other(c[1]) \in U /\ Other(c[1]) \in R BY <1>2, ConvEnds
  <2> QED BY <1>2, <2>1, RecvOkB DEF Facing
<1> QED BY <1>1, <1>2

\* DISCON is taken by a message that has sent its own, at p.
LEMMA FacingRecvFree ==
  ASSUME NEW p \in Ends, NEW A, NEW X, NEW B, NEW Y, NEW U, NEW R, NEW mi, NEW c \in Convs,
         Facing(p, A, X, B, Y, U, R, mi, c), p \in U, p \in R, NEW Z,
         IsRecvFree(View(A, c), View(Z, c)), NEW T, Takes(Y, T, "DISCON", c)
  PROVE  Facing(p, Z, X, B, T, U, R, mi, c)
<1>1. CASE c[1] = p BY <1>1, RecvFreeA DEF Facing
<1>2. CASE c[1] # p
  <2>1. Other(c[1]) \in U /\ Other(c[1]) \in R BY <1>2, ConvEnds
  <2> QED BY <1>2, <2>1, RecvFreeB DEF Facing
<1> QED BY <1>1, <1>2

\* DISCON is taken by a message that has not sent its own, which answers, at
\* p.
LEMMA FacingRecvLeft ==
  ASSUME NEW p \in Ends, NEW A, NEW X, NEW B, NEW Y, NEW U, NEW R, NEW mi, NEW c \in Convs,
         Facing(p, A, X, B, Y, U, R, mi, c), p \in U, p \in R, NEW Z,
         IsRecvLeft(View(A, c), View(Z, c)), NEW S, Posts(X, S, "DISCON", c), NEW T,
         Takes(Y, T, "DISCON", c)
  PROVE  Facing(p, Z, S, B, T, U, R, mi, c)
<1>1. CASE c[1] = p BY <1>1, RecvLeftA DEF Facing
<1>2. CASE c[1] # p
  <2>1. Other(c[1]) \in U /\ Other(c[1]) \in R BY <1>2, ConvEnds
  <2> QED BY <1>2, <2>1, RecvLeftB DEF Facing
<1> QED BY <1>1, <1>2

\* A message is opened, at p.
LEMMA FacingBorn ==
  ASSUME NEW p \in Ends, NEW A, NEW X, NEW B, NEW Y, NEW U, NEW R, NEW mi, NEW c \in Convs,
         Facing(p, A, X, B, Y, U, R, mi, c), p \in U, p \in R, NEW Z,
         IsBorn(View(A, c), View(Z, c)), View(B, c) = {}, ~Some(X, c), ~Some(Y, c), c[1] = p
  PROVE  Facing(p, Z, X, B, Y, U, R, mi, c)
BY BornA DEF Facing

----------------------------------------------------------------------------
(* All the messages of a link. *)

\* The id that a frame of c has when p sends it.
Wire(p, c) == IF c[1] = p THEN -c[3] ELSE c[3]

\* t is such a frame.
Mine(p, c, t) == t.conv = c /\ t.id = Wire(p, c)

\* What p's message m at id knows of its own name, and what its packets
\* carry; a disconnected message has no packets left.
Named(p, id, m, O) ==
  /\ m.conv[2] <= O[m.conv[1]]
  /\ m.conv[1] = p => m.imsgid = 0 /\ m.conv[3] = id
  /\ m.conv[1] # p => m.imsgid = IF "DISCONNECTED" \in m.status THEN 0 ELSE m.conv[3]
  /\ \A i \in 1 .. Len(m.writ_queue) : Mine(p, m.conv, m.writ_queue[i])
  /\ m.incomplete # NoPacket => Mine(p, m.conv, m.incomplete)
  /\ "DISCONNECTED" \in m.status => m.writ_queue = << >>

\* A frame of p carries the id of its message.
GoodFrame(p, t, O) == t.conv[2] <= O[t.conv[1]] /\ t.id = Wire(p, t.conv)

\* One end of a link.
Side(p, A, X, O) ==
  /\ A \in Slots /\ X \in Seq(Tokens) /\ Unique(A)
  /\ \A id \in MsgIds : A[id] # NoMsg => Named(p, id, A[id], O)
  /\ \A i \in 1 .. Len(X) : GoodFrame(p, X[i], O)

\* The two ends of a link: A and X are what p has and has sent, B and Y what
\* q has and has sent, O the messages opened so far.
Linked(p, A, X, q, B, Y, O, U, R, mi) ==
  /\ Side(p, A, X, O) /\ Side(q, B, Y, O)
  /\ \A c \in Convs : Facing(p, A, X, B, Y, U, R, mi, c)

\* p has one message of a msgid.
LEMMA SlotOf ==
  ASSUME NEW p, NEW A, NEW X, NEW O, Side(p, A, X, O), NEW c, NEW d, c[1] = p, d[1] = p,
         c[3] = d[3], "alive" \in View(A, c), "alive" \in View(A, d)
  PROVE  c = d
<1>1. PICK i \in MsgIds : A[i] # NoMsg /\ A[i].conv = c BY AliveIn
<1>2. PICK j \in MsgIds : A[j] # NoMsg /\ A[j].conv = d BY AliveIn
<1>3. Named(p, i, A[i], O) /\ Named(p, j, A[j], O) BY <1>1, <1>2 DEF Side
<1>4. c[3] = i BY <1>1, <1>3 DEF Named
<1>5. d[3] = j BY <1>2, <1>3 DEF Named
<1> QED BY <1>1, <1>2, <1>4, <1>5

\* Sending a frame keeps an end as it should be.
LEMMA SidePost ==
  ASSUME NEW p, NEW A, NEW X, NEW O, Side(p, A, X, O), NEW t \in Tokens, GoodFrame(p, t, O)
  PROVE  Side(p, A, Append(X, t), O)
<1>1. X \in Seq(Tokens) /\ \A i \in 1 .. Len(X) : GoodFrame(p, X[i], O) BY DEF Side
<1> DEFINE Z == Append(X, t)
<1>2. /\ Z \in Seq(Tokens)
      /\ \A i \in 1 .. Len(X) : Z[i] = X[i]
      /\ Z[Len(X) + 1] = t
      /\ \A i \in 1 .. Len(Z) : i \in 1 .. Len(X) \/ i = Len(X) + 1
  BY <1>1, AppendAt
<1> HIDE DEF Z
<1>3. \A i \in 1 .. Len(Z) : GoodFrame(p, Z[i], O) BY <1>1, <1>2
<1>4. Side(p, A, Z, O) BY <1>2, <1>3 DEF Side
<1> QED BY <1>4 DEF Z

\* Losing frames keeps an end as it should be.
LEMMA SidePart ==
  ASSUME NEW p, NEW A, NEW X, NEW O, Side(p, A, X, O), NEW Z \in Seq(Tokens), NEW o \in Nat,
         Part(Z, X, o)
  PROVE  Side(p, A, Z, O)
<1>1. X \in Seq(Tokens) BY DEF Side
<1>2. Len(X) \in Nat /\ Len(Z) \in Nat BY <1>1
<1>3. \A i \in 1 .. Len(Z) : i + o \in 1 .. Len(X) /\ Z[i] = X[i + o] BY <1>2 DEF Part
<1>4. \A i \in 1 .. Len(Z) : GoodFrame(p, Z[i], O) BY <1>3 DEF Side
<1> QED BY <1>4 DEF Side

\* A step that leaves the aspects of a message alone.
LEMMA FacingView ==
  ASSUME NEW p, NEW A, NEW X, NEW B, NEW Y, NEW U, NEW R, NEW mi, NEW c, NEW Z,
         View(Z, c) = View(A, c), Facing(p, A, X, B, Y, U, R, mi, c)
  PROVE  Facing(p, Z, X, B, Y, U, R, mi, c)
BY DEF Facing

\* The messages other than the one that a frame sent is of.
LEMMA FacingPost ==
  ASSUME NEW p \in Ends, NEW A, NEW X, NEW B, NEW Y, NEW O, NEW U, NEW R, NEW mi,
         Side(p, A, X, O), p \in U, NEW t \in Tokens, "alive" \in View(A, t.conv),
         NEW d \in Convs, d # t.conv, Facing(p, A, X, B, Y, U, R, mi, d)
  PROVE  Facing(p, A, Append(X, t), B, Y, U, R, mi, d)
<1>1. X \in Seq(Tokens) BY DEF Side
<1>2. CASE d[1] = p
  <2>1. Rival(t, d) => "alive" \notin View(A, d) BY <1>2, SlotOf DEF Rival
  <2> QED BY <1>1, <1>2, <2>1, OtherPostA DEF Facing
<1>3. CASE d[1] # p BY <1>1, <1>3, OtherPostB DEF Facing
<1> QED BY <1>2, <1>3

\* The messages other than the one that a frame read is of.
LEMMA FacingTake ==
  ASSUME NEW p, NEW A, NEW X, NEW B, NEW Y \in Seq(Tokens), NEW U, NEW R, NEW mi, Y # << >>,
         NEW d, Head(Y).conv # d, Facing(p, A, X, B, Y, U, R, mi, d)
  PROVE  Facing(p, A, X, B, Tail(Y), U, R, mi, d)
<1>1. CASE d[1] = p BY <1>1, OtherTakeA DEF Facing
<1>2. CASE d[1] # p BY <1>2, OtherTakeB DEF Facing
<1> QED BY <1>1, <1>2

\* At most one frame of c is sent ...
Sends(p, A, X, S, c) ==
  \/ S = X
  \/ "alive" \in View(A, c) /\ \E t \in Tokens : S = Append(X, t) /\ Mine(p, c, t)

\* ... and at most one is read.
Reads(Y, T, c) == T = Y \/ (Y # << >> /\ T = Tail(Y) /\ Head(Y).conv = c)

\* The messages of A become those of Z, which differ in c.
Changes(p, A, Z, O, c) ==
  /\ Z \in Slots /\ Unique(Z)
  /\ \A d : d # c => View(Z, d) = View(A, d)
  /\ \A id \in MsgIds : Z[id] # NoMsg => Named(p, id, Z[id], O)
  /\ c[2] <= O[c[1]]

\* A step at c keeps the link if it keeps what the two ends have of c.
LEMMA LinkStep ==
  ASSUME NEW p \in Ends, NEW A, NEW X, NEW q, NEW B, NEW Y, NEW O, NEW U, NEW R, NEW mi,
         Linked(p, A, X, q, B, Y, O, U, R, mi), p \in U, NEW c \in Convs, NEW Z,
         Changes(p, A, Z, O, c), NEW S, Sends(p, A, X, S, c), NEW T, Reads(Y, T, c),
         Facing(p, Z, S, B, T, U, R, mi, c)
  PROVE  Linked(p, Z, S, q, B, T, O, U, R, mi)
<1>1. Side(p, A, X, O) /\ Side(q, B, Y, O) /\ \A d \in Convs :
        Facing(p, A, X, B, Y, U, R, mi, d)
  BY DEF Linked
<1>2. Y \in Seq(Tokens) BY <1>1 DEF Side
<1>3. Side(q, B, T, O)
  <2>1. CASE T = Y BY <1>1, <2>1
  <2>2. CASE Y # << >> /\ T = Tail(Y)
    <3>1. Tail(Y) \in Seq(Tokens) /\ Part(Tail(Y), Y, 1) BY <1>2, <2>2, TailAt
    <3> QED BY <1>1, <2>2, <3>1, SidePart
  <2> QED BY <2>1, <2>2 DEF Reads
<1>4. Side(p, A, S, O)
  <2>1. CASE S = X BY <1>1, <2>1
  <2>2. CASE S # X
    <3>1. PICK t \in Tokens : S = Append(X, t) /\ Mine(p, c, t) BY <2>2 DEF Sends
    <3>2. GoodFrame(p, t, O) BY <3>1 DEF GoodFrame, Mine, Changes
    <3> QED BY <1>1, <3>1, <3>2, SidePost
  <2> QED BY <2>1, <2>2
<1>5. Side(p, Z, S, O) BY <1>4 DEF Side, Changes
<1>6. ASSUME NEW d \in Convs PROVE Facing(p, Z, S, B, T, U, R, mi, d)
  <2>1. CASE d = c BY <2>1
  <2>2. CASE d # c
    <3>1. View(Z, d) = View(A, d) BY <2>2 DEF Changes
    <3>2. Facing(p, A, S, B, Y, U, R, mi, d)
      <4>1. CASE S = X BY <1>1, <4>1
      <4>2. CASE S # X
        <5>1. "alive" \in View(A, c) /\ \E t \in Tokens : S = Append(X, t)
                /\ Mine(p, c, t) BY <4>2 DEF Sends
        <5>2. PICK t \in Tokens : S = Append(X, t) /\ Mine(p, c, t) BY <5>1
        <5>3. t.conv = c BY <5>2 DEF Mine
        <5> QED BY <1>1, <2>2, <5>1, <5>2, <5>3, FacingPost
      <4> QED BY <4>1, <4>2
    <3>3. Facing(p, A, S, B, T, U, R, mi, d)
      <4>1. CASE T = Y BY <3>2, <4>1
      <4>2. CASE Y # << >> /\ T = Tail(Y) /\ Head(Y).conv = c BY <1>2, <2>2, <3>2, <4>2,
              FacingTake
      <4> QED BY <4>1, <4>2 DEF Reads
    <3> QED BY <3>1, <3>3, FacingView
  <2> QED BY <2>1, <2>2
<1> QED BY <1>3, <1>5, <1>6 DEF Linked

\* Replacing a message is such a step.
LEMMA TurnChanges ==
  ASSUME NEW p, NEW A, NEW X, NEW O, Side(p, A, X, O), NEW id \in MsgIds,
         NEW m \in Messages(Convs), A[id] = m, NEW n \in Messages(Convs), n.conv = m.conv,
         Named(p, id, n, O), NEW Z, Puts(A, Z, id, n)
  PROVE  /\ Changes(p, A, Z, O, m.conv)
         /\ View(A, m.conv) = Aspects(m) /\ View(Z, m.conv) = Aspects(n)
<1>1. A \in Slots /\ Unique(A) BY DEF Side
<1>2. /\ Z \in Slots /\ Unique(Z)
      /\ View(A, m.conv) = Aspects(m) /\ View(Z, m.conv) = Aspects(n)
      /\ \A d : d # m.conv => View(Z, d) = View(A, d)
  BY <1>1, ViewTurn
<1>3. \A j \in MsgIds : Z[j] = IF j = id THEN n ELSE A[j] BY <1>1 DEF Slots, Puts
<1>4. \A j \in MsgIds : Z[j] # NoMsg => Named(p, j, Z[j], O) BY <1>3 DEF Side
<1>5. m.conv[2] <= O[m.conv[1]] BY DEF Named
<1> QED BY <1>2, <1>4, <1>5 DEF Changes

\* Freeing a message is such a step.
LEMMA FreeChanges ==
  ASSUME NEW p, NEW A, NEW X, NEW O, Side(p, A, X, O), NEW id \in MsgIds,
         NEW m \in Messages(Convs), A[id] = m, NEW Z, Puts(A, Z, id, NoMsg)
  PROVE  /\ Changes(p, A, Z, O, m.conv)
         /\ View(A, m.conv) = Aspects(m) /\ View(Z, m.conv) = {}
<1>1. A \in Slots /\ Unique(A) BY DEF Side
<1>2. /\ Z \in Slots /\ Unique(Z)
      /\ View(A, m.conv) = Aspects(m) /\ View(Z, m.conv) = {}
      /\ \A d : d # m.conv => View(Z, d) = View(A, d)
  BY <1>1, ViewFree
<1>3. \A j \in MsgIds : Z[j] = IF j = id THEN NoMsg ELSE A[j] BY <1>1 DEF Slots, Puts
<1>4. \A j \in MsgIds : Z[j] # NoMsg => Named(p, j, Z[j], O) BY <1>3 DEF Side
<1>5. m # NoMsg BY MessageFacts
<1>6. m.conv[2] <= O[m.conv[1]] BY <1>5 DEF Named, Side
<1> QED BY <1>2, <1>4, <1>6 DEF Changes

\* Creating a message is such a step.
LEMMA NewChanges ==
  ASSUME NEW p, NEW A, NEW X, NEW O, Side(p, A, X, O), NEW id \in MsgIds, A[id] = NoMsg,
         NEW n \in Messages(Convs), "alive" \notin View(A, n.conv), Named(p, id, n, O), NEW Z,
         Puts(A, Z, id, n)
  PROVE  /\ Changes(p, A, Z, O, n.conv)
         /\ View(A, n.conv) = {} /\ View(Z, n.conv) = Aspects(n)
<1>1. A \in Slots /\ Unique(A) BY DEF Side
<1>2. /\ Z \in Slots /\ Unique(Z)
      /\ View(A, n.conv) = {} /\ View(Z, n.conv) = Aspects(n)
      /\ \A d : d # n.conv => View(Z, d) = View(A, d)
  BY <1>1, ViewNew
<1>3. \A j \in MsgIds : Z[j] = IF j = id THEN n ELSE A[j] BY <1>1 DEF Slots, Puts
<1>4. \A j \in MsgIds : Z[j] # NoMsg => Named(p, j, Z[j], O) BY <1>3 DEF Side
<1>5. n.conv[2] <= O[n.conv[1]] BY DEF Named
<1> QED BY <1>2, <1>4, <1>5 DEF Changes

----------------------------------------------------------------------------
(* A step at one message keeps the link. *)

\* A sound message has aspects that go together.
LEMMA ProperAspects ==
  ASSUME NEW m, Sound(m)
  PROVE  Proper(Aspects(m))
<1> DEFINE V == Aspects(m)
<1>1. /\ "alive" \in V
      /\ "open" \in V <=> "SENT_DISCONNECT" \notin m.status
      /\ "gone" \in V <=> "DISCONNECTED" \in m.status
      /\ "waits" \in V <=> "SENT_DISCONNECT" \notin m.status /\ "WAITING_FOR_RESP" \in m.status
      /\ "needs" \in V <=> "DISCONNECTED" \notin m.status /\ "NEED_TO_SEND_RESP" \in m.status
  BY AspectFacts
<1> HIDE DEF V
<1>2. Proper(V) BY <1>1 DEF Proper, Sound
<1> QED BY <1>2 DEF V

\* One frame of a message that is there is sent.
LEMMA PostOne ==
  ASSUME NEW p, NEW A, NEW X \in Seq(Tokens), NEW c, NEW t \in Tokens, Mine(p, c, t),
         NEW k \in Kinds, Kind(t) = k, "alive" \in View(A, c)
  PROVE  Posts(X, Append(X, t), k, c) /\ Sends(p, A, X, Append(X, t), c)
<1>1. t.conv = c BY DEF Mine
<1> QED BY <1>1, AppendPosts DEF Sends

\* One frame is read.
LEMMA TakeOne ==
  ASSUME NEW Y \in Seq(Tokens), Y # << >>, NEW c, Head(Y).conv = c, NEW k \in Kinds,
         Kind(Head(Y)) = k
  PROVE  Takes(Y, Tail(Y), k, c) /\ Reads(Y, Tail(Y), c)
BY TailTakes DEF Reads

\* No frame is sent or read.
LEMMA IdleSteps ==
  ASSUME NEW p, NEW A, NEW X, NEW Y, NEW c
  PROVE  Sends(p, A, X, X, c) /\ Reads(Y, Y, c)
BY DEF Sends, Reads

\* Nothing that the other end depends on changes: the link is kept.
LEMMA LinkQuiet ==
  ASSUME NEW p \in Ends, NEW A, NEW X, NEW q, NEW B, NEW Y, NEW O, NEW U, NEW R, NEW mi,
         Linked(p, A, X, q, B, Y, O, U, R, mi), p \in U, p \in R, NEW id \in MsgIds,
         NEW m \in Messages(Convs), A[id] = m, NEW n \in Messages(Convs), n.conv = m.conv,
         Named(p, id, n, O), NEW Z, Puts(A, Z, id, n), IsQuiet(Aspects(m), Aspects(n))
  PROVE  Linked(p, Z, X, q, B, Y, O, U, R, mi)
<1> DEFINE c == m.conv
<1>1. c \in Convs BY MessageFacts
<1>2. Changes(p, A, Z, O, c) /\ View(A, c) = Aspects(m) /\ View(Z, c) = Aspects(n)
  <2>1. Side(p, A, X, O) BY DEF Linked
  <2> QED BY <2>1, TurnChanges
<1>3. X \in Seq(Tokens) /\ Y \in Seq(Tokens) BY DEF Linked, Side
<1>4. Sends(p, A, X, X, c) BY IdleSteps
<1>5. Reads(Y, Y, c) BY IdleSteps
<1> HIDE DEF c
<1>6. Facing(p, A, X, B, Y, U, R, mi, c) BY <1>1 DEF Linked
<1>7. IsQuiet(View(A, c), View(Z, c)) BY <1>2
<1>8. Facing(p, Z, X, B, Y, U, R, mi, c)
  BY <1>1, <1>4, <1>5, <1>6, <1>7, FacingQuiet
<1>9. Linked(p, Z, X, q, B, Y, O, U, R, mi) BY <1>1, <1>2, <1>4, <1>5, <1>8, LinkStep
<1> QED BY <1>9

\* An acknowledgement that was owed is sent: the link is kept.
LEMMA LinkAck ==
  ASSUME NEW p \in Ends, NEW A, NEW X, NEW q, NEW B, NEW Y, NEW O, NEW U, NEW R, NEW mi,
         Linked(p, A, X, q, B, Y, O, U, R, mi), p \in U, p \in R, NEW id \in MsgIds,
         NEW m \in Messages(Convs), A[id] = m, NEW n \in Messages(Convs), n.conv = m.conv,
         Named(p, id, n, O), NEW Z, Puts(A, Z, id, n), IsAck(Aspects(m), Aspects(n)),
         NEW t \in Tokens, Mine(p, m.conv, t), Kind(t) = "OK"
  PROVE  Linked(p, Z, Append(X, t), q, B, Y, O, U, R, mi)
<1> DEFINE c == m.conv
<1>1. c \in Convs BY MessageFacts
<1>2. Changes(p, A, Z, O, c) /\ View(A, c) = Aspects(m) /\ View(Z, c) = Aspects(n)
  <2>1. Side(p, A, X, O) BY DEF Linked
  <2> QED BY <2>1, TurnChanges
<1>3. X \in Seq(Tokens) /\ Y \in Seq(Tokens) BY DEF Linked, Side
<1> DEFINE S == Append(X, t)
<1>4. "OK" \in Kinds BY DEF Kinds
<1>5. Posts(X, S, "OK", c) /\ Sends(p, A, X, S, c)
  <2>1. "alive" \in View(A, c) BY <1>2, AspectFacts
  <2> QED BY <1>3, <1>4, <2>1, PostOne
<1>6. Reads(Y, Y, c) BY IdleSteps
<1> HIDE DEF c, S
<1>7. Facing(p, A, X, B, Y, U, R, mi, c) BY <1>1 DEF Linked
<1>8. IsAck(View(A, c), View(Z, c)) BY <1>2
<1>9. Facing(p, Z, S, B, Y, U, R, mi, c)
  BY <1>1, <1>5, <1>6, <1>7, <1>8, FacingAck
<1>10. Linked(p, Z, S, q, B, Y, O, U, R, mi) BY <1>1, <1>2, <1>5, <1>6, <1>9, LinkStep
<1> QED BY <1>10 DEF S

\* DISCON is sent: the link is kept.
LEMMA LinkDisc ==
  ASSUME NEW p \in Ends, NEW A, NEW X, NEW q, NEW B, NEW Y, NEW O, NEW U, NEW R, NEW mi,
         Linked(p, A, X, q, B, Y, O, U, R, mi), p \in U, p \in R, NEW id \in MsgIds,
         NEW m \in Messages(Convs), A[id] = m, NEW n \in Messages(Convs), n.conv = m.conv,
         Named(p, id, n, O), NEW Z, Puts(A, Z, id, n), IsDisc(Aspects(m), Aspects(n)),
         NEW t \in Tokens, Mine(p, m.conv, t), Kind(t) = "DISCON"
  PROVE  Linked(p, Z, Append(X, t), q, B, Y, O, U, R, mi)
<1> DEFINE c == m.conv
<1>1. c \in Convs BY MessageFacts
<1>2. Changes(p, A, Z, O, c) /\ View(A, c) = Aspects(m) /\ View(Z, c) = Aspects(n)
  <2>1. Side(p, A, X, O) BY DEF Linked
  <2> QED BY <2>1, TurnChanges
<1>3. X \in Seq(Tokens) /\ Y \in Seq(Tokens) BY DEF Linked, Side
<1> DEFINE S == Append(X, t)
<1>4. "DISCON" \in Kinds BY DEF Kinds
<1>5. Posts(X, S, "DISCON", c) /\ Sends(p, A, X, S, c)
  <2>1. "alive" \in View(A, c) BY <1>2, AspectFacts
  <2> QED BY <1>3, <1>4, <2>1, PostOne
<1>6. Reads(Y, Y, c) BY IdleSteps
<1> HIDE DEF c, S
<1>7. Facing(p, A, X, B, Y, U, R, mi, c) BY <1>1 DEF Linked
<1>8. IsDisc(View(A, c), View(Z, c)) BY <1>2
<1>9. Facing(p, Z, S, B, Y, U, R, mi, c)
  BY <1>1, <1>5, <1>6, <1>7, <1>8, FacingDisc
<1>10. Linked(p, Z, S, q, B, Y, O, U, R, mi) BY <1>1, <1>2, <1>5, <1>6, <1>9, LinkStep
<1> QED BY <1>10 DEF S

\* A packet is sent: the link is kept.
LEMMA LinkSend ==
  ASSUME NEW p \in Ends, NEW A, NEW X, NEW q, NEW B, NEW Y, NEW O, NEW U, NEW R, NEW mi,
         Linked(p, A, X, q, B, Y, O, U, R, mi), p \in U, p \in R, NEW id \in MsgIds,
         NEW m \in Messages(Convs), A[id] = m, NEW n \in Messages(Convs), n.conv = m.conv,
         Named(p, id, n, O), NEW Z, Puts(A, Z, id, n), IsSend(Aspects(m), Aspects(n)),
         NEW t \in Tokens, Mine(p, m.conv, t), Kind(t) = "PACK"
  PROVE  Linked(p, Z, Append(X, t), q, B, Y, O, U, R, mi)
<1> DEFINE c == m.conv
<1>1. c \in Convs BY MessageFacts
<1>2. Changes(p, A, Z, O, c) /\ View(A, c) = Aspects(m) /\ View(Z, c) = Aspects(n)
  <2>1. Side(p, A, X, O) BY DEF Linked
  <2> QED BY <2>1, TurnChanges
<1>3. X \in Seq(Tokens) /\ Y \in Seq(Tokens) BY DEF Linked, Side
<1> DEFINE S == Append(X, t)
<1>4. "PACK" \in Kinds BY DEF Kinds
<1>5. Posts(X, S, "PACK", c) /\ Sends(p, A, X, S, c)
  <2>1. "alive" \in View(A, c) BY <1>2, AspectFacts
  <2> QED BY <1>3, <1>4, <2>1, PostOne
<1>6. Reads(Y, Y, c) BY IdleSteps
<1> HIDE DEF c, S
<1>7. Facing(p, A, X, B, Y, U, R, mi, c) BY <1>1 DEF Linked
<1>8. IsSend(View(A, c), View(Z, c)) BY <1>2
<1>9. Facing(p, Z, S, B, Y, U, R, mi, c)
  BY <1>1, <1>5, <1>6, <1>7, <1>8, FacingSend
<1>10. Linked(p, Z, S, q, B, Y, O, U, R, mi) BY <1>1, <1>2, <1>5, <1>6, <1>9, LinkStep
<1> QED BY <1>10 DEF S

\* The acknowledgement of another message is taken: the link is kept.
LEMMA LinkUnwait ==
  ASSUME NEW p \in Ends, NEW A, NEW X, NEW q, NEW B, NEW Y, NEW O, NEW U, NEW R, NEW mi,
         Linked(p, A, X, q, B, Y, O, U, R, mi), p \in U, p \in R, NEW id \in MsgIds,
         NEW m \in Messages(Convs), A[id] = m, NEW n \in Messages(Convs), n.conv = m.conv,
         Named(p, id, n, O), NEW Z, Puts(A, Z, id, n), IsUnwait(Aspects(m), Aspects(n)),
         m.conv \in mi
  PROVE  Linked(p, Z, X, q, B, Y, O, U, R, mi)
<1> DEFINE c == m.conv
<1>1. c \in Convs BY MessageFacts
<1>2. Changes(p, A, Z, O, c) /\ View(A, c) = Aspects(m) /\ View(Z, c) = Aspects(n)
  <2>1. Side(p, A, X, O) BY DEF Linked
  <2> QED BY <2>1, TurnChanges
<1>3. X \in Seq(Tokens) /\ Y \in Seq(Tokens) BY DEF Linked, Side
<1>4. Sends(p, A, X, X, c) BY IdleSteps
<1>5. Reads(Y, Y, c) BY IdleSteps
<1> HIDE DEF c
<1>6. Facing(p, A, X, B, Y, U, R, mi, c) BY <1>1 DEF Linked
<1>7. IsUnwait(View(A, c), View(Z, c)) BY <1>2
<1>8. Facing(p, Z, X, B, Y, U, R, mi, c)
  BY <1>1, <1>4, <1>5, <1>6, <1>7, FacingUnwait DEF c
<1>9. Linked(p, Z, X, q, B, Y, O, U, R, mi) BY <1>1, <1>2, <1>4, <1>5, <1>8, LinkStep
<1> QED BY <1>9

\* A packet is taken: the link is kept.
LEMMA LinkRecvPack ==
  ASSUME NEW p \in Ends, NEW A, NEW X, NEW q, NEW B, NEW Y, NEW O, NEW U, NEW R, NEW mi,
         Linked(p, A, X, q, B, Y, O, U, R, mi), p \in U, p \in R, NEW id \in MsgIds,
         NEW m \in Messages(Convs), A[id] = m, NEW n \in Messages(Convs), n.conv = m.conv,
         Named(p, id, n, O), NEW Z, Puts(A, Z, id, n), IsRecvPack(Aspects(m), Aspects(n)),
         Y # << >>, Head(Y).conv = m.conv, Kind(Head(Y)) = "PACK"
  PROVE  Linked(p, Z, X, q, B, Tail(Y), O, U, R, mi)
<1> DEFINE c == m.conv
<1>1. c \in Convs BY MessageFacts
<1>2. Changes(p, A, Z, O, c) /\ View(A, c) = Aspects(m) /\ View(Z, c) = Aspects(n)
  <2>1. Side(p, A, X, O) BY DEF Linked
  <2> QED BY <2>1, TurnChanges
<1>3. X \in Seq(Tokens) /\ Y \in Seq(Tokens) BY DEF Linked, Side
<1> DEFINE T == Tail(Y)
<1>4. "PACK" \in Kinds BY DEF Kinds
<1>5. Sends(p, A, X, X, c) BY IdleSteps
<1>6. Takes(Y, T, "PACK", c) /\ Reads(Y, T, c) BY <1>3, <1>4, TakeOne
<1> HIDE DEF c, T
<1>7. Facing(p, A, X, B, Y, U, R, mi, c) BY <1>1 DEF Linked
<1>8. IsRecvPack(View(A, c), View(Z, c)) BY <1>2
<1>9. Facing(p, Z, X, B, T, U, R, mi, c)
  BY <1>1, <1>5, <1>6, <1>7, <1>8, FacingRecvPack
<1>10. Linked(p, Z, X, q, B, T, O, U, R, mi) BY <1>1, <1>2, <1>5, <1>6, <1>9, LinkStep
<1> QED BY <1>10 DEF T

\* The acknowledgement is taken: the link is kept.
LEMMA LinkRecvOk ==
  ASSUME NEW p \in Ends, NEW A, NEW X, NEW q, NEW B, NEW Y, NEW O, NEW U, NEW R, NEW mi,
         Linked(p, A, X, q, B, Y, O, U, R, mi), p \in U, p \in R, NEW id \in MsgIds,
         NEW m \in Messages(Convs), A[id] = m, NEW n \in Messages(Convs), n.conv = m.conv,
         Named(p, id, n, O), NEW Z, Puts(A, Z, id, n), IsRecvOk(Aspects(m), Aspects(n)),
         Y # << >>, Head(Y).conv = m.conv, Kind(Head(Y)) = "OK"
  PROVE  Linked(p, Z, X, q, B, Tail(Y), O, U, R, mi)
<1> DEFINE c == m.conv
<1>1. c \in Convs BY MessageFacts
<1>2. Changes(p, A, Z, O, c) /\ View(A, c) = Aspects(m) /\ View(Z, c) = Aspects(n)
  <2>1. Side(p, A, X, O) BY DEF Linked
  <2> QED BY <2>1, TurnChanges
<1>3. X \in Seq(Tokens) /\ Y \in Seq(Tokens) BY DEF Linked, Side
<1> DEFINE T == Tail(Y)
<1>4. "OK" \in Kinds BY DEF Kinds
<1>5. Sends(p, A, X, X, c) BY IdleSteps
<1>6. Takes(Y, T, "OK", c) /\ Reads(Y, T, c) BY <1>3, <1>4, TakeOne
<1> HIDE DEF c, T
<1>7. Facing(p, A, X, B, Y, U, R, mi, c) BY <1>1 DEF Linked
<1>8. IsRecvOk(View(A, c), View(Z, c)) BY <1>2
<1>9. Facing(p, Z, X, B, T, U, R, mi, c)
  BY <1>1, <1>5, <1>6, <1>7, <1>8, FacingRecvOk
<1>10. Linked(p, Z, X, q, B, T, O, U, R, mi) BY <1>1, <1>2, <1>5, <1>6, <1>9, LinkStep
<1> QED BY <1>10 DEF T

\* DISCON is taken by a message that has not sent its own, which answers:
\* the link is kept.
LEMMA LinkRecvLeft ==
  ASSUME NEW p \in Ends, NEW A, NEW X, NEW q, NEW B, NEW Y, NEW O, NEW U, NEW R, NEW mi,
         Linked(p, A, X, q, B, Y, O, U, R, mi), p \in U, p \in R, NEW id \in MsgIds,
         NEW m \in Messages(Convs), A[id] = m, NEW n \in Messages(Convs), n.conv = m.conv,
         Named(p, id, n, O), NEW Z, Puts(A, Z, id, n), IsRecvLeft(Aspects(m), Aspects(n)),
         NEW t \in Tokens, Mine(p, m.conv, t), Kind(t) = "DISCON", Y # << >>,
         Head(Y).conv = m.conv, Kind(Head(Y)) = "DISCON"
  PROVE  Linked(p, Z, Append(X, t), q, B, Tail(Y), O, U, R, mi)
<1> DEFINE c == m.conv
<1>1. c \in Convs BY MessageFacts
<1>2. Changes(p, A, Z, O, c) /\ View(A, c) = Aspects(m) /\ View(Z, c) = Aspects(n)
  <2>1. Side(p, A, X, O) BY DEF Linked
  <2> QED BY <2>1, TurnChanges
<1>3. X \in Seq(Tokens) /\ Y \in Seq(Tokens) BY DEF Linked, Side
<1> DEFINE S == Append(X, t)
           T == Tail(Y)
<1>4. "DISCON" \in Kinds BY DEF Kinds
<1>5. Posts(X, S, "DISCON", c) /\ Sends(p, A, X, S, c)
  <2>1. "alive" \in View(A, c) BY <1>2, AspectFacts
  <2> QED BY <1>3, <1>4, <2>1, PostOne
<1>6. Takes(Y, T, "DISCON", c) /\ Reads(Y, T, c) BY <1>3, <1>4, TakeOne
<1> HIDE DEF c, S, T
<1>7. Facing(p, A, X, B, Y, U, R, mi, c) BY <1>1 DEF Linked
<1>8. IsRecvLeft(View(A, c), View(Z, c)) BY <1>2
<1>9. Facing(p, Z, S, B, T, U, R, mi, c)
  BY <1>1, <1>5, <1>6, <1>7, <1>8, FacingRecvLeft
<1>10. Linked(p, Z, S, q, B, T, O, U, R, mi) BY <1>1, <1>2, <1>5, <1>6, <1>9, LinkStep
<1> QED BY <1>10 DEF S, T

\* A disconnected message is freed: the link is kept.
LEMMA LinkFreeGone ==
  ASSUME NEW p \in Ends, NEW A, NEW X, NEW q, NEW B, NEW Y, NEW O, NEW U, NEW R, NEW mi,
         Linked(p, A, X, q, B, Y, O, U, R, mi), p \in U, p \in R, NEW id \in MsgIds,
         NEW m \in Messages(Convs), A[id] = m, NEW Z, Puts(A, Z, id, NoMsg),
         IsFreeGone(Aspects(m), {})
  PROVE  Linked(p, Z, X, q, B, Y, O, U, R, mi)
<1> DEFINE c == m.conv
<1>1. c \in Convs BY MessageFacts
<1>2. Changes(p, A, Z, O, c) /\ View(A, c) = Aspects(m) /\ View(Z, c) = {}
  <2>1. Side(p, A, X, O) BY DEF Linked
  <2> QED BY <2>1, FreeChanges
<1>3. X \in Seq(Tokens) /\ Y \in Seq(Tokens) BY DEF Linked, Side
<1>4. Sends(p, A, X, X, c) BY IdleSteps
<1>5. Reads(Y, Y, c) BY IdleSteps
<1> HIDE DEF c
<1>6. Facing(p, A, X, B, Y, U, R, mi, c) BY <1>1 DEF Linked
<1>7. IsFreeGone(View(A, c), View(Z, c)) BY <1>2
<1>8. Facing(p, Z, X, B, Y, U, R, mi, c) BY <1>1, <1>4, <1>5, <1>6, <1>7, FacingFreeGone
<1>9. Linked(p, Z, X, q, B, Y, O, U, R, mi) BY <1>1, <1>2, <1>4, <1>5, <1>8, LinkStep
<1> QED BY <1>9

\* A message that carried nothing is freed: the link is kept.
LEMMA LinkFreeNew ==
  ASSUME NEW p \in Ends, NEW A, NEW X, NEW q, NEW B, NEW Y, NEW O, NEW U, NEW R, NEW mi,
         Linked(p, A, X, q, B, Y, O, U, R, mi), p \in U, p \in R, NEW id \in MsgIds,
         NEW m \in Messages(Convs), A[id] = m, NEW Z, Puts(A, Z, id, NoMsg),
         IsFreeNew(Aspects(m), {})
  PROVE  Linked(p, Z, X, q, B, Y, O, U, R, mi)
<1> DEFINE c == m.conv
<1>1. c \in Convs BY MessageFacts
<1>2. Changes(p, A, Z, O, c) /\ View(A, c) = Aspects(m) /\ View(Z, c) = {}
  <2>1. Side(p, A, X, O) BY DEF Linked
  <2> QED BY <2>1, FreeChanges
<1>3. X \in Seq(Tokens) /\ Y \in Seq(Tokens) BY DEF Linked, Side
<1>4. Sends(p, A, X, X, c) BY IdleSteps
<1>5. Reads(Y, Y, c) BY IdleSteps
<1> HIDE DEF c
<1>6. Facing(p, A, X, B, Y, U, R, mi, c) BY <1>1 DEF Linked
<1>7. IsFreeNew(View(A, c), View(Z, c)) BY <1>2
<1>8. Facing(p, Z, X, B, Y, U, R, mi, c) BY <1>1, <1>4, <1>5, <1>6, <1>7, FacingFreeNew
<1>9. Linked(p, Z, X, q, B, Y, O, U, R, mi) BY <1>1, <1>2, <1>4, <1>5, <1>8, LinkStep
<1> QED BY <1>9

\* DISCON is taken by a message that has sent its own: the link is kept.
LEMMA LinkRecvFree ==
  ASSUME NEW p \in Ends, NEW A, NEW X, NEW q, NEW B, NEW Y, NEW O, NEW U, NEW R, NEW mi,
         Linked(p, A, X, q, B, Y, O, U, R, mi), p \in U, p \in R, NEW id \in MsgIds,
         NEW m \in Messages(Convs), A[id] = m, NEW Z, Puts(A, Z, id, NoMsg),
         IsRecvFree(Aspects(m), {}), Y # << >>, Head(Y).conv = m.conv, Kind(Head(Y)) = "DISCON"
  PROVE  Linked(p, Z, X, q, B, Tail(Y), O, U, R, mi)
<1> DEFINE c == m.conv
<1>1. c \in Convs BY MessageFacts
<1>2. Changes(p, A, Z, O, c) /\ View(A, c) = Aspects(m) /\ View(Z, c) = {}
  <2>1. Side(p, A, X, O) BY DEF Linked
  <2> QED BY <2>1, FreeChanges
<1>3. X \in Seq(Tokens) /\ Y \in Seq(Tokens) BY DEF Linked, Side
<1> DEFINE T == Tail(Y)
<1>4. "DISCON" \in Kinds BY DEF Kinds
<1>5. Sends(p, A, X, X, c) BY IdleSteps
<1>6. Takes(Y, T, "DISCON", c) /\ Reads(Y, T, c) BY <1>3, <1>4, TakeOne
<1> HIDE DEF c, T
<1>7. Facing(p, A, X, B, Y, U, R, mi, c) BY <1>1 DEF Linked
<1>8. IsRecvFree(View(A, c), View(Z, c)) BY <1>2
<1>9. Facing(p, Z, X, B, T, U, R, mi, c) BY <1>1, <1>5, <1>6, <1>7, <1>8, FacingRecvFree
<1>10. Linked(p, Z, X, q, B, T, O, U, R, mi) BY <1>1, <1>2, <1>5, <1>6, <1>9, LinkStep
<1> QED BY <1>10 DEF T

\* The next frame of Y is of kind k and of the message c.
First(Y, k, c) == Y # << >> /\ Head(Y).conv = c /\ Kind(Head(Y)) = k

\* The first packet creates the message: the link is kept.
LEMMA LinkCreate ==
  ASSUME NEW p \in Ends, NEW A, NEW X, NEW q, NEW B, NEW Y, NEW O, NEW U, NEW R, NEW mi,
         Linked(p, A, X, q, B, Y, O, U, R, mi), p \in U, p \in R, NEW id \in MsgIds,
         A[id] = NoMsg, NEW n \in Messages(Convs), "alive" \notin View(A, n.conv),
         Named(p, id, n, O), NEW Z, Puts(A, Z, id, n), IsCreate({}, Aspects(n)), n.conv[1] # p,
         First(Y, "PACK", n.conv)
  PROVE  Linked(p, Z, X, q, B, Tail(Y), O, U, R, mi)
<1>a. Side(p, A, X, O) BY DEF Linked
<1>b. Changes(p, A, Z, O, n.conv) /\ View(A, n.conv) = {} /\ View(Z, n.conv) = Aspects(n)
  BY <1>a, NewChanges
<1> DEFINE c == n.conv
<1>1. c[1] # p OBVIOUS
<1>2. c \in Convs BY MessageFacts
<1>3. Changes(p, A, Z, O, c) /\ View(A, c) = {} /\ View(Z, c) = Aspects(n) BY <1>b
<1>4. X \in Seq(Tokens) /\ Y \in Seq(Tokens) BY DEF Linked, Side
<1> DEFINE T == Tail(Y)
<1>5. "PACK" \in Kinds BY DEF Kinds
<1>6. Sends(p, A, X, X, c) BY IdleSteps
<1>7. Takes(Y, T, "PACK", c) /\ Reads(Y, T, c) BY <1>4, <1>5, TakeOne DEF First
<1> HIDE DEF c, T
<1>8. Facing(p, A, X, B, Y, U, R, mi, c) BY <1>2 DEF Linked
<1>9. IsCreate(View(A, c), View(Z, c)) BY <1>3
<1>10. Facing(p, Z, X, B, T, U, R, mi, c) BY <1>1, <1>2, <1>6, <1>7, <1>8, <1>9, FacingCreate
<1>11. Linked(p, Z, X, q, B, T, O, U, R, mi) BY <1>2, <1>3, <1>6, <1>7, <1>10, LinkStep
<1> QED BY <1>11 DEF T

\* A message is opened: the link is kept.
LEMMA LinkBorn ==
  ASSUME NEW p \in Ends, NEW A, NEW X, NEW q, NEW B, NEW Y, NEW O, NEW U, NEW R, NEW mi,
         Linked(p, A, X, q, B, Y, O, U, R, mi), p \in U, p \in R, NEW id \in MsgIds,
         A[id] = NoMsg, NEW n \in Messages(Convs), "alive" \notin View(A, n.conv),
         Named(p, id, n, O), NEW Z, Puts(A, Z, id, n), IsBorn({}, Aspects(n)), n.conv[1] = p,
         View(B, n.conv) = {}, ~Some(X, n.conv), ~Some(Y, n.conv)
  PROVE  Linked(p, Z, X, q, B, Y, O, U, R, mi)
<1> DEFINE c == n.conv
<1>1. c[1] = p /\ View(B, c) = {} /\ ~Some(X, c) /\ ~Some(Y, c) OBVIOUS
<1>2. c \in Convs BY MessageFacts
<1>3. Changes(p, A, Z, O, c) /\ View(A, c) = {} /\ View(Z, c) = Aspects(n)
  <2>1. Side(p, A, X, O) BY DEF Linked
  <2> QED BY <2>1, NewChanges
<1>4. X \in Seq(Tokens) /\ Y \in Seq(Tokens) BY DEF Linked, Side
<1>5. Sends(p, A, X, X, c) BY IdleSteps
<1>6. Reads(Y, Y, c) BY IdleSteps
<1> HIDE DEF c
<1>7. Facing(p, A, X, B, Y, U, R, mi, c) BY <1>2 DEF Linked
<1>8. IsBorn(View(A, c), View(Z, c)) BY <1>3
<1>9. Facing(p, Z, X, B, Y, U, R, mi, c) BY <1>1, <1>2, <1>5, <1>6, <1>7, <1>8, FacingBorn
<1>10. Linked(p, Z, X, q, B, Y, O, U, R, mi) BY <1>2, <1>3, <1>5, <1>6, <1>9, LinkStep
<1> QED BY <1>10

\* An acknowledgement that its message does not wait for is read.
LEMMA LinkOkLost ==
  ASSUME NEW p \in Ends, NEW A, NEW X, NEW q, NEW B, NEW Y, NEW O, NEW U, NEW R, NEW mi,
         Linked(p, A, X, q, B, Y, O, U, R, mi), p \in U, p \in R, NEW c \in Convs,
         "waits" \notin View(A, c), Y # << >>, Head(Y).conv = c, Kind(Head(Y)) = "OK"
  PROVE  Linked(p, A, X, q, B, Tail(Y), O, U, R, mi)
<1>1. Facing(p, A, X, B, Y, U, R, mi, c) /\ Side(p, A, X, O) /\ Side(q, B, Y, O) BY DEF Linked
<1>2. Changes(p, A, A, O, c)
  <2>1. Head(Y) = Y[1] /\ 1 \in 1 .. Len(Y) BY <1>1, TailAt DEF Side
  <2>2. GoodFrame(q, Head(Y), O) BY <1>1, <2>1 DEF Side
  <2> QED BY <1>1, <2>2 DEF Changes, GoodFrame, Side
<1>3. X \in Seq(Tokens) /\ Y \in Seq(Tokens) BY DEF Linked, Side
<1> DEFINE T == Tail(Y)
<1>4. "OK" \in Kinds BY DEF Kinds
<1>5. Sends(p, A, X, X, c) BY IdleSteps
<1>6. Takes(Y, T, "OK", c) /\ Reads(Y, T, c) BY <1>3, <1>4, TakeOne
<1> HIDE DEF T
<1>7. Proper(View(A, c)) BY <1>1 DEF Facing, Pair
<1>8. IsRecvOk(View(A, c), View(A, c)) BY <1>7 DEF IsRecvOk, Same
<1>9. Facing(p, A, X, B, T, U, R, mi, c) BY <1>1, <1>5, <1>6, <1>8, FacingRecvOk
<1>10. Linked(p, A, X, q, B, T, O, U, R, mi) BY <1>2, <1>5, <1>6, <1>9, LinkStep
<1> QED BY <1>10 DEF T

\* DISCON for a message that is not there is read.
LEMMA LinkDisconLost ==
  ASSUME NEW p \in Ends, NEW A, NEW X, NEW q, NEW B, NEW Y, NEW O, NEW U, NEW R, NEW mi,
         Linked(p, A, X, q, B, Y, O, U, R, mi), p \in U, p \in R, NEW c \in Convs,
         View(A, c) = {}, Y # << >>, Head(Y).conv = c, Kind(Head(Y)) = "DISCON"
  PROVE  Linked(p, A, X, q, B, Tail(Y), O, U, R, mi)
<1>1. Facing(p, A, X, B, Y, U, R, mi, c) /\ Side(p, A, X, O) /\ Side(q, B, Y, O) BY DEF Linked
<1>2. Changes(p, A, A, O, c)
  <2>1. Head(Y) = Y[1] /\ 1 \in 1 .. Len(Y) BY <1>1, TailAt DEF Side
  <2>2. GoodFrame(q, Head(Y), O) BY <1>1, <2>1 DEF Side
  <2> QED BY <1>1, <2>2 DEF Changes, GoodFrame, Side
<1>3. X \in Seq(Tokens) /\ Y \in Seq(Tokens) BY DEF Linked, Side
<1> DEFINE T == Tail(Y)
<1>4. "DISCON" \in Kinds BY DEF Kinds
<1>5. Sends(p, A, X, X, c) BY IdleSteps
<1>6. Takes(Y, T, "DISCON", c) /\ Reads(Y, T, c) BY <1>3, <1>4, TakeOne
<1> HIDE DEF T
<1>7. Proper(View(A, c)) BY <1>1 DEF Facing, Pair
<1>8. IsRecvFree(View(A, c), View(A, c)) BY <1>7 DEF IsRecvFree, Same
<1>9. Facing(p, A, X, B, T, U, R, mi, c) BY <1>1, <1>5, <1>6, <1>8, FacingRecvFree
<1>10. Linked(p, A, X, q, B, T, O, U, R, mi) BY <1>2, <1>5, <1>6, <1>9, LinkStep
<1> QED BY <1>10 DEF T

\* Fewer ends that run and more messages misled.
LEMMA LinkMono ==
  ASSUME NEW p, NEW A, NEW X, NEW q, NEW B, NEW Y, NEW O, NEW U, NEW R, NEW mi,
         Linked(p, A, X, q, B, Y, O, U, R, mi), NEW P, P \subseteq R, NEW mo, mi \subseteq mo
  PROVE  Linked(p, A, X, q, B, Y, O, U, P, mo)
<1>1. ASSUME NEW c \in Convs PROVE Facing(p, A, X, B, Y, U, P, mo, c)
  <2>1. Facing(p, A, X, B, Y, U, R, mi, c) BY DEF Linked
  <2>2. U \subseteq U OBVIOUS
  <2> QED BY <2>1, <2>2, PairMono DEF Facing
<1> QED BY <1>1 DEF Linked

----------------------------------------------------------------------------
(* What is in the socket buffers and what waits in pending_resps make one stream. *)

\* Sending a response moves it from the second part to the first, and
\* reading takes from the first.
LEMMA JoinFacts ==
  ASSUME NEW S, NEW a \in Seq(S), NEW r \in Seq(S)
  PROVE  /\ a \o r \in Seq(S)
         /\ a \o << >> = a
         /\ \A x \in S : a \o Append(r, x) = Append(a \o r, x)
         /\ r # << >> => Append(a, Head(r)) \o Tail(r) = a \o r
         /\ a # << >> => a \o r # << >> /\ Head(a \o r) = Head(a) /\ Tail(a \o r) = Tail(a) \o r
<1>1. a \o r \in Seq(S) /\ a \o << >> = a BY ConcatProperties, ConcatEmptySeq
<1>2. ASSUME NEW x \in S PROVE a \o Append(r, x) = Append(a \o r, x)
  <2>1. << x >> \in Seq(S) OBVIOUS
  <2>2. Append(r, x) = r \o << x >> BY AppendIsConcat
  <2>3. Append(a \o r, x) = (a \o r) \o << x >> BY <1>1, AppendIsConcat
  <2>4. (a \o r) \o << x >> = a \o (r \o << x >>) BY <2>1, ConcatAssociative
  <2> QED BY <2>2, <2>3, <2>4
<1>3. ASSUME r # << >> PROVE Append(a, Head(r)) \o Tail(r) = a \o r
  <2>1. Head(r) \in S /\ Tail(r) \in Seq(S) BY <1>3, HeadTailProperties
  <2>2. << Head(r) >> \in Seq(S) BY <2>1
  <2>3. Append(a, Head(r)) = a \o << Head(r) >> BY <2>1, AppendIsConcat
  <2>4. (a \o << Head(r) >>) \o Tail(r) = a \o (<< Head(r) >> \o Tail(r)) BY <2>1, <2>2,
          ConcatAssociative
  <2>5. << Head(r) >> \o Tail(r) = r
    <3> DEFINE h == << Head(r) >>
               z == h \o Tail(r)
    <3>1. /\ z \in Seq(S) /\ Len(z) = Len(h) + Len(Tail(r))
          /\ \A i \in 1 .. Len(h) + Len(Tail(r)) : z[i] = IF i <= Len(h) THEN h[i]
             ELSE Tail(r)[i - Len(h)]
      BY <2>1, <2>2, ConcatProperties
    <3>2. Len(h) = 1 /\ h[1] = r[1] BY <1>3
    <3>3. Len(Tail(r)) = Len(r) - 1 /\ \A i \in 1 .. Len(Tail(r)) : Tail(r)[i] = r[i + 1]
      BY <1>3, HeadTailProperties
    <3>4. Len(r) \in Nat OBVIOUS
    <3>5. Len(z) = Len(r) BY <3>1, <3>2, <3>3, <3>4
    <3> HIDE DEF z, h
    <3>6. ASSUME NEW i \in 1 .. Len(r) PROVE z[i] = r[i]
      <4>1. z[i] = IF i <= 1 THEN h[i] ELSE Tail(r)[i - 1] BY <3>1, <3>2, <3>3, <3>4
      <4>2. CASE i = 1 BY <4>1, <4>2, <3>2
      <4>3. CASE i # 1
        <5>1. i - 1 \in 1 .. Len(Tail(r)) BY <4>3, <3>3, <3>4
        <5> DEFINE j == i - 1
        <5>2. Tail(r)[j] = r[j + 1] BY <5>1, <3>3
        <5>3. ~(i <= 1) /\ j + 1 = i BY <4>3
        <5> QED BY <4>1, <5>2, <5>3
      <4> QED BY <4>2, <4>3
    <3>7. z = r BY <3>1, <3>5, <3>6
    <3> QED BY <3>7 DEF z, h
  <2> QED BY <2>3, <2>4, <2>5
<1>4. ASSUME a # << >> PROVE a \o r # << >> /\ Head(a \o r) = Head(a)
        /\ Tail(a \o r) = Tail(a) \o r
  <2> DEFINE z == a \o r
  <2>1. /\ z \in Seq(S) /\ Len(z) = Len(a) + Len(r)
        /\ \A i \in 1 .. Len(a) + Len(r) : z[i] = IF i <= Len(a) THEN a[i] ELSE r[i - Len(a)]
    BY ConcatProperties
  <2>2. Len(a) \in Nat \ {0} /\ Len(r) \in Nat BY <1>4
  <2>3. Tail(a) \in Seq(S) /\ Len(Tail(a)) = Len(a) - 1 /\ \A i \in 1 .. Len(Tail(a)) :
          Tail(a)[i] = a[i + 1]
    BY <1>4, HeadTailProperties
  <2> DEFINE y == Tail(a) \o r
  <2>4. /\ y \in Seq(S) /\ Len(y) = Len(Tail(a)) + Len(r)
        /\ \A i \in 1 .. Len(Tail(a)) + Len(r) : y[i] = IF i <= Len(Tail(a)) THEN Tail(a)[i]
           ELSE r[i - Len(Tail(a))]
    BY <2>3, ConcatProperties
  <2> HIDE DEF z, y
  <2>5. z # << >> /\ z[1] = a[1] BY <2>1, <2>2
  <2>6. Tail(z) \in Seq(S) /\ Len(Tail(z)) = Len(z) - 1 /\ \A i \in 1 .. Len(Tail(z)) :
          Tail(z)[i] = z[i + 1]
    BY <2>1, <2>5, HeadTailProperties
  <2>7. Len(Tail(z)) = Len(y) BY <2>1, <2>2, <2>3, <2>4, <2>6
  <2>8. ASSUME NEW i \in 1 .. Len(y) PROVE Tail(z)[i] = y[i]
    <3>1. Tail(z)[i] = z[i + 1] BY <2>6, <2>7
    <3>2. z[i + 1] = IF i + 1 <= Len(a) THEN a[i + 1] ELSE r[i + 1 - Len(a)]
      <4>1. i + 1 \in 1 .. Len(a) + Len(r) BY <2>2, <2>3, <2>4
      <4> QED BY <4>1, <2>1
    <3>3. y[i] = IF i <= Len(a) - 1 THEN Tail(a)[i] ELSE r[i - (Len(a) - 1)] BY <2>3, <2>4
    <3>4. CASE i <= Len(a) - 1
      <4>1. i \in 1 .. Len(Tail(a)) BY <3>4, <2>2, <2>3
      <4>2. Tail(a)[i] = a[i + 1] BY <4>1, <2>3
      <4>3. i + 1 <= Len(a) BY <3>4, <2>2
      <4> QED BY <3>1, <3>2, <3>3, <3>4, <4>2, <4>3
    <3>5. CASE ~(i <= Len(a) - 1)
      <4>1. ~(i + 1 <= Len(a)) /\ i + 1 - Len(a) = i - (Len(a) - 1) BY <3>5, <2>2
      <4> QED BY <3>1, <3>2, <3>3, <3>5, <4>1
    <3> QED BY <3>4, <3>5
  <2> DEFINE w == Tail(z)
  <2>a. w \in Seq(S) /\ Len(w) = Len(y) /\ \A i \in 1 .. Len(y) : w[i] = y[i] BY <2>6, <2>7,
      <2>8
  <2> HIDE DEF w
  <2>b. w = y BY <2>4, <2>a
  <2>9. Tail(z) = y BY <2>b DEF w
  <2>10. Head(z) = Head(a) BY <2>1, <2>5, <1>4
  <2> QED BY <2>5, <2>9, <2>10 DEF z, y
<1> QED BY <1>1, <1>2, <1>3, <1>4

----------------------------------------------------------------------------
(* What the edits of a message are to the other end. *)

\* The parts of a conv.
LEMMA ConvFacts ==
  ASSUME NEW c \in Convs
  PROVE  c[1] \in Ends /\ c[2] \in Nat /\ c[3] \in MsgIds
BY DEF Convs

\* The id that a message's frames carry.
LEMMA WireOf ==
  ASSUME NEW p, NEW id \in MsgIds, NEW m \in Messages(Convs), NEW O, Named(p, id, m, O),
         "DISCONNECTED" \notin m.status
  PROVE  (IF m.imsgid # 0 THEN m.imsgid ELSE -id) = Wire(p, m.conv)
<1>1. m.conv[3] \in MsgIds BY MessageFacts, ConvFacts
<1>2. m.conv[3] # 0 BY <1>1 DEF MsgIds
<1> QED BY <1>2 DEF Named, Wire

\* A response carries it.
LEMMA NamedReply ==
  ASSUME NEW p, NEW id \in MsgIds, NEW m \in Messages(Convs), NEW O, Named(p, id, m, O),
         "DISCONNECTED" \notin m.status, NEW what \in {"OK", "DISCON"}
  PROVE  LET r == Reply(m, id, what)
         IN  r \in Tokens /\ r \in Resps(Convs) /\ Mine(p, m.conv, r) /\ Kind(r) = what
<1>1. Reply(m, id, what) \in Resps(Convs) BY ReplyType
<1>2. Reply(m, id, what).id = Wire(p, m.conv) BY WireOf DEF Reply
<1>3. Reply(m, id, what).conv = m.conv /\ Reply(m, id, what).kind = "RESP"
        /\ Reply(m, id, what).what = what
  BY DEF Reply
<1> QED BY <1>1, <1>2, <1>3 DEF Tokens, Mine, Kind

\* A packet carries it.
LEMMA NamedPacket ==
  ASSUME NEW p, NEW id \in MsgIds, NEW m \in Messages(Convs), NEW O, Named(p, id, m, O),
         "DISCONNECTED" \notin m.status
  PROVE  Mine(p, m.conv, Packet(m, id))
<1>1. Packet(m, id).id = Wire(p, m.conv) BY WireOf DEF Packet
<1>2. Packet(m, id).conv = m.conv BY DEF Packet
<1> QED BY <1>1, <1>2 DEF Mine

\* A message keeps its name if its packets carry it.
LEMMA NamedFrom ==
  ASSUME NEW p, NEW id, NEW m, NEW O, Named(p, id, m, O), NEW n, n.conv = m.conv,
         n.imsgid = m.imsgid, "DISCONNECTED" \in n.status <=> "DISCONNECTED" \in m.status,
         \A i \in 1 .. Len(n.writ_queue) : Mine(p, m.conv, n.writ_queue[i]),
         n.incomplete # NoPacket => Mine(p, m.conv, n.incomplete),
         "DISCONNECTED" \in n.status => n.writ_queue = << >>
  PROVE  Named(p, id, n, O)
BY DEF Named

\* A message keeps its name if its packets stay.
LEMMA NamedSame ==
  ASSUME NEW p, NEW id, NEW m, NEW O, Named(p, id, m, O), NEW n, n.conv = m.conv,
         n.imsgid = m.imsgid, "DISCONNECTED" \in n.status <=> "DISCONNECTED" \in m.status,
         n.writ_queue = m.writ_queue, n.incomplete = m.incomplete
  PROVE  Named(p, id, n, O)
BY DEF Named

\* msg_update_status sends at most one acknowledgement, which was owed.
LEMMA SettledStep ==
  ASSUME NEW p, NEW id \in MsgIds, NEW m \in Messages(Convs), NEW O, Named(p, id, m, O),
         Sound(m)
  PROVE  LET n == Settled(m) IN
         /\ n \in Messages(Convs) /\ n.conv = m.conv /\ Named(p, id, n, O) /\ Sound(n)
         /\ Acks(m) => IsAck(Aspects(m), Aspects(n)) /\ "DISCONNECTED" \notin m.status
         /\ ~Acks(m) => IsQuiet(Aspects(m), Aspects(n))
<1> DEFINE n == Settled(m)
<1>1. /\ n \in Messages(Convs) /\ n.status = SettledStatus(m)
      /\ n.imsgid = m.imsgid /\ n.conv = m.conv
      /\ n.n_writ = m.n_writ /\ n.n_read = m.n_read
      /\ n.incomplete = m.incomplete /\ n.read_queue = m.read_queue
         /\ n.writ_queue = m.writ_queue
  BY SettledFacts
<1>2. Sound(n) BY SettledSound
<1> HIDE DEF n
<1>3. /\ "DISCONNECTED" \in n.status <=> "DISCONNECTED" \in m.status
      /\ "SENT_DISCONNECT" \in n.status <=> "SENT_DISCONNECT" \in m.status
      /\ "WAITING_FOR_RESP" \in n.status <=> "WAITING_FOR_RESP" \in m.status
      /\ "NEED_TO_SEND_RESP" \in n.status <=> "NEED_TO_SEND_RESP" \in m.status /\ ~Acks(m)
  BY <1>1, SettledStatusFacts DEF Flags
<1>4. Named(p, id, n, O) BY <1>1, <1>3, NamedSame
<1>5. Proper(Aspects(n)) BY <1>2, ProperAspects
<1> DEFINE V == Aspects(m)
           W == Aspects(n)
<1>6. /\ "alive" \in V /\ "alive" \in W
      /\ "open" \in V <=> "SENT_DISCONNECT" \notin m.status
      /\ "gone" \in V <=> "DISCONNECTED" \in m.status
      /\ "waits" \in V <=> "SENT_DISCONNECT" \notin m.status /\ "WAITING_FOR_RESP" \in m.status
      /\ "needs" \in V <=> "DISCONNECTED" \notin m.status /\ "NEED_TO_SEND_RESP" \in m.status
      /\ "unwritten" \in V <=> m.n_writ = 0
      /\ "unread" \in V <=> m.n_read = 0
      /\ "overrun" \in V <=> Len(m.read_queue) > NBuff
  BY AspectFacts
<1>7. /\ "open" \in W <=> "SENT_DISCONNECT" \notin n.status
      /\ "gone" \in W <=> "DISCONNECTED" \in n.status
      /\ "waits" \in W <=> "SENT_DISCONNECT" \notin n.status /\ "WAITING_FOR_RESP" \in n.status
      /\ "needs" \in W <=> "DISCONNECTED" \notin n.status /\ "NEED_TO_SEND_RESP" \in n.status
      /\ "unwritten" \in W <=> n.n_writ = 0
      /\ "unread" \in W <=> n.n_read = 0
      /\ "overrun" \in W <=> Len(n.read_queue) > NBuff
  BY AspectFacts
<1> HIDE DEF V, W
<1>8. Acks(m) => "NEED_TO_SEND_RESP" \in m.status /\ "DISCONNECTED" \notin m.status BY DEF Acks
<1>9. Proper(W) BY <1>5 DEF W
<1>10. Acks(m) => IsAck(V, W) BY <1>1, <1>3, <1>6, <1>7, <1>8, <1>9 DEF IsAck, Same
<1>11. ~Acks(m) => IsQuiet(V, W) BY <1>1, <1>3, <1>6, <1>7, <1>9 DEF IsQuiet, Same, Less
<1> QED BY <1>1, <1>2, <1>4, <1>8, <1>10, <1>11 DEF n, V, W

\* An edit that the other end does not depend on.
LEMMA QuietStep ==
  ASSUME NEW m, NEW n, Sound(n),
         "SENT_DISCONNECT" \in n.status <=> "SENT_DISCONNECT" \in m.status,
         "DISCONNECTED" \in n.status <=> "DISCONNECTED" \in m.status,
         "WAITING_FOR_RESP" \in n.status <=> "WAITING_FOR_RESP" \in m.status,
         "NEED_TO_SEND_RESP" \in n.status <=> "NEED_TO_SEND_RESP" \in m.status,
         n.n_writ = 0 => m.n_writ = 0, n.n_read = m.n_read,
         Len(n.read_queue) > NBuff => Len(m.read_queue) > NBuff
  PROVE  IsQuiet(Aspects(m), Aspects(n))
<1> DEFINE V == Aspects(m)
           W == Aspects(n)
<1>1. /\ "alive" \in V /\ "alive" \in W
      /\ "open" \in V <=> "SENT_DISCONNECT" \notin m.status
      /\ "gone" \in V <=> "DISCONNECTED" \in m.status
      /\ "waits" \in V <=> "SENT_DISCONNECT" \notin m.status /\ "WAITING_FOR_RESP" \in m.status
      /\ "needs" \in V <=> "DISCONNECTED" \notin m.status /\ "NEED_TO_SEND_RESP" \in m.status
      /\ "unwritten" \in V <=> m.n_writ = 0
      /\ "unread" \in V <=> m.n_read = 0
      /\ "overrun" \in V <=> Len(m.read_queue) > NBuff
  BY AspectFacts
<1>2. /\ "open" \in W <=> "SENT_DISCONNECT" \notin n.status
      /\ "gone" \in W <=> "DISCONNECTED" \in n.status
      /\ "waits" \in W <=> "SENT_DISCONNECT" \notin n.status /\ "WAITING_FOR_RESP" \in n.status
      /\ "needs" \in W <=> "DISCONNECTED" \notin n.status /\ "NEED_TO_SEND_RESP" \in n.status
      /\ "unwritten" \in W <=> n.n_writ = 0
      /\ "unread" \in W <=> n.n_read = 0
      /\ "overrun" \in W <=> Len(n.read_queue) > NBuff
  BY AspectFacts
<1>3. Proper(W) BY ProperAspects
<1> HIDE DEF V, W
<1>4. IsQuiet(V, W) BY <1>1, <1>2, <1>3 DEF IsQuiet, Same, Less
<1> QED BY <1>4 DEF V, W

\* An edit that sends DISCON.
LEMMA DiscStep ==
  ASSUME NEW m, NEW n, Sound(n), "SENT_DISCONNECT" \notin m.status,
         "SENT_DISCONNECT" \in n.status,
         "DISCONNECTED" \in n.status <=> "DISCONNECTED" \in m.status,
         "NEED_TO_SEND_RESP" \in n.status <=> "NEED_TO_SEND_RESP" \in m.status,
         n.n_writ = m.n_writ, n.n_read = m.n_read, n.read_queue = m.read_queue,
         ~(m.n_writ = 0 /\ m.n_read = 0)
  PROVE  IsDisc(Aspects(m), Aspects(n))
<1> DEFINE V == Aspects(m)
           W == Aspects(n)
<1>1. /\ "alive" \in V /\ "alive" \in W
      /\ "open" \in V <=> "SENT_DISCONNECT" \notin m.status
      /\ "gone" \in V <=> "DISCONNECTED" \in m.status
      /\ "waits" \in V <=> "SENT_DISCONNECT" \notin m.status /\ "WAITING_FOR_RESP" \in m.status
      /\ "needs" \in V <=> "DISCONNECTED" \notin m.status /\ "NEED_TO_SEND_RESP" \in m.status
      /\ "unwritten" \in V <=> m.n_writ = 0
      /\ "unread" \in V <=> m.n_read = 0
      /\ "overrun" \in V <=> Len(m.read_queue) > NBuff
  BY AspectFacts
<1>2. /\ "open" \in W <=> "SENT_DISCONNECT" \notin n.status
      /\ "gone" \in W <=> "DISCONNECTED" \in n.status
      /\ "waits" \in W <=> "SENT_DISCONNECT" \notin n.status /\ "WAITING_FOR_RESP" \in n.status
      /\ "needs" \in W <=> "DISCONNECTED" \notin n.status /\ "NEED_TO_SEND_RESP" \in n.status
      /\ "unwritten" \in W <=> n.n_writ = 0
      /\ "unread" \in W <=> n.n_read = 0
      /\ "overrun" \in W <=> Len(n.read_queue) > NBuff
  BY AspectFacts
<1>3. Proper(W) BY ProperAspects
<1> HIDE DEF V, W
<1>4. IsDisc(V, W) BY <1>1, <1>2, <1>3 DEF IsDisc, Same, Less
<1> QED BY <1>4 DEF V, W

\* An edit that sends a packet.
LEMMA SendStep ==
  ASSUME NEW m, NEW n, Sound(n), "SENT_DISCONNECT" \notin m.status,
         "WAITING_FOR_RESP" \notin m.status, "WAITING_FOR_RESP" \in n.status, m.n_writ # 0,
         "SENT_DISCONNECT" \in n.status <=> "SENT_DISCONNECT" \in m.status,
         "DISCONNECTED" \in n.status <=> "DISCONNECTED" \in m.status,
         "NEED_TO_SEND_RESP" \in n.status <=> "NEED_TO_SEND_RESP" \in m.status,
         n.n_writ = m.n_writ, n.n_read = m.n_read, n.read_queue = m.read_queue
  PROVE  IsSend(Aspects(m), Aspects(n))
<1> DEFINE V == Aspects(m)
           W == Aspects(n)
<1>1. /\ "alive" \in V /\ "alive" \in W
      /\ "open" \in V <=> "SENT_DISCONNECT" \notin m.status
      /\ "gone" \in V <=> "DISCONNECTED" \in m.status
      /\ "waits" \in V <=> "SENT_DISCONNECT" \notin m.status /\ "WAITING_FOR_RESP" \in m.status
      /\ "needs" \in V <=> "DISCONNECTED" \notin m.status /\ "NEED_TO_SEND_RESP" \in m.status
      /\ "unwritten" \in V <=> m.n_writ = 0
      /\ "unread" \in V <=> m.n_read = 0
      /\ "overrun" \in V <=> Len(m.read_queue) > NBuff
  BY AspectFacts
<1>2. /\ "open" \in W <=> "SENT_DISCONNECT" \notin n.status
      /\ "gone" \in W <=> "DISCONNECTED" \in n.status
      /\ "waits" \in W <=> "SENT_DISCONNECT" \notin n.status /\ "WAITING_FOR_RESP" \in n.status
      /\ "needs" \in W <=> "DISCONNECTED" \notin n.status /\ "NEED_TO_SEND_RESP" \in n.status
      /\ "unwritten" \in W <=> n.n_writ = 0
      /\ "unread" \in W <=> n.n_read = 0
      /\ "overrun" \in W <=> Len(n.read_queue) > NBuff
  BY AspectFacts
<1>3. Proper(W) BY ProperAspects
<1> HIDE DEF V, W
<1>4. IsSend(V, W) BY <1>1, <1>2, <1>3 DEF IsSend, Same, Less
<1> QED BY <1>4 DEF V, W

\* An edit that ends waiting for no good reason.
LEMMA UnwaitStep ==
  ASSUME NEW m, NEW n, Sound(n), "WAITING_FOR_RESP" \notin n.status,
         "SENT_DISCONNECT" \in n.status <=> "SENT_DISCONNECT" \in m.status,
         "DISCONNECTED" \in n.status <=> "DISCONNECTED" \in m.status,
         "NEED_TO_SEND_RESP" \in n.status <=> "NEED_TO_SEND_RESP" \in m.status,
         n.n_writ = m.n_writ, n.n_read = m.n_read, n.read_queue = m.read_queue
  PROVE  IsUnwait(Aspects(m), Aspects(n))
<1> DEFINE V == Aspects(m)
           W == Aspects(n)
<1>1. /\ "alive" \in V /\ "alive" \in W
      /\ "open" \in V <=> "SENT_DISCONNECT" \notin m.status
      /\ "gone" \in V <=> "DISCONNECTED" \in m.status
      /\ "waits" \in V <=> "SENT_DISCONNECT" \notin m.status /\ "WAITING_FOR_RESP" \in m.status
      /\ "needs" \in V <=> "DISCONNECTED" \notin m.status /\ "NEED_TO_SEND_RESP" \in m.status
      /\ "unwritten" \in V <=> m.n_writ = 0
      /\ "unread" \in V <=> m.n_read = 0
      /\ "overrun" \in V <=> Len(m.read_queue) > NBuff
  BY AspectFacts
<1>2. /\ "open" \in W <=> "SENT_DISCONNECT" \notin n.status
      /\ "gone" \in W <=> "DISCONNECTED" \in n.status
      /\ "waits" \in W <=> "SENT_DISCONNECT" \notin n.status /\ "WAITING_FOR_RESP" \in n.status
      /\ "needs" \in W <=> "DISCONNECTED" \notin n.status /\ "NEED_TO_SEND_RESP" \in n.status
      /\ "unwritten" \in W <=> n.n_writ = 0
      /\ "unread" \in W <=> n.n_read = 0
      /\ "overrun" \in W <=> Len(n.read_queue) > NBuff
  BY AspectFacts
<1>3. Proper(W) BY ProperAspects
<1> HIDE DEF V, W
<1>4. IsUnwait(V, W) BY <1>1, <1>2, <1>3 DEF IsUnwait, Same, Less
<1> QED BY <1>4 DEF V, W

\* An edit that ends waiting.
LEMMA RecvOkStep ==
  ASSUME NEW m, NEW n, Sound(n), "WAITING_FOR_RESP" \notin n.status,
         "SENT_DISCONNECT" \in n.status <=> "SENT_DISCONNECT" \in m.status,
         "DISCONNECTED" \in n.status <=> "DISCONNECTED" \in m.status,
         "NEED_TO_SEND_RESP" \in n.status <=> "NEED_TO_SEND_RESP" \in m.status,
         n.n_writ = m.n_writ, n.n_read = m.n_read, n.read_queue = m.read_queue
  PROVE  IsRecvOk(Aspects(m), Aspects(n))
<1> DEFINE V == Aspects(m)
           W == Aspects(n)
<1>1. /\ "alive" \in V /\ "alive" \in W
      /\ "open" \in V <=> "SENT_DISCONNECT" \notin m.status
      /\ "gone" \in V <=> "DISCONNECTED" \in m.status
      /\ "waits" \in V <=> "SENT_DISCONNECT" \notin m.status /\ "WAITING_FOR_RESP" \in m.status
      /\ "needs" \in V <=> "DISCONNECTED" \notin m.status /\ "NEED_TO_SEND_RESP" \in m.status
      /\ "unwritten" \in V <=> m.n_writ = 0
      /\ "unread" \in V <=> m.n_read = 0
      /\ "overrun" \in V <=> Len(m.read_queue) > NBuff
  BY AspectFacts
<1>2. /\ "open" \in W <=> "SENT_DISCONNECT" \notin n.status
      /\ "gone" \in W <=> "DISCONNECTED" \in n.status
      /\ "waits" \in W <=> "SENT_DISCONNECT" \notin n.status /\ "WAITING_FOR_RESP" \in n.status
      /\ "needs" \in W <=> "DISCONNECTED" \notin n.status /\ "NEED_TO_SEND_RESP" \in n.status
      /\ "unwritten" \in W <=> n.n_writ = 0
      /\ "unread" \in W <=> n.n_read = 0
      /\ "overrun" \in W <=> Len(n.read_queue) > NBuff
  BY AspectFacts
<1>3. Proper(W) BY ProperAspects
<1> HIDE DEF V, W
<1>4. IsRecvOk(V, W) BY <1>1, <1>2, <1>3 DEF IsRecvOk, Same, Less
<1> QED BY <1>4 DEF V, W

\* An edit that takes a packet.
LEMMA RecvPackStep ==
  ASSUME NEW m, NEW n, Sound(n), "DISCONNECTED" \notin m.status,
         "NEED_TO_SEND_RESP" \in n.status, n.n_read # 0,
         "SENT_DISCONNECT" \in n.status <=> "SENT_DISCONNECT" \in m.status,
         "DISCONNECTED" \in n.status <=> "DISCONNECTED" \in m.status,
         "WAITING_FOR_RESP" \in n.status <=> "WAITING_FOR_RESP" \in m.status,
         n.n_writ = m.n_writ,
         Len(n.read_queue) > NBuff =>
             Len(m.read_queue) > NBuff \/ "NEED_TO_SEND_RESP" \in m.status
  PROVE  IsRecvPack(Aspects(m), Aspects(n))
<1> DEFINE V == Aspects(m)
           W == Aspects(n)
<1>1. /\ "alive" \in V /\ "alive" \in W
      /\ "open" \in V <=> "SENT_DISCONNECT" \notin m.status
      /\ "gone" \in V <=> "DISCONNECTED" \in m.status
      /\ "waits" \in V <=> "SENT_DISCONNECT" \notin m.status /\ "WAITING_FOR_RESP" \in m.status
      /\ "needs" \in V <=> "DISCONNECTED" \notin m.status /\ "NEED_TO_SEND_RESP" \in m.status
      /\ "unwritten" \in V <=> m.n_writ = 0
      /\ "unread" \in V <=> m.n_read = 0
      /\ "overrun" \in V <=> Len(m.read_queue) > NBuff
  BY AspectFacts
<1>2. /\ "open" \in W <=> "SENT_DISCONNECT" \notin n.status
      /\ "gone" \in W <=> "DISCONNECTED" \in n.status
      /\ "waits" \in W <=> "SENT_DISCONNECT" \notin n.status /\ "WAITING_FOR_RESP" \in n.status
      /\ "needs" \in W <=> "DISCONNECTED" \notin n.status /\ "NEED_TO_SEND_RESP" \in n.status
      /\ "unwritten" \in W <=> n.n_writ = 0
      /\ "unread" \in W <=> n.n_read = 0
      /\ "overrun" \in W <=> Len(n.read_queue) > NBuff
  BY AspectFacts
<1>3. Proper(W) BY ProperAspects
<1> HIDE DEF V, W
<1>4. IsRecvPack(V, W) BY <1>1, <1>2, <1>3 DEF IsRecvPack, Same, Less
<1> QED BY <1>4 DEF V, W

----------------------------------------------------------------------------
(* A switch and the stream that it faces. *)

\* The switch s of end w.p, whose socket still carries ch, faces the other
\* end.
Link(w, s, ch, Y, mi) ==
  /\ w.p \in Ends /\ w.p \in w.U /\ w.p \in w.R
  /\ s \in Switches(Convs) /\ ch \in Seq(Tokens)
  /\ Linked(w.p, s.msgs, ch \o s.pending_resps, w.q, w.B, Y, w.O, w.U, w.R, mi)

\* Responses are frames.
LEMMA RespsAreTokens ==
  ASSUME NEW r \in Seq(Resps(Convs))
  PROVE  r \in Seq(Tokens)
<1>1. Resps(Convs) \subseteq Tokens BY DEF Tokens
<1> QED BY <1>1

\* What that says.
LEMMA LinkFacts ==
  ASSUME NEW w, NEW s, NEW ch, NEW Y, NEW mi, Link(w, s, ch, Y, mi)
  PROVE  /\ w.p \in Ends /\ w.p \in w.U /\ w.p \in w.R
         /\ s \in Switches(Convs) /\ ch \in Seq(Tokens) /\ s.msgs \in Slots
         /\ s.pending_resps \in Seq(Tokens) /\ s.pending_resps \in Seq(Resps(Convs))
         /\ Y \in Seq(Tokens)
         /\ Linked(w.p, s.msgs, ch \o s.pending_resps, w.q, w.B, Y, w.O, w.U, w.R, mi)
         /\ \A id \in MsgIds : s.msgs[id] # NoMsg => Named(w.p, id, s.msgs[id], w.O)
<1>1. /\ w.p \in Ends /\ w.p \in w.U /\ w.p \in w.R
      /\ s \in Switches(Convs) /\ ch \in Seq(Tokens)
      /\ Linked(w.p, s.msgs, ch \o s.pending_resps, w.q, w.B, Y, w.O, w.U, w.R, mi)
  BY DEF Link
<1>2. s.pending_resps \in Seq(Resps(Convs)) BY <1>1, SwitchFacts
<1>3. s.pending_resps \in Seq(Tokens) BY <1>2, RespsAreTokens
<1>4. /\ s.msgs \in Slots /\ Y \in Seq(Tokens)
      /\ \A id \in MsgIds : s.msgs[id] # NoMsg => Named(w.p, id, s.msgs[id], w.O)
  BY <1>1 DEF Linked, Side
<1> QED BY <1>1, <1>2, <1>3, <1>4

\* Every message is named as it should be.
LEMMA NamedAt ==
  ASSUME NEW w, NEW s, NEW ch, NEW Y, NEW mi, Link(w, s, ch, Y, mi), NEW id \in MsgIds,
         NEW m \in Messages(Convs), s.msgs[id] = m
  PROVE  Named(w.p, id, m, w.O)
<1>1. m # NoMsg BY MessageFacts
<1> QED BY <1>1, LinkFacts

\* msg_update_status keeps the link.
LEMMA SettleLinked ==
  ASSUME NEW p \in Ends, NEW q, NEW B, NEW Y, NEW O, NEW U, NEW R, NEW mi, p \in U, p \in R,
         NEW ch \in Seq(Tokens), NEW r \in Seq(Resps(Convs)), NEW A,
         Linked(p, A, ch \o r, q, B, Y, O, U, R, mi), NEW id \in MsgIds,
         NEW n \in Messages(Convs), A[id] = n, Sound(n), NEW Z, Puts(A, Z, id, Settled(n)),
         NEW v, v = IF Acks(n) THEN Append(r, Reply(n, id, "OK")) ELSE r
  PROVE  Linked(p, Z, ch \o v, q, B, Y, O, U, R, mi)
<1>1. n # NoMsg BY MessageFacts
<1>2. Named(p, id, n, O) BY <1>1 DEF Linked, Side
<1>3. LET k == Settled(n) IN
      /\ k \in Messages(Convs) /\ k.conv = n.conv /\ Named(p, id, k, O)
      /\ Acks(n) => IsAck(Aspects(n), Aspects(k)) /\ "DISCONNECTED" \notin n.status
      /\ ~Acks(n) => IsQuiet(Aspects(n), Aspects(k))
  BY <1>2, SettledStep
<1> DEFINE k == Settled(n)
<1>a. Puts(A, Z, id, k) OBVIOUS
<1>b. /\ k \in Messages(Convs) /\ k.conv = n.conv /\ Named(p, id, k, O)
      /\ Acks(n) => IsAck(Aspects(n), Aspects(k)) /\ "DISCONNECTED" \notin n.status
      /\ ~Acks(n) => IsQuiet(Aspects(n), Aspects(k))
  BY <1>3
<1> HIDE DEF k
<1>4. CASE Acks(n)
  <2> DEFINE x == Reply(n, id, "OK")
  <2>1. x \in Tokens /\ Mine(p, n.conv, x) /\ Kind(x) = "OK"
    BY <1>2, <1>b, <1>4, NamedReply
  <2> HIDE DEF x
  <2>2. Linked(p, Z, Append(ch \o r, x), q, B, Y, O, U, R, mi) BY <1>a, <1>b, <1>4, <2>1,
          LinkAck
  <2>3. r \in Seq(Tokens) BY RespsAreTokens
  <2>4. ch \o Append(r, x) = Append(ch \o r, x) BY <2>1, <2>3, JoinFacts
  <2>5. v = Append(r, x) BY <1>4 DEF x
  <2> QED BY <2>2, <2>4, <2>5
<1>5. CASE ~Acks(n)
  <2>1. Linked(p, Z, ch \o r, q, B, Y, O, U, R, mi) BY <1>a, <1>b, <1>5, LinkQuiet
  <2> QED BY <2>1, <1>5
<1> QED BY <1>4, <1>5

\* The rest of an edit keeps the link, once the message is n.
LEMMA EditLink ==
  ASSUME NEW w, w.p \in Ends, w.p \in w.U, w.p \in w.R, NEW Y, NEW mi,
         NEW s \in Switches(Convs), NEW id \in MsgIds, NEW n \in Messages(Convs), Sound(n),
         NEW t, Edits(Convs, s, t, id, n), NEW A, Puts(s.msgs, A, id, n),
         NEW k \in Seq(Tokens),
         Linked(w.p, A, k \o s.pending_resps, w.q, w.B, Y, w.O, w.U, w.R, mi)
  PROVE  Link(w, t, k, Y, mi)
<1>1. s.msgs \in [MsgIds -> Messages(Convs) \cup {NoMsg}]
        /\ s.pending_resps \in Seq(Resps(Convs)) BY SwitchFacts
<1>2. A[id] = n /\ [A EXCEPT ![id] = Settled(n)] = [s.msgs EXCEPT ![id] = Settled(n)]
  <2>1. A = [s.msgs EXCEPT ![id] = n] BY DEF Puts
  <2> QED BY <2>1, <1>1
<1>3. /\ t \in Switches(Convs) /\ t.msgs = [s.msgs EXCEPT ![id] = Settled(n)]
      /\ t.pending_resps = IF Acks(n) THEN Append(s.pending_resps, Reply(n, id, "OK"))
         ELSE s.pending_resps
  BY DEF Edits, Turns
<1>4. Puts(A, t.msgs, id, Settled(n)) BY <1>2, <1>3 DEF Puts
<1>5. A[id] = n BY <1>2
<1> DEFINE r == s.pending_resps
           v == t.pending_resps
           p == w.p
           Z == t.msgs
           q == w.q
           B == w.B
           O == w.O
           U == w.U
           R == w.R
<1>6. /\ r \in Seq(Resps(Convs)) /\ v = (IF Acks(n) THEN Append(r, Reply(n, id, "OK")) ELSE r)
      /\ p \in Ends /\ p \in U /\ p \in R
      /\ Linked(p, A, k \o r, q, B, Y, O, U, R, mi) /\ Puts(A, Z, id, Settled(n))
  BY <1>1, <1>3, <1>4
<1> HIDE DEF r, v, p, Z, q, B, O, U, R
<1>7. Linked(p, Z, k \o v, q, B, Y, O, U, R, mi) BY <1>5, <1>6, SettleLinked
<1> QED BY <1>3, <1>7 DEF Link, r, v, p, Z, q, B, O, U, R

\* The message becomes n, and nothing of it that the other end depends on
\* changes.
LEMMA QuietLinked ==
  ASSUME NEW w, NEW s, NEW ch, NEW Y, NEW mi, Link(w, s, ch, Y, mi), NEW id \in MsgIds,
         NEW m \in Messages(Convs), s.msgs[id] = m, NEW n \in Messages(Convs), n.conv = m.conv,
         Named(w.p, id, n, w.O), IsQuiet(Aspects(m), Aspects(n)), NEW Z, Puts(s.msgs, Z, id, n)
  PROVE  Linked(w.p, Z, ch \o s.pending_resps, w.q, w.B, Y, w.O, w.U, w.R, mi)
<1>1. /\ w.p \in Ends /\ w.p \in w.U /\ w.p \in w.R
      /\ Linked(w.p, s.msgs, ch \o s.pending_resps, w.q, w.B, Y, w.O, w.U, w.R, mi)
  BY LinkFacts
<1> QED BY <1>1, LinkQuiet

\* The same, of a switch.
LEMMA QuietTurn ==
  ASSUME NEW w, NEW s, NEW ch, NEW Y, NEW mi, Link(w, s, ch, Y, mi), NEW id \in MsgIds,
         NEW m \in Messages(Convs), s.msgs[id] = m, NEW n \in Messages(Convs), n.conv = m.conv,
         Named(w.p, id, n, w.O), IsQuiet(Aspects(m), Aspects(n)), NEW t, NEW pend, NEW r,
         r = s.pending_resps, Turns(Convs, s, t, id, n, pend, r)
  PROVE  Link(w, t, ch, Y, mi)
<1>1. t \in Switches(Convs) /\ Puts(s.msgs, t.msgs, id, n) /\ t.pending_resps = s.pending_resps
  BY DEF Turns, Puts
<1> DEFINE Z == t.msgs
<1>2. Puts(s.msgs, Z, id, n) BY <1>1
<1> HIDE DEF Z
<1>3. Linked(w.p, Z, ch \o s.pending_resps, w.q, w.B, Y, w.O, w.U, w.R, mi) BY <1>2, QuietLinked
<1>4. ch \in Seq(Tokens) /\ w.p \in Ends /\ w.p \in w.U /\ w.p \in w.R BY LinkFacts
<1> QED BY <1>1, <1>3, <1>4 DEF Link, Z

\* The same, of an edit.
LEMMA QuietEdit ==
  ASSUME NEW w, NEW s, NEW ch, NEW Y, NEW mi, Link(w, s, ch, Y, mi), NEW id \in MsgIds,
         NEW m \in Messages(Convs), s.msgs[id] = m, NEW n \in Messages(Convs), n.conv = m.conv,
         Named(w.p, id, n, w.O), IsQuiet(Aspects(m), Aspects(n)), Sound(n), NEW t,
         Edits(Convs, s, t, id, n)
  PROVE  Link(w, t, ch, Y, mi)
<1> DEFINE Z == [s.msgs EXCEPT ![id] = n]
<1>1. Puts(s.msgs, Z, id, n) BY DEF Puts
<1> HIDE DEF Z
<1>2. Linked(w.p, Z, ch \o s.pending_resps, w.q, w.B, Y, w.O, w.U, w.R, mi) BY <1>1, QuietLinked
<1>3. s \in Switches(Convs) /\ ch \in Seq(Tokens) /\ w.p \in Ends /\ w.p \in w.U
        /\ w.p \in w.R BY LinkFacts
<1> QED BY <1>1, <1>2, <1>3, EditLink

\* A packet of the message is read from the socket.
LEMMA RecvEdit ==
  ASSUME NEW w, NEW s, NEW ch, NEW Y, NEW mi, Link(w, s, ch, Y, mi), NEW id \in MsgIds,
         NEW m \in Messages(Convs), s.msgs[id] = m, NEW n \in Messages(Convs), n.conv = m.conv,
         Named(w.p, id, n, w.O), IsRecvPack(Aspects(m), Aspects(n)), Sound(n),
         First(Y, "PACK", m.conv), NEW t, Edits(Convs, s, t, id, n)
  PROVE  Link(w, t, ch, Tail(Y), mi)
<1> DEFINE Z == [s.msgs EXCEPT ![id] = n]
           T == Tail(Y)
<1>1. Puts(s.msgs, Z, id, n) BY DEF Puts
<1> HIDE DEF Z
<1>2. /\ Linked(w.p, s.msgs, ch \o s.pending_resps, w.q, w.B, Y, w.O, w.U, w.R, mi)
      /\ s \in Switches(Convs) /\ ch \in Seq(Tokens) /\ w.p \in Ends /\ w.p \in w.U
         /\ w.p \in w.R
  BY LinkFacts
<1>3. Linked(w.p, Z, ch \o s.pending_resps, w.q, w.B, T, w.O, w.U, w.R, mi)
  <2>1. Y # << >> /\ Head(Y).conv = m.conv /\ Kind(Head(Y)) = "PACK" BY DEF First
  <2> QED BY <1>1, <1>2, <2>1, LinkRecvPack
<1> HIDE DEF T
<1>4. Link(w, t, ch, T, mi) BY <1>1, <1>2, <1>3, EditLink
<1> QED BY <1>4 DEF T

\* A packet of the message is handed to the socket; no response was waiting.
LEMMA SendEdit ==
  ASSUME NEW w, NEW s, NEW ch, NEW Y, NEW mi, Link(w, s, ch, Y, mi), NEW id \in MsgIds,
         NEW m \in Messages(Convs), s.msgs[id] = m, NEW n \in Messages(Convs), n.conv = m.conv,
         Named(w.p, id, n, w.O), IsSend(Aspects(m), Aspects(n)), Sound(n),
         s.pending_resps = << >>, NEW x \in Tokens, Mine(w.p, m.conv, x), Kind(x) = "PACK",
         NEW t, Edits(Convs, s, t, id, n)
  PROVE  Link(w, t, Append(ch, x), Y, mi)
<1> DEFINE Z == [s.msgs EXCEPT ![id] = n]
           k == Append(ch, x)
           r == s.pending_resps
<1>1. Puts(s.msgs, Z, id, n) BY DEF Puts
<1> HIDE DEF Z
<1>2. /\ Linked(w.p, s.msgs, ch \o r, w.q, w.B, Y, w.O, w.U, w.R, mi)
      /\ s \in Switches(Convs) /\ ch \in Seq(Tokens) /\ w.p \in Ends /\ w.p \in w.U
         /\ w.p \in w.R
  BY LinkFacts
<1>3. k \in Seq(Tokens) BY <1>2
<1>4. ch \o r = ch /\ k \o r = k BY <1>2, <1>3, JoinFacts
<1>5. Linked(w.p, s.msgs, ch, w.q, w.B, Y, w.O, w.U, w.R, mi) BY <1>2, <1>4
<1>6. Linked(w.p, Z, k, w.q, w.B, Y, w.O, w.U, w.R, mi) BY <1>1, <1>2, <1>5, LinkSend
<1>7. Linked(w.p, Z, k \o r, w.q, w.B, Y, w.O, w.U, w.R, mi) BY <1>4, <1>6
<1> HIDE DEF k
<1>8. Link(w, t, k, Y, mi) BY <1>1, <1>2, <1>3, <1>7, EditLink
<1> QED BY <1>8 DEF k

----------------------------------------------------------------------------
(* The calls of a program, and frames that go out, keep the link. *)

\* Both: the switch by itself and the link.
Joint(w, s, ch, Y, mi) == Loc(Convs, s) /\ Link(w, s, ch, Y, mi)

\* The message is disconnected.
Apart(m) == "DISCONNECTED" \in m.status

\* What is known of a message.
LEMMA JointAt ==
  ASSUME NEW w, NEW s, NEW ch, NEW Y, NEW mi, Joint(w, s, ch, Y, mi), NEW id \in MsgIds,
         Exists(s, id), NEW m, s.msgs[id] = m
  PROVE  /\ Loc(Convs, s) /\ Link(w, s, ch, Y, mi) /\ s \in Switches(Convs)
         /\ m \in Messages(Convs) /\ Sound(m) /\ Named(w.p, id, m, w.O)
<1>1. Loc(Convs, s) /\ Link(w, s, ch, Y, mi) BY DEF Joint
<1>2. s \in Switches(Convs) /\ m \in Messages(Convs) /\ Sound(m) BY <1>1, LocAt
<1> QED BY <1>1, <1>2, NamedAt

\* msg_push_writ_packet keeps the link.
LEMMA PushWritLink ==
  ASSUME NEW w, NEW s, NEW ch, NEW Y, NEW mi, Joint(w, s, ch, Y, mi), NEW id \in MsgIds,
         Exists(s, id), NEW m, s.msgs[id] = m, ~Apart(m), Writable(m), m.incomplete # NoPacket
  PROVE  Joint(w, msg_push_writ_packet(s, id), ch, Y, mi)
<1>1. /\ Loc(Convs, s) /\ Link(w, s, ch, Y, mi) /\ s \in Switches(Convs)
      /\ m \in Messages(Convs) /\ Sound(m) /\ Named(w.p, id, m, w.O)
  BY JointAt
<1> DEFINE t == msg_push_writ_packet(s, id)
           n == PushWrit(m)
<1>2. Loc(Convs, t) BY <1>1, PushWritLoc
<1>3. /\ n \in Messages(Convs)
      /\ n.imsgid = m.imsgid /\ n.conv = m.conv /\ n.n_writ = m.n_writ /\ n.n_read = m.n_read
      /\ n.incomplete = NoPacket /\ n.read_queue = m.read_queue
      /\ n.writ_queue = Append(m.writ_queue, m.incomplete)
      /\ n.status = (m.status \cup {"PACKET_AVAIL_TO_WRIT"})
              \ (IF Len(Append(m.writ_queue, m.incomplete)) >= NBuff
                 THEN {"SPACE_AVAIL_FOR_WRIT"} ELSE {})
  BY <1>1, PushWritFacts
<1>4. Edits(Convs, s, t, id, n) BY <1>1, PushWritEdits
<1>5. Sound(n) BY <1>1, PushWritSound DEF Writable
<1>6. m.writ_queue \in Seq(Packets(Convs)) /\ m.incomplete \in Packets(Convs) BY <1>1,
        MessageFacts
<1> HIDE DEF t, n
<1>7. \A i \in 1 .. Len(n.writ_queue) : n.writ_queue[i] = m.incomplete
        \/ \E j \in 1 .. Len(m.writ_queue) : n.writ_queue[i] = m.writ_queue[j]
  <2> DEFINE a == m.writ_queue
             x == m.incomplete
  <2>1. a \in Seq(Packets(Convs)) /\ x \in Packets(Convs)
          /\ n.writ_queue = Append(a, x) BY <1>3, <1>6
  <2> HIDE DEF a, x
  <2>2. \A i \in 1 .. Len(Append(a, x)) : Append(a, x)[i] = x \/ \E j \in 1 .. Len(a) :
          Append(a, x)[i] = a[j] BY <2>1
  <2> QED BY <2>1, <2>2 DEF a, x
<1>8. \A i \in 1 .. Len(n.writ_queue) : Mine(w.p, m.conv, n.writ_queue[i]) BY <1>1, <1>7
        DEF Named
<1>9. \A f \in {"DISCONNECTED", "SENT_DISCONNECT", "WAITING_FOR_RESP", "NEED_TO_SEND_RESP"} :
        f \in n.status <=> f \in m.status
  BY <1>3
<1>10. Named(w.p, id, n, w.O) BY <1>1, <1>3, <1>8, <1>9, NamedFrom DEF Apart
<1>11. IsQuiet(Aspects(m), Aspects(n)) BY <1>3, <1>5, <1>9, QuietStep
<1>12. Link(w, t, ch, Y, mi) BY <1>1, <1>3, <1>4, <1>5, <1>10, <1>11, QuietEdit
<1> QED BY <1>2, <1>12 DEF Joint, t

\* msg_packet_new keeps the link when no packet was begun.
LEMMA BeginLink ==
  ASSUME NEW w, NEW s, NEW ch, NEW Y, NEW mi, Joint(w, s, ch, Y, mi), NEW id \in MsgIds,
         Exists(s, id), NEW m, s.msgs[id] = m, ~Apart(m), m.incomplete = NoPacket
  PROVE  Joint(w, msg_packet_new(s, id), ch, Y, mi)
<1>1. /\ Loc(Convs, s) /\ Link(w, s, ch, Y, mi) /\ s \in Switches(Convs)
      /\ m \in Messages(Convs) /\ Sound(m) /\ Named(w.p, id, m, w.O)
  BY JointAt
<1> DEFINE t == msg_packet_new(s, id)
           n == Begin(m, id)
<1>2. Loc(Convs, t) BY <1>1, BeginLoc
<1>3. /\ n \in Messages(Convs)
      /\ n.imsgid = m.imsgid /\ n.conv = m.conv /\ n.n_writ = m.n_writ + 1
         /\ n.n_read = m.n_read
      /\ n.incomplete = Packet(m, id) /\ n.writ_queue = m.writ_queue
      /\ n.read_queue = m.read_queue /\ n.status = m.status
  BY <1>1, BeginFacts
<1>4. Turns(Convs, s, t, id, n, s.pending_msgs, s.pending_resps) BY <1>1, BeginTurns
<1>5. Sound(n) BY <1>1, BeginSound
<1>6. Mine(w.p, m.conv, Packet(m, id)) BY <1>1, NamedPacket DEF Apart
<1>7. m.n_writ \in Nat BY <1>1, MessageFacts
<1> HIDE DEF t, n
<1>8. Named(w.p, id, n, w.O) BY <1>1, <1>3, <1>6, NamedFrom DEF Named
<1>9. IsQuiet(Aspects(m), Aspects(n)) BY <1>3, <1>5, <1>7, QuietStep
<1>10. Link(w, t, ch, Y, mi) BY <1>1, <1>3, <1>4, <1>8, <1>9, QuietTurn
<1> QED BY <1>2, <1>10 DEF Joint, t

\* The message can be written to: it is not in its disconnection.
Usable(s, id) ==
  /\ Exists(s, id) /\ s.msgs[id] \in Messages(Convs)
  /\ "DISCONNECTED" \notin s.msgs[id].status /\ "SENT_DISCONNECT" \notin s.msgs[id].status

\* msg_packet_new keeps the link.
LEMMA NewLink ==
  ASSUME NEW w, NEW s, NEW ch, NEW Y, NEW mi, Joint(w, s, ch, Y, mi), NEW id \in MsgIds,
         Usable(s, id)
  PROVE  Joint(w, msg_packet_new(s, id), ch, Y, mi) /\ Usable(msg_packet_new(s, id), id)
<1> DEFINE m == s.msgs[id]
<1>1. Exists(s, id) /\ m # NoMsg /\ ~Apart(m) /\ Writable(m) BY DEF Usable, Exists, Apart,
        Writable
<1>2. Loc(Convs, s) /\ s \in Switches(Convs) /\ m \in Messages(Convs) BY <1>1, JointAt
<1>3. CASE m.incomplete = NoPacket
  <2>1. Joint(w, msg_packet_new(s, id), ch, Y, mi) BY <1>1, <1>3, BeginLink
  <2>2. LET t == msg_packet_new(s, id) IN Exists(t, id) /\ t.msgs[id].status = m.status
    BY <1>1, <1>2, <1>3, BeginLoc
  <2>3. msg_packet_new(s, id).msgs[id] \in Messages(Convs) BY <2>1, <2>2, JointAt
  <2> QED BY <2>1, <2>2, <2>3 DEF Usable
<1>4. CASE m.incomplete # NoPacket
  <2> DEFINE u == msg_push_writ_packet(s, id)
             k == u.msgs[id]
             t == msg_packet_new(u, id)
  <2>1. Joint(w, u, ch, Y, mi) BY <1>1, <1>4, PushWritLink
  <2>2. /\ Exists(u, id) /\ k.incomplete = NoPacket
        /\ \A f \in {"SENT_DISCONNECT", "DISCONNECTED", "CLOSED"} : f \in k.status <=>
             f \in m.status
    BY <1>2, <1>4, PushWritAt
  <2>3. msg_packet_new(s, id) = t BY <1>1, <1>2, <1>4, <2>2, PushBegin
  <2>4. ~Apart(k) BY <1>1, <2>2 DEF Apart
  <2> HIDE DEF u
  <2>5. Joint(w, t, ch, Y, mi) BY <2>1, <2>2, <2>4, BeginLink
  <2>6. Loc(Convs, u) BY <2>1 DEF Joint
  <2>7. Exists(t, id) /\ t.msgs[id].status = k.status BY <2>2, <2>6, BeginLoc
  <2>8. t.msgs[id] \in Messages(Convs) BY <2>5, <2>7, JointAt
  <2>9. Usable(t, id) BY <2>2, <2>7, <2>8 DEF Usable
  <2> QED BY <2>3, <2>5, <2>9
<1> QED BY <1>3, <1>4

\* msg_write keeps the link.
LEMMA WriteLink ==
  ASSUME NEW w, NEW s, NEW ch, NEW Y, NEW mi, Joint(w, s, ch, Y, mi), NEW id \in MsgIds,
         Usable(s, id), NEW k \in Nat
  PROVE  Joint(w, msg_write(s, id, k), ch, Y, mi)
<1> DEFINE X == {t \in Switches(Convs) : Joint(w, t, ch, Y, mi) /\ Usable(t, id)}
           Z == [i \in Nat |-> X]
           begun == IF s.msgs[id].incomplete = NoPacket THEN msg_packet_new(s, id) ELSE s
<1>1. \A t \in X : msg_packet_new(t, id) \in X
  <2> SUFFICES ASSUME NEW t \in X PROVE msg_packet_new(t, id) \in X OBVIOUS
  <2>1. Joint(w, msg_packet_new(t, id), ch, Y, mi) /\ Usable(msg_packet_new(t, id),
          id) BY NewLink
  <2>2. msg_packet_new(t, id) \in Switches(Convs) BY <2>1 DEF Joint, Link
  <2> QED BY <2>1, <2>2
<1>2. s \in X BY DEF Joint, Link
<1> HIDE DEF X
<1>3. begun \in X BY <1>1, <1>2
<1>4. msg_write(s, id, k) = News(begun, id, k) BY DEF msg_write, News
<1> HIDE DEF begun
<1>5. News(begun, id, k) \in Z[k]
  <2>1. begun \in Z[0] BY <1>3
  <2>2. \A i \in 0 .. (k - 1) : \A t \in Z[i] : msg_packet_new(t, id) \in Z[i + 1] BY <1>1
  <2> HIDE DEF Z
  <2> QED BY <2>1, <2>2, RepeatNew
<1>6. msg_write(s, id, k) \in X BY <1>4, <1>5
<1> QED BY <1>6 DEF X

\* msg_flush keeps the link, of a message that is not disconnected.
LEMMA FlushLink ==
  ASSUME NEW w, NEW s, NEW ch, NEW Y, NEW mi, Joint(w, s, ch, Y, mi), NEW id \in MsgIds,
         Exists(s, id), NEW m, s.msgs[id] = m, ~Apart(m), "CLOSED" \in m.status \/ Writable(m)
  PROVE  Joint(w, msg_flush(s, id), ch, Y, mi)
<1>1. CASE "CLOSED" \in m.status \/ m.incomplete = NoPacket BY <1>1 DEF msg_flush, Has
<1>2. CASE "CLOSED" \notin m.status /\ m.incomplete # NoPacket
  <2>1. msg_flush(s, id) = msg_push_writ_packet(s, id) BY <1>2 DEF msg_flush, Has
  <2> QED BY <1>2, <2>1, PushWritLink
<1> QED BY <1>1, <1>2

\* msg_pop_read_packet keeps the link.
LEMMA PopReadLink ==
  ASSUME NEW w, NEW s, NEW ch, NEW Y, NEW mi, Joint(w, s, ch, Y, mi), NEW id \in MsgIds,
         Exists(s, id)
  PROVE  Joint(w, msg_pop_read_packet(s, id), ch, Y, mi)
      /\ Exists(msg_pop_read_packet(s, id), id)
<1> DEFINE m == s.msgs[id]
<1>1. /\ Loc(Convs, s) /\ Link(w, s, ch, Y, mi) /\ s \in Switches(Convs)
      /\ m \in Messages(Convs) /\ Sound(m) /\ Named(w.p, id, m, w.O)
  BY JointAt
<1>2. s.msgs[id] = m OBVIOUS
<1> HIDE DEF m
<1> DEFINE t == msg_pop_read_packet(s, id)
           n == PopRead(m)
           rq == IF m.read_queue = << >> THEN << >> ELSE Tail(m.read_queue)
<1>3. Loc(Convs, t) /\ Exists(t, id) BY <1>1, PopReadLoc
<1>4. /\ n \in Messages(Convs)
      /\ n.imsgid = m.imsgid /\ n.conv = m.conv /\ n.n_writ = m.n_writ /\ n.n_read = m.n_read
      /\ n.incomplete = m.incomplete /\ n.writ_queue = m.writ_queue /\ n.read_queue = rq
      /\ n.status = (m.status \cup IF Len(rq) < NBuff THEN {"SPACE_AVAIL_FOR_READ"} ELSE {})
                   \ (IF rq = << >> THEN {"PACKET_AVAIL_TO_READ"} ELSE {})
  BY <1>1, PopReadFacts
<1>5. Edits(Convs, s, t, id, n) BY <1>2, <1>1, PopReadEdits
<1>6. Sound(n) BY <1>1, PopReadSound
<1>7. Len(rq) > NBuff => Len(m.read_queue) > NBuff
  <2>1. m.read_queue \in Seq(Nat) BY <1>1, MessageFacts
  <2>2. CASE m.read_queue = << >> BY <2>2
  <2>3. CASE m.read_queue # << >>
    <3>1. Len(Tail(m.read_queue)) = Len(m.read_queue) - 1 /\ Len(m.read_queue) \in Nat BY <2>1,
            <2>3, TailSome
    <3>2. Len(rq) = Len(m.read_queue) - 1 BY <2>3, <3>1
    <3> QED BY <3>1, <3>2, NBuffAssumption
  <2> QED BY <2>2, <2>3
<1> HIDE DEF t, n, rq
<1>8. \A f \in {"DISCONNECTED", "SENT_DISCONNECT", "WAITING_FOR_RESP", "NEED_TO_SEND_RESP"} :
        f \in n.status <=> f \in m.status
  BY <1>4
<1>9. Named(w.p, id, n, w.O) BY <1>1, <1>4, <1>8, NamedSame
<1>10. IsQuiet(Aspects(m), Aspects(n)) BY <1>4, <1>6, <1>7, <1>8, QuietStep
<1>11. Link(w, t, ch, Y, mi) BY <1>2, <1>1, <1>4, <1>5, <1>6, <1>9, <1>10, QuietEdit
<1> QED BY <1>3, <1>11 DEF Joint, t

\* msg_read keeps the link.
LEMMA ReadLink ==
  ASSUME NEW w, NEW s, NEW ch, NEW Y, NEW mi, Joint(w, s, ch, Y, mi), NEW id \in MsgIds,
         Exists(s, id), NEW k \in Nat
  PROVE  Joint(w, msg_read(s, id, k), ch, Y, mi)
<1> DEFINE X == {t \in Switches(Convs) : Joint(w, t, ch, Y, mi) /\ Exists(t, id)}
           Z == [i \in Nat |-> X]
<1>1. \A t \in X : msg_pop_read_packet(t, id) \in X
  <2> SUFFICES ASSUME NEW t \in X PROVE msg_pop_read_packet(t, id) \in X OBVIOUS
  <2>1. Joint(w, msg_pop_read_packet(t, id), ch, Y, mi)
          /\ Exists(msg_pop_read_packet(t, id), id) BY PopReadLink
  <2>2. msg_pop_read_packet(t, id) \in Switches(Convs) BY <2>1 DEF Joint, Link
  <2> QED BY <2>1, <2>2
<1>2. s \in X BY DEF Joint, Link
<1> HIDE DEF X
<1>3. msg_read(s, id, k) \in Z[k]
  <2>1. s \in Z[0] BY <1>2
  <2>2. \A i \in 0 .. (k - 1) : \A t \in Z[i] : msg_pop_read_packet(t, id) \in Z[i + 1] BY <1>1
  <2> HIDE DEF Z
  <2> QED BY <2>1, <2>2, RepeatPopRead
<1>4. msg_read(s, id, k) \in X BY <1>3
<1> QED BY <1>4 DEF X

\* Dropping what was not read keeps the link.
LEMMA DropReadsLink ==
  ASSUME NEW w, NEW s, NEW ch, NEW Y, NEW mi, Joint(w, s, ch, Y, mi), NEW id \in MsgIds,
         Exists(s, id)
  PROVE  Joint(w, DropReads(s, id), ch, Y, mi)
<1>1. s.msgs[id] \in Messages(Convs) BY JointAt
<1>2. Len(s.msgs[id].read_queue) \in Nat BY <1>1, MessageFacts
<1> QED BY <1>2, ReadLink DEF DropReads

\* Setting CLOSED or CONNECTED keeps the link.
LEMMA MarkLink ==
  ASSUME NEW w, NEW s, NEW ch, NEW Y, NEW mi, Joint(w, s, ch, Y, mi), NEW id \in MsgIds,
         Exists(s, id), NEW m, s.msgs[id] = m, NEW st \in SUBSET Flags, Sound(Flagged(m, st)),
         \A f \in Flags \ {"CLOSED", "CONNECTED"} : f \in st <=> f \in m.status, NEW t,
         Loc(Convs, t), Turns(Convs, s, t, id, Flagged(m, st), s.pending_msgs, s.pending_resps)
  PROVE  Joint(w, t, ch, Y, mi)
<1>1. /\ Link(w, s, ch, Y, mi) /\ s \in Switches(Convs)
      /\ m \in Messages(Convs) /\ Sound(m) /\ Named(w.p, id, m, w.O)
  BY JointAt
<1> DEFINE n == Flagged(m, st)
<1>2. /\ n \in Messages(Convs) /\ n.status = st
      /\ n.imsgid = m.imsgid /\ n.conv = m.conv /\ n.n_writ = m.n_writ /\ n.n_read = m.n_read
      /\ n.incomplete = m.incomplete /\ n.read_queue = m.read_queue
         /\ n.writ_queue = m.writ_queue
  BY <1>1, FlaggedType
<1>3. Turns(Convs, s, t, id, n, s.pending_msgs, s.pending_resps) /\ Sound(n) OBVIOUS
<1> HIDE DEF n
<1>4. \A f \in {"DISCONNECTED", "SENT_DISCONNECT", "WAITING_FOR_RESP", "NEED_TO_SEND_RESP"} :
        f \in n.status <=> f \in m.status
  BY <1>2 DEF Flags
<1>5. Named(w.p, id, n, w.O) BY <1>1, <1>2, <1>4, NamedSame
<1>6. IsQuiet(Aspects(m), Aspects(n)) BY <1>2, <1>3, <1>4, QuietStep
<1>7. Link(w, t, ch, Y, mi) BY <1>1, <1>2, <1>3, <1>5, <1>6, QuietTurn
<1> QED BY <1>7 DEF Joint

\* msg_free of a disconnected message, or of one that carried nothing, keeps
\* the link.
LEMMA FreeLink ==
  ASSUME NEW w, NEW s, NEW ch, NEW Y, NEW mi, Joint(w, s, ch, Y, mi), NEW id \in MsgIds,
         Exists(s, id), NEW m, s.msgs[id] = m, Apart(m) \/ (m.n_writ = 0 /\ m.n_read = 0)
  PROVE  Joint(w, msg_free(s, id), ch, Y, mi)
<1>1. /\ Loc(Convs, s) /\ Link(w, s, ch, Y, mi) /\ s \in Switches(Convs)
      /\ m \in Messages(Convs) /\ Sound(m) /\ Named(w.p, id, m, w.O)
  BY JointAt
<1> DEFINE t == msg_free(s, id)
<1>2. Loc(Convs, t) BY <1>1, FreeLoc
<1>3. Frees(Convs, s, t, id) BY <1>1, FreeFrees
<1> HIDE DEF t
<1>4. t \in Switches(Convs) /\ Puts(s.msgs, t.msgs, id, NoMsg)
        /\ t.pending_resps = s.pending_resps
  BY <1>3 DEF Frees, Puts
<1>5. /\ Linked(w.p, s.msgs, ch \o s.pending_resps, w.q, w.B, Y, w.O, w.U, w.R, mi)
      /\ ch \in Seq(Tokens) /\ w.p \in Ends /\ w.p \in w.U /\ w.p \in w.R
  BY <1>1, LinkFacts
<1>6. Proper({}) BY DEF Proper
<1>7. Linked(w.p, t.msgs, ch \o s.pending_resps, w.q, w.B, Y, w.O, w.U, w.R, mi)
  <2>1. CASE Apart(m)
    <3>1. IsFreeGone(Aspects(m), {}) BY <1>6, <2>1, AspectFacts DEF Apart, IsFreeGone
    <3> QED BY <1>1, <1>4, <1>5, <3>1, LinkFreeGone
  <2>2. CASE m.n_writ = 0 /\ m.n_read = 0
    <3>1. IsFreeNew(Aspects(m), {}) BY <1>6, <2>2, AspectFacts DEF IsFreeNew
    <3> QED BY <1>1, <1>4, <1>5, <3>1, LinkFreeNew
  <2> QED BY <2>1, <2>2
<1>8. Link(w, t, ch, Y, mi) BY <1>4, <1>5, <1>7 DEF Link
<1> QED BY <1>2, <1>8 DEF Joint, t

\* Sending DISCON changes one message and adds one response.
LEMMA SendDisconTurns ==
  ASSUME NEW C, NEW s \in Switches(C), NEW id \in MsgIds, NEW m \in Messages(C), s.msgs[id] = m
  PROVE  Turns(C, s, SendDiscon(s, id), id, Flagged(m, m.status \cup {"SENT_DISCONNECT"}),
               s.pending_msgs,
               Append(s.pending_resps, Reply(m, id, "DISCON")))
<1> DEFINE a == msg_send_resp(s, id, "DISCON")
           r == Append(s.pending_resps, Reply(m, id, "DISCON"))
           n == Flagged(m, (m.status \ {}) \cup {"SENT_DISCONNECT"})
           b == SetFlags(a, id, {"SENT_DISCONNECT"}, {})
<1>1. Turns(C, s, a, id, m, s.pending_msgs, r) BY DisconTurns
<1> HIDE DEF a, r
<1>2. a \in Switches(C) /\ a.msgs[id] = m /\ a.pending_msgs = s.pending_msgs
        /\ a.pending_resps = r
  <2>1. a \in Switches(C) /\ a.pending_msgs = s.pending_msgs /\ a.pending_resps = r BY <1>1
          DEF Turns
  <2>2. a.msgs = [s.msgs EXCEPT ![id] = m] BY <1>1 DEF Turns
  <2>3. s.msgs \in [MsgIds -> Messages(C) \cup {NoMsg}] BY SwitchFacts
  <2> QED BY <2>1, <2>2, <2>3
<1>3. {"SENT_DISCONNECT"} \in SUBSET Flags BY DEF Flags
<1>4. Turns(C, a, b, id, n, a.pending_msgs, a.pending_resps) BY <1>2, <1>3, FlagTurns
<1>5. Turns(C, a, b, id, n, s.pending_msgs, r) BY <1>2, <1>4
<1> HIDE DEF n, b
<1>6. Turns(C, s, b, id, n, s.pending_msgs, r) BY <1>1, <1>5, TurnsTwice
<1>7. (m.status \ {}) \cup {"SENT_DISCONNECT"} = m.status \cup {"SENT_DISCONNECT"} OBVIOUS
<1> QED BY <1>6, <1>7 DEF SendDiscon, a, b, n, r

\* Sending DISCON keeps the link.
LEMMA SendDisconLink ==
  ASSUME NEW w, NEW s, NEW ch, NEW Y, NEW mi, Joint(w, s, ch, Y, mi), NEW id \in MsgIds,
         Exists(s, id), NEW m, s.msgs[id] = m, ~Apart(m), "SENT_DISCONNECT" \notin m.status,
         "CLOSED" \in m.status, "PACKET_AVAIL_TO_WRIT" \notin m.status,
         ~(m.n_writ = 0 /\ m.n_read = 0)
  PROVE  Joint(w, SendDiscon(s, id), ch, Y, mi) /\ Exists(SendDiscon(s, id), id)
<1>1. /\ Loc(Convs, s) /\ Link(w, s, ch, Y, mi) /\ s \in Switches(Convs)
      /\ m \in Messages(Convs) /\ Sound(m) /\ Named(w.p, id, m, w.O)
  BY JointAt
<1> DEFINE t == SendDiscon(s, id)
           st == (m.status \ {}) \cup {"SENT_DISCONNECT"}
           n == Flagged(m, st)
           x == Reply(m, id, "DISCON")
           r == s.pending_resps
<1>2. Loc(Convs, t) /\ Exists(t, id) BY <1>1, SendDisconLoc
<1>3. st \in SUBSET Flags BY <1>1, MessageFacts DEF Flags
<1>4. Sound(n) /\ \A f \in Flags \ {"SENT_DISCONNECT"} : f \in st <=> f \in m.status BY <1>1,
        FlaggedSent
<1>5. Turns(Convs, s, t, id, n, s.pending_msgs, Append(r, x))
  <2>1. st = m.status \cup {"SENT_DISCONNECT"} OBVIOUS
  <2> QED BY <1>1, <2>1, SendDisconTurns
<1>6. "SENT_DISCONNECT" \in st OBVIOUS
<1> HIDE DEF st
<1>7. /\ n \in Messages(Convs) /\ n.status = st
      /\ n.imsgid = m.imsgid /\ n.conv = m.conv /\ n.n_writ = m.n_writ /\ n.n_read = m.n_read
      /\ n.incomplete = m.incomplete /\ n.read_queue = m.read_queue
         /\ n.writ_queue = m.writ_queue
  BY <1>1, <1>3, FlaggedType
<1>8. x \in Tokens /\ Mine(w.p, m.conv, x) /\ Kind(x) = "DISCON" BY <1>1, NamedReply DEF Apart
<1> HIDE DEF t, n, x
<1>9. /\ "SENT_DISCONNECT" \in n.status
      /\ \A f \in {"DISCONNECTED", "WAITING_FOR_RESP", "NEED_TO_SEND_RESP"} : f \in n.status <=>
           f \in m.status
  BY <1>4, <1>6, <1>7 DEF Flags
<1>10. Named(w.p, id, n, w.O) BY <1>1, <1>7, <1>9, NamedSame
<1>11. IsDisc(Aspects(m), Aspects(n)) BY <1>4, <1>7, <1>9, DiscStep
<1>12. t \in Switches(Convs) /\ Puts(s.msgs, t.msgs, id, n) /\ t.pending_resps = Append(r, x)
  BY <1>5 DEF Turns, Puts
<1>13. /\ Linked(w.p, s.msgs, ch \o r, w.q, w.B, Y, w.O, w.U, w.R, mi)
       /\ ch \in Seq(Tokens) /\ r \in Seq(Tokens) /\ w.p \in Ends /\ w.p \in w.U /\ w.p \in w.R
  BY <1>1, LinkFacts
<1> HIDE DEF r
<1>14. Linked(w.p, t.msgs, Append(ch \o r, x), w.q, w.B, Y, w.O, w.U, w.R, mi)
  BY <1>1, <1>7, <1>8, <1>10, <1>11, <1>12, <1>13, LinkDisc
<1>15. ch \o Append(r, x) = Append(ch \o r, x) BY <1>8, <1>13, JoinFacts
<1>16. Link(w, t, ch, Y, mi) BY <1>12, <1>13, <1>14, <1>15 DEF Link
<1> QED BY <1>2, <1>16 DEF Joint, t

\* The link does not depend on what select is to report.
LEMMA KeepsLink ==
  ASSUME NEW w, NEW s, NEW ch, NEW Y, NEW mi, Joint(w, s, ch, Y, mi), NEW t, Keeps(Convs, s, t)
  PROVE  Joint(w, t, ch, Y, mi)
<1>1. Loc(Convs, t) BY KeepsLoc DEF Joint
<1>2. Link(w, t, ch, Y, mi) BY DEF Joint, Link, Keeps
<1> QED BY <1>1, <1>2 DEF Joint

\* What msg_flush leaves as it is.
LEMMA FlushAt ==
  ASSUME NEW s, Loc(Convs, s), NEW id \in MsgIds, Exists(s, id), NEW m, s.msgs[id] = m,
         Writable(m)
  PROVE  LET k == msg_flush(s, id).msgs[id]
         IN  k.n_writ = m.n_writ /\ \A f \in {"SENT_DISCONNECT", "DISCONNECTED", "CLOSED"} :
             f \in k.status <=> f \in m.status
<1>1. s \in Switches(Convs) /\ m \in Messages(Convs) BY LocAt
<1>2. CASE "CLOSED" \in m.status \/ m.incomplete = NoPacket BY <1>2 DEF msg_flush, Has
<1>3. CASE "CLOSED" \notin m.status /\ m.incomplete # NoPacket
  <2>1. msg_flush(s, id) = msg_push_writ_packet(s, id) BY <1>3 DEF msg_flush, Has
  <2> QED BY <1>1, <1>3, <2>1, PushWritAt
<1> QED BY <1>2, <1>3

\* msg_close keeps the link.
LEMMA CloseLink ==
  ASSUME NEW w, NEW s, NEW ch, NEW Y, NEW mi, Joint(w, s, ch, Y, mi), NEW id \in MsgIds,
         Exists(s, id), "CLOSED" \notin s.msgs[id].status
  PROVE  Joint(w, msg_close(s, id), ch, Y, mi)
<1> DEFINE c == msg_clr_write(msg_clr_read(s, id), id)
           f == msg_flush(c, id)
           t == SetFlags(f, id, {"CLOSED"}, {})
           d == SendDiscon(t, id)
<1>1. s \in Switches(Convs) BY DEF Joint, Link
<1>2. Keeps(Convs, s, c) BY <1>1, ClrKeeps
<1>3. msg_close(s, id) =
        IF Has(s, id, "DISCONNECTED") THEN msg_free(c, id)
        ELSE IF Has(t, id, "PACKET_AVAIL_TO_WRIT") THEN DropReads(t, id)
        ELSE IF t.msgs[id].n_writ = 0 /\ t.msgs[id].n_read = 0 THEN msg_free(t, id)
        ELSE DropReads(d, id)
  BY DEF msg_close, SendDiscon
<1> HIDE DEF c
<1>4. Joint(w, c, ch, Y, mi) BY <1>2, KeepsLink
<1>5. Exists(c, id) /\ c.msgs[id] = s.msgs[id] /\ Loc(Convs, c) BY <1>2, <1>4 DEF Keeps, Exists,
        Joint
<1>6. CASE Has(s, id, "DISCONNECTED")
  <2>1. Apart(c.msgs[id]) BY <1>5, <1>6 DEF Apart, Has
  <2> QED BY <1>3, <1>4, <1>5, <1>6, <2>1, FreeLink
<1>7. CASE ~Has(s, id, "DISCONNECTED")
  <2> DEFINE a == c.msgs[id]
  <2>1. a \in Messages(Convs) /\ Sound(a) BY <1>5, LocAt
  <2>2. ~Apart(a) /\ "SENT_DISCONNECT" \notin a.status /\ Writable(a)
    BY <1>5, <1>7, <2>1 DEF Sound, Writable, Has, Apart
  <2>3. Joint(w, f, ch, Y, mi) BY <1>4, <1>5, <2>2, FlushLink
  <2>4. Exists(f, id) BY <1>5, <2>2, FlushLoc
  <2>5. \A g \in {"SENT_DISCONNECT", "DISCONNECTED", "CLOSED"} : g \in f.msgs[id].status <=>
          g \in a.status
    BY <1>5, <2>2, FlushAt
  <2> HIDE DEF f
  <2> DEFINE m == f.msgs[id]
             st == (m.status \ {}) \cup {"CLOSED"}
             n == Flagged(m, st)
  <2>6. m \in Messages(Convs) /\ Sound(m) /\ f \in Switches(Convs) /\ Loc(Convs, f) BY <2>3,
          <2>4, JointAt
  <2>7. Sound(n) /\ \A g \in Flags \ {"CLOSED"} : g \in st <=> g \in m.status
    <3> HIDE DEF m
    <3> QED BY <2>6, FlaggedClosed
  <2>8. "CLOSED" \in st /\ st \in SUBSET Flags /\ {"CLOSED"} \in SUBSET Flags BY <2>6,
          MessageFacts DEF Flags
  <2>9. \A g \in {"WRITING", "DISCONNECTED"} : g \in st <=> g \in m.status BY <2>7 DEF Flags
  <2>10. Loc(Convs, t) /\ Exists(t, id) /\ t.msgs[id] = n
    <3>1. st = (f.msgs[id].status \ {}) \cup {"CLOSED"}
            /\ Sound(Flagged(f.msgs[id], st)) BY <2>7
    <3> HIDE DEF st
    <3> QED BY <2>4, <2>6, <2>8, <2>9, <3>1, FlagLoc
  <2>11. Turns(Convs, f, t, id, n, f.pending_msgs, f.pending_resps) BY <2>6, <2>8, FlagTurns
  <2>12. \A g \in Flags \ {"CLOSED", "CONNECTED"} : g \in st <=> g \in m.status BY <2>7
  <2> HIDE DEF t, st
  <2>13. Joint(w, t, ch, Y, mi) BY <2>3, <2>4, <2>7, <2>8, <2>10, <2>11, <2>12, MarkLink
  <2>14. n.status = st /\ n.n_writ = m.n_writ /\ n.n_read = m.n_read BY <2>6, <2>8, FlaggedType
  <2>15. /\ ~Apart(n) /\ "SENT_DISCONNECT" \notin n.status /\ "CLOSED" \in n.status
    BY <2>2, <2>5, <2>7, <2>8, <2>14 DEF Apart, Flags
  <2> HIDE DEF n, m
  <2>16. CASE Has(t, id, "PACKET_AVAIL_TO_WRIT") BY <1>3, <1>7, <2>10, <2>13, <2>16,
           DropReadsLink
  <2>17. CASE ~Has(t, id, "PACKET_AVAIL_TO_WRIT") /\ n.n_writ = 0 /\ n.n_read = 0
    BY <1>3, <1>7, <2>10, <2>13, <2>17, FreeLink
  <2>18. CASE ~Has(t, id, "PACKET_AVAIL_TO_WRIT") /\ ~(n.n_writ = 0 /\ n.n_read = 0)
    <3>1. Joint(w, d, ch, Y, mi) /\ Exists(d, id) BY <2>10, <2>13, <2>15, <2>18, SendDisconLink
            DEF Has
    <3> HIDE DEF d
    <3> QED BY <1>3, <1>7, <2>10, <2>18, <3>1, DropReadsLink
  <2> QED BY <2>10, <2>16, <2>17, <2>18
<1> QED BY <1>6, <1>7

\* msg_accept keeps the link.
LEMMA AcceptLink ==
  ASSUME NEW w, NEW s, NEW ch, NEW Y, NEW mi, Joint(w, s, ch, Y, mi), NEW id \in MsgIds,
         Exists(s, id)
  PROVE  Joint(w, msg_accept(s, id), ch, Y, mi)
<1> DEFINE m == s.msgs[id]
           st == m.status \cup {"CONNECTED"}
           t == msg_accept(s, id)
<1>1. Loc(Convs, s) /\ s \in Switches(Convs) /\ m \in Messages(Convs) /\ Sound(m) BY JointAt
<1>2. CASE Apart(m)
  <2>1. t = msg_free(s, id) BY <1>2 DEF msg_accept, Has, Apart
  <2> HIDE DEF t
  <2>2. Joint(w, msg_free(s, id), ch, Y, mi) BY <1>2, FreeLink
  <2> QED BY <2>1, <2>2 DEF t
<1>3. CASE ~Apart(m)
  <2>1. Turns(Convs, s, t, id, Flagged(m, st), s.pending_msgs, s.pending_resps) BY <1>1, <1>3,
          AcceptTurns DEF Apart
  <2>2. st \in SUBSET Flags BY <1>1, MessageFacts DEF Flags
  <2>3. Loc(Convs, t) BY <1>1, AcceptLoc
  <2>4. /\ Flagged(m, st).status = st
        /\ Flagged(m, st).n_writ = m.n_writ
        /\ Flagged(m, st).incomplete = m.incomplete /\ Flagged(m, st).read_queue = m.read_queue
        /\ Flagged(m, st).writ_queue = m.writ_queue
    BY <1>1, <2>2, FlaggedType
  <2> DEFINE n == Flagged(m, st)
  <2>5. \A f \in Flags \ {"CLOSED", "CONNECTED"} : f \in st <=> f \in m.status OBVIOUS
  <2>6. "CLOSED" \in st <=> "CLOSED" \in m.status OBVIOUS
  <2>7. Sound(n)
    <3> HIDE DEF n, st, m
    <3> QED BY <1>1, <2>4, <2>5, <2>6 DEF Sound, Flags, n
  <2> HIDE DEF t, st, m
  <2>8. s.msgs[id] = m BY DEF m
  <2>9. Joint(w, t, ch, Y, mi) BY <2>1, <2>2, <2>3, <2>5, <2>7, <2>8, MarkLink
  <2> QED BY <2>9 DEF t
<1> QED BY <1>2, <1>3

\* Sending a response keeps the link.
LEMMA SendRespLink ==
  ASSUME NEW w, NEW s, NEW ch, NEW Y, NEW mi, Joint(w, s, ch, Y, mi), s.pending_resps # << >>
  PROVE  Joint(w, [s EXCEPT !.pending_resps = Tail(@)], Append(ch, Head(s.pending_resps)), Y,
               mi)
<1> DEFINE r == s.pending_resps
           v == Tail(r)
           k == Append(ch, Head(r))
           t == [s EXCEPT !.pending_resps = v]
<1>1. /\ Loc(Convs, s) /\ s \in Switches(Convs) /\ ch \in Seq(Tokens) /\ r \in Seq(Tokens)
      /\ r \in Seq(Resps(Convs)) /\ w.p \in Ends /\ w.p \in w.U /\ w.p \in w.R
      /\ Linked(w.p, s.msgs, ch \o r, w.q, w.B, Y, w.O, w.U, w.R, mi)
  BY LinkFacts DEF Joint
<1>2. v \in Seq(Resps(Convs)) /\ Head(r) \in Tokens
  <2>1. v \in Seq(Resps(Convs)) /\ Head(r) \in Resps(Convs) BY <1>1, HeadTailProperties
  <2> QED BY <2>1 DEF Tokens
<1>3. k \in Seq(Tokens) BY <1>1, <1>2
<1>4. k \o v = ch \o r
  <2>1. r # << >> OBVIOUS
  <2> HIDE DEF r
  <2>2. Append(ch, Head(r)) \o Tail(r) = ch \o r BY <1>1, <2>1, JoinFacts
  <2> QED BY <2>2
<1> HIDE DEF v, k
<1>5. Loc(Convs, t) BY <1>1, <1>2, RespsLoc
<1>6. t \in Switches(Convs) BY <1>5 DEF Loc
<1>7. t.msgs = s.msgs /\ t.pending_resps = v BY <1>1 DEF Switches
<1>8. Link(w, t, k, Y, mi) BY <1>1, <1>3, <1>4, <1>6, <1>7 DEF Link
<1>9. Joint(w, t, k, Y, mi) BY <1>5, <1>8 DEF Joint
<1> QED BY <1>9 DEF v, k

\* Sending a packet of the message at the head of pending_msgs keeps the
\* link.
LEMMA SendPackLink ==
  ASSUME NEW w, NEW s, NEW ch, NEW Y, NEW mi, Joint(w, s, ch, Y, mi), s.pending_resps = << >>,
         s.pending_msgs # << >>, NEW id, id = Head(s.pending_msgs), id # Dangling, NEW m,
         s.msgs[id] = m, m.writ_queue # << >>
  PROVE  Link(w, msg_pop_writ_packet(Popped(s), id), Append(ch, Head(m.writ_queue)), Y, mi)
<1>1. Loc(Convs, s) /\ Link(w, s, ch, Y, mi) BY DEF Joint
<1> DEFINE u == Popped(s)
<1>2. /\ id \in MsgIds /\ Exists(s, id) /\ u \in Switches(Convs)
      /\ u.msgs = s.msgs /\ u.pending_resps = s.pending_resps
      /\ "DISCONNECTED" \notin s.msgs[id].status => "WRITING" \in s.msgs[id].status
  BY <1>1, PoppedFacts
<1>3. m \in Messages(Convs) /\ Sound(m) /\ Named(w.p, id, m, w.O) BY <1>2, JointAt
<1> HIDE DEF u
<1>4. "DISCONNECTED" \notin m.status /\ "WRITING" \in m.status BY <1>2, <1>3 DEF Named
<1>5. /\ "SENT_DISCONNECT" \notin m.status /\ "WAITING_FOR_RESP" \notin m.status /\ m.n_writ # 0
  <2>1. m.n_writ > 0 /\ m.n_writ \in Nat BY <1>3, <1>4, MessageFacts DEF Sound
  <2> QED BY <1>3, <1>4, <2>1 DEF Sound
<1>6. Link(w, u, ch, Y, mi) BY <1>1, <1>2 DEF Link
<1> DEFINE n == PopWrit(m)
           t == msg_pop_writ_packet(u, id)
           x == Head(m.writ_queue)
<1>7. /\ n \in Messages(Convs)
      /\ n.imsgid = m.imsgid /\ n.conv = m.conv /\ n.n_writ = m.n_writ /\ n.n_read = m.n_read
      /\ n.incomplete = m.incomplete /\ n.read_queue = m.read_queue
      /\ n.writ_queue = Tail(m.writ_queue) /\ n.status = AfterPopWrit(m)
  BY <1>3, PopWritFacts
<1>8. Sound(n) BY <1>3, PopWritSound
<1>9. u.msgs[id] = m BY <1>2
<1>10. Edits(Convs, u, t, id, n) BY <1>2, <1>3, <1>9, PopWritEdits
<1>11. m.writ_queue \in Seq(Packets(Convs)) BY <1>3, MessageFacts
<1>12. x \in Packets(Convs) /\ x = m.writ_queue[1] /\ 1 \in 1 .. Len(m.writ_queue)
  <2> DEFINE a == m.writ_queue
  <2>1. a \in Seq(Packets(Convs)) /\ a # << >> BY <1>11
  <2> HIDE DEF a
  <2>2. Head(a) \in Packets(Convs) /\ Head(a) = a[1] /\ 1 \in 1 .. Len(a) BY <2>1
  <2> QED BY <2>2 DEF a
<1>13. x \in Tokens /\ Mine(w.p, m.conv, x) /\ Kind(x) = "PACK"
  <2>1. x.kind = "PACK" BY <1>12 DEF Packets
  <2> QED BY <1>3, <1>12, <2>1 DEF Named, Tokens, Kind
<1>14. \A i \in 1 .. Len(n.writ_queue) : Mine(w.p, m.conv, n.writ_queue[i])
  <2> DEFINE a == m.writ_queue
  <2>1. a \in Seq(Packets(Convs)) /\ a # << >> /\ n.writ_queue = Tail(a) BY <1>7, <1>11
  <2>2. \A i \in 1 .. Len(a) : Mine(w.p, m.conv, a[i]) BY <1>3 DEF Named
  <2> HIDE DEF a
  <2>3. \A i \in 1 .. Len(Tail(a)) : Tail(a)[i] = a[i + 1] /\ i + 1 \in 1 .. Len(a) BY <2>1
  <2> QED BY <2>1, <2>2, <2>3
<1> HIDE DEF n, t, x
<1>15. /\ "WAITING_FOR_RESP" \in n.status
       /\ \A f \in {"DISCONNECTED", "SENT_DISCONNECT", "NEED_TO_SEND_RESP"} : f \in n.status <=>
            f \in m.status
  BY <1>7 DEF AfterPopWrit
<1>16. Named(w.p, id, n, w.O) BY <1>3, <1>4, <1>7, <1>14, <1>15, NamedFrom DEF Named
<1>17. IsSend(Aspects(m), Aspects(n)) BY <1>5, <1>7, <1>8, <1>15, SendStep
<1>18. Link(w, t, Append(ch, x), Y, mi)
  <2>1. u.pending_resps = << >> BY <1>2
  <2> QED BY <1>2, <1>3, <1>6, <1>7, <1>8, <1>9, <1>10, <1>13, <1>16, <1>17, <2>1, SendEdit
<1> QED BY <1>18 DEF t, u, x

\* Sending a frame keeps the link.
LEMMA SwitchWriteLink ==
  ASSUME NEW w, NEW s, NEW ch, NEW Y, NEW mi, Joint(w, s, ch, Y, mi), HasAvailWrits(s)
  PROVE  Joint(w, msg_switch_write(s), IF WriteFails(s) THEN ch ELSE Append(ch, NextToken(s)),
               Y, mi)
<1> DEFINE t == msg_switch_write(s)
           id == Head(s.pending_msgs)
<1>1. Loc(Convs, s) /\ s \in Switches(Convs) /\ Link(w, s, ch, Y, mi) BY DEF Joint, Link
<1>2. Loc(Convs, t) BY <1>1, SwitchWriteLoc
<1>3. CASE s.pending_resps # << >>
  <2>1. /\ t = [s EXCEPT !.pending_resps = Tail(@)]
        /\ ~WriteFails(s) /\ NextToken(s) = Head(s.pending_resps)
    BY <1>3 DEF msg_switch_write, WriteFails, NextToken
  <2>2. Joint(w, [s EXCEPT !.pending_resps = Tail(@)], Append(ch, Head(s.pending_resps)), Y, mi)
    BY <1>3, SendRespLink
  <2> HIDE DEF t
  <2> QED BY <2>1, <2>2 DEF t
<1>4. CASE s.pending_resps = << >>
  <2>1. s.pending_msgs # << >> BY <1>4 DEF HasAvailWrits
  <2>2. CASE id = Dangling
    <3>1. t = Fail(s, "freed message in pending_msgs") /\ WriteFails(s)
      BY <1>4, <2>2 DEF msg_switch_write, WriteFails
    <3>2. Keeps(Convs, s, Fail(s, "freed message in pending_msgs")) BY <1>1, FailKeeps
            DEF Failures
    <3> HIDE DEF t
    <3>3. Joint(w, t, ch, Y, mi) BY <3>1, <3>2, KeepsLink
    <3> QED BY <3>1, <3>3 DEF t
  <2>3. CASE id # Dangling
    <3> DEFINE u == Popped(s)
               m == s.msgs[id]
    <3>1. t = msg_pop_writ_packet(u, id) BY <1>4, <2>3 DEF msg_switch_write, Popped
    <3>2. u \in Switches(Convs) /\ u.msgs = s.msgs /\ u.pending_resps = s.pending_resps
      BY <1>1, <2>1, <2>3, PoppedFacts
    <3>3. CASE m.writ_queue = << >>
      <4>1. WriteFails(s) BY <1>4, <3>3 DEF WriteFails
      <4>2. msg_pop_writ_packet(u, id) = Fail(u, "NULL packet") BY <3>2, <3>3
              DEF msg_pop_writ_packet
      <4>3. Keeps(Convs, u, Fail(u, "NULL packet")) BY <3>2, FailKeeps DEF Failures
      <4> HIDE DEF t, u, m
      <4>4. Keeps(Convs, u, t) BY <3>1, <4>2, <4>3
      <4>5. t \in Switches(Convs) /\ t.msgs = s.msgs
              /\ t.pending_resps = s.pending_resps BY <3>2, <4>4 DEF Keeps
      <4>6. Link(w, t, ch, Y, mi) BY <1>1, <4>5 DEF Link
      <4> QED BY <1>2, <4>1, <4>6 DEF Joint, t
    <3>4. CASE m.writ_queue # << >>
      <4>1. ~WriteFails(s) /\ NextToken(s) = Head(m.writ_queue) BY <1>4, <2>3, <3>4
              DEF WriteFails, NextToken
      <4>2. Link(w, msg_pop_writ_packet(u, id), Append(ch, Head(m.writ_queue)), Y, mi)
        BY <1>4, <2>1, <2>3, <3>4, SendPackLink
      <4> HIDE DEF t, u, m
      <4> QED BY <1>2, <3>1, <4>1, <4>2 DEF Joint, t
    <3> QED BY <3>3, <3>4
  <2> QED BY <2>2, <2>3
<1> QED BY <1>3, <1>4

----------------------------------------------------------------------------
(* Frames that come in keep the link: packets and DISCON. *)

\* The two ends of a link are different.
Faces(w) == w.q = Other(w.p)

\* The same as Joint, of an end whose process may have failed.
Meets(w, s, ch, Y, mi) ==
  /\ Loc(Convs, s) /\ w.p \in Ends /\ w.p \in w.U /\ ch \in Seq(Tokens)
  /\ Linked(w.p, s.msgs, ch \o s.pending_resps, w.q, w.B, Y, w.O, w.U, w.R, mi)

\* An end whose process runs is such an end.
LEMMA JointMeets ==
  ASSUME NEW w, NEW s, NEW ch, NEW Y, NEW mi, Joint(w, s, ch, Y, mi)
  PROVE  Meets(w, s, ch, Y, mi)
BY DEF Joint, Link, Meets

\* What that says.
LEMMA MeetsFacts ==
  ASSUME NEW w, NEW s, NEW ch, NEW Y, NEW mi, Meets(w, s, ch, Y, mi)
  PROVE  /\ Loc(Convs, s) /\ w.p \in Ends /\ w.p \in w.U /\ Y \in Seq(Tokens)
            /\ s.msgs \in Slots
         /\ Linked(w.p, s.msgs, ch \o s.pending_resps, w.q, w.B, Y, w.O, w.U, w.R, mi)
         /\ \A id \in MsgIds : s.msgs[id] # NoMsg => Named(w.p, id, s.msgs[id], w.O)
BY DEF Meets, Linked, Side

\* What is known of the frame that is read next.
LEMMA FrameFacts ==
  ASSUME NEW w, Faces(w), NEW s, NEW ch, NEW Y, NEW mi, Meets(w, s, ch, Y, mi), Y # << >>,
         NEW x, x = Head(Y), NEW c, c = x.conv
  PROVE  /\ x \in Tokens /\ c \in Convs /\ c[3] \in MsgIds /\ x.id = Wire(w.q, c)
            /\ x.id \in WireIds
         /\ Sent(Y, Kind(x), c) /\ Kind(x) \in Kinds
         /\ c[1] = w.p => x.id = c[3]
         /\ c[1] # w.p => x.id = -c[3] /\ c[1] = w.q
         /\ Facing(w.p, s.msgs, ch \o s.pending_resps, w.B, Y, w.U, w.R, mi, c)
<1>1. /\ w.p \in Ends /\ Y \in Seq(Tokens)
      /\ Linked(w.p, s.msgs, ch \o s.pending_resps, w.q, w.B, Y, w.O, w.U, w.R, mi)
  BY MeetsFacts
<1>2. x \in Tokens /\ x = Y[1] /\ 1 \in 1 .. Len(Y) BY <1>1, TailAt
<1>3. c \in Convs /\ x.id \in WireIds BY <1>2 DEF Tokens, Packets, Resps
<1>4. x.id = Wire(w.q, c) BY <1>1, <1>2 DEF Linked, Side, GoodFrame
<1>5. c[3] \in MsgIds BY <1>3, ConvFacts
<1>6. Kind(x) \in Kinds BY <1>2, KindType
<1>7. Sent(Y, Kind(x), c) BY <1>2 DEF Sent, Of
<1>8. c[1] = w.p => c[1] # w.q BY <1>1, OtherFacts DEF Faces
<1>9. c[1] # w.p => c[1] = w.q BY <1>1, <1>3, ConvEnds DEF Faces
<1>10. Facing(w.p, s.msgs, ch \o s.pending_resps, w.B, Y, w.U, w.R, mi, c) BY <1>1, <1>3
         DEF Linked
<1> QED BY <1>2, <1>3, <1>4, <1>5, <1>6, <1>7, <1>8, <1>9, <1>10 DEF Wire

\* A frame finds the message it is of, unless that message is disconnected.
LEMMA Reaches ==
  ASSUME NEW w, Faces(w), NEW s, NEW ch, NEW Y, NEW mi, Meets(w, s, ch, Y, mi), Y # << >>,
         NEW x, x = Head(Y), NEW c, c = x.conv, NEW V, V = View(s.msgs, c), "alive" \in V,
         c[1] = w.p \/ "gone" \notin V
  PROVE  msg_get(s, x.id) # 0 /\ s.msgs[msg_get(s, x.id)].conv = c
<1>1. /\ x.id \in WireIds /\ c[3] \in MsgIds
      /\ c[1] = w.p => x.id = c[3]
      /\ c[1] # w.p => x.id = -c[3] /\ c[1] = w.q
  BY FrameFacts
<1>2. /\ Loc(Convs, s) /\ s.msgs \in Slots
      /\ \A id \in MsgIds : s.msgs[id] # NoMsg => Named(w.p, id, s.msgs[id], w.O)
  BY MeetsFacts
<1>3. PICK i \in MsgIds : s.msgs[i] # NoMsg /\ s.msgs[i].conv = c BY AliveIn
<1>4. Exists(s, i) /\ Named(w.p, i, s.msgs[i], w.O) BY <1>2, <1>3 DEF Exists
<1>5. /\ x.id < 0 => \A j \in MsgIds : Exists(s, j) /\ s.msgs[j].imsgid = -x.id =>
           msg_get(s, x.id) = j
      /\ x.id > 0 => x.id \in MsgIds /\ (Exists(s, x.id) => msg_get(s, x.id) = x.id)
  BY <1>1, <1>2, GetFacts
<1>6. i # 0 /\ c[3] # 0 /\ c[3] > 0 /\ -(-c[3]) = c[3] BY <1>1 DEF MsgIds
<1>7. CASE c[1] = w.p
  <2>1. i = c[3] BY <1>3, <1>4, <1>7 DEF Named
  <2>2. msg_get(s, x.id) = i BY <1>1, <1>4, <1>5, <1>6, <1>7, <2>1
  <2> QED BY <1>3, <1>6, <2>2
<1>8. CASE c[1] # w.p
  <2>1. "DISCONNECTED" \notin s.msgs[i].status
    <3>1. Unique(s.msgs) BY MeetsFacts DEF Linked, Side
    <3>2. V = Aspects(s.msgs[i]) BY <1>3, <3>1, ViewOf
    <3> QED BY <1>8, <3>2, AspectFacts
  <2>2. s.msgs[i].imsgid = c[3] BY <1>3, <1>4, <1>8, <2>1 DEF Named
  <2>3. x.id < 0 /\ -x.id = c[3] BY <1>1, <1>6, <1>8 DEF MsgIds
  <2>4. msg_get(s, x.id) = i BY <1>4, <1>5, <2>2, <2>3
  <2> QED BY <1>3, <1>6, <2>4
<1> QED BY <1>7, <1>8

\* A packet or a DISCON that finds a message is of that message.
LEMMA Resolves ==
  ASSUME NEW w, Faces(w), NEW s, NEW ch, NEW Y, NEW mi, Meets(w, s, ch, Y, mi), Y # << >>,
         NEW x, x = Head(Y), NEW c, c = x.conv, Kind(x) # "OK", NEW g, g = msg_get(s, x.id),
         g # 0
  PROVE  g \in MsgIds /\ Exists(s, g) /\ s.msgs[g].conv = c
<1>1. /\ x.id \in WireIds /\ c[3] \in MsgIds /\ c \in Convs
      /\ Sent(Y, Kind(x), c) /\ Kind(x) \in Kinds
      /\ c[1] = w.p => x.id = c[3]
      /\ c[1] # w.p => x.id = -c[3] /\ c[1] = w.q
      /\ Facing(w.p, s.msgs, ch \o s.pending_resps, w.B, Y, w.U, w.R, mi, c)
  BY FrameFacts
<1>2. /\ Loc(Convs, s) /\ Y \in Seq(Tokens) /\ w.p \in w.U /\ w.p \in Ends
      /\ Linked(w.p, s.msgs, ch \o s.pending_resps, w.q, w.B, Y, w.O, w.U, w.R, mi)
      /\ \A id \in MsgIds : s.msgs[id] # NoMsg => Named(w.p, id, s.msgs[id], w.O)
  BY MeetsFacts
<1>3. /\ g \in MsgIds /\ Exists(s, g)
      /\ x.id < 0 => s.msgs[g].imsgid = -x.id
  BY <1>1, <1>2, GetFacts
<1>4. c[3] > 0 BY <1>1 DEF MsgIds
<1>5. CASE c[1] = w.p
  <2>1. Pair(c, View(s.msgs, c), ch \o s.pending_resps, View(w.B, c), Y, w.U, w.R, mi) BY <1>1,
          <1>5 DEF Facing
  <2>2. Data(Y, c) BY <1>1 DEF Data, Kinds
  <2>3. "alive" \in View(s.msgs, c) BY <1>2, <1>5, <2>1, <2>2 DEF Pair, Heard
  <2> QED BY <1>3, <1>5, <2>3, Reaches
<1>6. CASE c[1] # w.p
  <2> DEFINE m == s.msgs[g]
             d == m.conv
  <2>1. m # NoMsg /\ m \in Messages(Convs) BY <1>2, <1>3, LocAt DEF Exists
  <2>2. Named(w.p, g, m, w.O) /\ d \in Convs BY <1>2, <1>3, <2>1, MessageFacts
  <2>3. m.imsgid = c[3] BY <1>1, <1>3, <1>4, <1>6 DEF MsgIds
  <2>a. /\ d[1] = w.p => m.imsgid = 0
        /\ d[1] # w.p => m.imsgid = IF "DISCONNECTED" \in m.status THEN 0 ELSE d[3]
    BY <2>2 DEF Named
  <2>b. c[3] # 0 BY <1>1 DEF MsgIds
  <2>4. d[1] # w.p BY <2>a, <2>3, <2>b
  <2>5. d[3] = c[3] /\ "DISCONNECTED" \notin m.status BY <2>a, <2>3, <2>4, <2>b
  <2>6. d[1] = w.q BY <1>2, <2>2, <2>4, ConvEnds DEF Faces
  <2>7. Facing(w.p, s.msgs, ch \o s.pending_resps, w.B, Y, w.U, w.R, mi, d) BY <1>2, <2>2
          DEF Linked
  <2>8. View(s.msgs, d) = Aspects(m)
    <3>1. Unique(s.msgs) BY <1>2 DEF Linked, Side
    <3> QED BY <1>3, <2>1, <3>1, ViewOf
  <2>9. Ahead(Y, d)
    <3>1. Begun(View(w.B, d), Y, View(s.msgs, d), ch \o s.pending_resps, d)
      BY <2>4, <2>7 DEF Facing, Pair
    <3>2. "alive" \in View(s.msgs, d) /\ "gone" \notin View(s.msgs, d) BY <2>5, <2>8,
            AspectFacts
    <3> QED BY <3>1, <3>2 DEF Begun
  <2> HIDE DEF m, d
  <2>10. CASE c # d
    <3>1. ~Rival(Head(Y), d) BY <1>2, <2>9, <2>10, TailOther
    <3> QED BY <1>1, <1>6, <2>5, <2>6, <2>10, <3>1 DEF Rival
  <2> QED BY <1>3, <2>10 DEF m, d
<1> QED BY <1>5, <1>6

\* DISCON for a message that has sent its own: it is freed.
LEMMA RecvFreeLink ==
  ASSUME NEW w, NEW s, NEW ch, NEW Y, NEW mi, Joint(w, s, ch, Y, mi), NEW id \in MsgIds,
         Exists(s, id), NEW m, s.msgs[id] = m, First(Y, "DISCON", m.conv),
         "SENT_DISCONNECT" \in m.status
  PROVE  Joint(w, msg_free(s, id), ch, Tail(Y), mi)
<1>1. /\ Loc(Convs, s) /\ Link(w, s, ch, Y, mi) /\ s \in Switches(Convs)
      /\ m \in Messages(Convs) /\ Sound(m) /\ Named(w.p, id, m, w.O)
  BY JointAt
<1> DEFINE t == msg_free(s, id)
<1>2. Loc(Convs, t) BY <1>1, FreeLoc
<1>3. Frees(Convs, s, t, id) BY <1>1, FreeFrees
<1> HIDE DEF t
<1>4. t \in Switches(Convs) /\ Puts(s.msgs, t.msgs, id, NoMsg)
        /\ t.pending_resps = s.pending_resps
  BY <1>3 DEF Frees, Puts
<1>5. /\ Linked(w.p, s.msgs, ch \o s.pending_resps, w.q, w.B, Y, w.O, w.U, w.R, mi)
      /\ ch \in Seq(Tokens) /\ w.p \in Ends /\ w.p \in w.U /\ w.p \in w.R
  BY <1>1, LinkFacts
<1>6. IsRecvFree(Aspects(m), {})
  <2>1. Proper({}) BY DEF Proper
  <2> QED BY <2>1, AspectFacts DEF IsRecvFree
<1>7. Linked(w.p, t.msgs, ch \o s.pending_resps, w.q, w.B, Tail(Y), w.O, w.U, w.R, mi)
  <2>1. Y # << >> /\ Head(Y).conv = m.conv /\ Kind(Head(Y)) = "DISCON" BY DEF First
  <2> QED BY <1>1, <1>4, <1>5, <1>6, <2>1, LinkRecvFree
<1>8. Link(w, t, ch, Tail(Y), mi) BY <1>4, <1>5, <1>7 DEF Link
<1> QED BY <1>2, <1>8 DEF Joint, t

\* DISCON for a message that has not: it is disconnected and answers.
LEMMA RecvLeftLink ==
  ASSUME NEW w, NEW s, NEW ch, NEW Y, NEW mi, Joint(w, s, ch, Y, mi), NEW id \in MsgIds,
         Exists(s, id), NEW m, s.msgs[id] = m, First(Y, "DISCON", m.conv), NEW t,
         Left(Convs, s, t, id, m), "SENT_DISCONNECT" \notin m.status
  PROVE  Joint(w, t, ch, Tail(Y), mi)
<1>1. /\ Loc(Convs, s) /\ Link(w, s, ch, Y, mi) /\ s \in Switches(Convs)
      /\ m \in Messages(Convs) /\ Sound(m) /\ Named(w.p, id, m, w.O)
  BY JointAt
<1> DEFINE x == Reply(m, id, "DISCON")
           r == s.pending_resps
<1>2. Loc(Convs, t) /\ t \in Switches(Convs) /\ t.pending_resps = Append(r, x) BY DEF Left, Loc
<1>3. PICK k \in Messages(Convs) : t.msgs = [s.msgs EXCEPT ![id] = k] /\ Departed(m, k)
        /\ k.writ_queue = << >>
  BY DEF Left
<1>4. Puts(s.msgs, t.msgs, id, k) BY <1>3 DEF Puts
<1>5. t.msgs[id] = k BY <1>1, <1>3, SwitchFacts
<1>6. k # NoMsg BY MessageFacts
<1>7. Sound(k) BY <1>2, <1>5, <1>6, LocAt DEF Exists
<1>8. /\ k.conv = m.conv /\ k.imsgid = 0 /\ "DISCONNECTED" \in k.status
         /\ "SENT_DISCONNECT" \in k.status
      /\ k.n_writ = m.n_writ /\ k.n_read = m.n_read /\ k.incomplete = m.incomplete
      /\ k.read_queue = m.read_queue \/ k.read_queue = << >>
  BY <1>3 DEF Departed
<1>9. Named(w.p, id, k, w.O) BY <1>1, <1>3, <1>8 DEF Named
<1>10. "DISCONNECTED" \notin m.status BY <1>1 DEF Sound
<1>11. x \in Tokens /\ Mine(w.p, m.conv, x) /\ Kind(x) = "DISCON" BY <1>1, <1>10, NamedReply
<1>12. IsRecvLeft(Aspects(m), Aspects(k))
  <2>1. Proper(Aspects(k)) BY <1>7, ProperAspects
  <2>2. Len(<< >>) = 0 OBVIOUS
  <2>3. Len(k.read_queue) > NBuff => Len(m.read_queue) > NBuff BY <1>8, <2>2, NBuffAssumption
  <2> DEFINE V == Aspects(m)
             W == Aspects(k)
  <2>4. /\ "open" \in V
        /\ "unwritten" \in V <=> m.n_writ = 0
        /\ "unread" \in V <=> m.n_read = 0
        /\ "overrun" \in V <=> Len(m.read_queue) > NBuff
    BY AspectFacts
  <2>5. /\ "alive" \in W /\ "gone" \in W /\ "open" \notin W /\ "waits" \notin W
           /\ "needs" \notin W
        /\ "unwritten" \in W <=> k.n_writ = 0
        /\ "unread" \in W <=> k.n_read = 0
        /\ "overrun" \in W <=> Len(k.read_queue) > NBuff
    BY <1>8, AspectFacts
  <2>6. Proper(W) BY <2>1
  <2> HIDE DEF V, W
  <2>7. IsRecvLeft(V, W) BY <1>8, <2>3, <2>4, <2>5, <2>6 DEF IsRecvLeft, Same, Less
  <2> QED BY <2>7 DEF V, W
<1>13. /\ Linked(w.p, s.msgs, ch \o r, w.q, w.B, Y, w.O, w.U, w.R, mi)
       /\ ch \in Seq(Tokens) /\ r \in Seq(Tokens) /\ w.p \in Ends /\ w.p \in w.U /\ w.p \in w.R
  BY <1>1, LinkFacts
<1> HIDE DEF r, x
<1>14. Linked(w.p, t.msgs, Append(ch \o r, x), w.q, w.B, Tail(Y), w.O, w.U, w.R, mi)
  <2>1. Y # << >> /\ Head(Y).conv = m.conv /\ Kind(Head(Y)) = "DISCON" BY DEF First
  <2>2. k.conv = m.conv BY <1>8
  <2> QED BY <1>1, <1>4, <1>9, <1>11, <1>12, <1>13, <2>1, <2>2, LinkRecvLeft
<1>15. ch \o Append(r, x) = Append(ch \o r, x) BY <1>11, <1>13, JoinFacts
<1>16. Link(w, t, ch, Tail(Y), mi) BY <1>2, <1>13, <1>14, <1>15 DEF Link
<1> QED BY <1>2, <1>16 DEF Joint

\* DISCON keeps the link.
LEMMA RecvDisconLink ==
  ASSUME NEW w, NEW s, NEW ch, NEW Y, NEW mi, Joint(w, s, ch, Y, mi), NEW id \in MsgIds,
         Exists(s, id), NEW m, s.msgs[id] = m, First(Y, "DISCON", m.conv)
  PROVE  Joint(w, RecvDiscon(s, id), ch, Tail(Y), mi)
<1>1. CASE "SENT_DISCONNECT" \in m.status
  <2>1. RecvDiscon(s, id) = msg_free(s, id) BY <1>1 DEF RecvDiscon, Has
  <2>2. Joint(w, msg_free(s, id), ch, Tail(Y), mi) BY <1>1, RecvFreeLink
  <2> QED BY <2>1, <2>2
<1>2. CASE "SENT_DISCONNECT" \notin m.status
  <2>1. Loc(Convs, s) BY DEF Joint
  <2> DEFINE t == RecvDiscon(s, id)
  <2>2. Left(Convs, s, t, id, m) BY <1>2, <2>1, RecvDisconLeft
  <2> HIDE DEF t
  <2>3. Joint(w, t, ch, Tail(Y), mi) BY <1>2, <2>2, RecvLeftLink
  <2> QED BY <2>3 DEF t
<1> QED BY <1>1, <1>2

\* A packet of a message that exists keeps the link.
LEMMA RecvPackLink ==
  ASSUME NEW w, NEW s, NEW ch, NEW Y, NEW mi, Joint(w, s, ch, Y, mi), NEW id \in MsgIds,
         Exists(s, id), NEW m, s.msgs[id] = m, First(Y, "PACK", m.conv), ~Apart(m),
         NEW x \in Packets(Convs)
  PROVE  Joint(w, msg_push_read_packet(s, id, x), ch, Tail(Y), mi)
<1>1. /\ Loc(Convs, s) /\ Link(w, s, ch, Y, mi) /\ s \in Switches(Convs)
      /\ m \in Messages(Convs) /\ Sound(m) /\ Named(w.p, id, m, w.O)
  BY JointAt
<1> DEFINE t == msg_push_read_packet(s, id, x)
           e == x.seq
           rq == IF "CLOSED" \in m.status THEN m.read_queue ELSE Append(m.read_queue, e)
           n == PushRead(m, e)
<1>2. Loc(Convs, t) BY <1>1, PushReadLoc
<1>3. e \in Nat BY DEF Packets
<1>4. Edits(Convs, s, t, id, n) BY <1>1, PushReadEdits
<1> HIDE DEF e
<1>5. /\ n \in Messages(Convs)
      /\ n.imsgid = m.imsgid /\ n.conv = m.conv /\ n.n_writ = m.n_writ
         /\ n.n_read = m.n_read + 1
      /\ n.incomplete = m.incomplete /\ n.writ_queue = m.writ_queue /\ n.read_queue = rq
      /\ n.status = (m.status \cup {"NEED_TO_SEND_RESP", "PACKET_AVAIL_TO_READ"})
                   \ (IF Len(rq) >= NBuff THEN {"SPACE_AVAIL_FOR_READ"} ELSE {})
  BY <1>1, <1>3, PushReadFacts
<1>6. Sound(n) BY <1>1, <1>3, PushReadSound
<1>7. Len(rq) > NBuff => Len(m.read_queue) >= NBuff
  <2>1. m.read_queue \in Seq(Nat) BY <1>1, MessageFacts
  <2>2. Len(m.read_queue) \in Nat
          /\ Len(Append(m.read_queue, e)) = Len(m.read_queue) + 1 BY <2>1, <1>3
  <2> QED BY <2>2, NBuffAssumption
<1>8. m.n_read \in Nat BY <1>1, MessageFacts
<1> HIDE DEF t, n, rq
<1>9. /\ "NEED_TO_SEND_RESP" \in n.status /\ n.n_read # 0
      /\ \A f \in {"DISCONNECTED", "SENT_DISCONNECT", "WAITING_FOR_RESP"} : f \in n.status <=>
           f \in m.status
  BY <1>5, <1>8
<1>10. Named(w.p, id, n, w.O) BY <1>1, <1>5, <1>9, NamedSame
<1>11. Len(n.read_queue) > NBuff =>
         Len(m.read_queue) > NBuff \/ "NEED_TO_SEND_RESP" \in m.status
  BY <1>1, <1>5, <1>7 DEF Sound, Apart
<1>12. IsRecvPack(Aspects(m), Aspects(n)) BY <1>5, <1>6, <1>9, <1>11, RecvPackStep DEF Apart
<1>13. Link(w, t, ch, Tail(Y), mi) BY <1>1, <1>4, <1>5, <1>6, <1>10, <1>12, RecvEdit
<1> QED BY <1>2, <1>13 DEF Joint, t

\* A message that the other end opened, before its first packet.
Fresh(m, c) ==
  /\ m.imsgid = c[3] /\ m.conv = c /\ m.n_writ = 0 /\ m.n_read = 0
  /\ m.incomplete = NoPacket /\ m.read_queue = << >> /\ m.writ_queue = << >>
  /\ m.status = {"SPACE_AVAIL_FOR_READ", "SPACE_AVAIL_FOR_WRIT"}

\* The message that the first packet creates.
LEMMA CreatedStep ==
  ASSUME NEW p, NEW id \in MsgIds, NEW c \in Convs, NEW O, c[1] # p, c[2] <= O[c[1]],
         NEW e \in Nat, NEW m \in Messages(Convs), Sound(m), Fresh(m, c)
  PROVE  LET n == PushRead(m, e)
         IN  n \in Messages(Convs) /\ n.conv = c /\ Sound(n) /\ Named(p, id, n, O)
             /\ IsCreate({}, Aspects(n))
<1> DEFINE n == PushRead(m, e)
           rq == IF "CLOSED" \in m.status THEN m.read_queue ELSE Append(m.read_queue, e)
<1>1. /\ n \in Messages(Convs)
      /\ n.imsgid = m.imsgid /\ n.conv = m.conv /\ n.n_writ = m.n_writ
         /\ n.n_read = m.n_read + 1
      /\ n.incomplete = m.incomplete /\ n.writ_queue = m.writ_queue /\ n.read_queue = rq
      /\ n.status = (m.status \cup {"NEED_TO_SEND_RESP", "PACKET_AVAIL_TO_READ"})
                   \ (IF Len(rq) >= NBuff THEN {"SPACE_AVAIL_FOR_READ"} ELSE {})
  BY PushReadFacts
<1>2. Sound(n) BY PushReadSound
<1>3. Len(rq) = 1
  <2> DEFINE z == << >>
  <2>1. rq = Append(z, e) /\ z \in Seq(Nat) /\ Len(z) = 0 BY DEF Fresh
  <2> HIDE DEF z
  <2>2. Len(Append(z, e)) = Len(z) + 1 BY <2>1
  <2> QED BY <2>1, <2>2
<1> HIDE DEF rq, n
<1>4. /\ "NEED_TO_SEND_RESP" \in n.status /\ "DISCONNECTED" \notin n.status
      /\ "SENT_DISCONNECT" \notin n.status /\ "WAITING_FOR_RESP" \notin n.status
  BY <1>1 DEF Fresh
<1>5. ~(Len(n.read_queue) > NBuff) BY <1>1, <1>3, NBuffAssumption
<1>6. n.n_read = 1 BY <1>1 DEF Fresh
<1>7. Named(p, id, n, O)
  <2>1. n.imsgid = c[3] /\ n.conv = c /\ n.incomplete = NoPacket /\ n.writ_queue = << >> BY <1>1
          DEF Fresh
  <2>2. \A j \in 1 .. Len(<< >>) : FALSE OBVIOUS
  <2> QED BY <1>4, <2>1, <2>2 DEF Named
<1>8. Proper(Aspects(n)) BY <1>2, ProperAspects
<1>9. IsCreate({}, Aspects(n)) BY <1>4, <1>5, <1>6, <1>8, AspectFacts DEF IsCreate
<1>10. n.conv = c BY <1>1 DEF Fresh
<1> QED BY <1>1, <1>2, <1>7, <1>9, <1>10 DEF n

\* The first packet of a message keeps the link.
LEMMA CreateLink ==
  ASSUME NEW w, Faces(w), NEW s, NEW ch, NEW Y, NEW mi, Joint(w, s, ch, Y, mi),
         NEW x \in Packets(Convs), NEW c \in Convs, First(Y, "PACK", c), c[1] # w.p,
         c[2] <= w.O[c[1]], "alive" \notin View(s.msgs, c), NEW i \in MsgIds, i = c[3],
         s.imsgid_map[i] = 0, NEW id \in MsgIds, id = msg_get_avail_msgid(s)
  PROVE  Joint(w, msg_push_read_packet(Joined(s, c, i), id, x), ch, Tail(Y), mi)
<1>1. /\ Loc(Convs, s) /\ s \in Switches(Convs) /\ ch \in Seq(Tokens) /\ w.p \in Ends
         /\ w.p \in w.U /\ w.p \in w.R
      /\ Linked(w.p, s.msgs, ch \o s.pending_resps, w.q, w.B, Y, w.O, w.U, w.R, mi)
      /\ s.msgs \in Slots
  BY LinkFacts DEF Joint
<1>2. s.msgs[id] = NoMsg
  <2>1. id # -1 BY DEF MsgIds
  <2> QED BY <1>1, <2>1, AvailFacts
<1> DEFINE g == Joined(s, c, i)
           m == NewFor(c, i)
           e == x.seq
           n == PushRead(m, e)
           t == msg_push_read_packet(g, id, x)
           A == [s.msgs EXCEPT ![id] = n]
<1>3. Loc(Convs, g) BY <1>1, <1>2, JoinedLoc
<1>4. /\ g \in Switches(Convs) /\ g.msgs = [s.msgs EXCEPT ![id] = m]
      /\ g.pending_resps = s.pending_resps
  <2>1. Joins(Convs, s, g, id, c, i) BY <1>1, JoinedJoins
  <2> QED BY <2>1 DEF Joins
<1>5. e \in Nat BY DEF Packets
<1>6. n \in Messages(Convs) /\ n.conv = c /\ Sound(n) /\ Named(w.p, id, n, w.O)
        /\ IsCreate({}, Aspects(n))
  <2>1. i \in 0 .. MaxMsgId BY MaxMsgIdAssumption DEF MsgIds
  <2>2. /\ m \in Messages(Convs) /\ m.imsgid = i /\ m.conv = c /\ m.n_writ = 0 /\ m.n_read = 0
        /\ m.incomplete = NoPacket /\ m.read_queue = << >> /\ m.writ_queue = << >>
        /\ m.status = {"SPACE_AVAIL_FOR_READ", "SPACE_AVAIL_FOR_WRIT"}
        /\ Sound(m)
    BY <2>1, NewFacts
  <2> HIDE DEF e, m
  <2>3. m \in Messages(Convs) /\ Sound(m) /\ Fresh(m, c) BY <2>2 DEF Fresh
  <2> QED BY <1>5, <2>3, CreatedStep
<1>7. m \in Messages(Convs) /\ m # NoMsg
  <2>1. i \in 0 .. MaxMsgId BY MaxMsgIdAssumption DEF MsgIds
  <2> QED BY <2>1, NewFacts, MessageFacts
<1>8. g.msgs[id] = m /\ [g.msgs EXCEPT ![id] = n] = A
  <2> HIDE DEF g, m, n
  <2> QED BY <1>1, <1>4 DEF Slots
<1> HIDE DEF g, m, A
<1>9. Edits(Convs, g, t, id, n) BY <1>4, <1>7, <1>8, PushReadEdits
<1>10. Loc(Convs, t)
  <2>1. Exists(g, id) BY <1>7, <1>8 DEF Exists
  <2> QED BY <1>3, <2>1, PushReadLoc
<1>11. Puts(s.msgs, A, id, n) /\ Puts(g.msgs, A, id, n) BY <1>8 DEF Puts, A
<1> HIDE DEF n, t
<1> DEFINE T == Tail(Y)
<1>12. Linked(w.p, A, ch \o s.pending_resps, w.q, w.B, T, w.O, w.U, w.R, mi)
  <2>1. "alive" \notin View(s.msgs, n.conv) /\ n.conv[1] # w.p
          /\ First(Y, "PACK", n.conv) BY <1>6
  <2> HIDE DEF T
  <2>2. Linked(w.p, A, ch \o s.pending_resps, w.q, w.B, Tail(Y), w.O, w.U, w.R, mi)
    BY <1>1, <1>2, <1>6, <1>11, <2>1, LinkCreate
  <2> QED BY <2>2 DEF T
<1> HIDE DEF T
<1>13. Linked(w.p, A, ch \o g.pending_resps, w.q, w.B, T, w.O, w.U, w.R, mi) BY <1>4, <1>12
<1>14. Link(w, t, ch, T, mi) BY <1>1, <1>4, <1>6, <1>9, <1>11, <1>13, EditLink
<1>15. Joint(w, t, ch, T, mi) BY <1>10, <1>14 DEF Joint
<1> QED BY <1>15 DEF t, g, T

\* The packet that would create a message is lost: the end that read it
\* failed.
LEMMA LinkPackLost ==
  ASSUME NEW p \in Ends, NEW A, NEW X, NEW q, NEW B, NEW Y, NEW O, NEW U, NEW R, NEW mi,
         Linked(p, A, X, q, B, Y, O, U, R, mi), NEW c \in Convs, c[1] # p, View(A, c) = {},
         Y # << >>, Head(Y).conv = c, NEW P, P \subseteq R, p \notin P
  PROVE  Linked(p, A, X, q, B, Tail(Y), O, U, P, mi)
<1>1. Side(p, A, X, O) /\ Side(q, B, Y, O) /\ \A d \in Convs :
        Facing(p, A, X, B, Y, U, R, mi, d) BY DEF Linked
<1>2. X \in Seq(Tokens) /\ Y \in Seq(Tokens) BY <1>1 DEF Side
<1> DEFINE T == Tail(Y)
<1>3. T \in Seq(Tokens) /\ Part(T, Y, 1) BY <1>2, TailAt
<1>4. Side(q, B, T, O) BY <1>1, <1>3, SidePart
<1>5. ASSUME NEW d \in Convs PROVE Facing(p, A, X, B, T, U, P, mi, d)
  <2>1. CASE d = c
    <3>1. Pair(c, View(B, c), Y, View(A, c), X, U, R, mi) BY <1>1 DEF Facing
    <3>2. Shortens(Y, T, c) BY <1>2, <1>3, PartShortens
    <3>3. Shortens(X, X, c)
      <4>1. Part(X, X, 0) BY <1>2 DEF Part
      <4> QED BY <1>2, <4>1, PartShortens
    <3>4. Other(c[1]) = p BY ConvEnds
    <3> HIDE DEF T
    <3>5. Pair(c, View(B, c), T, {}, X, U, P, mi) BY <3>1, <3>2, <3>3, <3>4, DropB
    <3> QED BY <2>1, <3>5 DEF Facing
  <2>2. CASE d # c
    <3>1. Facing(p, A, X, B, T, U, R, mi, d) BY <1>1, <1>2, <2>2, FacingTake
    <3> HIDE DEF T
    <3>2. CASE d[1] = p BY <3>1, <3>2, PairMono DEF Facing
    <3>3. CASE d[1] # p BY <3>1, <3>3, PairMono DEF Facing
    <3> QED BY <3>2, <3>3
  <2> QED BY <2>1, <2>2
<1> QED BY <1>1, <1>4, <1>5 DEF Linked

----------------------------------------------------------------------------
(* Frames that come in keep the link: OK. *)

\* More messages misled.
LEMMA JointMono ==
  ASSUME NEW w, NEW s, NEW ch, NEW Y, NEW mi, Joint(w, s, ch, Y, mi), NEW mo, mi \subseteq mo
  PROVE  Joint(w, s, ch, Y, mo)
<1>1. Linked(w.p, s.msgs, ch \o s.pending_resps, w.q, w.B, Y, w.O, w.U, w.R, mi) BY DEF Joint,
        Link
<1>2. Linked(w.p, s.msgs, ch \o s.pending_resps, w.q, w.B, Y, w.O, w.U, w.R, mo) BY <1>1,
        LinkMono
<1> QED BY <1>2 DEF Joint, Link

\* An acknowledgement that no message waits for is read.
LEMMA OkLostLink ==
  ASSUME NEW w, NEW s, NEW ch, NEW Y, NEW mi, Joint(w, s, ch, Y, mi), NEW c \in Convs,
         First(Y, "OK", c), "waits" \notin View(s.msgs, c)
  PROVE  Joint(w, s, ch, Tail(Y), mi)
<1>1. Linked(w.p, s.msgs, ch \o s.pending_resps, w.q, w.B, Y, w.O, w.U, w.R, mi) BY DEF Joint,
        Link
<1>2. w.p \in Ends /\ w.p \in w.U /\ w.p \in w.R BY DEF Joint, Link
<1>3. Y # << >> /\ Head(Y).conv = c /\ Kind(Head(Y)) = "OK" BY DEF First
<1>4. Linked(w.p, s.msgs, ch \o s.pending_resps, w.q, w.B, Tail(Y), w.O, w.U, w.R, mi)
  BY <1>1, <1>2, <1>3, LinkOkLost
<1> QED BY <1>4 DEF Joint, Link

\* The acknowledgement of the message's own packet.
LEMMA AckOwnLink ==
  ASSUME NEW w, NEW s, NEW ch, NEW Y, NEW mi, Joint(w, s, ch, Y, mi), NEW id \in MsgIds,
         Exists(s, id), NEW m, s.msgs[id] = m, First(Y, "OK", m.conv)
  PROVE  Joint(w, Acked(s, id), ch, Tail(Y), mi)
<1>1. /\ Loc(Convs, s) /\ Link(w, s, ch, Y, mi) /\ s \in Switches(Convs)
      /\ m \in Messages(Convs) /\ Sound(m) /\ Named(w.p, id, m, w.O)
  BY JointAt
<1> DEFINE t == Acked(s, id)
           n == Unwaiting(m)
<1>2. Loc(Convs, t) BY <1>1, AckedLoc
<1>3. Turns(Convs, s, t, id, n, s.pending_msgs, s.pending_resps) BY <1>1, AckedTurns
<1>4. /\ n \in Messages(Convs) /\ n.status = m.status \ {"WAITING_FOR_RESP"}
      /\ n.imsgid = m.imsgid /\ n.conv = m.conv /\ n.n_writ = m.n_writ /\ n.n_read = m.n_read
      /\ n.incomplete = m.incomplete /\ n.read_queue = m.read_queue
         /\ n.writ_queue = m.writ_queue
      /\ Sound(n)
  BY <1>1, UnwaitingFacts
<1> HIDE DEF t, n
<1>5. t \in Switches(Convs) /\ Puts(s.msgs, t.msgs, id, n) /\ t.pending_resps = s.pending_resps
  BY <1>3 DEF Turns, Puts
<1>6. /\ "WAITING_FOR_RESP" \notin n.status
      /\ \A f \in {"SENT_DISCONNECT", "DISCONNECTED", "NEED_TO_SEND_RESP"} : f \in n.status <=>
           f \in m.status
  BY <1>4
<1>7. IsRecvOk(Aspects(m), Aspects(n)) BY <1>4, <1>6, RecvOkStep
<1>8. Named(w.p, id, n, w.O) BY <1>1, <1>4, <1>6, NamedSame
<1>9. /\ Linked(w.p, s.msgs, ch \o s.pending_resps, w.q, w.B, Y, w.O, w.U, w.R, mi)
      /\ ch \in Seq(Tokens) /\ w.p \in Ends /\ w.p \in w.U /\ w.p \in w.R
  BY <1>1, LinkFacts
<1>10. Linked(w.p, t.msgs, ch \o s.pending_resps, w.q, w.B, Tail(Y), w.O, w.U, w.R, mi)
  <2>1. Y # << >> /\ Head(Y).conv = m.conv /\ Kind(Head(Y)) = "OK" BY DEF First
  <2>2. n.conv = m.conv /\ n \in Messages(Convs) BY <1>4
  <2> QED BY <1>1, <1>5, <1>7, <1>8, <1>9, <2>1, <2>2, LinkRecvOk
<1>11. Link(w, t, ch, Tail(Y), mi) BY <1>5, <1>9, <1>10 DEF Link
<1> QED BY <1>2, <1>11 DEF Joint, t

\* The acknowledgement of a packet of another message.
LEMMA MisleadLink ==
  ASSUME NEW w, NEW s, NEW ch, NEW Y, NEW mi, Joint(w, s, ch, Y, mi), NEW id \in MsgIds,
         Exists(s, id), NEW m, s.msgs[id] = m, m.conv \in mi
  PROVE  Joint(w, Acked(s, id), ch, Y, mi)
<1>1. /\ Loc(Convs, s) /\ Link(w, s, ch, Y, mi) /\ s \in Switches(Convs)
      /\ m \in Messages(Convs) /\ Sound(m) /\ Named(w.p, id, m, w.O)
  BY JointAt
<1> DEFINE t == Acked(s, id)
           n == Unwaiting(m)
<1>2. Loc(Convs, t) BY <1>1, AckedLoc
<1>3. Turns(Convs, s, t, id, n, s.pending_msgs, s.pending_resps) BY <1>1, AckedTurns
<1>4. /\ n \in Messages(Convs) /\ n.status = m.status \ {"WAITING_FOR_RESP"}
      /\ n.imsgid = m.imsgid /\ n.conv = m.conv /\ n.n_writ = m.n_writ /\ n.n_read = m.n_read
      /\ n.incomplete = m.incomplete /\ n.read_queue = m.read_queue
         /\ n.writ_queue = m.writ_queue
      /\ Sound(n)
  BY <1>1, UnwaitingFacts
<1> HIDE DEF t, n
<1>5. t \in Switches(Convs) /\ Puts(s.msgs, t.msgs, id, n) /\ t.pending_resps = s.pending_resps
  BY <1>3 DEF Turns, Puts
<1>6. /\ "WAITING_FOR_RESP" \notin n.status
      /\ \A f \in {"SENT_DISCONNECT", "DISCONNECTED", "NEED_TO_SEND_RESP"} : f \in n.status <=>
           f \in m.status
  BY <1>4
<1>7. IsUnwait(Aspects(m), Aspects(n)) BY <1>4, <1>6, UnwaitStep
<1>8. Named(w.p, id, n, w.O) BY <1>1, <1>4, <1>6, NamedSame
<1>9. /\ Linked(w.p, s.msgs, ch \o s.pending_resps, w.q, w.B, Y, w.O, w.U, w.R, mi)
      /\ ch \in Seq(Tokens) /\ w.p \in Ends /\ w.p \in w.U /\ w.p \in w.R
  BY <1>1, LinkFacts
<1>10. Linked(w.p, t.msgs, ch \o s.pending_resps, w.q, w.B, Y, w.O, w.U, w.R, mi)
  <2>1. n.conv = m.conv /\ n \in Messages(Convs) BY <1>4
  <2> QED BY <1>1, <1>5, <1>7, <1>8, <1>9, <2>1, LinkUnwait
<1>11. Link(w, t, ch, Y, mi) BY <1>5, <1>9, <1>10 DEF Link
<1> QED BY <1>2, <1>11 DEF Joint, t

\* The last pass of msg_recv_resp keeps the link.
LEMMA RefreshLink ==
  ASSUME NEW w, NEW s, NEW ch, NEW Y, NEW mi, Joint(w, s, ch, Y, mi), NEW id \in MsgIds,
         Exists(s, id)
  PROVE  Joint(w, Refreshed(s, id), ch, Y, mi)
<1> DEFINE m == s.msgs[id]
           t == Refreshed(s, id)
<1>1. /\ Loc(Convs, s) /\ Link(w, s, ch, Y, mi) /\ s \in Switches(Convs)
      /\ m \in Messages(Convs) /\ Sound(m) /\ Named(w.p, id, m, w.O)
  BY JointAt
<1>2. Loc(Convs, t) BY <1>1, RefreshLoc
<1>3. Edits(Convs, s, t, id, m) BY <1>1, RefreshEdits
<1>4. s.msgs[id] = m /\ m.conv = m.conv OBVIOUS
<1> HIDE DEF m, t
<1>5. IsQuiet(Aspects(m), Aspects(m)) BY <1>1, QuietStep
<1>6. Link(w, t, ch, Y, mi) BY <1>1, <1>3, <1>4, <1>5, QuietEdit
<1> QED BY <1>2, <1>6 DEF Joint, t

\* What msg_recv_resp does once the message does not wait any more keeps the
\* link.
LEMMA RestLink ==
  ASSUME NEW w, NEW s, Loc(Convs, s), NEW id \in MsgIds, Exists(s, id), NEW m, s.msgs[id] = m,
         "SENT_DISCONNECT" \notin m.status, "WAITING_FOR_RESP" \in m.status, NEW ch, NEW Y,
         NEW mi, Joint(w, Acked(s, id), ch, Y, mi)
  PROVE  Joint(w, RecvOk(s, id), ch, Y, mi)
<1> DEFINE a == Acked(s, id)
           f == Flushed(s, id)
           e == Ended(f, id)
           n == Unwaiting(m)
<1>1. m \in Messages(Convs) /\ Sound(m) BY LocAt
<1>2. Loc(Convs, a) /\ Exists(a, id) /\ a.msgs[id] = n BY AckedLoc
<1>3. n.status = m.status \ {"WAITING_FOR_RESP"} /\ n.n_writ = m.n_writ BY <1>1, UnwaitingFacts
<1>4. "DISCONNECTED" \notin m.status BY <1>1 DEF Sound
<1>5. m.n_writ > 0 BY <1>1, <1>4 DEF Sound
<1>6. RecvOk(s, id) = Refreshed(e, id) BY RecvOkPasses DEF Has
<1>7. Joint(w, a, ch, Y, mi) OBVIOUS
<1>8. f = IF "PACKET_AVAIL_TO_WRIT" \in m.status THEN a ELSE msg_flush(a, id) BY DEF Flushed,
        Has
<1> HIDE DEF a, n
<1>9. ~Apart(n) /\ Writable(n) /\ "SENT_DISCONNECT" \notin n.status BY <1>3, <1>4 DEF Apart,
        Writable
<1>10. /\ Joint(w, f, ch, Y, mi) /\ Exists(f, id) /\ f.msgs[id].n_writ = n.n_writ
       /\ \A g \in {"SENT_DISCONNECT", "DISCONNECTED", "CLOSED"} : g \in f.msgs[id].status <=>
            g \in n.status
  <2>1. CASE "PACKET_AVAIL_TO_WRIT" \in m.status BY <1>2, <1>7, <1>8, <2>1
  <2>2. CASE "PACKET_AVAIL_TO_WRIT" \notin m.status
    <3>1. f = msg_flush(a, id) BY <1>8, <2>2
    <3>2. Joint(w, msg_flush(a, id), ch, Y, mi) BY <1>2, <1>7, <1>9, FlushLink
    <3>3. Exists(msg_flush(a, id), id) BY <1>2, <1>9, FlushLoc
    <3>4. LET k == msg_flush(a, id).msgs[id]
          IN  k.n_writ = n.n_writ /\ \A g \in {"SENT_DISCONNECT", "DISCONNECTED", "CLOSED"} :
              g \in k.status <=> g \in n.status
      BY <1>2, <1>9, FlushAt
    <3> QED BY <3>1, <3>2, <3>3, <3>4
  <2> QED BY <2>1, <2>2
<1> HIDE DEF f
<1>11. Joint(w, e, ch, Y, mi) /\ Exists(e, id)
  <2>1. CASE ~Has(f, id, "PACKET_AVAIL_TO_WRIT") /\ Has(f, id, "CLOSED")
    <3> DEFINE k == f.msgs[id]
    <3>1. e = SendDiscon(f, id) BY <2>1 DEF Ended
    <3>2. /\ ~Apart(k) /\ "SENT_DISCONNECT" \notin k.status /\ "CLOSED" \in k.status
          /\ "PACKET_AVAIL_TO_WRIT" \notin k.status /\ ~(k.n_writ = 0 /\ k.n_read = 0)
      BY <1>3, <1>5, <1>9, <1>10, <2>1 DEF Apart, Has
    <3>3. Joint(w, SendDiscon(f, id), ch, Y, mi) /\ Exists(SendDiscon(f, id), id)
      <4>1. f.msgs[id] = k OBVIOUS
      <4> HIDE DEF k
      <4> QED BY <1>10, <3>2, <4>1, SendDisconLink
    <3> QED BY <3>1, <3>3
  <2>2. CASE ~(~Has(f, id, "PACKET_AVAIL_TO_WRIT") /\ Has(f, id, "CLOSED"))
    BY <1>10, <2>2 DEF Ended
  <2> QED BY <2>1, <2>2
<1> HIDE DEF e
<1> QED BY <1>6, <1>11, RefreshLink

\* The aspects that an end has of a message go together.
LEMMA ProperView ==
  ASSUME NEW p, NEW A, NEW X, NEW B, NEW Y, NEW U, NEW R, NEW mi, NEW c,
         Facing(p, A, X, B, Y, U, R, mi, c)
  PROVE  Proper(View(A, c)) /\ Proper(View(B, c))
BY DEF Facing, Pair

\* The flags of an acknowledged message decide what msg_recv_resp does.
LEMMA RecvOkCases ==
  ASSUME NEW s \in Switches(Convs), NEW id
  PROVE  \/ RecvOk(s, id) = s /\ Has(s, id, "SENT_DISCONNECT")
         \/ Keeps(Convs, s, RecvOk(s, id)) /\ ~Has(s, id, "WAITING_FOR_RESP")
         \/ ~Has(s, id, "SENT_DISCONNECT") /\ Has(s, id, "WAITING_FOR_RESP")
<1>1. CASE ~Has(s, id, "SENT_DISCONNECT") /\ ~Has(s, id, "WAITING_FOR_RESP")
  <2>1. RecvOk(s, id) = Fail(s, "unexpected OK") BY <1>1 DEF RecvOk
  <2>2. "unexpected OK" \in Failures BY DEF Failures
  <2>3. Keeps(Convs, s, Fail(s, "unexpected OK")) BY <2>2, FailKeeps
  <2> QED BY <1>1, <2>1, <2>3
<1>2. CASE Has(s, id, "SENT_DISCONNECT") BY <1>2 DEF RecvOk
<1> QED BY <1>1, <1>2

\* The messages misled after the message g took the acknowledgement x.
Misled(s, x, g, mi, mo) ==
  IF s.msgs[g].conv # x.conv THEN mo = mi \cup {s.msgs[g].conv} ELSE mo = mi

\* OK keeps the link, for the message it is of and for another one.
LEMMA RecvOkLink ==
  ASSUME NEW w, Faces(w), NEW s, NEW ch, NEW Y, NEW mi, Joint(w, s, ch, Y, mi), Y # << >>,
         NEW x, x = Head(Y), Kind(x) = "OK", NEW g, g = msg_get(s, x.id), g # 0, NEW mo,
         Misled(s, x, g, mi, mo)
  PROVE  Joint(w, RecvOk(s, g), ch, Tail(Y), mo)
<1> DEFINE c == x.conv
           m == s.msgs[g]
           T == Tail(Y)
<1>1. x.id \in WireIds /\ c \in Convs /\ Facing(w.p, s.msgs, ch \o s.pending_resps, w.B, Y, w.U,
                                                w.R, mi, c)
  BY FrameFacts, JointMeets
<1>2. Loc(Convs, s) /\ s \in Switches(Convs) /\ Unique(s.msgs) BY LinkFacts DEF Joint, Linked,
        Side
<1>3. g \in MsgIds /\ Exists(s, g) BY <1>1, <1>2, GetFacts
<1>4. First(Y, "OK", c) BY DEF First
<1>5. Proper(View(s.msgs, c)) BY <1>1, ProperView
<1>6. ASSUME m.conv # c PROVE "waits" \notin View(s.msgs, c)
  <2>1. SUFFICES ASSUME "waits" \in View(s.msgs, c) PROVE FALSE OBVIOUS
  <2>2. "alive" \in View(s.msgs, c) /\ "gone" \notin View(s.msgs, c) BY <1>5, <2>1 DEF Proper
  <2> QED BY <1>6, <2>2, Reaches, JointMeets
<1>7. mi \subseteq mo /\ (m.conv # c => m.conv \in mo) BY DEF Misled
<1>8. s.msgs[g] = m /\ m # NoMsg BY <1>3 DEF Exists
<1>9. m.conv = c => View(s.msgs, c) = Aspects(m) BY <1>2, <1>3, <1>8, ViewOf
<1>10. \/ RecvOk(s, g) = s /\ "SENT_DISCONNECT" \in m.status
       \/ Keeps(Convs, s, RecvOk(s, g)) /\ "WAITING_FOR_RESP" \notin m.status
       \/ "SENT_DISCONNECT" \notin m.status /\ "WAITING_FOR_RESP" \in m.status
  BY <1>2, RecvOkCases DEF Has
<1> HIDE DEF c, m, T
<1>11. ASSUME "waits" \notin View(s.msgs, c) PROVE Joint(w, s, ch, T, mo)
  <2>1. Joint(w, s, ch, T, mi) BY <1>1, <1>4, <1>11, OkLostLink DEF T
  <2> QED BY <1>7, <2>1, JointMono
<1>12. CASE "SENT_DISCONNECT" \notin m.status /\ "WAITING_FOR_RESP" \in m.status
  <2>1. Joint(w, Acked(s, g), ch, T, mo)
    <3>1. CASE m.conv = c
      <4>1. Joint(w, Acked(s, g), ch, T, mi) BY <1>3, <1>4, <1>8, <3>1, AckOwnLink DEF T
      <4> QED BY <1>7, <4>1, JointMono
    <3>2. CASE m.conv # c
      <4>1. Joint(w, s, ch, T, mo) BY <1>6, <1>11, <3>2
      <4>2. m.conv \in mo BY <1>7, <3>2
      <4> QED BY <1>3, <1>8, <4>1, <4>2, MisleadLink
    <3> QED BY <3>1, <3>2
  <2> QED BY <1>2, <1>3, <1>8, <1>12, <2>1, RestLink DEF T
<1>13. CASE ~("SENT_DISCONNECT" \notin m.status /\ "WAITING_FOR_RESP" \in m.status)
  <2>1. "waits" \notin View(s.msgs, c) BY <1>6, <1>9, <1>13, AspectFacts
  <2>2. Joint(w, s, ch, T, mo) BY <1>11, <2>1
  <2>3. RecvOk(s, g) = s \/ Keeps(Convs, s, RecvOk(s, g)) BY <1>10, <1>13
  <2> QED BY <2>2, <2>3, KeepsLink DEF T
<1> QED BY <1>12, <1>13

----------------------------------------------------------------------------
(* Frames that come in keep the link: any frame. *)

\* A frame is a packet or a response.
LEMMA FrameKinds ==
  ASSUME NEW x \in Tokens
  PROVE  /\ Kind(x) = "PACK" => x \in Packets(Convs) /\ x.kind = "PACK"
         /\ Kind(x) # "PACK" =>
              x \in Resps(Convs) /\ x.kind # "PACK" /\ x.what = Kind(x) /\ x.kind = "RESP"
<1>1. CASE x \in Packets(Convs)
  <2>1. x.kind = "PACK" BY <1>1 DEF Packets
  <2> QED BY <1>1, <2>1 DEF Kind
<1>2. CASE x \in Resps(Convs)
  <2>1. x.kind = "RESP" /\ x.what \in {"OK", "DISCON"} BY <1>2 DEF Resps
  <2> QED BY <1>2, <2>1 DEF Kind
<1> QED BY <1>1, <1>2 DEF Tokens

\* A message that the other end has disconnected gets nothing but
\* acknowledgements.
LEMMA NotGone ==
  ASSUME NEW p, NEW A, NEW X, NEW B, NEW Y, NEW U, NEW R, NEW mi, NEW c,
         Facing(p, A, X, B, Y, U, R, mi, c), Data(Y, c)
  PROVE  "gone" \notin View(A, c)
BY DEF Facing, Pair, Half, Data

\* The opener of a message that it is sent data of still has it.
LEMMA OpenerHears ==
  ASSUME NEW p, NEW A, NEW X, NEW B, NEW Y, NEW U, NEW R, NEW mi, NEW c,
         Facing(p, A, X, B, Y, U, R, mi, c), Data(Y, c), c[1] = p, p \in U
  PROVE  "alive" \in View(A, c)
BY DEF Facing, Pair, Heard

\* The end has read a frame. If that ended its process, the other end may
\* find that a packet was lost.
Took(w, t, ch, T, mo) ==
  \A P : P \subseteq w.R /\ (~Unfailed(t) => w.p \notin P) =>
     Linked(w.p, t.msgs, ch \o t.pending_resps, w.q, w.B, T, w.O, w.U, P, mo)

\* If it did not, the link is kept.
LEMMA JointTook ==
  ASSUME NEW w, NEW t, NEW ch, NEW T, NEW mo, Joint(w, t, ch, T, mo)
  PROVE  Took(w, t, ch, T, mo)
<1>1. Linked(w.p, t.msgs, ch \o t.pending_resps, w.q, w.B, T, w.O, w.U, w.R, mo) BY DEF Joint,
        Link
<1>2. ASSUME NEW P, P \subseteq w.R
      PROVE  Linked(w.p, t.msgs, ch \o t.pending_resps, w.q, w.B, T, w.O, w.U, P, mo)
  BY <1>1, <1>2, LinkMono
<1> QED BY <1>2 DEF Took

\* What is known when a frame does not find a message.
LEMMA Unfound ==
  ASSUME NEW w, Faces(w), NEW s, NEW ch, NEW Y, NEW mi, Joint(w, s, ch, Y, mi), Y # << >>,
         NEW x, x = Head(Y), NEW c, c = x.conv, Kind(x) # "OK", msg_get(s, x.id) = 0
  PROVE  View(s.msgs, c) = {} /\ c[1] # w.p
<1>1. /\ Sent(Y, Kind(x), c) /\ Kind(x) \in Kinds
      /\ Facing(w.p, s.msgs, ch \o s.pending_resps, w.B, Y, w.U, w.R, mi, c)
  BY FrameFacts, JointMeets
<1>2. Data(Y, c) BY <1>1 DEF Data, Kinds
<1>3. "gone" \notin View(s.msgs, c) BY <1>1, <1>2, NotGone
<1>4. "alive" \notin View(s.msgs, c) BY <1>3, Reaches, JointMeets
<1>5. w.p \in w.U BY LinkFacts DEF Joint
<1>6. c[1] # w.p BY <1>1, <1>2, <1>4, <1>5, OpenerHears
<1> QED BY <1>4, <1>6, AliveIn

\* DISCON for a message that is not there changes nothing.
LEMMA DisconLostLink ==
  ASSUME NEW w, NEW s, NEW ch, NEW Y, NEW mi, Joint(w, s, ch, Y, mi), NEW c \in Convs,
         First(Y, "DISCON", c), View(s.msgs, c) = {}
  PROVE  Joint(w, s, ch, Tail(Y), mi)
<1>1. Linked(w.p, s.msgs, ch \o s.pending_resps, w.q, w.B, Y, w.O, w.U, w.R, mi) BY DEF Joint,
        Link
<1>2. w.p \in Ends /\ w.p \in w.U /\ w.p \in w.R BY DEF Joint, Link
<1>3. Y # << >> /\ Head(Y).conv = c /\ Kind(Head(Y)) = "DISCON" BY DEF First
<1>4. Linked(w.p, s.msgs, ch \o s.pending_resps, w.q, w.B, Tail(Y), w.O, w.U, w.R, mi)
  BY <1>1, <1>2, <1>3, LinkDisconLost
<1> QED BY <1>4 DEF Joint, Link

\* A packet keeps the link, or ends the process that read it.
LEMMA ReadPacketLink ==
  ASSUME NEW w, Faces(w), NEW s, NEW ch, NEW Y, NEW mi, Joint(w, s, ch, Y, mi), Y # << >>,
         NEW x, x = Head(Y), Kind(x) = "PACK"
  PROVE  Took(w, ReadPacket(s, x), ch, Tail(Y), mi)
<1> DEFINE c == x.conv
           g == msg_get(s, x.id)
           T == Tail(Y)
<1>1. /\ x \in Tokens /\ c \in Convs /\ c[3] \in MsgIds /\ x.id \in WireIds
      /\ Sent(Y, Kind(x), c)
      /\ c[1] # w.p => x.id = -c[3] /\ c[1] = w.q
      /\ Facing(w.p, s.msgs, ch \o s.pending_resps, w.B, Y, w.U, w.R, mi, c)
  BY FrameFacts, JointMeets
<1>2. x \in Packets(Convs) BY <1>1, FrameKinds
<1>3. /\ Loc(Convs, s) /\ s \in Switches(Convs) /\ Y \in Seq(Tokens) /\ w.p \in Ends
      /\ Linked(w.p, s.msgs, ch \o s.pending_resps, w.q, w.B, Y, w.O, w.U, w.R, mi)
  BY LinkFacts DEF Joint
<1>4. Unique(s.msgs) /\ c[2] <= w.O[c[1]]
  <2>1. x = Y[1] /\ 1 \in 1 .. Len(Y) BY <1>3, TailAt
  <2> QED BY <1>3, <2>1 DEF Linked, Side, GoodFrame
<1>5. First(Y, "PACK", c) BY DEF First
<1>6. CASE g # 0
  <2> DEFINE m == s.msgs[g]
  <2>1. g \in MsgIds /\ Exists(s, g) /\ m.conv = c BY <1>6, Resolves, JointMeets
  <2>2. ReadPacket(s, x) = msg_push_read_packet(s, g, x) BY <1>6 DEF ReadPacket
  <2>3. ~Apart(m)
    <3>1. Data(Y, c) BY <1>1 DEF Data
    <3>2. "gone" \notin View(s.msgs, c) BY <1>1, <3>1, NotGone
    <3>3. View(s.msgs, c) = Aspects(m) BY <1>4, <2>1, ViewOf DEF Exists
    <3> QED BY <3>2, <3>3, AspectFacts DEF Apart
  <2>4. Joint(w, msg_push_read_packet(s, g, x), ch, Tail(Y), mi)
    <3>1. s.msgs[g] = m /\ First(Y, "PACK", m.conv) BY <1>5, <2>1
    <3> HIDE DEF m, g
    <3> QED BY <1>2, <2>1, <2>3, <3>1, RecvPackLink
  <2> QED BY <2>2, <2>4, JointTook
<1>7. CASE g = 0
  <2> DEFINE new == msg_get_avail_msgid(s)
             i == c[3]
  <2>1. View(s.msgs, c) = {} /\ c[1] # w.p BY <1>7, Unfound
  <2>2. x.id = -i /\ i \in MsgIds /\ -x.id = i /\ x.id < 0 /\ ~(x.id >= 0) BY <1>1, <2>1
          DEF MsgIds
  <2>3. s.imsgid_map[i] = 0 BY <1>1, <1>3, <1>7, <2>2, GetFacts
  <2>4. \/ new = -1
        \/ new \in MsgIds /\ s.msgs[new] = NoMsg
    BY <1>3, AvailFacts
  <2>5. CASE new = -1
    <3> DEFINE F == "msgs[-1]"
    <3>1. ReadPacket(s, x) = Fail(s, F) BY <1>7, <2>2, <2>5 DEF ReadPacket, msg_create
    <3>2. F \in Failures /\ F # None BY DEF Failures, None
    <3> HIDE DEF F
    <3> DEFINE t == Fail(s, F)
    <3>3. t.msgs = s.msgs /\ t.pending_resps = s.pending_resps /\ ~Unfailed(t)
      BY <1>3, <3>2, FailType DEF Unfailed
    <3>4. ASSUME NEW P, P \subseteq w.R, w.p \notin P
          PROVE  Linked(w.p, s.msgs, ch \o s.pending_resps, w.q, w.B, Tail(Y), w.O, w.U, P, mi)
      BY <1>1, <1>3, <2>1, <3>4, LinkPackLost
    <3> HIDE DEF t
    <3>5. Took(w, t, ch, Tail(Y), mi) BY <3>3, <3>4 DEF Took
    <3> QED BY <3>1, <3>5 DEF t
  <2>6. CASE new \in MsgIds
    <3>1. new # -1 BY <2>6 DEF MsgIds
    <3>2. ReadPacket(s, x) = msg_push_read_packet(Joined(s, c, i), new, x)
      BY <1>7, <2>2, <3>1 DEF ReadPacket, Joined
    <3>3. "alive" \notin View(s.msgs, c) BY <2>1
    <3> HIDE DEF i, c
    <3>4. i = c[3] BY DEF i
    <3>5. Joint(w, msg_push_read_packet(Joined(s, c, i), new, x), ch, Tail(Y), mi)
      <4>1. new = msg_get_avail_msgid(s) OBVIOUS
      <4> HIDE DEF new
      <4> QED BY <1>1, <1>2, <1>4, <1>5, <2>1, <2>2, <2>3, <2>6, <3>3, <3>4, <4>1, CreateLink
    <3> QED BY <3>2, <3>5, JointTook
  <2> QED BY <2>4, <2>5, <2>6
<1> QED BY <1>6, <1>7

\* What SwitchRead adds to misled.
Misleads(s, x, mi, mo) ==
  LET g == msg_get(s, x.id)
  IN  mo = IF x.kind = "RESP" /\ x.what = "OK" /\ g # 0 /\ s.msgs[g].conv # x.conv
           THEN mi \cup {s.msgs[g].conv} ELSE mi

\* Any frame keeps the link, or ends the process that read it.
LEMMA SwitchReadLink ==
  ASSUME NEW w, Faces(w), NEW s, NEW ch, NEW Y, NEW mi, Joint(w, s, ch, Y, mi), Y # << >>,
         NEW x, x = Head(Y), NEW mo, Misleads(s, x, mi, mo)
  PROVE  Took(w, msg_switch_read(s, x), ch, Tail(Y), mo)
<1> DEFINE c == x.conv
           g == msg_get(s, x.id)
<1>1. /\ x \in Tokens /\ c \in Convs /\ x.id \in WireIds /\ Kind(x) \in Kinds
      /\ Facing(w.p, s.msgs, ch \o s.pending_resps, w.B, Y, w.U, w.R, mi, c)
  BY FrameFacts, JointMeets
<1>2. Loc(Convs, s) BY DEF Joint
<1>3. CASE Kind(x) = "PACK"
  <2>1. x.kind = "PACK" BY <1>1, <1>3, FrameKinds
  <2>2. msg_switch_read(s, x) = ReadPacket(s, x) /\ mo = mi BY <2>1 DEF msg_switch_read,
          Misleads
  <2> QED BY <1>3, <2>2, ReadPacketLink
<1>4. CASE Kind(x) = "DISCON"
  <2>1. x.kind # "PACK" /\ x.what = "DISCON" BY <1>1, <1>4, FrameKinds
  <2>2. mo = mi BY <2>1 DEF Misleads
  <2>3. First(Y, "DISCON", c) BY <1>4 DEF First
  <2>4. CASE g = 0
    <3>1. msg_switch_read(s, x) = s BY <2>1, <2>4 DEF msg_switch_read
    <3>2. View(s.msgs, c) = {} BY <1>4, <2>4, Unfound
    <3>3. Joint(w, s, ch, Tail(Y), mi) BY <1>1, <2>3, <3>2, DisconLostLink
    <3> QED BY <2>2, <3>1, <3>3, JointTook
  <2>5. CASE g # 0
    <3>1. msg_switch_read(s, x) = RecvDiscon(s, g) BY <2>1, <2>5 DEF msg_switch_read,
            msg_recv_resp
    <3>2. g \in MsgIds /\ Exists(s, g) /\ s.msgs[g].conv = c BY <1>4, <2>5, Resolves, JointMeets
    <3>3. Joint(w, RecvDiscon(s, g), ch, Tail(Y), mi) BY <2>3, <3>2, RecvDisconLink
    <3> QED BY <2>2, <3>1, <3>3, JointTook
  <2> QED BY <2>4, <2>5
<1>5. CASE Kind(x) = "OK"
  <2>1. x.kind # "PACK" /\ x.kind = "RESP" /\ x.what = "OK" BY <1>1, <1>5, FrameKinds
  <2>2. CASE g = 0
    <3>1. msg_switch_read(s, x) = s /\ mo = mi BY <2>1, <2>2 DEF msg_switch_read, Misleads
    <3>2. "waits" \notin View(s.msgs, c)
      <4>1. SUFFICES ASSUME "waits" \in View(s.msgs, c) PROVE FALSE OBVIOUS
      <4>2. Proper(View(s.msgs, c)) BY <1>1, ProperView
      <4>3. "alive" \in View(s.msgs, c) /\ "gone" \notin View(s.msgs, c) BY <4>1, <4>2
              DEF Proper
      <4> QED BY <2>2, <4>3, Reaches, JointMeets
    <3>3. First(Y, "OK", c) BY <1>5 DEF First
    <3>4. Joint(w, s, ch, Tail(Y), mi) BY <1>1, <3>2, <3>3, OkLostLink
    <3> QED BY <3>1, <3>4, JointTook
  <2>3. CASE g # 0
    <3>1. msg_switch_read(s, x) = RecvOk(s, g) BY <2>1, <2>3 DEF msg_switch_read, msg_recv_resp
    <3>2. Misled(s, x, g, mi, mo) BY <2>1, <2>3 DEF Misleads, Misled
    <3>3. Joint(w, RecvOk(s, g), ch, Tail(Y), mo)
      <4>1. g = msg_get(s, x.id) OBVIOUS
      <4> HIDE DEF g
      <4> QED BY <1>5, <2>3, <3>2, <4>1, RecvOkLink
    <3> QED BY <3>1, <3>3, JointTook
  <2> QED BY <2>2, <2>3
<1> QED BY <1>1, <1>3, <1>4, <1>5 DEF Kinds

----------------------------------------------------------------------------
(* Opening a message keeps the link. *)

\* More messages were opened.
Grows(O, N) == \A e \in Ends : O[e] \in Nat /\ N[e] \in Nat /\ O[e] <= N[e]

\* An end depends on no message that is yet to be opened.
LEMMA SideGrow ==
  ASSUME NEW p, NEW A, NEW X, NEW O, Side(p, A, X, O), NEW N, Grows(O, N)
  PROVE  Side(p, A, X, N)
<1>1. A \in Slots /\ X \in Seq(Tokens) /\ Unique(A) BY DEF Side
<1>2. ASSUME NEW c \in Convs, c[2] <= O[c[1]] PROVE c[2] <= N[c[1]]
  <2>1. c[1] \in Ends /\ c[2] \in Nat BY ConvFacts
  <2>2. O[c[1]] \in Nat /\ N[c[1]] \in Nat /\ O[c[1]] <= N[c[1]] BY <2>1 DEF Grows
  <2> QED BY <1>2, <2>1, <2>2
<1>3. ASSUME NEW id \in MsgIds, A[id] # NoMsg PROVE Named(p, id, A[id], N)
  <2>1. Named(p, id, A[id], O) BY <1>3 DEF Side
  <2>2. A[id] \in Messages(Convs) BY <1>1, <1>3 DEF Slots
  <2>3. A[id].conv \in Convs BY <2>2, MessageFacts
  <2>4. A[id].conv[2] <= O[A[id].conv[1]] BY <2>1 DEF Named
  <2>5. A[id].conv[2] <= N[A[id].conv[1]] BY <1>2, <2>3, <2>4
  <2> QED BY <2>1, <2>5 DEF Named
<1>4. ASSUME NEW i \in 1 .. Len(X) PROVE GoodFrame(p, X[i], N)
  <2>1. GoodFrame(p, X[i], O) BY DEF Side
  <2>2. X[i] \in Tokens BY <1>1
  <2>3. X[i].conv \in Convs BY <2>2 DEF Tokens, Packets, Resps
  <2>4. X[i].conv[2] <= O[X[i].conv[1]] /\ X[i].id = Wire(p, X[i].conv) BY <2>1 DEF GoodFrame
  <2> QED BY <1>2, <2>3, <2>4 DEF GoodFrame
<1> QED BY <1>1, <1>3, <1>4 DEF Side

\* Nor does the link.
LEMMA LinkGrow ==
  ASSUME NEW p, NEW A, NEW X, NEW q, NEW B, NEW Y, NEW O, NEW U, NEW R, NEW mi,
         Linked(p, A, X, q, B, Y, O, U, R, mi), NEW N, Grows(O, N)
  PROVE  Linked(p, A, X, q, B, Y, N, U, R, mi)
<1>1. Side(p, A, X, N) /\ Side(q, B, Y, N) BY SideGrow DEF Linked
<1> QED BY <1>1 DEF Linked

\* A msg_open that has not happened left no trace.
LEMMA Unused ==
  ASSUME NEW p, NEW A, NEW X, NEW O, Side(p, A, X, O), NEW c, NEW e, c[1] = e, O[e] \in Nat,
         c[2] = O[e] + 1
  PROVE  View(A, c) = {} /\ ~Some(X, c)
<1>1. ~(c[2] <= O[c[1]]) OBVIOUS
<1>2. \A i \in MsgIds : ~(A[i] # NoMsg /\ A[i].conv = c) BY <1>1 DEF Side, Named
<1>3. View(A, c) = {} BY <1>2, NoView
<1>4. \A i \in 1 .. Len(X) : X[i].conv # c BY <1>1 DEF Side, GoodFrame
<1>5. ~Some(X, c) BY <1>4, UnsentFacts DEF Some
<1> QED BY <1>3, <1>5

\* The message that msg_open makes.
LEMMA BornStep ==
  ASSUME NEW p \in Ends, NEW id \in MsgIds, NEW c \in Convs, NEW O, c[1] = p, c[2] <= O[p],
         c[3] = id
  PROVE  LET m == NewFor(c, 0)
             n == Flagged(m, m.status \cup {"CONNECTED"})
         IN  n \in Messages(Convs) /\ n.conv = c /\ Named(p, id, n, O) /\ IsBorn({}, Aspects(n))
<1> DEFINE m == NewFor(c, 0)
           n == Flagged(m, m.status \cup {"CONNECTED"})
<1>1. 0 \in 0 .. MaxMsgId BY MaxMsgIdAssumption
<1>2. /\ m \in Messages(Convs) /\ m.imsgid = 0 /\ m.conv = c /\ m.n_writ = 0 /\ m.n_read = 0
      /\ m.incomplete = NoPacket /\ m.read_queue = << >> /\ m.writ_queue = << >>
      /\ m.status = {"SPACE_AVAIL_FOR_READ", "SPACE_AVAIL_FOR_WRIT"}
  BY <1>1, NewFacts
<1>3. m.status \cup {"CONNECTED"} \in SUBSET Flags BY <1>2 DEF Flags
<1> HIDE DEF m
<1>4. /\ n \in Messages(Convs) /\ n.imsgid = 0 /\ n.conv = c /\ n.n_writ = 0 /\ n.n_read = 0
      /\ n.incomplete = NoPacket /\ n.read_queue = << >> /\ n.writ_queue = << >>
      /\ n.status = m.status \cup {"CONNECTED"}
  <2> DEFINE st == m.status \cup {"CONNECTED"}
  <2>1. st \in SUBSET Flags BY <1>3
  <2> HIDE DEF st
  <2>2. /\ Flagged(m, st) \in Messages(Convs) /\ Flagged(m, st).status = st
        /\ Flagged(m, st).imsgid = m.imsgid /\ Flagged(m, st).conv = m.conv
        /\ Flagged(m, st).n_writ = m.n_writ /\ Flagged(m, st).n_read = m.n_read
        /\ Flagged(m, st).incomplete = m.incomplete
        /\ Flagged(m, st).read_queue = m.read_queue
        /\ Flagged(m, st).writ_queue = m.writ_queue
    BY <1>2, <2>1, FlaggedType
  <2>3. n = Flagged(m, st) BY DEF st
  <2> HIDE DEF n
  <2> QED BY <1>2, <2>2, <2>3 DEF st
<1> HIDE DEF n
<1>5. /\ "DISCONNECTED" \notin n.status /\ "SENT_DISCONNECT" \notin n.status
      /\ "WAITING_FOR_RESP" \notin n.status /\ "NEED_TO_SEND_RESP" \notin n.status
  BY <1>2, <1>4
<1>6. \A j \in 1 .. Len(<< >>) : FALSE OBVIOUS
<1>7. Named(p, id, n, O) BY <1>4, <1>5, <1>6 DEF Named
<1>8. ~(Len(n.read_queue) > NBuff)
  <2>1. Len(<< >>) = 0 OBVIOUS
  <2> QED BY <1>4, <2>1, NBuffAssumption
<1> DEFINE W == Aspects(n)
<1>9. /\ "alive" \in W /\ "open" \in W /\ "unwritten" \in W /\ "unread" \in W
      /\ "gone" \notin W /\ "waits" \notin W /\ "needs" \notin W /\ "overrun" \notin W
  BY <1>4, <1>5, <1>8, AspectFacts
<1> HIDE DEF W
<1>10. IsBorn({}, W) BY <1>9 DEF IsBorn, Proper
<1> QED BY <1>4, <1>7, <1>10 DEF W, n, m

\* msg_open keeps the link.
LEMMA OpenLink ==
  ASSUME NEW w, NEW s, NEW ch, NEW Y, NEW mi, Joint(w, s, ch, Y, mi), Unfailed(s),
         NEW o \in Nat, o = w.O[w.p], NEW N, Grows(w.O, N), N[w.p] = o + 1, NEW id,
         id = msg_get_avail_msgid(s), NEW c, c = <<w.p, o + 1, id>>
  PROVE  LET t == msg_open(s, c)
         IN  Linked(w.p, t.msgs, ch \o t.pending_resps, w.q, w.B, Y, N, w.U, w.R, mi)
<1> DEFINE t == msg_open(s, c)
<1>1. /\ Loc(Convs, s) /\ s \in Switches(Convs) /\ ch \in Seq(Tokens) /\ w.p \in Ends
         /\ w.p \in w.U /\ w.p \in w.R
      /\ Linked(w.p, s.msgs, ch \o s.pending_resps, w.q, w.B, Y, w.O, w.U, w.R, mi)
      /\ s.msgs \in Slots
  BY LinkFacts DEF Joint
<1>2. Linked(w.p, s.msgs, ch \o s.pending_resps, w.q, w.B, Y, N, w.U, w.R, mi) BY <1>1, LinkGrow
<1>3. \/ id = -1
      \/ id \in MsgIds /\ s.msgs[id] = NoMsg
  BY <1>1, AvailFacts
<1>4. CASE id = -1
  <2> DEFINE F == "msgs[-1]"
  <2>1. F \in Failures /\ F # None BY DEF Failures, None
  <2>2. msg_create(s, c) = Fail(s, F) BY <1>4 DEF msg_create
  <2> HIDE DEF F
  <2>3. /\ Fail(s, F).msgs = s.msgs /\ Fail(s, F).pending_resps = s.pending_resps
        /\ Fail(s, F).failed # None
    BY <1>1, <2>1, FailType
  <2>4. t = Fail(s, F) BY <2>2, <2>3 DEF msg_open
  <2> QED BY <1>2, <2>3, <2>4
<1>5. CASE id \in MsgIds /\ s.msgs[id] = NoMsg
  <2> DEFINE m == NewFor(c, 0)
             n == Flagged(m, m.status \cup {"CONNECTED"})
  <2>1. c \in Convs /\ c[1] = w.p /\ c[2] = o + 1 /\ c[3] = id BY <1>1, <1>5 DEF Convs
  <2>2. c[2] <= N[w.p] BY <2>1
  <2>3. n \in Messages(Convs) /\ n.conv = c /\ Named(w.p, id, n, N) /\ IsBorn({}, Aspects(n))
    BY <1>1, <1>5, <2>1, <2>2, BornStep
  <2>4. Turns(Convs, s, t, id, n, s.pending_msgs, s.pending_resps) BY <1>1, <1>5, <2>1,
          OpenTurns
  <2> HIDE DEF n, t
  <2>5. Puts(s.msgs, t.msgs, id, n) /\ t.pending_resps = s.pending_resps BY <2>4 DEF Turns, Puts
  <2>6. Side(w.p, s.msgs, ch \o s.pending_resps, w.O) /\ Side(w.q, w.B, Y, w.O) BY <1>1
          DEF Linked
  <2> DEFINE X == ch \o s.pending_resps
  <2>7. View(s.msgs, c) = {} /\ ~Some(X, c)
    <3>1. Side(w.p, s.msgs, X, w.O) BY <2>6
    <3> HIDE DEF X
    <3> QED BY <2>1, <3>1, Unused
  <2>8. View(w.B, c) = {} /\ ~Some(Y, c) BY <2>1, <2>6, Unused
  <2>9. Linked(w.p, s.msgs, X, w.q, w.B, Y, N, w.U, w.R, mi) BY <1>2
  <2> HIDE DEF X
  <2>10. "alive" \notin View(s.msgs, n.conv) /\ n.conv[1] = w.p /\ View(w.B, n.conv) = {}
         /\ ~Some(X, n.conv) /\ ~Some(Y, n.conv)
    BY <2>1, <2>3, <2>7, <2>8
  <2>11. Linked(w.p, t.msgs, X, w.q, w.B, Y, N, w.U, w.R, mi)
    BY <1>1, <1>5, <2>3, <2>5, <2>9, <2>10, LinkBorn
  <2> QED BY <2>5, <2>11 DEF X, t
<1> QED BY <1>3, <1>4, <1>5

----------------------------------------------------------------------------
(* The inductive invariant. *)

\* The link as end e sees it: its switch, what it has sent, and the other
\* end's.
Sees(e, s, h, O, U, R, mi) ==
  Linked(e, s[e].msgs, h[e] \o s[e].pending_resps, Other(e), s[Other(e)].msgs,
         h[Other(e)] \o s[Other(e)].pending_resps, O, U, R, mi)

\* The ends that have a connection.
Ups == {e \in Ends : up[e]}

\* Those whose process also runs.
Runs == {e \in Ends : Running(e)}

\* What every step keeps: each end by itself, and what they know of each
\* other.
LinkInv ==
  /\ LocalInv
  /\ \A e \in Ends : Sees(e, sw, chan, opens, Ups, Runs, misled)
  /\ \A e \in Ends : ~up[e] => sw[e] = EmptySwitch

\* What one end sees, the other sees from its side.
LEMMA LinkSwap ==
  ASSUME NEW p \in Ends, NEW A, NEW X, NEW B, NEW Y, NEW O, NEW U, NEW R, NEW mi, NEW q,
         q = Other(p), Linked(p, A, X, q, B, Y, O, U, R, mi)
  PROVE  Linked(q, B, Y, p, A, X, O, U, R, mi)
<1>1. q \in Ends /\ q # p BY OtherFacts
<1>2. ASSUME NEW c \in Convs PROVE Facing(q, B, Y, A, X, U, R, mi, c)
  <2>1. Facing(p, A, X, B, Y, U, R, mi, c) BY DEF Linked
  <2>2. c[1] = p \/ c[1] = q BY ConvEnds
  <2> QED BY <1>1, <2>1, <2>2 DEF Facing
<1> QED BY <1>2 DEF Linked

\* One end's view is enough.
LEMMA SeesAll ==
  ASSUME NEW p \in Ends, NEW s, NEW h, NEW O, NEW U, NEW R, NEW mi, Sees(p, s, h, O, U, R, mi)
  PROVE  \A e \in Ends : Sees(e, s, h, O, U, R, mi)
<1> DEFINE q == Other(p)
<1>1. q \in Ends /\ q # p /\ \A e \in Ends : e = p \/ e = q BY OtherFacts
<1>2. Other(q) = p BY <1>1, OtherFacts
<1>3. Linked(p, s[p].msgs, h[p] \o s[p].pending_resps, q, s[q].msgs, h[q] \o s[q].pending_resps,
             O, U, R, mi)
  BY DEF Sees
<1> DEFINE A == s[p].msgs
           X == h[p] \o s[p].pending_resps
           B == s[q].msgs
           Y == h[q] \o s[q].pending_resps
<1>4. q = Other(p) /\ Linked(p, A, X, q, B, Y, O, U, R, mi) BY <1>3
<1> HIDE DEF q, A, X, B, Y
<1>5. Linked(q, B, Y, p, A, X, O, U, R, mi) BY <1>4, LinkSwap
<1>6. Sees(q, s, h, O, U, R, mi) BY <1>2, <1>5 DEF Sees, A, X, B, Y
<1> QED BY <1>1, <1>6

\* The link that a program's call, or a frame sent or read, works on.
World(p) == [p |-> p, q |-> Other(p), B |-> sw[Other(p)].msgs, O |-> opens, U |-> Ups,
             R |-> Runs]

\* What the invariant says of an end that runs.
LEMMA JointOf ==
  ASSUME LinkInv, NEW p \in Ends, Running(p)
  PROVE  /\ Joint(World(p), sw[p], chan[p], chan[Other(p)] \o sw[Other(p)].pending_resps,
                  misled)
         /\ Faces(World(p)) /\ Loc(Convs, sw[p]) /\ Unfailed(sw[p])
<1> DEFINE w == World(p)
           q == Other(p)
           Y == chan[q] \o sw[q].pending_resps
<1>1. w.p = p /\ w.q = q /\ w.B = sw[q].msgs /\ w.O = opens /\ w.U = Ups /\ w.R = Runs BY
        DEF World
<1>2. p \in Ups /\ p \in Runs BY DEF Ups, Runs, Running
<1>3. Loc(Convs, sw[p]) /\ sw[p] \in Switches(Convs) /\ chan[p] \in Seq(Tokens) BY DEF LinkInv,
        LocalInv, TypeInv
<1>4. Linked(p, sw[p].msgs, chan[p] \o sw[p].pending_resps, q, sw[q].msgs, Y, opens, Ups, Runs,
             misled)
  BY DEF LinkInv, Sees
<1>5. Unfailed(sw[p]) BY DEF Running, Unfailed
<1>6. Faces(w) BY <1>1 DEF Faces
<1> HIDE DEF w, q, Y
<1>7. Link(w, sw[p], chan[p], Y, misled) BY <1>1, <1>2, <1>3, <1>4 DEF Link
<1> QED BY <1>3, <1>5, <1>6, <1>7 DEF Joint, w, q, Y

\* One end's switch becomes t; the connection stays.
LEMMA StepInv ==
  ASSUME LinkInv, NEW p \in Ends, up[p], NEW t, Loc(Convs, t), sw' = [sw EXCEPT ![p] = t],
         up' = up, opens' \in [Ends -> Nat], chan' \in [Ends -> Seq(Tokens)],
         Linked(p, t.msgs, chan'[p] \o t.pending_resps, Other(p), sw[Other(p)].msgs,
                chan'[Other(p)] \o sw[Other(p)].pending_resps, opens', Ups, Runs', misled')
  PROVE  LinkInv'
<1>1. LocalInv'
  <2>1. LocalInv BY DEF LinkInv
  <2>2. up' \in [Ends -> BOOLEAN] BY <2>1 DEF LocalInv, TypeInv
  <2> QED BY <2>1, <2>2, LocalCall
<1>2. sw \in [Ends -> Switches(Convs)] BY DEF LinkInv, LocalInv, TypeInv
<1>3. Other(p) \in Ends /\ Other(p) # p BY OtherFacts
<1>4. sw'[p] = t /\ sw'[Other(p)] = sw[Other(p)] BY <1>2, <1>3
<1>5. Ups' = Ups BY DEF Ups
<1>6. Sees(p, sw', chan', opens', Ups', Runs', misled') BY <1>4, <1>5 DEF Sees
<1>7. \A e \in Ends : Sees(e, sw', chan', opens', Ups', Runs', misled')
  <2> DEFINE s == sw'
             h == chan'
             O == opens'
             U == Ups'
             R == Runs'
             mi == misled'
  <2>1. Sees(p, s, h, O, U, R, mi) BY <1>6
  <2> HIDE DEF s, h, O, U, R, mi
  <2>2. \A e \in Ends : Sees(e, s, h, O, U, R, mi) BY <2>1, SeesAll
  <2> QED BY <2>2 DEF s, h, O, U, R, mi
<1>8. ASSUME NEW e \in Ends, ~up'[e] PROVE sw'[e] = EmptySwitch
  <2>1. ~up[e] /\ e # p BY <1>8
  <2>2. sw[e] = EmptySwitch BY <2>1 DEF LinkInv
  <2> QED BY <1>2, <2>1, <2>2
<1> QED BY <1>1, <1>7, <1>8 DEF LinkInv

\* The ends that run, once the switch of p is t.
LEMMA RunsAfter ==
  ASSUME LinkInv, NEW p \in Ends, Running(p), NEW t, sw' = [sw EXCEPT ![p] = t], up' = up
  PROVE  Runs' \subseteq Runs /\ (~Unfailed(t) => p \notin Runs')
<1>1. sw \in [Ends -> Switches(Convs)] BY DEF LinkInv, LocalInv, TypeInv
<1>2. sw'[p] = t /\ \A e \in Ends : e # p => sw'[e] = sw[e] BY <1>1
<1>3. Runs' = {e \in Ends : up'[e] /\ sw'[e].failed = None} BY DEF Runs, Running
<1>4. Runs = {e \in Ends : up[e] /\ sw[e].failed = None} BY DEF Runs, Running
<1>5. p \in Runs BY DEF Runs
<1>6. ASSUME NEW e \in Runs' PROVE e \in Runs
  BY <1>2, <1>3, <1>4, <1>5
<1>7. ~Unfailed(t) => p \notin Runs' BY <1>2, <1>3 DEF Unfailed
<1> QED BY <1>6, <1>7

\* A step after which the link is kept, or the process of p ended, keeps the
\* invariant.
LEMMA TookInv ==
  ASSUME LinkInv, NEW p \in Ends, Running(p), NEW t, Loc(Convs, t), NEW ch, NEW T, NEW mo,
         Took(World(p), t, ch, T, mo), sw' = [sw EXCEPT ![p] = t], up' = up, opens' = opens,
         chan' \in [Ends -> Seq(Tokens)], chan'[p] = ch,
         chan'[Other(p)] \o sw[Other(p)].pending_resps = T, misled' = mo
  PROVE  LinkInv'
<1> DEFINE w == World(p)
           q == Other(p)
           P == Runs'
           A == t.msgs
           X == ch \o t.pending_resps
<1>1. w.p = p /\ w.q = q /\ w.B = sw[q].msgs /\ w.O = opens /\ w.U = Ups /\ w.R = Runs BY
        DEF World
<1>2. P \subseteq Runs /\ (~Unfailed(t) => p \notin P) BY RunsAfter
<1>3. \A Z : Z \subseteq w.R /\ (~Unfailed(t) => w.p \notin Z) =>
        Linked(w.p, A, X, w.q, w.B, T, w.O, w.U, Z, mo)
  BY DEF Took
<1> HIDE DEF w, P, A, X, q
<1>4. Linked(p, A, X, q, sw[q].msgs, T, opens, Ups, P, mo) BY <1>1, <1>2, <1>3
<1>5. up[p] BY DEF Running
<1>6. opens' \in [Ends -> Nat] BY DEF LinkInv, LocalInv, TypeInv
<1>7. Linked(p, t.msgs, chan'[p] \o t.pending_resps, Other(p), sw[Other(p)].msgs,
             chan'[Other(p)] \o sw[Other(p)].pending_resps, opens', Ups, Runs', misled')
  BY <1>4 DEF P, A, X, q
<1> QED BY <1>5, <1>6, <1>7, StepInv

\* A call that keeps the link keeps the invariant.
LEMMA CallInv ==
  ASSUME LinkInv, NEW p \in Ends, Running(p), NEW t,
         Joint(World(p), t, chan[p], chan[Other(p)] \o sw[Other(p)].pending_resps, misled),
         Call(p, t), opens' = opens
  PROVE  LinkInv'
<1> DEFINE Y == chan[Other(p)] \o sw[Other(p)].pending_resps
<1>1. sw' = [sw EXCEPT ![p] = t] /\ chan' = chan /\ up' = up /\ misled' = misled BY DEF Call
<1>2. Loc(Convs, t) BY DEF Joint
<1>3. chan' \in [Ends -> Seq(Tokens)] BY <1>1 DEF LinkInv, LocalInv, TypeInv
<1>4. chan'[Other(p)] \o sw[Other(p)].pending_resps = Y /\ chan'[p] = chan[p] BY <1>1
<1>5. Joint(World(p), t, chan[p], Y, misled) OBVIOUS
<1> HIDE DEF Y
<1>6. Took(World(p), t, chan[p], Y, misled) BY <1>5, JointTook
<1> QED BY <1>1, <1>2, <1>3, <1>4, <1>6, TookInv

----------------------------------------------------------------------------
(* Every step keeps it. *)

\* Opening a message keeps the invariant.
LEMMA OpenInv ==
  ASSUME LinkInv, NEW p \in Ends, Open(p)
  PROVE  LinkInv'
<1> DEFINE w == World(p)
           q == Other(p)
           Y == chan[q] \o sw[q].pending_resps
           o == opens[p]
           id == msg_get_avail_msgid(sw[p])
           c == <<p, o + 1, id>>
           t == msg_open(sw[p], c)
           N == opens'
<1>1. /\ Running(p) /\ N = [opens EXCEPT ![p] = @ + 1]
      /\ sw' = [sw EXCEPT ![p] = t] /\ chan' = chan /\ up' = up /\ misled' = misled
  BY DEF Open, Call
<1>2. opens \in [Ends -> Nat] /\ chan \in [Ends -> Seq(Tokens)] BY DEF LinkInv, LocalInv,
        TypeInv
<1>3. o \in Nat /\ N \in [Ends -> Nat] /\ N[p] = o + 1 /\ Grows(opens, N) BY <1>1, <1>2
        DEF Grows
<1>4. Joint(w, sw[p], chan[p], Y, misled) /\ Loc(Convs, sw[p]) /\ Unfailed(sw[p]) BY <1>1,
        JointOf
<1>5. w.p = p /\ w.q = q /\ w.B = sw[q].msgs /\ w.O = opens /\ w.U = Ups /\ w.R = Runs BY
        DEF World
<1>6. Loc(Convs, t)
  <2>1. id \in MsgIds => c \in Convs BY <1>3 DEF Convs
  <2> QED BY <1>4, <2>1, OpenLoc
<1>7. Runs' \subseteq Runs BY <1>1, RunsAfter
<1>8. Linked(p, t.msgs, chan[p] \o t.pending_resps, q, sw[q].msgs, Y, N, Ups, Runs, misled)
  <2>1. o = w.O[w.p] /\ Grows(w.O, N) /\ N[w.p] = o + 1 /\ c = <<w.p, o + 1, id>>
          /\ id = msg_get_avail_msgid(sw[p])
    BY <1>3, <1>5
  <2> HIDE DEF w, Y, o, id, c, N
  <2>2. Linked(w.p, t.msgs, chan[p] \o t.pending_resps, w.q, w.B, Y, N, w.U, w.R, misled)
    BY <1>3, <1>4, <2>1, OpenLink
  <2> QED BY <1>5, <2>2
<1>9. up[p] BY <1>1 DEF Running
<1> HIDE DEF t
<1>10. Linked(p, t.msgs, chan'[p] \o t.pending_resps, Other(p), sw[Other(p)].msgs,
              chan'[Other(p)] \o sw[Other(p)].pending_resps, opens', Ups, Runs', misled')
  <2> DEFINE A == t.msgs
             X == chan[p] \o t.pending_resps
             P == Runs'
  <2>1. Linked(p, A, X, q, sw[q].msgs, Y, N, Ups, Runs, misled) BY <1>8
  <2> HIDE DEF A, X, Y, N, q, P
  <2>2. P \subseteq Runs BY <1>7 DEF P
  <2>3. Linked(p, A, X, q, sw[q].msgs, Y, N, Ups, P, misled) BY <2>1, <2>2, LinkMono
  <2> QED BY <1>1, <2>3 DEF A, X, Y, N, q, P
<1> QED BY <1>1, <1>2, <1>3, <1>6, <1>9, <1>10, StepInv

\* The program's other calls keep it; flushing, where it does not come late.
LEMMA ProgramInv ==
  ASSUME LinkInv, NEW p \in Ends, NEW id \in MsgIds
  PROVE  /\ Accept(p, id) => LinkInv'
         /\ \A k \in 0 .. MaxBurst : Write(p, id, k) => LinkInv'
         /\ ~LateFlush /\ Flush(p, id) => LinkInv'
         /\ \A k \in 1 .. NBuff : Read(p, id, k) => LinkInv'
         /\ Close(p, id) => LinkInv'
<1> DEFINE w == World(p)
           s == sw[p]
           ch == chan[p]
           Y == chan[Other(p)] \o sw[Other(p)].pending_resps
           m == s.msgs[id]
<1>1. Running(p) => Joint(w, s, ch, Y, misled) /\ Loc(Convs, s) BY JointOf
<1>2. Holds(p, id) => Running(p) /\ Exists(s, id) /\ "CLOSED" \notin m.status BY DEF Holds, Has
<1>3. ASSUME NEW t, Running(p), Joint(w, t, ch, Y, misled), Call(p, t), UNCHANGED opens
        PROVE LinkInv'
  BY <1>3, CallInv
<1> HIDE DEF w, Y
<1>4. ASSUME Accept(p, id) PROVE LinkInv'
  <2>1. Running(p) /\ Exists(s, id) /\ Call(p, msg_accept(s, id)) /\ UNCHANGED opens BY <1>4
          DEF Accept
  <2>2. Joint(w, msg_accept(s, id), ch, Y, misled) BY <1>1, <2>1, AcceptLink
  <2> QED BY <1>3, <2>1, <2>2
<1>5. ASSUME NEW k \in 0 .. MaxBurst, Write(p, id, k) PROVE LinkInv'
  <2>1. Holds(p, id) /\ "DISCONNECTED" \notin m.status /\ Call(p, msg_write(s, id, k))
          /\ UNCHANGED opens
    BY <1>5 DEF Write, Has
  <2>2. k \in Nat BY BoundsAssumption
  <2>3. m \in Messages(Convs) /\ Sound(m) BY <1>1, <1>2, <2>1, LocAt
  <2>4. Usable(s, id) BY <1>2, <2>1, <2>3 DEF Usable, Sound
  <2>5. Joint(w, msg_write(s, id, k), ch, Y, misled) BY <1>1, <1>2, <2>1, <2>2, <2>4, WriteLink
  <2> QED BY <1>2, <1>3, <2>1, <2>5
<1>6. ASSUME ~LateFlush, Flush(p, id) PROVE LinkInv'
  <2>1. Holds(p, id) /\ "DISCONNECTED" \notin m.status /\ Call(p, msg_flush(s, id))
          /\ UNCHANGED opens
    BY <1>6 DEF Flush, Has
  <2>2. Writable(m) BY <1>1, <1>2, <2>1, HoldsWritable DEF Has
  <2>3. ~Apart(m) BY <2>1 DEF Apart
  <2>4. Joint(w, msg_flush(s, id), ch, Y, misled) BY <1>1, <1>2, <2>1, <2>2, <2>3, FlushLink
  <2> QED BY <1>2, <1>3, <2>1, <2>4
<1>7. ASSUME NEW k \in 1 .. NBuff, Read(p, id, k) PROVE LinkInv'
  <2>1. Holds(p, id) /\ Call(p, msg_read(s, id, k)) /\ UNCHANGED opens BY <1>7 DEF Read
  <2>2. k \in Nat BY NBuffAssumption
  <2>3. Joint(w, msg_read(s, id, k), ch, Y, misled) BY <1>1, <1>2, <2>1, <2>2, ReadLink
  <2> QED BY <1>2, <1>3, <2>1, <2>3
<1>8. ASSUME Close(p, id) PROVE LinkInv'
  <2>1. Holds(p, id) /\ Call(p, msg_close(s, id)) /\ UNCHANGED opens BY <1>8 DEF Close
  <2>2. Joint(w, msg_close(s, id), ch, Y, misled) BY <1>1, <1>2, <2>1, CloseLink
  <2> QED BY <1>2, <1>3, <2>1, <2>2
<1> QED BY <1>4, <1>5, <1>6, <1>7, <1>8

\* Sending a frame keeps it.
LEMMA SwitchWriteInv ==
  ASSUME LinkInv, NEW p \in Ends, SwitchWrite(p)
  PROVE  LinkInv'
<1> DEFINE w == World(p)
           s == sw[p]
           q == Other(p)
           Y == chan[q] \o sw[q].pending_resps
           t == msg_switch_write(s)
           x == NextToken(s)
           ch == IF WriteFails(s) THEN chan[p] ELSE Append(chan[p], x)
<1>1. /\ Running(p) /\ HasAvailWrits(s) /\ sw' = [sw EXCEPT ![p] = t]
      /\ chan' = IF WriteFails(s) THEN chan ELSE [chan EXCEPT ![p] = Append(@, x)]
      /\ up' = up /\ opens' = opens /\ misled' = misled
  BY DEF SwitchWrite
<1>2. chan \in [Ends -> Seq(Tokens)] BY DEF LinkInv, LocalInv, TypeInv
<1>3. Joint(w, s, chan[p], Y, misled) /\ Loc(Convs, s) BY <1>1, JointOf
<1>4. q \in Ends /\ q # p BY OtherFacts
<1>5. Joint(w, t, ch, Y, misled)
  <2> HIDE DEF w, Y
  <2> QED BY <1>1, <1>3, SwitchWriteLink
<1>6. ~WriteFails(s) => x \in Tokens BY <1>1, <1>3, NextTokenType DEF Tokens
<1> HIDE DEF t, x
<1>7. chan' \in [Ends -> Seq(Tokens)] BY <1>1, <1>2, <1>6, ChanAppend
<1>8. chan'[p] = ch /\ chan'[q] = chan[q] BY <1>1, <1>2, <1>4
<1> HIDE DEF ch
<1>9. chan'[q] \o sw[q].pending_resps = Y BY <1>8
<1> HIDE DEF Y
<1>10. Took(w, t, ch, Y, misled) BY <1>5, JointTook
<1>11. Loc(Convs, t) BY <1>5 DEF Joint
<1> QED BY <1>1, <1>7, <1>8, <1>9, <1>10, <1>11, TookInv

\* Reading a frame keeps it.
LEMMA SwitchReadInv ==
  ASSUME LinkInv, NEW p \in Ends, SwitchRead(p)
  PROVE  LinkInv'
<1> DEFINE w == World(p)
           s == sw[p]
           q == Other(p)
           r == sw[q].pending_resps
           h == chan[q]
           Y == h \o r
           x == Head(h)
           g == msg_get(s, x.id)
           t == msg_switch_read(s, x)
           mo == misled'
<1>1. /\ Running(p) /\ h # << >> /\ sw' = [sw EXCEPT ![p] = t]
      /\ chan' = [chan EXCEPT ![q] = Tail(@)]
      /\ up' = up /\ opens' = opens
      /\ mo = IF x.kind = "RESP" /\ x.what = "OK" /\ g # 0 /\ s.msgs[g].conv # x.conv
              THEN misled \cup {s.msgs[g].conv} ELSE misled
  BY DEF SwitchRead
<1>2. chan \in [Ends -> Seq(Tokens)] /\ sw \in [Ends -> Switches(Convs)] BY DEF LinkInv,
        LocalInv, TypeInv
<1>3. q \in Ends /\ q # p BY OtherFacts
<1>4. Joint(w, s, chan[p], Y, misled) /\ Loc(Convs, s) /\ Faces(w) BY <1>1, JointOf
<1>5. Misleads(s, x, misled, mo) BY <1>1 DEF Misleads
<1>6. h \in Seq(Tokens) BY <1>2, <1>3
<1>7. r \in Seq(Tokens)
  <2>1. r \in Seq(Resps(Convs)) BY <1>2, <1>3 DEF Switches
  <2> QED BY <2>1, RespsAreTokens
<1>8. x \in Tokens BY <1>1, <1>6
<1>9. Loc(Convs, t) BY <1>4, <1>8, SwitchReadLoc DEF Tokens
<1>10. chan' \in [Ends -> Seq(Tokens)] BY <1>1, <1>2, <1>3, ChanTail
<1>11. chan'[p] = chan[p] /\ chan'[q] = Tail(h) BY <1>1, <1>2, <1>3
<1>12. Y # << >> /\ Head(Y) = x /\ Tail(Y) = Tail(h) \o r
  <2> HIDE DEF h, r
  <2> QED BY <1>1, <1>6, <1>7, JoinFacts
<1> DEFINE T == Tail(Y)
<1>13. chan'[q] \o sw[q].pending_resps = T BY <1>11, <1>12
<1> HIDE DEF w, Y, x, mo
<1>14. Took(w, t, chan[p], Tail(Y), mo) BY <1>4, <1>5, <1>12, SwitchReadLink
<1>15. Took(w, t, chan[p], T, mo) BY <1>14
<1> HIDE DEF T, t
<1> QED BY <1>1, <1>9, <1>10, <1>11, <1>13, <1>15, TookInv DEF w, mo

----------------------------------------------------------------------------
(* Connections begin and end. *)

\* Nothing is left of an earlier connection.
LEMMA EmptyLinked ==
  ASSUME NEW p, NEW q, NEW O, NEW U, NEW R, NEW mi, NEW A, A = EmptySwitch.msgs, NEW X,
         X = << >>
  PROVE  Linked(p, A, X, q, A, X, O, U, R, mi)
<1>1. EmptySwitch \in Switches(Convs) /\ \A i \in MsgIds : A[i] = NoMsg BY EmptyFacts
<1>2. A \in Slots BY <1>1 DEF Switches, Slots
<1>3. Unique(A) /\ \A c : View(A, c) = {} BY <1>1, ViewEmpty
<1>4. X \in Seq(Tokens) /\ \A i \in 1 .. Len(X) : FALSE OBVIOUS
<1>5. Side(p, A, X, O) /\ Side(q, A, X, O) BY <1>1, <1>2, <1>3, <1>4 DEF Side
<1>6. ASSUME NEW c \in Convs PROVE Facing(p, A, X, A, X, U, R, mi, c)
  <2>1. Pair(c, {}, X, {}, X, U, R, mi) BY PairEmpty
  <2>2. View(A, c) = {} BY <1>3
  <2> QED BY <2>1, <2>2 DEF Facing
<1> QED BY <1>5, <1>6 DEF Linked

\* The same, of both ends.
LEMMA EmptySees ==
  ASSUME NEW e \in Ends, NEW s, NEW h, \A a \in Ends : s[a] = EmptySwitch /\ h[a] = << >>,
         NEW O, NEW U, NEW R, NEW mi
  PROVE  Sees(e, s, h, O, U, R, mi)
<1>1. Other(e) \in Ends BY OtherFacts
<1>2. EmptySwitch.pending_resps = << >> BY EmptyFacts
<1>3. << >> \o << >> = << >> OBVIOUS
<1> DEFINE A == EmptySwitch.msgs
           X == << >>
<1>4. Linked(e, A, X, Other(e), A, X, O, U, R, mi) BY EmptyLinked
<1>5. s[e].msgs = A /\ s[Other(e)].msgs = A BY <1>1
<1>6. h[e] \o s[e].pending_resps = X /\ h[Other(e)] \o s[Other(e)].pending_resps = X BY <1>1,
        <1>2, <1>3
<1> HIDE DEF A, X
<1> QED BY <1>4, <1>5, <1>6 DEF Sees

\* The invariant holds at first.
LEMMA LinkInit == Init => LinkInv
<1> SUFFICES ASSUME Init PROVE LinkInv OBVIOUS
<1>1. LocalInv BY LocalInit
<1>2. \A a \in Ends : sw[a] = EmptySwitch /\ chan[a] = << >> BY DEF Init
<1>3. \A e \in Ends : Sees(e, sw, chan, opens, Ups, Runs, misled) BY <1>2, EmptySees
<1> QED BY <1>1, <1>2, <1>3 DEF LinkInv

\* A new connection keeps it.
LEMMA ConnectInv ==
  ASSUME LinkInv, Connect
  PROVE  LinkInv'
<1>1. /\ \A e \in Ends : ~up[e]
      /\ up' = [e \in Ends |-> TRUE] /\ chan' = [e \in Ends |-> << >>] /\ sw' = sw
         /\ opens' = opens
  BY DEF Connect
<1>2. \A e \in Ends : sw'[e] = EmptySwitch BY <1>1 DEF LinkInv
<1>3. LocalInv'
  <2>1. chan' \in [Ends -> Seq(Tokens)] /\ up' \in [Ends -> BOOLEAN] BY <1>1
  <2> QED BY <1>1, <2>1 DEF LinkInv, LocalInv, TypeInv
<1>4. \A a \in Ends : sw'[a] = EmptySwitch /\ chan'[a] = << >> BY <1>1, <1>2
<1>5. \A e \in Ends : Sees(e, sw', chan', opens', Ups', Runs', misled') BY <1>4, EmptySees
<1>6. \A e \in Ends : up'[e] BY <1>1
<1> QED BY <1>3, <1>5, <1>6 DEF LinkInv

\* The two pieces of a sequence.
LEMMA JoinParts ==
  ASSUME NEW a \in Seq(Tokens), NEW r \in Seq(Tokens)
  PROVE  a \o r \in Seq(Tokens) /\ Part(a, a \o r, 0) /\ Part(r, a \o r, Len(a))
      /\ Len(a) \in Nat
<1>1. /\ a \o r \in Seq(Tokens) /\ Len(a \o r) = Len(a) + Len(r) /\ Len(a) \in Nat
         /\ Len(r) \in Nat
      /\ \A i \in 1 .. Len(a \o r) : (a \o r)[i] = IF i <= Len(a) THEN a[i] ELSE r[i - Len(a)]
  OBVIOUS
<1> DEFINE j == a \o r
           l == Len(a)
           k == Len(r)
<1>2. /\ Len(j) = l + k /\ l \in Nat /\ k \in Nat
      /\ \A i \in 1 .. Len(j) : j[i] = IF i <= l THEN a[i] ELSE r[i - l]
  BY <1>1
<1> HIDE DEF j, l, k
<1>3. \A i \in 1 .. l : a[i] = j[i + 0] BY <1>2
<1>4. \A i \in 1 .. k : r[i] = j[i + l]
  <2> TAKE i \in 1 .. k
  <2>1. i + l \in 1 .. Len(j) /\ ~(i + l <= l) /\ (i + l) - l = i BY <1>2
  <2> QED BY <1>2, <2>1
<1>5. l + 0 <= Len(j) /\ k + l <= Len(j) BY <1>2
<1> QED BY <1>1, <1>3, <1>4, <1>5 DEF Part, j, l, k

\* The connection of p ends: its messages, its responses and what it had not
\* read.
LEMMA LinkDrop ==
  ASSUME NEW p \in Ends, NEW A, NEW X, NEW q, q = Other(p), NEW B, NEW Y, NEW O, NEW U, NEW R,
         NEW mi, Linked(p, A, X, q, B, Y, O, U, R, mi), NEW E, E = EmptySwitch.msgs,
         NEW S \in Seq(Tokens), Part(S, X, 0), NEW T \in Seq(Tokens), NEW o \in Nat,
         Part(T, Y, o), NEW Q, NEW P, Q \subseteq U, P \subseteq R, p \notin Q, p \notin P
  PROVE  Linked(p, E, S, q, B, T, O, Q, P, mi)
<1>1. Side(p, A, X, O) /\ Side(q, B, Y, O) /\ \A c \in Convs :
        Facing(p, A, X, B, Y, U, R, mi, c) BY DEF Linked
<1>2. X \in Seq(Tokens) /\ Y \in Seq(Tokens) BY <1>1 DEF Side
<1>3. EmptySwitch \in Switches(Convs) /\ \A i \in MsgIds : E[i] = NoMsg BY EmptyFacts
<1>4. E \in Slots BY <1>3 DEF Switches, Slots
<1>5. Unique(E) /\ \A c : View(E, c) = {} BY <1>3, ViewEmpty
<1>6. Side(p, E, S, O)
  <2>1. Side(p, A, S, O) BY <1>1, SidePart
  <2> QED BY <1>3, <1>4, <1>5, <2>1 DEF Side
<1>7. Side(q, B, T, O) BY <1>1, SidePart
<1>8. ASSUME NEW c \in Convs PROVE Facing(p, E, S, B, T, Q, P, mi, c)
  <2>1. Facing(p, A, X, B, Y, U, R, mi, c) BY <1>1
  <2>2. Shortens(X, S, c) /\ (Ahead(X, c) => Ahead(S, c)) BY <1>2, PartShortens
  <2>3. Shortens(Y, T, c) BY <1>2, PartShortens
  <2>4. View(E, c) = {} BY <1>5
  <2>5. CASE c[1] = p
    <3>1. Pair(c, View(A, c), X, View(B, c), Y, U, R, mi) BY <2>1, <2>5 DEF Facing
    <3>2. c[1] \notin Q /\ c[1] \notin P /\ (Other(c[1]) \in P => Other(c[1]) \in R) BY <2>5
    <3>3. Pair(c, {}, S, View(B, c), T, Q, P, mi) BY <2>2, <2>3, <3>1, <3>2, DropA
    <3> QED BY <2>4, <2>5, <3>3 DEF Facing
  <2>6. CASE c[1] # p
    <3>1. Pair(c, View(B, c), Y, View(A, c), X, U, R, mi) BY <2>1, <2>6 DEF Facing
    <3>2. Other(c[1]) \notin P /\ (c[1] \in Q => c[1] \in U) BY <2>6, ConvEnds
    <3>3. Pair(c, View(B, c), T, {}, S, Q, P, mi) BY <2>2, <2>3, <3>1, <3>2, DropB
    <3> QED BY <2>4, <2>6, <3>3 DEF Facing
  <2> QED BY <2>5, <2>6
<1> QED BY <1>6, <1>7, <1>8 DEF Linked

\* The end of a connection keeps the invariant.
LEMMA DropInv ==
  ASSUME LinkInv, NEW p \in Ends, Drop(p)
  PROVE  LinkInv'
<1> DEFINE q == Other(p)
           r == sw[p].pending_resps
           b == sw[q].pending_resps
           Q == Ups'
           P == Runs'
           E == EmptySwitch.msgs
<1>1. /\ up[p] /\ sw' = [sw EXCEPT ![p] = EmptySwitch] /\ chan' = [chan EXCEPT ![q] = << >>]
      /\ up' = [up EXCEPT ![p] = FALSE] /\ opens' = opens /\ misled' = misled
  BY DEF Drop
<1>2. /\ chan \in [Ends -> Seq(Tokens)] /\ sw \in [Ends -> Switches(Convs)]
      /\ up \in [Ends -> BOOLEAN]
  BY DEF LinkInv, LocalInv, TypeInv
<1>3. q \in Ends /\ q # p /\ \A e \in Ends : e = p \/ e = q BY OtherFacts
<1>4. LocalInv' BY LocalDrop DEF LinkInv
<1>5. /\ sw'[p] = EmptySwitch /\ sw'[q] = sw[q] /\ chan'[p] = chan[p] /\ chan'[q] = << >>
      /\ up'[p] = FALSE /\ up'[q] = up[q]
  BY <1>1, <1>2, <1>3
<1>6. Q \subseteq Ups /\ p \notin Q BY <1>3, <1>5 DEF Ups
<1>7. P \subseteq Runs /\ p \notin P BY <1>3, <1>5 DEF Runs, Running
<1>8. r \in Seq(Tokens) /\ b \in Seq(Tokens) /\ chan[p] \in Seq(Tokens)
        /\ chan[q] \in Seq(Tokens)
  <2>1. r \in Seq(Resps(Convs)) /\ b \in Seq(Resps(Convs)) BY <1>2, <1>3 DEF Switches
  <2> QED BY <1>2, <1>3, <2>1, RespsAreTokens
<1>9. Linked(p, sw[p].msgs, chan[p] \o r, q, sw[q].msgs, chan[q] \o b, opens, Ups, Runs, misled)
  BY DEF LinkInv, Sees
<1>10. Linked(p, E, chan[p], q, sw[q].msgs, b, opens, Q, P, misled)
  <2> DEFINE X == chan[p] \o r
             Y == chan[q] \o b
             S == chan[p]
             o == Len(chan[q])
             A == sw[p].msgs
             B == sw[q].msgs
  <2>1. Part(S, X, 0) /\ Part(b, Y, o) /\ o \in Nat BY <1>8, JoinParts
  <2>2. S \in Seq(Tokens) /\ Linked(p, A, X, q, B, Y, opens, Ups, Runs, misled) BY <1>8, <1>9
  <2>3. E = EmptySwitch.msgs /\ q = Other(p) OBVIOUS
  <2> HIDE DEF X, Y, S, o, A, B, E, q, b, Q, P
  <2>4. Linked(p, E, S, q, B, b, opens, Q, P, misled)
    BY <1>6, <1>7, <1>8, <2>1, <2>2, <2>3, LinkDrop
  <2> QED BY <2>4 DEF S, B
<1>11. EmptySwitch.pending_resps = << >> BY EmptyFacts
<1>12. chan[p] \o << >> = chan[p] /\ << >> \o b = b
  <2> HIDE DEF b
  <2> QED BY <1>8
<1>13. Sees(p, sw', chan', opens', Q, P, misled')
  <2> HIDE DEF Q, P
  <2> QED BY <1>1, <1>5, <1>10, <1>11, <1>12 DEF Sees
<1>14. \A e \in Ends : Sees(e, sw', chan', opens', Q, P, misled')
  <2> DEFINE s == sw'
             h == chan'
             O == opens'
             mi == misled'
  <2>1. Sees(p, s, h, O, Q, P, mi) BY <1>13
  <2> HIDE DEF s, h, O, mi, Q, P
  <2>2. \A e \in Ends : Sees(e, s, h, O, Q, P, mi) BY <2>1, SeesAll
  <2> QED BY <2>2 DEF s, h, O, mi
<1>15. ASSUME NEW e \in Ends, ~up'[e] PROVE sw'[e] = EmptySwitch
  <2>1. CASE e = p BY <1>5, <2>1
  <2>2. CASE e = q BY <1>5, <1>15, <2>2 DEF LinkInv
  <2> QED BY <1>3, <2>1, <2>2
<1> QED BY <1>4, <1>14, <1>15 DEF LinkInv

\* Every step keeps it.
LEMMA LinkNext ==
  ASSUME ~LateFlush
  PROVE  LinkInv /\ [Next]_vars => LinkInv'
<1> SUFFICES ASSUME LinkInv, [Next]_vars PROVE LinkInv' OBVIOUS
<1>1. CASE UNCHANGED vars
  <2>1. LocalInv' BY <1>1, LocalNext DEF LinkInv
  <2>2. /\ sw' = sw /\ chan' = chan /\ up' = up /\ opens' = opens /\ misled' = misled BY <1>1
           DEF vars
  <2>3. Ups' = Ups /\ Runs' = Runs BY <2>2 DEF Ups, Runs, Running
  <2> QED BY <2>1, <2>2, <2>3 DEF LinkInv
<1>2. CASE Next
  <2>1. CASE Connect BY <2>1, ConnectInv
  <2>2. ASSUME NEW p \in Ends, System(p) PROVE LinkInv'
    <3>1. Eof(p) => Drop(p) BY DEF Eof
    <3> QED BY <2>2, <3>1, SwitchWriteInv, SwitchReadInv, DropInv, ProgramInv DEF System
  <2>3. ASSUME NEW p \in Ends, Program(p) PROVE LinkInv'
    BY <2>3, OpenInv, ProgramInv DEF Program
  <2>4. ASSUME NEW p \in Ends, Break(p) PROVE LinkInv'
    <3>1. Drop(p) BY <2>4 DEF Break
    <3> QED BY <3>1, DropInv
  <2> QED BY <1>2, <2>1, <2>2, <2>3, <2>4 DEF Next
<1> QED BY <1>1, <1>2

\* The two ends agree on what they know of each other, in whatever order
\* messages are opened, written, closed and disconnected, msgids used again,
\* frames crossed, and connections and processes lost.
THEOREM LinkInvariant ==
  ASSUME ~LateFlush
  PROVE  Spec => []LinkInv
<1>1. LinkInv /\ [Next]_vars => LinkInv' BY LinkNext
<1> QED BY <1>1, LinkInit, PTL DEF Spec

\* A packet or DISCON that is delivered to a message is of that message,
\* although msgids are used again while frames of their earlier message are
\* underway: what msg_get finds is never a later message of the same id.
THEOREM AddressedInvariant ==
  ASSUME ~LateFlush
  PROVE  Spec => []Addressed
<1>1. LinkInv => Addressed
  <2> SUFFICES ASSUME LinkInv, NEW q \in Ends,
                      LET p == Other(q)
                          t == Head(chan[q])
                      IN  chan[q] # << >> /\ (t.kind = "PACK" \/ t.what = "DISCON")
                          /\ msg_get(sw[p], t.id) # 0
               PROVE  Msg(Other(q), msg_get(sw[Other(q)],
                                            Head(chan[q]).id)).conv = Head(chan[q]).conv
    BY DEF Addressed
  <2> DEFINE p == Other(q)
             s == sw[p]
             h == chan[q]
             r == sw[q].pending_resps
             Y == h \o r
             x == Head(h)
             w == World(p)
             g == msg_get(s, x.id)
  <2>1. p \in Ends /\ p # q BY OtherFacts
  <2>2. Other(p) = q BY <2>1, OtherFacts
  <2>3. /\ chan \in [Ends -> Seq(Tokens)] /\ sw \in [Ends -> Switches(Convs)]
        /\ Loc(Convs, s)
    BY <2>1 DEF LinkInv, LocalInv, TypeInv
  <2>4. h \in Seq(Tokens) /\ r \in Seq(Tokens)
    <3>1. r \in Seq(Resps(Convs)) BY <2>3 DEF Switches
    <3> QED BY <2>3, <3>1, RespsAreTokens
  <2>5. h # << >> /\ (x.kind = "PACK" \/ x.what = "DISCON") /\ g # 0 OBVIOUS
  <2>6. Y # << >> /\ Head(Y) = x /\ x \in Tokens
    <3> HIDE DEF h, r
    <3> QED BY <2>4, <2>5, JoinFacts DEF x
  <2>7. Kind(x) # "OK" BY <2>5, <2>6, FrameKinds DEF Kind
  <2>8. up[p]
    <3>1. SUFFICES ASSUME ~up[p] PROVE FALSE OBVIOUS
    <3>2. s = EmptySwitch BY <2>1, <3>1 DEF LinkInv
    <3>3. x.id \in WireIds BY <2>6 DEF Tokens, Packets, Resps
    <3>4. Exists(s, g) /\ g \in MsgIds BY <2>3, <2>5, <3>3, GetFacts
    <3> QED BY <3>2, <3>4, EmptyFacts DEF Exists
  <2>9. w.p = p /\ w.q = q /\ w.B = sw[q].msgs /\ w.O = opens /\ w.U = Ups /\ w.R = Runs BY <2>2
          DEF World
  <2>10. Meets(w, s, chan[p], Y, misled) /\ Faces(w)
    <3>1. Linked(p, s.msgs, chan[p] \o s.pending_resps, q, sw[q].msgs, Y, opens, Ups, Runs,
                 misled)
      BY <2>1, <2>2 DEF LinkInv, Sees
    <3>2. p \in Ups BY <2>1, <2>8 DEF Ups
    <3>3. chan[p] \in Seq(Tokens) BY <2>1, <2>3
    <3> HIDE DEF w, s, Y
    <3> QED BY <2>1, <2>2, <2>3, <2>9, <3>1, <3>2, <3>3 DEF Meets, Faces
  <2> HIDE DEF w, Y, x
  <2>11. s.msgs[g].conv = x.conv BY <2>5, <2>6, <2>7, <2>10, Resolves
  <2> QED BY <2>11 DEF Msg, x
<1> QED BY <1>1, LinkInvariant, PTL

----------------------------------------------------------------------------
(* What follows from it. *)

\* What the invariant says of one message.
LEMMA PairAt ==
  ASSUME LinkInv, NEW p \in Ends, NEW id \in Live(p)
  PROVE  LET m == Msg(p, id)
             c == m.conv
             q == Other(p)
         IN  /\ m \in Messages(Convs) /\ Sound(m) /\ c \in Convs
                /\ View(sw[p].msgs, c) = Aspects(m)
             /\ Facing(p, sw[p].msgs, chan[p] \o sw[p].pending_resps, sw[q].msgs,
                       chan[q] \o sw[q].pending_resps,
                       Ups, Runs, misled, c)
<1> DEFINE m == Msg(p, id)
           c == m.conv
           q == Other(p)
<1>1. id \in MsgIds /\ Exists(sw[p], id) BY DEF Live
<1>2. Loc(Convs, sw[p]) BY DEF LinkInv, LocalInv
<1>3. m \in Messages(Convs) /\ Sound(m) BY <1>1, <1>2, LocAt DEF Msg
<1>4. c \in Convs BY <1>3, MessageFacts
<1>5. Linked(p, sw[p].msgs, chan[p] \o sw[p].pending_resps, q, sw[q].msgs,
             chan[q] \o sw[q].pending_resps,
             opens, Ups, Runs, misled)
  BY DEF LinkInv, Sees
<1>6. Unique(sw[p].msgs) BY <1>5 DEF Linked, Side
<1>7. View(sw[p].msgs, c) = Aspects(m) BY <1>1, <1>6, ViewOf DEF Exists, Msg
<1> QED BY <1>3, <1>4, <1>5, <1>7 DEF Linked

\* No message is sent more packets than its read buffer takes, unless it
\* took the acknowledgement of another one: the receiver acknowledges a
\* packet only when it has space for one more, and the sender waits.
THEOREM FlowControlInvariant ==
  ASSUME ~LateFlush
  PROVE  Spec => []FlowControl
<1>1. LinkInv => FlowControl
  <2> SUFFICES ASSUME LinkInv, NEW p \in Ends, NEW id \in Live(p), Msg(p, id).conv \notin misled
               PROVE  Len(Msg(p, id).read_queue) <= NBuff
    BY DEF FlowControl
  <2> DEFINE m == Msg(p, id)
             c == m.conv
             q == Other(p)
  <2>1. /\ m \in Messages(Convs) /\ View(sw[p].msgs, c) = Aspects(m)
        /\ Facing(p, sw[p].msgs, chan[p] \o sw[p].pending_resps, sw[q].msgs,
                  chan[q] \o sw[q].pending_resps,
                  Ups, Runs, misled, c)
    BY PairAt
  <2>2. "overrun" \notin Aspects(m) BY <2>1 DEF Facing, Pair, Calm
  <2>3. ~(Len(m.read_queue) > NBuff) BY <2>2, AspectFacts
  <2>4. Len(m.read_queue) \in Nat
    <3>1. m.read_queue \in Seq(Nat) BY <2>1, MessageFacts
    <3> QED BY <3>1
  <2> QED BY <2>3, <2>4, NBuffAssumption
<1> QED BY <1>1, LinkInvariant, PTL

\* Counting what there is at most one of.
LEMMA CountSingle ==
  ASSUME NEW a \in Seq(Tokens), NEW k, NEW c, Single(a, k, c)
  PROVE  Cardinality({i \in DOMAIN a : Of(a[i], k, c)}) = IF Sent(a, k, c) THEN 1 ELSE 0
<1> DEFINE D == {i \in DOMAIN a : Of(a[i], k, c)}
<1>1. DOMAIN a = 1 .. Len(a) OBVIOUS
<1>2. CASE Sent(a, k, c)
  <2>1. PICK i \in 1 .. Len(a) : Of(a[i], k, c) BY <1>2 DEF Sent
  <2>2. D = {i} BY <1>1, <2>1 DEF Single
  <2> QED BY <1>2, <2>2, FS_Singleton
<1>3. CASE ~Sent(a, k, c)
  <2>1. D = {} BY <1>1, <1>3 DEF Sent
  <2> QED BY <1>3, <2>1, FS_EmptySet
<1> QED BY <1>2, <1>3

\* Where in a concatenation.
LEMMA JoinSent ==
  ASSUME NEW a \in Seq(Tokens), NEW r \in Seq(Tokens), NEW k, NEW c
  PROVE  /\ Sent(a \o r, k, c) <=> Sent(a, k, c) \/ Sent(r, k, c)
         /\ Single(a \o r, k, c) => /\ Single(a, k, c) /\ Single(r, k, c)
                                    /\ ~(Sent(a, k, c) /\ Sent(r, k, c))
<1> DEFINE j == a \o r
<1>1. Part(a, j, 0) /\ Part(r, j, Len(a)) /\ Len(a) \in Nat /\ j \in Seq(Tokens) BY JoinParts
<1>2. /\ (Sent(a, k, c) => Sent(j, k, c)) /\ (Single(j, k, c) => Single(a, k, c))
      /\ (Sent(r, k, c) => Sent(j, k, c)) /\ (Single(j, k, c) => Single(r, k, c))
  <2> HIDE DEF j
  <2> QED BY <1>1, PartFacts
<1>3. Len(j) = Len(a) + Len(r) /\ Len(r) \in Nat OBVIOUS
<1>4. ASSUME NEW i \in 1 .. Len(j)
      PROVE  (i \in 1 .. Len(a) /\ j[i] = a[i]) \/ (i - Len(a) \in 1 .. Len(r)
                                                    /\ j[i] = r[i - Len(a)])
  OBVIOUS
<1> HIDE DEF j
<1>5. Sent(j, k, c) => Sent(a, k, c) \/ Sent(r, k, c)
  <2> SUFFICES ASSUME NEW i \in 1 .. Len(j), Of(j[i], k, c) PROVE Sent(a, k, c)
      \/ Sent(r, k, c) BY DEF Sent
  <2> QED BY <1>4 DEF Sent
<1>6. ASSUME Single(j, k, c), Sent(a, k, c), Sent(r, k, c) PROVE FALSE
  <2>1. PICK i \in 1 .. Len(a) : Of(a[i], k, c) BY <1>6 DEF Sent
  <2>2. PICK l \in 1 .. Len(r) : Of(r[l], k, c) BY <1>6 DEF Sent
  <2>3. a[i] = j[i + 0] /\ r[l] = j[l + Len(a)] BY <1>1 DEF Part
  <2>4. i + 0 \in 1 .. Len(j) /\ l + Len(a) \in 1 .. Len(j) /\ i + 0 # l + Len(a) BY <1>1, <1>3
  <2> QED BY <1>6, <2>1, <2>2, <2>3, <2>4 DEF Single
<1> QED BY <1>2, <1>5, <1>6 DEF j

\* Pending responses are no packets.
LEMMA RespsNoPackets ==
  ASSUME NEW r \in Seq(Resps(Convs)), NEW c
  PROVE  ~Sent(r, "PACK", c)
<1>1. ASSUME NEW i \in 1 .. Len(r) PROVE ~Of(r[i], "PACK", c)
  <2>1. r[i] \in Resps(Convs) OBVIOUS
  <2>2. r[i].kind = "RESP" /\ r[i].what \in {"OK", "DISCON"} BY <2>1 DEF Resps
  <2> QED BY <2>2 DEF Of, Kind
<1> QED BY <1>1 DEF Sent

\* The messages of A that are c and owe an acknowledgement.
Owing(A, c) == {i \in MsgIds : A[i] # NoMsg /\ A[i].conv = c
                /\ "NEED_TO_SEND_RESP" \in A[i].status}

\* Counting them.
LEMMA OwingOne ==
  ASSUME NEW A, Unique(A), NEW c, "gone" \notin View(A, c)
  PROVE  Cardinality(Owing(A, c)) = IF "needs" \in View(A, c) THEN 1 ELSE 0
<1> DEFINE D == Owing(A, c)
<1>1. ASSUME NEW i \in MsgIds, A[i] # NoMsg, A[i].conv = c
      PROVE  "needs" \in View(A, c) <=> "NEED_TO_SEND_RESP" \in A[i].status
  <2>1. View(A, c) = Aspects(A[i]) BY <1>1, ViewOf
  <2> QED BY <2>1, AspectFacts
<1>2. CASE "needs" \in View(A, c)
  <2>1. PICK i \in MsgIds : A[i] # NoMsg /\ A[i].conv = c BY <1>2, ViewIn
  <2>2. D = {i} BY <1>1, <1>2, <2>1 DEF Owing, Unique
  <2> QED BY <1>2, <2>2, FS_Singleton
<1>3. CASE "needs" \notin View(A, c)
  <2>1. D = {} BY <1>1, <1>3 DEF Owing
  <2> QED BY <1>3, <2>1, FS_EmptySet
<1> QED BY <1>2, <1>3

\* A message in use has a packet underway exactly while it waits.
Waits(V, X, W, Y, c) ==
  /\ "gone" \notin W
  /\ Single(X, "PACK", c) /\ Single(Y, "OK", c)
  /\ "waits" \in V <=> Sent(X, "PACK", c) \/ Sent(Y, "OK", c) \/ "needs" \in W
  /\ ~(Sent(X, "PACK", c) /\ Sent(Y, "OK", c))
  /\ ~(Sent(X, "PACK", c) /\ "needs" \in W)
  /\ ~(Sent(Y, "OK", c) /\ "needs" \in W)

\* The invariant says so of both ends.
LEMMA PairWaits ==
  ASSUME NEW p \in Ends, NEW A, NEW X, NEW B, NEW Y, NEW U, NEW R, NEW mi, NEW c \in Convs,
         Facing(p, A, X, B, Y, U, R, mi, c), p \in R, Other(p) \in R, c \notin mi,
         "open" \in View(A, c)
  PROVE  Waits(View(A, c), X, View(B, c), Y, c)
<1> DEFINE V == View(A, c)
           W == View(B, c)
<1>1. c[1] \in R /\ Other(c[1]) \in R
  <2>1. CASE c[1] = p BY <2>1
  <2>2. CASE c[1] # p BY <2>2, ConvEnds
  <2> QED BY <2>1, <2>2
<1>2. Half(V, X, W, c) /\ Calm(V, X, W, Y, c) /\ Calm(W, Y, V, X, c) /\ Awaited(V, X, W, Y, c)
  <2>1. CASE c[1] = p BY <1>1, <2>1 DEF Facing, Pair
  <2>2. CASE c[1] # p BY <1>1, <2>2 DEF Facing, Pair
  <2> QED BY <2>1, <2>2
<1>3. "open" \in V OBVIOUS
<1> HIDE DEF V, W
<1>4. Waits(V, X, W, Y, c) BY <1>2, <1>3 DEF Half, Calm, Awaited, Waits
<1> QED BY <1>4 DEF V, W

\* A message that waits for an acknowledgement has exactly one packet,
\* acknowledgement or owed acknowledgement underway, and one that does not
\* wait has none: no acknowledgement is lost or given twice, so no message
\* waits for ever and none sends two packets at a time.
THEOREM StopAndWaitInvariant ==
  ASSUME ~LateFlush
  PROVE  Spec => []StopAndWait
<1>1. LinkInv => StopAndWait
  <2> SUFFICES ASSUME LinkInv, NEW p \in Ends, NEW id \in Live(p), Connected,
      Msg(p, id).conv \notin misled,
                      ~Has(sw[p], id, "SENT_DISCONNECT")
               PROVE  Unacknowledged(p, Msg(p, id).conv) = IF Has(sw[p], id, "WAITING_FOR_RESP")
                   THEN 1 ELSE 0
    BY DEF StopAndWait
  <2> DEFINE m == Msg(p, id)
             c == m.conv
             q == Other(p)
             a == chan[p]
             r == sw[p].pending_resps
             h == chan[q]
             b == sw[q].pending_resps
             A == sw[p].msgs
             B == sw[q].msgs
             V == View(A, c)
             W == View(B, c)
  <2>1. /\ m \in Messages(Convs) /\ c \in Convs /\ V = Aspects(m)
        /\ Facing(p, A, a \o r, B, h \o b, Ups, Runs, misled, c)
    BY PairAt
  <2>2. q \in Ends BY OtherFacts
  <2>3. p \in Runs /\ q \in Runs BY <2>2 DEF Connected, Runs
  <2>4. "open" \in V /\ ("waits" \in V <=> Has(sw[p], id, "WAITING_FOR_RESP")) BY <2>1,
          AspectFacts DEF Has, Msg
  <2>5. Waits(V, a \o r, W, h \o b, c)
    <3> DEFINE X == a \o r
               Y == h \o b
    <3>1. Facing(p, A, X, B, Y, Ups, Runs, misled, c) /\ c \notin misled /\ c \in Convs BY <2>1
    <3> HIDE DEF X, Y, m, c, A, B
    <3>2. Waits(V, X, W, Y, c) BY <2>3, <2>4, <3>1, PairWaits
    <3> QED BY <3>2 DEF X, Y
  <2>6. /\ a \in Seq(Tokens) /\ r \in Seq(Resps(Convs)) /\ h \in Seq(Tokens)
           /\ b \in Seq(Resps(Convs))
        /\ r \in Seq(Tokens) /\ b \in Seq(Tokens)
    <3>1. sw[p] \in Switches(Convs) /\ sw[q] \in Switches(Convs) /\ a \in Seq(Tokens)
            /\ h \in Seq(Tokens)
      BY <2>2 DEF LinkInv, LocalInv, TypeInv
    <3>2. r \in Seq(Resps(Convs)) /\ b \in Seq(Resps(Convs)) BY <3>1 DEF Switches
    <3> QED BY <3>1, <3>2, RespsAreTokens
  <2>7. Unique(B)
    <3>1. Sees(q, sw, chan, opens, Ups, Runs, misled) BY <2>2 DEF LinkInv
    <3> QED BY <3>1 DEF Sees, Linked, Side
  <2> DEFINE IsPacket(t) == t.kind = "PACK" /\ t.conv = c
             IsOk(t) == t.kind = "RESP" /\ t.conv = c /\ t.what = "OK"
             n1 == Cardinality({i \in DOMAIN a : IsPacket(a[i])})
             n2 == Cardinality({i \in DOMAIN h : IsOk(h[i])})
             n3 == Cardinality({i \in DOMAIN b : IsOk(b[i])})
             n4 == Cardinality({i \in Peers(q, c) : Has(sw[q], i, "NEED_TO_SEND_RESP")})
  <2>8. Unacknowledged(p, c) = n1 + n2 + n3 + n4 BY DEF Unacknowledged, Count
  <2>9. \A t \in Tokens : (IsPacket(t) <=> Of(t, "PACK", c)) /\ (IsOk(t) <=> Of(t, "OK", c))
    <3> TAKE t \in Tokens
    <3>1. CASE Kind(t) = "PACK"
      <4>1. t.kind = "PACK" BY <3>1, FrameKinds
      <4> QED BY <3>1, <4>1 DEF Of
    <3>2. CASE Kind(t) # "PACK"
      <4>1. t.kind = "RESP" /\ t.what = Kind(t) BY <3>2, FrameKinds
      <4> QED BY <3>2, <4>1 DEF Of
    <3> QED BY <3>1, <3>2
  <2>10. /\ {i \in DOMAIN a : IsPacket(a[i])} = {i \in DOMAIN a : Of(a[i], "PACK", c)}
         /\ {i \in DOMAIN h : IsOk(h[i])} = {i \in DOMAIN h : Of(h[i], "OK", c)}
         /\ {i \in DOMAIN b : IsOk(b[i])} = {i \in DOMAIN b : Of(b[i], "OK", c)}
    <3>1. \A z \in Seq(Tokens) : \A i \in DOMAIN z : z[i] \in Tokens OBVIOUS
    <3> HIDE DEF a, h, b, IsPacket, IsOk
    <3> QED BY <2>6, <2>9, <3>1
  <2>11. /\ Single(a, "PACK", c) /\ (Sent(a \o r, "PACK", c) <=> Sent(a, "PACK", c))
         /\ Single(h, "OK", c) /\ Single(b, "OK", c) /\ ~(Sent(h, "OK", c) /\ Sent(b, "OK", c))
         /\ (Sent(h \o b, "OK", c) <=> Sent(h, "OK", c) \/ Sent(b, "OK", c))
    <3> HIDE DEF a, r, h, b, c
    <3> QED BY <2>5, <2>6, JoinSent, RespsNoPackets DEF Waits
  <2>12. /\ n1 = IF Sent(a, "PACK", c) THEN 1 ELSE 0
         /\ n2 = IF Sent(h, "OK", c) THEN 1 ELSE 0
         /\ n3 = IF Sent(b, "OK", c) THEN 1 ELSE 0
    <3>1. /\ n1 = Cardinality({i \in DOMAIN a : Of(a[i], "PACK", c)})
          /\ n2 = Cardinality({i \in DOMAIN h : Of(h[i], "OK", c)})
          /\ n3 = Cardinality({i \in DOMAIN b : Of(b[i], "OK", c)})
      BY <2>10
    <3> HIDE DEF a, h, b, c, n1, n2, n3
    <3>2. Cardinality({i \in DOMAIN a : Of(a[i], "PACK", c)}) = IF Sent(a, "PACK", c) THEN 1
            ELSE 0
      BY <2>6, <2>11, CountSingle
    <3>3. Cardinality({i \in DOMAIN h : Of(h[i], "OK", c)}) = IF Sent(h, "OK", c) THEN 1 ELSE 0
      BY <2>6, <2>11, CountSingle
    <3>4. Cardinality({i \in DOMAIN b : Of(b[i], "OK", c)}) = IF Sent(b, "OK", c) THEN 1 ELSE 0
      BY <2>6, <2>11, CountSingle
    <3> QED BY <3>1, <3>2, <3>3, <3>4
  <2>13. n4 = IF "needs" \in W THEN 1 ELSE 0
    <3>1. {i \in Peers(q, c) : Has(sw[q], i, "NEED_TO_SEND_RESP")} = Owing(B, c)
      BY DEF Peers, Live, Has, Owing, Msg, Exists
    <3>2. "gone" \notin W BY <2>5 DEF Waits
    <3> QED BY <2>7, <3>1, <3>2, OwingOne
  <2> HIDE DEF n1, n2, n3, n4, a, r, h, b, V, W, c, m
  <2>14. n1 + n2 + n3 + n4 = IF "waits" \in V THEN 1 ELSE 0
    BY <2>5, <2>11, <2>12, <2>13 DEF Waits
  <2>15. Unacknowledged(p, c) = IF Has(sw[p], id, "WAITING_FOR_RESP") THEN 1 ELSE 0 BY <2>4,
           <2>8, <2>14
  <2> QED BY <2>15 DEF c, m
<1> QED BY <1>1, LinkInvariant, PTL
=============================================================================
