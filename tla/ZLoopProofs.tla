---------------------------- MODULE ZLoopProofs -----------------------------
(*************************************************************************)
(* ZLoop, for any number of descriptors and any number of openings of a  *)
(* listening socket: the invariants of zsocket.c hold whatever the       *)
(* program, the kernel and its peers do, and in whatever order.          *)
(* ReadBufferFree and WritePending are proved for programs that do not   *)
(* write before a TLS handshake has ended and that open no TLS           *)
(* connection themselves; the model has states that break them           *)
(* otherwise. Fairness plays no part.                                    *)
(*************************************************************************)
EXTENDS ZLoop, FiniteSetTheorems, TLAPS

----------------------------------------------------------------------------
(* The inductive invariant. *)

\* The programs of the repository: they read from a TLS client before they
\* write to it, so not before its handshake has ended, and they open no TLS
\* connection themselves.
Plain == ~EarlyWrites /\ TRUE \notin ConnectModes

\* n_selectable is the number of events that zs_select would report.
Counted(s) == s.n_selectable = Cardinality(RSelectable(s)) + Cardinality(WSelectable(s))

\* The wants that zs_reader leaves behind.
FromRead == {"WANT_READ_FROM_READ", "WANT_WRITE_FROM_READ"}

\* The wants that zs_writer leaves behind.
FromWrite == {"WANT_READ_FROM_WRITE", "WANT_WRITE_FROM_WRITE"}

\* The wants that zs_connecter leaves behind.
FromConnect == {"WANT_READ_FROM_CONNECT", "WANT_WRITE_FROM_CONNECT"}

\* A connection is connected or connecting, and not both.
Linked(z) == ("CONNECTED" \in z.status) # ("CONNECTING" \in z.status)

\* The read buffer: what is in it was announced, a read is under way only
\* while it is empty, and only a read that is under way wants something, and
\* one thing.
Reads(z) ==
  /\ z.used # 0 => "READABLE" \in z.status
  /\ "READABLE" \in z.status => "READING" \notin z.status /\ (z.used = 0 => "EOF" \in z.status)
  /\ "READING" \notin z.status => FromRead \cap z.status = {}
  /\ ~(FromRead \subseteq z.status)

\* The write buffer: it is there while a write is under way, which wants one
\* thing; a socket that is closing still writes.
Writes(z) ==
  /\ z.buffer <=> "WRITING" \in z.status
  /\ "WRITING" \in z.status =>
       {"WRITABLE", "ACCEPTING"} \cap z.status = {} /\ FromWrite \cap z.status # {}
  /\ "WRITING" \notin z.status => FromWrite \cap z.status = {} /\ "CLOSED" \notin z.status
  /\ ~(FromWrite \subseteq z.status)

\* A connection as a plain program leaves it.
Tidy(z) == "CONNECTED" \in z.status /\ FromConnect \cap z.status = {} /\ Reads(z) /\ Writes(z)

\* A listening socket is READABLE exactly while it holds an accepted
\* descriptor, and is never left ACCEPTING.
Offers(z) ==
  /\ z.status \subseteq {"READABLE"}
  /\ z.accepted_fd # NoFd <=> "READABLE" \in z.status

\* What one socket must be like.
Sound(z) ==
  /\ z.type = "CONNECT" => Linked(z) /\ (Plain => Tidy(z))
  /\ z.type = "LISTEN" => Offers(z)

\* select() watches exactly what the socket wants; whether it watches a
\* listening socket for writing is in nobody's hands.
Watched(s, fd) ==
  /\ fd \in s.zfd_read <=> WantsRead(s, fd)
  /\ s.zsockets[fd].type = "CONNECT" => (fd \in s.zfd_write <=> WantsWrite(s, fd))

\* What holds of one descriptor.
Local(s, fd) ==
  /\ Sound(s.zsockets[fd])
  /\ ~IsOpen(s, fd) => fd \notin s.active_read /\ fd \notin s.active_write
  /\ IsOpen(s, fd) => Watched(s, fd)

\* The descriptor has a connection.
Connects(s, fd) == s.zsockets[fd].type = "CONNECT"

\* The listening socket l offers the connection fd.
Offered(s, l, fd) == s.zsockets[l].type = "LISTEN" /\ s.zsockets[l].accepted_fd = fd

\* Every connection is held by the program, closing, lost or offered by a
\* listening socket; what is offered is nobody's yet, and is offered by one
\* listening socket only.
Owned(s, h, x) ==
  /\ \A fd \in h : Connects(s, fd) /\ "CLOSED" \notin Status(s, fd)
  /\ \A l \in Fds, fd \in Fds : Offered(s, l, fd) =>
       /\ Connects(s, fd) /\ fd \notin h /\ "CLOSED" \notin Status(s, fd)
       /\ \A k \in Fds : Offered(s, k, fd) => k = l
  /\ \A fd \in Fds : Connects(s, fd) =>
       fd \in h \/ "CLOSED" \in Status(s, fd) \/ fd \in x \/ \E l \in Fds : Offered(s, l, fd)

\* The invariant, of a state s, the connections h that are held and the
\* connections x that are lost.
Good(s, h, x) == s \in States /\ Counted(s) /\ (\A fd \in Fds : Local(s, fd)) /\ Owned(s, h, x)

\* The invariant that every step keeps.
IInv ==
  /\ held \in SUBSET Fds /\ lost \in SUBSET Fds /\ exited \in BOOLEAN
  /\ Good(st, held, lost)

----------------------------------------------------------------------------
(* The state, and the count n_selectable. *)

\* Every descriptor has a socket record.
LEMMA SocketFacts ==
  ASSUME NEW s \in States, NEW fd \in Fds
  PROVE  s.zsockets[fd] \in Socket
  BY DEF States

\* What a state is made of.
LEMMA StateFields ==
  ASSUME NEW s \in States
  PROVE  /\ s.zsockets \in [Fds -> Socket] /\ s.n_selectable \in Int
         /\ s.active_read \subseteq Fds /\ s.active_write \subseteq Fds
            /\ s.zfd_read \subseteq Fds /\ s.zfd_write \subseteq Fds
  BY DEF States

\* The sets that n_selectable counts are finite.
LEMMA SelectableFacts ==
  ASSUME NEW s \in States
  PROVE  /\ RSelectable(s) \subseteq Fds /\ WSelectable(s) \subseteq Fds
         /\ Cardinality(RSelectable(s)) \in Nat /\ Cardinality(WSelectable(s)) \in Nat
  <1>1. RSelectable(s) \subseteq Fds /\ WSelectable(s) \subseteq Fds
    BY StateFields DEF RSelectable, WSelectable
  <1> QED BY <1>1, FdsAssumption, FS_Subset, FS_CardinalityType

\* One or zero.
Bit(b) == IF b THEN 1 ELSE 0

\* Two sets that agree but for fd differ in size by at most that one.
LEMMA CountOne ==
  ASSUME NEW S \in SUBSET Fds, NEW T \in SUBSET Fds, NEW fd \in Fds, S \ {fd} = T \ {fd}
  PROVE  Cardinality(T) = Cardinality(S) + Bit(fd \in T) - Bit(fd \in S)
  <1>1. IsFiniteSet(S) /\ IsFiniteSet(T) /\ Cardinality(S) \in Nat /\ Cardinality(T) \in Nat
    BY FdsAssumption, FS_Subset, FS_CardinalityType
  <1>2. CASE fd \in S /\ fd \in T
    <2>1. S = T
      BY <1>2
    <2> QED BY <1>1, <1>2, <2>1 DEF Bit
  <1>3. CASE fd \in S /\ fd \notin T
    <2>1. S = T \cup {fd}
      BY <1>3
    <2>2. Cardinality(S) = Cardinality(T) + 1
      BY <1>1, <1>3, <2>1, FS_AddElement
    <2> QED BY <1>1, <1>3, <2>2 DEF Bit
  <1>4. CASE fd \notin S /\ fd \in T
    <2>1. T = S \cup {fd}
      BY <1>4
    <2>2. Cardinality(T) = Cardinality(S) + 1
      BY <1>1, <1>4, <2>1, FS_AddElement
    <2> QED BY <1>1, <1>4, <2>2 DEF Bit
  <1>5. CASE fd \notin S /\ fd \notin T
    <2>1. S = T
      BY <1>5
    <2> QED BY <1>1, <1>5, <2>1 DEF Bit
  <1> QED BY <1>2, <1>3, <1>4, <1>5

\* What the descriptor fd adds to n_selectable.
Events(s, fd) == Bit(fd \in RSelectable(s)) + Bit(fd \in WSelectable(s))

\* s and t agree on every descriptor but fd.
Apart(s, t, fd) ==
  \A g \in Fds \ {fd} :
    /\ t.zsockets[g] = s.zsockets[g]
    /\ g \in t.active_read <=> g \in s.active_read
    /\ g \in t.active_write <=> g \in s.active_write
    /\ g \in t.zfd_read <=> g \in s.zfd_read
    /\ g \in t.zfd_write <=> g \in s.zfd_write

\* A step at fd that adds to n_selectable what it adds to the events of fd
\* keeps the count right.
LEMMA CountKept ==
  ASSUME NEW s \in States, NEW t \in States, NEW fd \in Fds, Apart(s, t, fd),
         t.n_selectable - Events(t, fd) = s.n_selectable - Events(s, fd), Counted(s)
  PROVE  Counted(t)
  <1>1. /\ RSelectable(s) \in SUBSET Fds /\ WSelectable(s) \in SUBSET Fds
        /\ RSelectable(t) \in SUBSET Fds /\ WSelectable(t) \in SUBSET Fds
    BY SelectableFacts
  <1>2. /\ Cardinality(RSelectable(s)) \in Nat /\ Cardinality(WSelectable(s)) \in Nat
        /\ Cardinality(RSelectable(t)) \in Nat /\ Cardinality(WSelectable(t)) \in Nat
    BY SelectableFacts
  <1>3. RSelectable(s) \ {fd} = RSelectable(t) \ {fd}
    BY StateFields DEF RSelectable, Status, Apart
  <1>4. WSelectable(s) \ {fd} = WSelectable(t) \ {fd}
    BY StateFields DEF WSelectable, Status, Apart
  <1>5. Cardinality(RSelectable(t)) =
          Cardinality(RSelectable(s)) + Bit(fd \in RSelectable(t)) - Bit(fd \in RSelectable(s))
    BY <1>1, <1>3, CountOne
  <1>6. Cardinality(WSelectable(t)) =
          Cardinality(WSelectable(s)) + Bit(fd \in WSelectable(t)) - Bit(fd \in WSelectable(s))
    BY <1>1, <1>4, CountOne
  <1>7. s.n_selectable \in Int /\ t.n_selectable \in Int
    BY StateFields
  <1>8. /\ Bit(fd \in RSelectable(t)) \in Int /\ Bit(fd \in RSelectable(s)) \in Int
        /\ Bit(fd \in WSelectable(t)) \in Int /\ Bit(fd \in WSelectable(s)) \in Int
    BY DEF Bit
  <1> QED BY <1>2, <1>5, <1>6, <1>7, <1>8 DEF Counted, Events

\* The socket fd of s is z in t, nothing else changes, and n_selectable
\* follows.
Turns(s, t, fd, z) ==
  /\ t \in States
  /\ z \in Socket
  /\ t.zsockets = [s.zsockets EXCEPT ![fd] = z]
  /\ t.active_read = s.active_read /\ t.active_write = s.active_write
  /\ t.zfd_read = s.zfd_read /\ t.zfd_write = s.zfd_write
  /\ Counted(s) => Counted(t)

\* The socket is z.
LEMMA TurnsAt ==
  ASSUME NEW s \in States, NEW t, NEW fd \in Fds, NEW z, Turns(s, t, fd, z)
  PROVE  t \in States /\ z \in Socket /\ t.zsockets[fd] = z
  BY DEF Turns, States

\* Two changes of one socket are one.
LEMMA TurnsTwice ==
  ASSUME NEW s \in States, NEW t, NEW u, NEW fd \in Fds, NEW y, NEW z, Turns(s, t, fd, y),
         Turns(t, u, fd, z)
  PROVE  Turns(s, u, fd, z)
  <1>1. s.zsockets \in [Fds -> Socket]
    BY StateFields
  <1>2. u.zsockets = [s.zsockets EXCEPT ![fd] = z]
    BY <1>1 DEF Turns
  <1> QED BY <1>2 DEF Turns

\* What the socket z adds to n_selectable in the place of fd.
Adds(s, fd, z) ==
  Bit(fd \in s.active_read /\ "READABLE" \in z.status) + Bit(fd \in s.active_write
      /\ "WRITABLE" \in z.status)

\* A state with another socket and the count that goes with it.
LEMMA TurnsByFields ==
  ASSUME NEW s \in States, NEW t \in States, NEW fd \in Fds, NEW z \in Socket,
         t.zsockets = [s.zsockets EXCEPT ![fd] = z], t.active_read = s.active_read,
         t.active_write = s.active_write, t.zfd_read = s.zfd_read, t.zfd_write = s.zfd_write,
         t.n_selectable - Adds(s, fd, z) = s.n_selectable - Adds(s, fd, s.zsockets[fd])
  PROVE  Turns(s, t, fd, z)
  <1>1. s.zsockets \in [Fds -> Socket]
    BY StateFields
  <1>2. t.zsockets[fd] = z /\ \A g \in Fds : g # fd => t.zsockets[g] = s.zsockets[g]
    BY <1>1
  <1>3. Apart(s, t, fd)
    BY <1>2 DEF Apart
  <1>4. Events(t, fd) = Adds(s, fd, z) /\ Events(s, fd) = Adds(s, fd, s.zsockets[fd])
    BY <1>2 DEF Events, Adds, RSelectable, WSelectable, Status
  <1>5. t.n_selectable - Events(t, fd) = s.n_selectable - Events(s, fd)
    BY <1>4
  <1>6. Counted(s) => Counted(t)
    BY <1>3, <1>5, CountKept
  <1> QED BY <1>6 DEF Turns

\* The same, of an update of both.
LEMMA TurnsCounted ==
  ASSUME NEW s \in States, NEW t, NEW fd \in Fds, NEW z \in Socket, NEW n \in Int,
         t = [s EXCEPT !.zsockets = [s.zsockets EXCEPT ![fd] = z], !.n_selectable = n],
         n - Adds(s, fd, z) = s.n_selectable - Adds(s, fd, s.zsockets[fd])
  PROVE  Turns(s, t, fd, z)
  <1>1. s.zsockets \in [Fds -> Socket]
    BY StateFields
  <1>2. t \in States
    BY <1>1 DEF States
  <1>3. /\ t.zsockets = [s.zsockets EXCEPT ![fd] = z] /\ t.n_selectable = n
        /\ t.active_read = s.active_read /\ t.active_write = s.active_write
        /\ t.zfd_read = s.zfd_read /\ t.zfd_write = s.zfd_write
    BY DEF States
  <1>4. t.n_selectable - Adds(s, fd, z) = s.n_selectable - Adds(s, fd, s.zsockets[fd])
    BY <1>3
  <1> QED BY <1>2, <1>3, <1>4, TurnsByFields

\* A change of the socket that leaves READABLE and WRITABLE alone needs no
\* change of the count.
LEMMA TurnsQuietly ==
  ASSUME NEW s \in States, NEW t, NEW fd \in Fds, NEW z \in Socket,
         t = [s EXCEPT !.zsockets = [s.zsockets EXCEPT ![fd] = z]],
         "READABLE" \in z.status <=> "READABLE" \in s.zsockets[fd].status,
         "WRITABLE" \in z.status <=> "WRITABLE" \in s.zsockets[fd].status
  PROVE  Turns(s, t, fd, z)
  <1>1. s.n_selectable \in Int
    BY StateFields
  <1>2. t = [s EXCEPT !.zsockets = [s.zsockets EXCEPT ![fd] = z],
             !.n_selectable = s.n_selectable]
    BY DEF States
  <1>3. Adds(s, fd, z) = Adds(s, fd, s.zsockets[fd])
    BY DEF Adds
  <1> QED BY <1>1, <1>2, <1>3, TurnsCounted

\* FL_SET and FL_CLR on one socket.
With(z, set, clr) == [z EXCEPT !.status = (@ \ clr) \cup set]

\* y is z but for its flags.
Flagged(y, z, set, clr) ==
  /\ y \in Socket /\ y.status = (z.status \ clr) \cup set
  /\ y.type = z.type /\ y.ssl = z.ssl /\ y.used = z.used /\ y.buffer = z.buffer
  /\ y.read_errno = z.read_errno /\ y.write_errno = z.write_errno
  /\ y.n_open = z.n_open /\ y.accepted_fd = z.accepted_fd /\ y.parent_fd = z.parent_fd

\* FL_SET and FL_CLR change the flags only.
LEMMA WithFlagged ==
  ASSUME NEW z \in Socket, NEW set \in SUBSET Flags, NEW clr
  PROVE  Flagged(With(z, set, clr), z, set, clr)
  BY DEF With, Socket, Flagged

\* The flags are flags.
LEMMA FlagNames ==
  /\ WantRead \subseteq Flags /\ WantWrite \subseteq Flags /\ FromRead \subseteq Flags
     /\ FromWrite \subseteq Flags /\ FromConnect \subseteq Flags
  /\ {"CONNECTED", "READABLE", "WRITABLE", "ACCEPTING", "CONNECTING", "READING", "WRITING",
      "EOF", "CLOSED"} \subseteq Flags
  BY DEF Flags, WantRead, WantWrite, FromRead, FromWrite, FromConnect

\* FL_SET and FL_CLR of the other flags.
LEMMA FlagTurns ==
  ASSUME NEW s \in States, NEW fd \in Fds, NEW set \in SUBSET Flags, NEW clr,
         "READABLE" \notin set, "WRITABLE" \notin set, "READABLE" \notin clr,
         "WRITABLE" \notin clr
  PROVE  Turns(s, Flag(s, fd, set, clr), fd, With(s.zsockets[fd], set, clr))
  <1> DEFINE t == Flag(s, fd, set, clr)
             z == With(s.zsockets[fd], set, clr)
  <1>1. s.zsockets \in [Fds -> Socket]
    BY StateFields
  <1>2. z \in Socket /\ z.status = (s.zsockets[fd].status \ clr) \cup set
    BY <1>1 DEF With, Socket
  <1>3. t = [s EXCEPT !.zsockets = [s.zsockets EXCEPT ![fd] = z]]
    BY <1>1 DEF Flag, With, States
  <1> HIDE DEF t, z
  <1>4. Turns(s, t, fd, z)
    BY <1>2, <1>3, TurnsQuietly
  <1> QED BY <1>4 DEF t, z

\* A socket becomes READABLE, and n_selectable follows.
LEMMA MakeReadableTurns ==
  ASSUME NEW s \in States, NEW fd \in Fds
  PROVE  Turns(s, MakeReadable(s, fd), fd, With(s.zsockets[fd], {"READABLE"}, {}))
  <1> DEFINE t == MakeReadable(s, fd)
             z == With(s.zsockets[fd], {"READABLE"}, {})
             n == IF fd \in s.active_read /\ "READABLE" \notin Status(s, fd)
                 THEN s.n_selectable + 1 ELSE s.n_selectable
  <1>1. s.zsockets \in [Fds -> Socket] /\ s.n_selectable \in Int
    BY StateFields
  <1>2. z \in Socket /\ z.status = s.zsockets[fd].status \cup {"READABLE"}
    BY <1>1 DEF With, Socket, Flags
  <1>3. t = [s EXCEPT !.zsockets = [s.zsockets EXCEPT ![fd] = z], !.n_selectable = n]
    BY <1>1 DEF MakeReadable, With, States
  <1>4. n \in Int
    BY <1>1
  <1>5. n - Adds(s, fd, z) = s.n_selectable - Adds(s, fd, s.zsockets[fd])
    BY <1>1, <1>2 DEF Adds, Bit, Status
  <1> HIDE DEF t, z, n
  <1>6. Turns(s, t, fd, z)
    BY <1>2, <1>3, <1>4, <1>5, TurnsCounted
  <1> QED BY <1>6 DEF t, z

\* A socket becomes WRITABLE, and n_selectable follows.
LEMMA MakeWritableTurns ==
  ASSUME NEW s \in States, NEW fd \in Fds
  PROVE  Turns(s, MakeWritable(s, fd), fd, With(s.zsockets[fd], {"WRITABLE"}, {}))
  <1> DEFINE t == MakeWritable(s, fd)
             z == With(s.zsockets[fd], {"WRITABLE"}, {})
             n == IF fd \in s.active_write /\ "WRITABLE" \notin Status(s, fd)
                 THEN s.n_selectable + 1 ELSE s.n_selectable
  <1>1. s.zsockets \in [Fds -> Socket] /\ s.n_selectable \in Int
    BY StateFields
  <1>2. z \in Socket /\ z.status = s.zsockets[fd].status \cup {"WRITABLE"}
    BY <1>1 DEF With, Socket, Flags
  <1>3. t = [s EXCEPT !.zsockets = [s.zsockets EXCEPT ![fd] = z], !.n_selectable = n]
    BY <1>1 DEF MakeWritable, With, States
  <1>4. n \in Int
    BY <1>1
  <1>5. n - Adds(s, fd, z) = s.n_selectable - Adds(s, fd, s.zsockets[fd])
    BY <1>1, <1>2 DEF Adds, Bit, Status
  <1> HIDE DEF t, z, n
  <1>6. Turns(s, t, fd, z)
    BY <1>2, <1>3, <1>4, <1>5, TurnsCounted
  <1> QED BY <1>6 DEF t, z

\* A socket is READABLE no more, and n_selectable follows.
LEMMA DropReadableTurns ==
  ASSUME NEW s \in States, NEW fd \in Fds
  PROVE  Turns(s, DropReadable(s, fd), fd, With(s.zsockets[fd], {}, {"READABLE"}))
  <1> DEFINE t == DropReadable(s, fd)
             z == With(s.zsockets[fd], {}, {"READABLE"})
             n == IF fd \in s.active_read /\ "READABLE" \in Status(s, fd)
                 THEN s.n_selectable - 1 ELSE s.n_selectable
  <1>1. s.zsockets \in [Fds -> Socket] /\ s.n_selectable \in Int
    BY StateFields
  <1>2. z \in Socket /\ z.status = s.zsockets[fd].status \ {"READABLE"}
    BY <1>1 DEF With, Socket, Flags
  <1>3. t = [s EXCEPT !.zsockets = [s.zsockets EXCEPT ![fd] = z], !.n_selectable = n]
    BY <1>1 DEF DropReadable, With, States
  <1>4. n \in Int
    BY <1>1
  <1>5. n - Adds(s, fd, z) = s.n_selectable - Adds(s, fd, s.zsockets[fd])
    BY <1>1, <1>2 DEF Adds, Bit, Status
  <1> HIDE DEF t, z, n
  <1>6. Turns(s, t, fd, z)
    BY <1>2, <1>3, <1>4, <1>5, TurnsCounted
  <1> QED BY <1>6 DEF t, z

\* A socket is WRITABLE no more, and n_selectable follows.
LEMMA DropWritableTurns ==
  ASSUME NEW s \in States, NEW fd \in Fds
  PROVE  Turns(s, DropWritable(s, fd), fd, With(s.zsockets[fd], {}, {"WRITABLE"}))
  <1> DEFINE t == DropWritable(s, fd)
             z == With(s.zsockets[fd], {}, {"WRITABLE"})
             n == IF fd \in s.active_write /\ "WRITABLE" \in Status(s, fd)
                 THEN s.n_selectable - 1 ELSE s.n_selectable
  <1>1. s.zsockets \in [Fds -> Socket] /\ s.n_selectable \in Int
    BY StateFields
  <1>2. z \in Socket /\ z.status = s.zsockets[fd].status \ {"WRITABLE"}
    BY <1>1 DEF With, Socket, Flags
  <1>3. t = [s EXCEPT !.zsockets = [s.zsockets EXCEPT ![fd] = z], !.n_selectable = n]
    BY <1>1 DEF DropWritable, With, States
  <1>4. n \in Int
    BY <1>1
  <1>5. n - Adds(s, fd, z) = s.n_selectable - Adds(s, fd, s.zsockets[fd])
    BY <1>1, <1>2 DEF Adds, Bit, Status
  <1> HIDE DEF t, z, n
  <1>6. Turns(s, t, fd, z)
    BY <1>2, <1>3, <1>4, <1>5, TurnsCounted
  <1> QED BY <1>6 DEF t, z

----------------------------------------------------------------------------
(* The background work, as functions of one socket. *)

\* HandshakeOver, on the socket.
Over(z) ==
  With(z, IF "READING" \in z.status THEN {"WANT_READ_FROM_READ"}
          ELSE IF "WRITING" \in z.status THEN {"WANT_WRITE_FROM_WRITE"} ELSE {}, {"ACCEPTING"})

\* zs_connecter, on the socket.
Connecter(z, r) ==
  LET broken == z.ssl /\ r = "error"
      failed == [z EXCEPT !.read_errno = @ \/ broken, !.write_errno = @ \/ broken]
  IN  IF z.ssl /\ r = "want_read" THEN With(z, {"WANT_READ_FROM_CONNECT"}, {})
      ELSE IF z.ssl /\ r = "want_write" THEN With(z, {"WANT_WRITE_FROM_CONNECT"}, {})
      ELSE With(With(failed, {"WRITABLE"}, {}), {"CONNECTED"}, {"CONNECTING"})

\* The socket once its write is over.
Written(z, r) ==
  With(With([z EXCEPT !.write_errno = @ \/ r = "error", !.buffer = FALSE], {"WRITABLE"}, {}),
       {}, {"WRITING"})

\* The outcome r ends the write.
Writing(z, r) == ~(z.ssl /\ "ACCEPTING" \in z.status) /\ r \notin {"want_read", "want_write",
    "part"}

\* zs_writer, on a socket that it does not close.
Writer(z, r) ==
  IF r = "want_read" THEN With(z, {"WANT_READ_FROM_WRITE"}, {})
  ELSE IF r = "want_write" THEN With(z, {"WANT_WRITE_FROM_WRITE"}, {})
  ELSE IF z.ssl /\ "ACCEPTING" \in z.status
      THEN Over([z EXCEPT !.write_errno = @ \/ r = "error"])
  ELSE IF r = "part" THEN With(z, {"WANT_WRITE_FROM_WRITE"}, {})
  ELSE Written(z, r)

\* zs_reader, on the socket.
Reader(z, r) ==
  LET failed == [z EXCEPT !.read_errno = @ \/ r = "error"]
      got == [failed EXCEPT !.used = IF r = "done" THEN 1 ELSE IF r = "error" THEN -1 ELSE @]
  IN  IF r = "want_read" THEN With(z, {"WANT_READ_FROM_READ"}, {})
      ELSE IF r = "want_write" THEN With(z, {"WANT_WRITE_FROM_READ"}, {})
      ELSE IF z.ssl /\ "ACCEPTING" \in z.status THEN Over(failed)
      ELSE With(With(got, {"READABLE"}, {}), IF r = "eof" THEN {"EOF"} ELSE {}, {"READING"})

\* A change of the fields that are not flags.
LEMMA FieldTurns ==
  ASSUME NEW s \in States, NEW t, NEW fd \in Fds, NEW z \in Socket,
         t = [s EXCEPT !.zsockets = [s.zsockets EXCEPT ![fd] = z]],
         z.status = s.zsockets[fd].status
  PROVE  Turns(s, t, fd, z)
  BY TurnsQuietly

\* HandshakeOver does to the state what Over does to the socket.
LEMMA OverTurns ==
  ASSUME NEW s \in States, NEW fd \in Fds
  PROVE  Turns(s, HandshakeOver(s, fd), fd, Over(s.zsockets[fd]))
  <1> DEFINE again == IF "READING" \in s.zsockets[fd].status THEN {"WANT_READ_FROM_READ"}
                      ELSE IF "WRITING" \in s.zsockets[fd].status THEN {"WANT_WRITE_FROM_WRITE"}
                          ELSE {}
  <1>1. again \in SUBSET Flags /\ "READABLE" \notin again /\ "WRITABLE" \notin again
    BY DEF Flags, WantRead, WantWrite
  <1>2. HandshakeOver(s, fd) = Flag(s, fd, again, {"ACCEPTING"})
          /\ Over(s.zsockets[fd]) = With(s.zsockets[fd], again, {"ACCEPTING"})
    BY DEF HandshakeOver, Over, Status
  <1>3. "READABLE" \notin {"ACCEPTING"} /\ "WRITABLE" \notin {"ACCEPTING"}
    OBVIOUS
  <1> HIDE DEF again
  <1> QED BY <1>1, <1>2, <1>3, FlagTurns

\* zs_connecter does what Connecter does.
LEMMA ConnecterTurns ==
  ASSUME NEW s \in States, NEW fd \in Fds, NEW r
  PROVE  Turns(s, zs_connecter(s, fd, r), fd, Connecter(s.zsockets[fd], r))
  <1> DEFINE z == s.zsockets[fd]
             broken == z.ssl /\ r = "error"
             y == [z EXCEPT !.read_errno = @ \/ broken, !.write_errno = @ \/ broken]
             t == [s EXCEPT !.zsockets[fd].read_errno = @ \/ broken,
                   !.zsockets[fd].write_errno = @ \/ broken]
  <1>1. s.zsockets \in [Fds -> Socket] /\ z \in Socket
    BY StateFields
  <1>2. CASE z.ssl /\ r = "want_read"
    <2>1. zs_connecter(s, fd, r) = Flag(s, fd, {"WANT_READ_FROM_CONNECT"}, {})
            /\ Connecter(z, r) = With(z, {"WANT_READ_FROM_CONNECT"}, {})
      BY <1>2 DEF zs_connecter, Connecter
    <2>2. {"WANT_READ_FROM_CONNECT"} \in SUBSET Flags
      BY DEF Flags, WantRead
    <2> QED BY <2>1, <2>2, FlagTurns
  <1>3. CASE z.ssl /\ r = "want_write"
    <2>1. zs_connecter(s, fd, r) = Flag(s, fd, {"WANT_WRITE_FROM_CONNECT"}, {})
            /\ Connecter(z, r) = With(z, {"WANT_WRITE_FROM_CONNECT"}, {})
      BY <1>3 DEF zs_connecter, Connecter
    <2>2. {"WANT_WRITE_FROM_CONNECT"} \in SUBSET Flags
      BY DEF Flags, WantWrite
    <2> QED BY <2>1, <2>2, FlagTurns
  <1>4. CASE ~(z.ssl /\ r = "want_read") /\ ~(z.ssl /\ r = "want_write")
    <2>1. zs_connecter(s, fd, r) = Flag(MakeWritable(t, fd), fd, {"CONNECTED"}, {"CONNECTING"})
      BY <1>4 DEF zs_connecter
    <2>2. Connecter(z, r) = With(With(y, {"WRITABLE"}, {}), {"CONNECTED"}, {"CONNECTING"})
      BY <1>4 DEF Connecter
    <2>3. y \in Socket /\ y.status = z.status
      BY <1>1 DEF Socket
    <2>4. t = [s EXCEPT !.zsockets = [s.zsockets EXCEPT ![fd] = y]]
      <3> DEFINE w == [z EXCEPT !.read_errno = @ \/ broken]
                 m == [s EXCEPT !.zsockets[fd].read_errno = @ \/ broken]
      <3>1. m = [s EXCEPT !.zsockets = [s.zsockets EXCEPT ![fd] = w]]
        BY <1>1 DEF States, Socket
      <3>2. w \in Socket
        BY <1>1 DEF Socket
      <3>3. y = [w EXCEPT !.write_errno = @ \/ broken]
              /\ t = [m EXCEPT !.zsockets[fd].write_errno = @ \/ broken]
        OBVIOUS
      <3> HIDE DEF w, m, y, t, broken
      <3>4. m \in States /\ m.zsockets = [s.zsockets EXCEPT ![fd] = w] /\ m.zsockets[fd] = w
        BY <1>1, <3>1, <3>2 DEF States
      <3>5. t = [m EXCEPT !.zsockets = [m.zsockets EXCEPT ![fd] = y]]
        BY <3>2, <3>3, <3>4 DEF States, Socket
      <3>6. [m.zsockets EXCEPT ![fd] = y] = [s.zsockets EXCEPT ![fd] = y]
        BY <1>1, <3>4
      <3>7. \A q : [m EXCEPT !.zsockets = q] = [s EXCEPT !.zsockets = q]
        BY <3>1 DEF States
      <3> QED BY <3>5, <3>6, <3>7
    <2> HIDE DEF t, y
    <2>5. Turns(s, t, fd, y)
      BY <2>3, <2>4, FieldTurns DEF z
    <2>6. t \in States /\ t.zsockets[fd] = y
      BY <2>5, TurnsAt
    <2> DEFINE u == MakeWritable(t, fd)
               x == With(y, {"WRITABLE"}, {})
    <2>7. Turns(t, u, fd, x)
      BY <2>6, MakeWritableTurns
    <2> HIDE DEF u, x
    <2>8. u \in States /\ u.zsockets[fd] = x
      BY <2>6, <2>7, TurnsAt
    <2>9. {"CONNECTED"} \in SUBSET Flags
      BY DEF Flags
    <2>10. Turns(u, Flag(u, fd, {"CONNECTED"}, {"CONNECTING"}), fd,
                 With(x, {"CONNECTED"}, {"CONNECTING"}))
      BY <2>8, <2>9, FlagTurns
    <2>11. Turns(s, u, fd, x)
      BY <2>5, <2>7, TurnsTwice
    <2>12. Turns(s, Flag(u, fd, {"CONNECTED"}, {"CONNECTING"}), fd,
                 With(x, {"CONNECTED"}, {"CONNECTING"}))
      BY <2>10, <2>11, TurnsTwice
    <2> QED BY <2>1, <2>2, <2>12 DEF u, x
  <1> QED BY <1>2, <1>3, <1>4

\* The end of a write does what Written does.
LEMMA WrittenTurns ==
  ASSUME NEW s \in States, NEW fd \in Fds, NEW r
  PROVE  Turns(s, Flag(MakeWritable([[s EXCEPT !.zsockets[fd].write_errno = @
                                      \/ r = "error"] EXCEPT !.zsockets[fd].buffer = FALSE],
                                         fd),
                       fd, {}, {"WRITING"}), fd, Written(s.zsockets[fd], r))
  <1> DEFINE z == s.zsockets[fd]
             y == [z EXCEPT !.write_errno = @ \/ r = "error", !.buffer = FALSE]
             t == [[s EXCEPT !.zsockets[fd].write_errno = @
                    \/ r = "error"] EXCEPT !.zsockets[fd].buffer = FALSE]
  <1>1. s.zsockets \in [Fds -> Socket] /\ z \in Socket
    BY StateFields
  <1>2. y \in Socket /\ y.status = z.status
    BY <1>1 DEF Socket
  <1>3. t = [s EXCEPT !.zsockets = [s.zsockets EXCEPT ![fd] = y]]
    BY <1>1 DEF States, Socket
  <1>4. Written(z, r) = With(With(y, {"WRITABLE"}, {}), {}, {"WRITING"})
    BY DEF Written
  <1> HIDE DEF t, y
  <1>5. Turns(s, t, fd, y)
    BY <1>2, <1>3, FieldTurns DEF z
  <1>6. t \in States /\ t.zsockets[fd] = y
    BY <1>5, TurnsAt
  <1> DEFINE u == MakeWritable(t, fd)
             x == With(y, {"WRITABLE"}, {})
  <1>7. Turns(t, u, fd, x)
    BY <1>6, MakeWritableTurns
  <1> HIDE DEF u, x
  <1>8. u \in States /\ u.zsockets[fd] = x
    BY <1>6, <1>7, TurnsAt
  <1>9. Turns(u, Flag(u, fd, {}, {"WRITING"}), fd, With(x, {}, {"WRITING"}))
    BY <1>8, FlagTurns
  <1>10. Turns(s, u, fd, x)
    BY <1>5, <1>7, TurnsTwice
  <1>11. Turns(s, Flag(u, fd, {}, {"WRITING"}), fd, With(x, {}, {"WRITING"}))
    BY <1>9, <1>10, TurnsTwice
  <1> QED BY <1>4, <1>11 DEF u, x, t

\* zs_writer does what Writer does, unless the socket was to be closed and
\* its write is over.
LEMMA WriterTurns ==
  ASSUME NEW s \in States, NEW fd \in Fds, NEW r,
         ~("CLOSED" \in s.zsockets[fd].status /\ Writing(s.zsockets[fd], r))
  PROVE  Turns(s, zs_writer(s, fd, r), fd, Writer(s.zsockets[fd], r))
  <1> DEFINE z == s.zsockets[fd]
             y == [z EXCEPT !.write_errno = @ \/ r = "error"]
             t == [s EXCEPT !.zsockets[fd].write_errno = @ \/ r = "error"]
  <1>1. s.zsockets \in [Fds -> Socket] /\ z \in Socket
    BY StateFields
  <1>2. y \in Socket /\ y.status = z.status
    BY <1>1 DEF Socket
  <1>3. t = [s EXCEPT !.zsockets = [s.zsockets EXCEPT ![fd] = y]]
    BY <1>1 DEF States, Socket
  <1>4. {"WANT_READ_FROM_WRITE"} \in SUBSET Flags /\ {"WANT_WRITE_FROM_WRITE"} \in SUBSET Flags
    BY DEF Flags, WantRead, WantWrite
  <1>5. CASE r = "want_read"
    <2>1. zs_writer(s, fd, r) = Flag(s, fd, {"WANT_READ_FROM_WRITE"}, {})
            /\ Writer(z, r) = With(z, {"WANT_READ_FROM_WRITE"}, {})
      BY <1>5 DEF zs_writer, Writer
    <2> QED BY <1>4, <2>1, FlagTurns
  <1>6. CASE r = "want_write"
    <2>1. zs_writer(s, fd, r) = Flag(s, fd, {"WANT_WRITE_FROM_WRITE"}, {})
            /\ Writer(z, r) = With(z, {"WANT_WRITE_FROM_WRITE"}, {})
      BY <1>6 DEF zs_writer, Writer
    <2> QED BY <1>4, <2>1, FlagTurns
  <1>7. CASE r \notin {"want_read", "want_write"} /\ z.ssl /\ "ACCEPTING" \in z.status
    <2>1. zs_writer(s, fd, r) = HandshakeOver(t, fd) /\ Writer(z, r) = Over(y)
      BY <1>7 DEF zs_writer, Writer, Handshaking, Status
    <2> HIDE DEF t, y
    <2>2. Turns(s, t, fd, y)
      BY <1>2, <1>3, FieldTurns DEF z
    <2>3. t \in States /\ t.zsockets[fd] = y
      BY <2>2, TurnsAt
    <2>4. Turns(t, HandshakeOver(t, fd), fd, Over(y))
      BY <2>3, OverTurns
    <2> QED BY <2>1, <2>2, <2>4, TurnsTwice
  <1>8. CASE r = "part" /\ ~(z.ssl /\ "ACCEPTING" \in z.status)
    <2>1. zs_writer(s, fd, r) = Flag(s, fd, {"WANT_WRITE_FROM_WRITE"}, {})
            /\ Writer(z, r) = With(z, {"WANT_WRITE_FROM_WRITE"}, {})
      BY <1>8 DEF zs_writer, Writer, Handshaking, Status
    <2> QED BY <1>4, <2>1, FlagTurns
  <1>9. CASE Writing(z, r)
    <2>1. zs_writer(s, fd, r) = Flag(MakeWritable([t EXCEPT !.zsockets[fd].buffer = FALSE], fd),
                                     fd, {}, {"WRITING"})
      BY <1>9 DEF zs_writer, Writing, Handshaking, Status
    <2>2. Writer(z, r) = Written(z, r)
      BY <1>9 DEF Writer, Writing
    <2> HIDE DEF t, y
    <2> QED BY <1>1, <2>1, <2>2, WrittenTurns DEF t, z
  <1> QED BY <1>5, <1>6, <1>7, <1>8, <1>9 DEF Writing

\* zs_reader does what Reader does.
LEMMA ReaderTurns ==
  ASSUME NEW s \in States, NEW fd \in Fds, NEW r
  PROVE  Turns(s, zs_reader(s, fd, r), fd, Reader(s.zsockets[fd], r))
  <1> DEFINE z == s.zsockets[fd]
             y == [z EXCEPT !.read_errno = @ \/ r = "error"]
             t == [s EXCEPT !.zsockets[fd].read_errno = @ \/ r = "error"]
             x == [y EXCEPT !.used = IF r = "done" THEN 1 ELSE IF r = "error" THEN -1 ELSE @]
             v == [t EXCEPT !.zsockets[fd].used = IF r = "done" THEN 1 ELSE IF r = "error"
                   THEN -1 ELSE @]
             eof == IF r = "eof" THEN {"EOF"} ELSE {}
  <1>1. s.zsockets \in [Fds -> Socket] /\ z \in Socket
    BY StateFields
  <1>2. y \in Socket /\ y.status = z.status
    BY <1>1 DEF Socket
  <1>3. t = [s EXCEPT !.zsockets = [s.zsockets EXCEPT ![fd] = y]]
    BY <1>1 DEF States, Socket
  <1>4. {"WANT_READ_FROM_READ"} \in SUBSET Flags /\ {"WANT_WRITE_FROM_READ"} \in SUBSET Flags
    BY DEF Flags, WantRead, WantWrite
  <1>5. CASE r = "want_read"
    <2>1. zs_reader(s, fd, r) = Flag(s, fd, {"WANT_READ_FROM_READ"}, {})
            /\ Reader(z, r) = With(z, {"WANT_READ_FROM_READ"}, {})
      BY <1>5 DEF zs_reader, Reader
    <2> QED BY <1>4, <2>1, FlagTurns
  <1>6. CASE r = "want_write"
    <2>1. zs_reader(s, fd, r) = Flag(s, fd, {"WANT_WRITE_FROM_READ"}, {})
            /\ Reader(z, r) = With(z, {"WANT_WRITE_FROM_READ"}, {})
      BY <1>6 DEF zs_reader, Reader
    <2> QED BY <1>4, <2>1, FlagTurns
  <1>7. CASE r \notin {"want_read", "want_write"} /\ z.ssl /\ "ACCEPTING" \in z.status
    <2>1. zs_reader(s, fd, r) = HandshakeOver(t, fd) /\ Reader(z, r) = Over(y)
      BY <1>7 DEF zs_reader, Reader, Handshaking, Status
    <2> HIDE DEF t, y
    <2>2. Turns(s, t, fd, y)
      BY <1>2, <1>3, FieldTurns DEF z
    <2>3. t \in States /\ t.zsockets[fd] = y
      BY <2>2, TurnsAt
    <2>4. Turns(t, HandshakeOver(t, fd), fd, Over(y))
      BY <2>3, OverTurns
    <2> QED BY <2>1, <2>2, <2>4, TurnsTwice
  <1>8. CASE r \notin {"want_read", "want_write"} /\ ~(z.ssl /\ "ACCEPTING" \in z.status)
    <2>1. zs_reader(s, fd, r) = Flag(MakeReadable(v, fd), fd, eof, {"READING"})
      BY <1>8 DEF zs_reader, Handshaking, Status
    <2>2. Reader(z, r) = With(With(x, {"READABLE"}, {}), eof, {"READING"})
      BY <1>8 DEF Reader
    <2>3. x \in Socket /\ x.status = z.status
      <3> DEFINE n == IF r = "done" THEN 1 ELSE IF r = "error" THEN -1 ELSE y.used
      <3>1. n \in -1 .. 1
        BY <1>2 DEF Socket
      <3>2. x = [y EXCEPT !.used = n]
        OBVIOUS
      <3> HIDE DEF n, y, x
      <3> QED BY <1>2, <3>1, <3>2 DEF Socket
    <2>4. v = [s EXCEPT !.zsockets = [s.zsockets EXCEPT ![fd] = x]]
      <3> HIDE DEF t, y
      <3>1. t \in States /\ t.zsockets = [s.zsockets EXCEPT ![fd] = y] /\ t.zsockets[fd] = y
        BY <1>1, <1>2, <1>3 DEF States
      <3>2. v = [t EXCEPT !.zsockets = [t.zsockets EXCEPT ![fd] = x]]
        BY <1>2, <3>1 DEF States, Socket
      <3>3. [t.zsockets EXCEPT ![fd] = x] = [s.zsockets EXCEPT ![fd] = x]
        BY <1>1, <3>1
      <3>4. \A q : [t EXCEPT !.zsockets = q] = [s EXCEPT !.zsockets = q]
        BY <1>3 DEF States
      <3> QED BY <3>2, <3>3, <3>4
    <2>5. eof \in SUBSET Flags /\ "READABLE" \notin eof /\ "WRITABLE" \notin eof
      BY DEF Flags
    <2> HIDE DEF v, x, eof
    <2>6. Turns(s, v, fd, x)
      BY <2>3, <2>4, FieldTurns DEF z
    <2>7. v \in States /\ v.zsockets[fd] = x
      BY <2>6, TurnsAt
    <2> DEFINE u == MakeReadable(v, fd)
               w == With(x, {"READABLE"}, {})
    <2>8. Turns(v, u, fd, w)
      BY <2>7, MakeReadableTurns
    <2> HIDE DEF u, w
    <2>9. u \in States /\ u.zsockets[fd] = w
      BY <2>7, <2>8, TurnsAt
    <2>10. Turns(u, Flag(u, fd, eof, {"READING"}), fd, With(w, eof, {"READING"}))
      BY <2>5, <2>9, FlagTurns
    <2>11. Turns(s, u, fd, w)
      BY <2>6, <2>8, TurnsTwice
    <2>12. Turns(s, Flag(u, fd, eof, {"READING"}), fd, With(w, eof, {"READING"}))
      BY <2>10, <2>11, TurnsTwice
    <2> QED BY <2>1, <2>2, <2>12 DEF u, w
  <1> QED BY <1>5, <1>6, <1>7, <1>8

----------------------------------------------------------------------------
(* What select() watches, what the program asked to hear of, and closing. *)

\* t differs from s at fd only, and n_selectable follows.
Shifts(s, t, fd) == t \in States /\ Apart(s, t, fd) /\ (Counted(s) => Counted(t))

\* Two such steps are one.
LEMMA ShiftsTwice ==
  ASSUME NEW s, NEW t, NEW u, NEW fd, Shifts(s, t, fd), Shifts(t, u, fd)
  PROVE  Shifts(s, u, fd)
  BY DEF Shifts, Apart

\* A change of the socket is such a step.
LEMMA TurnsShifts ==
  ASSUME NEW s \in States, NEW t, NEW fd \in Fds, NEW z, Turns(s, t, fd, z)
  PROVE  Shifts(s, t, fd)
  <1>1. s.zsockets \in [Fds -> Socket]
    BY StateFields
  <1> QED BY <1>1 DEF Turns, Shifts, Apart

\* zs_update_fd_state: select() watches what the socket wants, and nothing
\* else changes.
Rewatches(s, t, fd) ==
  /\ Shifts(s, t, fd) /\ Watched(t, fd)
  /\ t.zsockets = s.zsockets /\ t.active_read = s.active_read /\ t.active_write = s.active_write

\* zs_update_fd_state does that.
LEMMA UpdateRewatches ==
  ASSUME NEW s \in States, NEW fd \in Fds
  PROVE  Rewatches(s, zs_update_fd_state(s, fd), fd)
  <1> DEFINE t == zs_update_fd_state(s, fd)
             w == IF WantsWrite(s, fd) THEN s.zfd_write \cup {fd}
                  ELSE IF s.zsockets[fd].type = "CONNECT" THEN s.zfd_write \ {fd}
                  ELSE s.zfd_write
             r == IF WantsRead(s, fd) THEN s.zfd_read \cup {fd} ELSE s.zfd_read \ {fd}
  <1>1. t = [s EXCEPT !.zfd_write = w, !.zfd_read = r]
    BY DEF zs_update_fd_state, States
  <1>2. w \in SUBSET Fds /\ r \in SUBSET Fds
    BY StateFields
  <1>3. /\ s.zsockets[fd].type = "CONNECT" => (fd \in w <=> WantsWrite(s, fd))
        /\ fd \in r <=> WantsRead(s, fd)
        /\ \A g \in Fds : g # fd =>
             (g \in w <=> g \in s.zfd_write) /\ (g \in r <=> g \in s.zfd_read)
    OBVIOUS
  <1> HIDE DEF t, w, r
  <1>4. t \in States
    BY <1>1, <1>2 DEF States
  <1>5. /\ t.zsockets = s.zsockets /\ t.active_read = s.active_read
           /\ t.active_write = s.active_write
        /\ t.n_selectable = s.n_selectable /\ t.zfd_read = r /\ t.zfd_write = w
    BY <1>1 DEF States
  <1>6. Apart(s, t, fd)
    BY <1>3, <1>5 DEF Apart
  <1>7. Counted(s) => Counted(t)
    BY <1>5 DEF Counted, RSelectable, WSelectable, Status
  <1>8. (WantsRead(t, fd) <=> WantsRead(s, fd)) /\ (WantsWrite(t, fd) <=> WantsWrite(s, fd))
    BY <1>5 DEF WantsRead, WantsWrite, Status
  <1>9. Rewatches(s, t, fd)
    BY <1>3, <1>4, <1>5, <1>6, <1>7, <1>8 DEF Rewatches, Shifts, Watched
  <1> QED BY <1>9 DEF t

\* What zs_set_read, zs_clr_read, zs_set_write and zs_clr_write do.
Tunes(s, t, fd) == Shifts(s, t, fd) /\ Watched(t, fd) /\ t.zsockets = s.zsockets

\* n is the count when the program's interest is a and b.
Balanced(s, fd, n, a, b) ==
  /\ \A g \in Fds : g # fd =>
       (g \in a <=> g \in s.active_read) /\ (g \in b <=> g \in s.active_write)
  /\ n - (Bit(fd \in a /\ "READABLE" \in Status(s, fd))
          + Bit(fd \in b /\ "WRITABLE" \in Status(s, fd)))
       = s.n_selectable - (Bit(fd \in s.active_read /\ "READABLE" \in Status(s, fd))
                           + Bit(fd \in s.active_write /\ "WRITABLE" \in Status(s, fd)))

\* s with another interest of the program.
Interested(s, n, a, b) == [s EXCEPT !.n_selectable = n, !.active_read = a, !.active_write = b]

\* A change of interest in fd changes the count by the events of fd.
LEMMA InterestShifts ==
  ASSUME NEW s \in States, NEW fd \in Fds, NEW a \in SUBSET Fds, NEW b \in SUBSET Fds,
         NEW n \in Int, NEW t \in States, Balanced(s, fd, n, a, b), t.zsockets = s.zsockets,
         t.active_read = a, t.active_write = b, t.n_selectable = n, t.zfd_read = s.zfd_read,
         t.zfd_write = s.zfd_write
  PROVE  Shifts(s, t, fd)
  <1>1. Apart(s, t, fd)
    BY DEF Apart, Balanced
  <1>2. \A g : Status(t, g) = Status(s, g)
    BY DEF Status
  <1>3. Events(t, fd) = Bit(fd \in a /\ "READABLE" \in Status(s, fd)) + Bit(fd \in b
          /\ "WRITABLE" \in Status(s, fd))
    BY <1>2 DEF Events, RSelectable, WSelectable
  <1>4. Events(s, fd) = Bit(fd \in s.active_read /\ "READABLE" \in Status(s,
          fd)) + Bit(fd \in s.active_write /\ "WRITABLE" \in Status(s, fd))
    BY DEF Events, RSelectable, WSelectable
  <1>5. t.n_selectable - Events(t, fd) = s.n_selectable - Events(s, fd)
    BY <1>3, <1>4 DEF Balanced
  <1>6. Counted(s) => Counted(t)
    BY <1>1, <1>5, CountKept
  <1> QED BY <1>1, <1>6 DEF Shifts

\* Followed by zs_update_fd_state, it leaves select() watching what the
\* socket wants.
LEMMA InterestTunes ==
  ASSUME NEW s \in States, NEW fd \in Fds, NEW a \in SUBSET Fds, NEW b \in SUBSET Fds,
         NEW n \in Int, NEW t, Balanced(s, fd, n, a, b), t = Interested(s, n, a, b)
  PROVE  /\ Tunes(s, zs_update_fd_state(t, fd), fd)
         /\ zs_update_fd_state(t, fd).active_read = a /\ zs_update_fd_state(t,
            fd).active_write = b
  <1>1. t \in States
    BY DEF States, Interested
  <1>2. /\ t.zsockets = s.zsockets /\ t.active_read = a /\ t.active_write = b
        /\ t.n_selectable = n /\ t.zfd_read = s.zfd_read /\ t.zfd_write = s.zfd_write
    BY DEF States, Interested
  <1>3. PICK u \in States : u = t
    BY <1>1
  <1>4. Shifts(s, u, fd)
    BY <1>2, <1>3, InterestShifts
  <1>5. Rewatches(u, zs_update_fd_state(t, fd), fd)
    BY <1>3, UpdateRewatches
  <1>6. Shifts(s, zs_update_fd_state(t, fd), fd)
    BY <1>4, <1>5, ShiftsTwice DEF Rewatches
  <1> QED BY <1>2, <1>3, <1>5, <1>6 DEF Tunes, Rewatches

\* zs_set_read counts the event of a READABLE socket.
LEMMA zs_set_read_tunes ==
  ASSUME NEW s \in States, NEW fd \in Fds
  PROVE  /\ Tunes(s, zs_set_read(s, fd), fd)
         /\ zs_set_read(s, fd).active_read = s.active_read \cup {fd}
            /\ zs_set_read(s, fd).active_write = s.active_write
  <1> DEFINE a == s.active_read \cup {fd}
             n == IF fd \notin s.active_read /\ "READABLE" \in Status(s, fd)
                 THEN s.n_selectable + 1 ELSE s.n_selectable
             t == Interested(s, n, a, s.active_write)
  <1>1. s.active_read \in SUBSET Fds /\ s.active_write \in SUBSET Fds /\ s.n_selectable \in Int
    BY StateFields
  <1>2. a \in SUBSET Fds /\ n \in Int /\ \A g \in Fds : g # fd =>
          (g \in a <=> g \in s.active_read)
    BY <1>1
  <1>3. Balanced(s, fd, n, a, s.active_write)
    BY <1>1, <1>2 DEF Bit, Balanced
  <1>4. zs_set_read(s, fd) = zs_update_fd_state(t, fd)
    <2>1. [s EXCEPT !.n_selectable = n, !.active_read = a] = t
      BY DEF States, Interested
    <2> HIDE DEF t
    <2> QED BY <2>1 DEF zs_set_read
  <1> HIDE DEF n, a, t
  <1>5. Tunes(s, zs_update_fd_state(t, fd), fd) /\ zs_update_fd_state(t, fd).active_read = a
          /\ zs_update_fd_state(t, fd).active_write = s.active_write
    BY <1>1, <1>2, <1>3, InterestTunes DEF t
  <1> QED BY <1>4, <1>5 DEF a

\* zs_clr_read uncounts it.
LEMMA zs_clr_read_tunes ==
  ASSUME NEW s \in States, NEW fd \in Fds
  PROVE  /\ Tunes(s, zs_clr_read(s, fd), fd)
         /\ zs_clr_read(s, fd).active_read = s.active_read \ {fd}
            /\ zs_clr_read(s, fd).active_write = s.active_write
  <1> DEFINE a == s.active_read \ {fd}
             n == IF fd \in s.active_read /\ "READABLE" \in Status(s, fd)
                 THEN s.n_selectable - 1 ELSE s.n_selectable
             t == Interested(s, n, a, s.active_write)
  <1>1. s.active_read \in SUBSET Fds /\ s.active_write \in SUBSET Fds /\ s.n_selectable \in Int
    BY StateFields
  <1>2. a \in SUBSET Fds /\ n \in Int /\ \A g \in Fds : g # fd =>
          (g \in a <=> g \in s.active_read)
    BY <1>1
  <1>3. Balanced(s, fd, n, a, s.active_write)
    BY <1>1, <1>2 DEF Bit, Balanced
  <1>4. zs_clr_read(s, fd) = zs_update_fd_state(t, fd)
    <2>1. [s EXCEPT !.n_selectable = n, !.active_read = a] = t
      BY DEF States, Interested
    <2> HIDE DEF t
    <2> QED BY <2>1 DEF zs_clr_read
  <1> HIDE DEF n, a, t
  <1>5. Tunes(s, zs_update_fd_state(t, fd), fd) /\ zs_update_fd_state(t, fd).active_read = a
          /\ zs_update_fd_state(t, fd).active_write = s.active_write
    BY <1>1, <1>2, <1>3, InterestTunes DEF t
  <1> QED BY <1>4, <1>5 DEF a

\* zs_set_write counts the event of a WRITABLE socket.
LEMMA zs_set_write_tunes ==
  ASSUME NEW s \in States, NEW fd \in Fds
  PROVE  /\ Tunes(s, zs_set_write(s, fd), fd)
         /\ zs_set_write(s, fd).active_write = s.active_write \cup {fd}
            /\ zs_set_write(s, fd).active_read = s.active_read
  <1> DEFINE a == s.active_write \cup {fd}
             n == IF fd \notin s.active_write /\ "WRITABLE" \in Status(s, fd)
                 THEN s.n_selectable + 1 ELSE s.n_selectable
             t == Interested(s, n, s.active_read, a)
  <1>1. s.active_read \in SUBSET Fds /\ s.active_write \in SUBSET Fds /\ s.n_selectable \in Int
    BY StateFields
  <1>2. a \in SUBSET Fds /\ n \in Int /\ \A g \in Fds : g # fd =>
          (g \in a <=> g \in s.active_write)
    BY <1>1
  <1>3. Balanced(s, fd, n, s.active_read, a)
    BY <1>1, <1>2 DEF Bit, Balanced
  <1>4. zs_set_write(s, fd) = zs_update_fd_state(t, fd)
    <2>1. [s EXCEPT !.n_selectable = n, !.active_write = a] = t
      BY DEF States, Interested
    <2> HIDE DEF t
    <2> QED BY <2>1 DEF zs_set_write
  <1> HIDE DEF n, a, t
  <1>5. Tunes(s, zs_update_fd_state(t, fd), fd) /\ zs_update_fd_state(t,
          fd).active_read = s.active_read /\ zs_update_fd_state(t, fd).active_write = a
    BY <1>1, <1>2, <1>3, InterestTunes DEF t
  <1> QED BY <1>4, <1>5 DEF a

\* zs_clr_write uncounts it.
LEMMA zs_clr_write_tunes ==
  ASSUME NEW s \in States, NEW fd \in Fds
  PROVE  /\ Tunes(s, zs_clr_write(s, fd), fd)
         /\ zs_clr_write(s, fd).active_write = s.active_write \ {fd}
            /\ zs_clr_write(s, fd).active_read = s.active_read
  <1> DEFINE a == s.active_write \ {fd}
             n == IF fd \in s.active_write /\ "WRITABLE" \in Status(s, fd)
                 THEN s.n_selectable - 1 ELSE s.n_selectable
             t == Interested(s, n, s.active_read, a)
  <1>1. s.active_read \in SUBSET Fds /\ s.active_write \in SUBSET Fds /\ s.n_selectable \in Int
    BY StateFields
  <1>2. a \in SUBSET Fds /\ n \in Int /\ \A g \in Fds : g # fd =>
          (g \in a <=> g \in s.active_write)
    BY <1>1
  <1>3. Balanced(s, fd, n, s.active_read, a)
    BY <1>1, <1>2 DEF Bit, Balanced
  <1>4. zs_clr_write(s, fd) = zs_update_fd_state(t, fd)
    <2>1. [s EXCEPT !.n_selectable = n, !.active_write = a] = t
      BY DEF States, Interested
    <2> HIDE DEF t
    <2> QED BY <2>1 DEF zs_clr_write
  <1> HIDE DEF n, a, t
  <1>5. Tunes(s, zs_update_fd_state(t, fd), fd) /\ zs_update_fd_state(t,
          fd).active_read = s.active_read /\ zs_update_fd_state(t, fd).active_write = a
    BY <1>1, <1>2, <1>3, InterestTunes DEF t
  <1> QED BY <1>4, <1>5 DEF a

\* The socket fd is gone, and the program's interest in it with it.
Closes(s, t, fd) ==
  Shifts(s, t, fd) /\ t.zsockets[fd] = Null /\ fd \notin t.active_read
      /\ fd \notin t.active_write

\* No socket is a socket record.
LEMMA NullSocket == Null \in Socket
  BY DEF Null, Socket

\* The whole of zs_close does that, and takes the events of the socket off
\* the count.
LEMMA FullCloseCloses ==
  ASSUME NEW s \in States, NEW fd \in Fds
  PROVE  Closes(s, FullClose(s, fd), fd)
  <1> DEFINE u == [s EXCEPT !.zfd_read = @ \ {fd}, !.zfd_write = @ \ {fd}]
             v == zs_clr_read(u, fd)
             w == zs_clr_write(v, fd)
             t == [w EXCEPT !.zsockets = [w.zsockets EXCEPT ![fd] = Null]]
  <1>1. u \in States
    BY DEF States
  <1>2. /\ u.zsockets = s.zsockets /\ u.active_read = s.active_read
           /\ u.active_write = s.active_write /\ u.n_selectable = s.n_selectable
        /\ \A g \in Fds : g # fd => (g \in u.zfd_read <=> g \in s.zfd_read)
           /\ (g \in u.zfd_write <=> g \in s.zfd_write)
    BY DEF States
  <1>3. FullClose(s, fd) = [w EXCEPT !.zsockets[fd] = Null]
    BY DEF FullClose
  <1> HIDE DEF u
  <1>4. Shifts(s, u, fd)
    BY <1>1, <1>2 DEF Shifts, Apart, Counted, RSelectable, WSelectable, Status
  <1>5. Tunes(u, v, fd) /\ v.active_read = u.active_read \ {fd}
          /\ v.active_write = u.active_write
    BY <1>1, zs_clr_read_tunes
  <1>6. v \in States
    BY <1>5 DEF Tunes, Shifts
  <1> HIDE DEF v
  <1>7. Tunes(v, w, fd) /\ w.active_write = v.active_write \ {fd}
          /\ w.active_read = v.active_read
    BY <1>6, zs_clr_write_tunes
  <1>8. w \in States
    BY <1>7 DEF Tunes, Shifts
  <1>9. fd \notin w.active_read /\ fd \notin w.active_write
    BY <1>5, <1>7
  <1> HIDE DEF w
  <1>10. w.n_selectable \in Int /\ w.zsockets \in [Fds -> Socket]
    BY <1>8, StateFields
  <1>11. FullClose(s, fd) = t
    BY <1>3, <1>8 DEF States
  <1>12. t = [w EXCEPT !.zsockets = [w.zsockets EXCEPT ![fd] = Null],
              !.n_selectable = w.n_selectable]
    BY <1>8 DEF States
  <1>13. w.n_selectable - Adds(w, fd, Null) = w.n_selectable - Adds(w, fd, w.zsockets[fd])
    BY <1>9 DEF Adds
  <1> HIDE DEF t
  <1>14. Turns(w, t, fd, Null)
    BY <1>8, <1>10, <1>12, <1>13, NullSocket, TurnsCounted
  <1>15. Shifts(w, t, fd)
    BY <1>8, <1>14, TurnsShifts
  <1>16. Shifts(s, v, fd)
    BY <1>4, <1>5, ShiftsTwice DEF Tunes
  <1>17. Shifts(s, w, fd)
    BY <1>7, <1>16, ShiftsTwice DEF Tunes
  <1>18. Shifts(s, t, fd)
    BY <1>15, <1>17, ShiftsTwice
  <1>19. t.zsockets[fd] = Null
    BY <1>8, <1>14, TurnsAt
  <1>20. fd \notin t.active_read /\ fd \notin t.active_write
    BY <1>9, <1>14 DEF Turns
  <1> QED BY <1>11, <1>18, <1>19, <1>20 DEF Closes

\* A change of the socket before it is closed makes no difference.
LEMMA TurnsCloses ==
  ASSUME NEW s \in States, NEW t, NEW u, NEW fd \in Fds, NEW z, Turns(s, t, fd, z),
         Closes(t, u, fd)
  PROVE  Closes(s, u, fd)
  BY TurnsShifts, ShiftsTwice DEF Closes

\* To do nothing is to leave the socket what it is.
LEMMA TurnsNot ==
  ASSUME NEW s \in States, NEW fd \in Fds
  PROVE  Turns(s, s, fd, s.zsockets[fd])
  BY DEF Turns, States

\* The end of the write of a socket that the program has closed closes it.
LEMMA WriterCloses ==
  ASSUME NEW s \in States, NEW fd \in Fds, NEW r, s.zsockets[fd].type = "CONNECT",
         "CLOSED" \in s.zsockets[fd].status, Writing(s.zsockets[fd], r)
  PROVE  Closes(s, zs_writer(s, fd, r), fd)
  <1> DEFINE t == Flag(MakeWritable([[s EXCEPT !.zsockets[fd].write_errno = @
                                      \/ r = "error"] EXCEPT !.zsockets[fd].buffer = FALSE],
                                         fd),
                       fd, {}, {"WRITING"})
  <1>1. zs_writer(s, fd, r) = zs_close(t, fd)
    BY DEF zs_writer, Writing, Handshaking, Status
  <1>2. Turns(s, t, fd, Written(s.zsockets[fd], r))
    BY WrittenTurns
  <1> HIDE DEF t
  <1>3. t \in States /\ t.zsockets[fd] = Written(s.zsockets[fd], r)
    BY <1>2, TurnsAt
  <1>4. "WRITING" \notin t.zsockets[fd].status /\ t.zsockets[fd].type = "CONNECT"
    <2>1. s.zsockets[fd] \in Socket
      BY SocketFacts
    <2> QED BY <1>3, <2>1 DEF Written, With, Socket
  <1>5. zs_close(t, fd) = FullClose(t, fd)
    BY <1>4 DEF zs_close
  <1>6. Closes(t, FullClose(t, fd), fd)
    BY <1>3, FullCloseCloses
  <1> QED BY <1>1, <1>2, <1>5, <1>6, TurnsCloses

----------------------------------------------------------------------------
(* The handlers of a connection. *)

\* zs_writer, called for what the write wanted.
AfterWrite(z, want, r) == IF want \in z.status THEN Writer(With(z, {}, {want}), r) ELSE z

\* zs_reader, called for what the read wanted.
AfterRead(z, want, r) == IF want \in z.status THEN Reader(With(z, {}, {want}), r) ELSE z

\* The call of zs_reader does to the state what AfterRead does to the
\* socket.
LEMMA AfterReadTurns ==
  ASSUME NEW s \in States, NEW fd \in Fds, NEW want \in FromRead, NEW r, NEW t,
         t = IF want \in Status(s, fd) THEN zs_reader(Flag(s, fd, {}, {want}), fd, r) ELSE s
  PROVE  Turns(s, t, fd, AfterRead(s.zsockets[fd], want, r))
  <1>1. CASE want \notin Status(s, fd)
    <2>1. t = s /\ AfterRead(s.zsockets[fd], want, r) = s.zsockets[fd]
      BY <1>1 DEF AfterRead, Status
    <2> QED BY <2>1, TurnsNot
  <1>2. CASE want \in Status(s, fd)
    <2> DEFINE u == Flag(s, fd, {}, {want})
               y == With(s.zsockets[fd], {}, {want})
    <2>1. t = zs_reader(u, fd, r) /\ AfterRead(s.zsockets[fd], want, r) = Reader(y, r)
      BY <1>2 DEF AfterRead, Status
    <2>2. "READABLE" \notin {want} /\ "WRITABLE" \notin {want}
      BY DEF FromRead
    <2>3. Turns(s, u, fd, y)
      BY <2>2, FlagTurns
    <2> HIDE DEF u, y
    <2>4. u \in States /\ u.zsockets[fd] = y
      BY <2>3, TurnsAt
    <2>5. Turns(u, t, fd, Reader(y, r))
      BY <2>1, <2>4, ReaderTurns
    <2> QED BY <2>1, <2>3, <2>5, TurnsTwice
  <1> QED BY <1>1, <1>2

\* What the handlers leave alone: y is the connection that z was.
Kept(z, y) ==
  /\ y \in Socket /\ y.type = "CONNECT" /\ Linked(y)
  /\ "CLOSED" \in y.status <=> "CLOSED" \in z.status

\* The socket z is a connection.
Conn(z) == z \in Socket /\ z.type = "CONNECT" /\ Linked(z)

\* HandshakeOver leaves a connection.
LEMMA OverKeeps ==
  ASSUME NEW z, Conn(z)
  PROVE  /\ Over(z) \in Socket /\ Over(z).type = "CONNECT" /\ Over(z).used = z.used
            /\ Over(z).buffer = z.buffer
         /\ Over(z).status = (z.status \ {"ACCEPTING"}) \cup
               (IF "READING" \in z.status THEN {"WANT_READ_FROM_READ"}
                ELSE IF "WRITING" \in z.status THEN {"WANT_WRITE_FROM_WRITE"} ELSE {})
  BY DEF Over, With, Conn, Socket, Flags, WantRead, WantWrite

\* The socket once its write is over.
LEMMA WrittenFacts ==
  ASSUME NEW z \in Socket, NEW r
  PROVE  /\ Written(z, r) \in Socket /\ Written(z, r).type = z.type
            /\ Written(z, r).used = z.used /\ Written(z, r).buffer = FALSE
         /\ Written(z, r).status = (z.status \cup {"WRITABLE"}) \ {"WRITING"}
  <1> DEFINE y == [z EXCEPT !.write_errno = @ \/ r = "error", !.buffer = FALSE]
             x == With(y, {"WRITABLE"}, {})
  <1>1. y \in Socket /\ y.status = z.status /\ y.type = z.type /\ y.used = z.used
          /\ y.buffer = FALSE
    BY DEF Socket
  <1>2. Written(z, r) = With(x, {}, {"WRITING"})
    BY DEF Written
  <1> HIDE DEF y
  <1>3. Flagged(x, y, {"WRITABLE"}, {})
    BY <1>1, WithFlagged, FlagNames
  <1> HIDE DEF x
  <1>4. x \in Socket
    BY <1>3 DEF Flagged
  <1>5. Flagged(With(x, {}, {"WRITING"}), x, {}, {"WRITING"})
    BY <1>4, WithFlagged
  <1> QED BY <1>1, <1>2, <1>3, <1>5 DEF Flagged

\* zs_writer leaves a connection.
LEMMA WriterKeeps ==
  ASSUME NEW z, NEW r, Conn(z)
  PROVE  Kept(z, Writer(z, r))
  <1>1. z \in Socket /\ z.type = "CONNECT" /\ Linked(z)
    BY DEF Conn
  <1>2. CASE r = "want_read"
    BY <1>1, <1>2 DEF Writer, With, Kept, Linked, Socket, Flags, WantRead
  <1>3. CASE r = "want_write" \/ (r = "part" /\ ~(z.ssl /\ "ACCEPTING" \in z.status))
    BY <1>1, <1>3 DEF Writer, With, Kept, Linked, Socket, Flags, WantWrite
  <1>4. CASE r \notin {"want_read", "want_write"} /\ z.ssl /\ "ACCEPTING" \in z.status
    <2> DEFINE y == [z EXCEPT !.write_errno = @ \/ r = "error"]
    <2>1. Writer(z, r) = Over(y)
      BY <1>4 DEF Writer
    <2>2. Conn(y) /\ y.status = z.status
      BY <1>1 DEF Conn, Socket, Linked
    <2> HIDE DEF y
    <2> QED BY <1>1, <2>1, <2>2, OverKeeps DEF Kept, Linked
  <1>5. CASE Writing(z, r)
    <2>1. Writer(z, r) = Written(z, r)
      BY <1>5 DEF Writer, Writing
    <2> DEFINE w == Written(z, r)
    <2>2. w \in Socket /\ w.type = z.type
            /\ w.status = (z.status \cup {"WRITABLE"}) \ {"WRITING"}
      BY <1>1, WrittenFacts
    <2> HIDE DEF w
    <2>3. Kept(z, w)
      BY <1>1, <2>2 DEF Kept, Linked
    <2> QED BY <2>1, <2>3 DEF w
  <1> QED BY <1>2, <1>3, <1>4, <1>5 DEF Writing

\* zs_reader leaves a connection.
LEMMA ReaderKeeps ==
  ASSUME NEW z, NEW r, Conn(z)
  PROVE  Kept(z, Reader(z, r))
  <1>1. z \in Socket /\ z.type = "CONNECT" /\ Linked(z)
    BY DEF Conn
  <1>2. CASE r = "want_read"
    BY <1>1, <1>2 DEF Reader, With, Kept, Linked, Socket, Flags, WantRead
  <1>3. CASE r = "want_write"
    BY <1>1, <1>3 DEF Reader, With, Kept, Linked, Socket, Flags, WantWrite
  <1> DEFINE y == [z EXCEPT !.read_errno = @ \/ r = "error"]
  <1>4. Conn(y) /\ y.status = z.status /\ y \in Socket /\ y.used = z.used
    BY <1>1 DEF Conn, Socket, Linked
  <1>5. CASE r \notin {"want_read", "want_write"} /\ z.ssl /\ "ACCEPTING" \in z.status
    <2>1. Reader(z, r) = Over(y)
      BY <1>5 DEF Reader
    <2> HIDE DEF y
    <2> QED BY <1>1, <1>4, <2>1, OverKeeps DEF Kept, Linked
  <1>6. CASE r \notin {"want_read", "want_write"} /\ ~(z.ssl /\ "ACCEPTING" \in z.status)
    <2> DEFINE n == IF r = "done" THEN 1 ELSE IF r = "error" THEN -1 ELSE y.used
               x == [y EXCEPT !.used = n]
               e == IF r = "eof" THEN {"EOF"} ELSE {}
    <2>1. Reader(z, r) = With(With(x, {"READABLE"}, {}), e, {"READING"})
      BY <1>6 DEF Reader
    <2>2. n \in -1 .. 1
      BY <1>4 DEF Socket
    <2>3. e \in SUBSET {"EOF"}
      OBVIOUS
    <2> HIDE DEF y, n, e
    <2>4. x \in Socket /\ x.type = y.type /\ x.status = y.status
      BY <1>4, <2>2 DEF Socket
    <2> HIDE DEF x
    <2> DEFINE w == With(x, {"READABLE"}, {})
    <2>5. Flagged(w, x, {"READABLE"}, {})
      BY <2>4, WithFlagged, FlagNames
    <2> HIDE DEF w
    <2>6. w \in Socket /\ e \in SUBSET Flags
      BY <2>3, <2>5, FlagNames DEF Flagged
    <2>7. Flagged(With(w, e, {"READING"}), w, e, {"READING"})
      BY <2>6, WithFlagged
    <2>8. Kept(z, With(w, e, {"READING"}))
      BY <1>1, <1>4, <2>3, <2>4, <2>5, <2>7 DEF Flagged, Kept, Conn, Linked
    <2> QED BY <2>1, <2>8 DEF w
  <1> QED BY <1>2, <1>3, <1>5, <1>6

\* So does the call for what the write wanted,
LEMMA AfterWriteKeeps ==
  ASSUME NEW z, NEW want \in FromWrite, NEW r, Conn(z)
  PROVE  Kept(z, AfterWrite(z, want, r))
  <1>1. CASE want \notin z.status
    BY <1>1 DEF AfterWrite, Kept, Conn
  <1>2. CASE want \in z.status
    <2> DEFINE y == With(z, {}, {want})
    <2>1. Flagged(y, z, {}, {want})
      BY WithFlagged DEF Conn
    <2> HIDE DEF y
    <2>2. Conn(y) /\ ("CLOSED" \in y.status <=> "CLOSED" \in z.status)
      BY <2>1 DEF Conn, Flagged, Linked, FromWrite
    <2>3. Kept(y, Writer(y, r))
      BY <2>2, WriterKeeps
    <2> QED BY <1>2, <2>2, <2>3 DEF AfterWrite, Kept, y
  <1> QED BY <1>1, <1>2

\* and the one for what the read wanted.
LEMMA AfterReadKeeps ==
  ASSUME NEW z, NEW want \in FromRead, NEW r, Conn(z)
  PROVE  Kept(z, AfterRead(z, want, r))
  <1>1. CASE want \notin z.status
    BY <1>1 DEF AfterRead, Kept, Conn
  <1>2. CASE want \in z.status
    <2> DEFINE y == With(z, {}, {want})
    <2>1. Flagged(y, z, {}, {want})
      BY WithFlagged DEF Conn
    <2> HIDE DEF y
    <2>2. Conn(y) /\ ("CLOSED" \in y.status <=> "CLOSED" \in z.status)
      BY <2>1 DEF Conn, Flagged, Linked, FromRead
    <2>3. Kept(y, Reader(y, r))
      BY <2>2, ReaderKeeps
    <2> QED BY <1>2, <2>2, <2>3 DEF AfterRead, Kept, y
  <1> QED BY <1>1, <1>2

\* A write of a tidy socket, which is not in its handshake, leaves it tidy.
LEMMA AfterWriteTidy ==
  ASSUME NEW z \in Socket, NEW want \in FromWrite, NEW r, Tidy(z),
         ~("CLOSED" \in z.status /\ Writing(With(z, {}, {want}), r))
  PROVE  Tidy(AfterWrite(z, want, r))
  <1>1. CASE want \notin z.status
    BY <1>1 DEF AfterWrite
  <1>2. CASE want \in z.status
    <2> DEFINE y == With(z, {}, {want})
    <2>1. Flagged(y, z, {}, {want})
      BY WithFlagged
    <2>2. AfterWrite(z, want, r) = Writer(y, r)
      BY <1>2 DEF AfterWrite
    <2>3. ~("CLOSED" \in z.status /\ Writing(y, r))
      OBVIOUS
    <2> HIDE DEF y
    <2>4. /\ y \in Socket /\ y.used = z.used /\ y.buffer = TRUE /\ y.status = z.status \ {want}
          /\ "WRITING" \in y.status /\ "WRITABLE" \notin y.status /\ "ACCEPTING" \notin y.status
             /\ FromWrite \cap y.status = {}
      BY <1>2, <2>1 DEF Flagged, Tidy, Writes, FromWrite, Socket
    <2>5. "CONNECTED" \in y.status /\ FromConnect \cap y.status = {} /\ Reads(y)
      BY <2>4 DEF Tidy, Reads, FromWrite, FromRead, FromConnect
    <2>6. ASSUME NEW x \in Socket, NEW f \in FromWrite, Flagged(x, y, {f}, {}) PROVE Tidy(x)
      <3>1. x.status = y.status \cup {f} /\ x.used = y.used /\ x.buffer = TRUE
        BY <2>4, <2>6 DEF Flagged
      <3>2. "CONNECTED" \in x.status /\ FromConnect \cap x.status = {} /\ Reads(x)
        BY <2>5, <3>1 DEF Reads, FromWrite, FromRead, FromConnect
      <3>3. Writes(x)
        BY <2>4, <3>1 DEF Writes, FromWrite
      <3> QED BY <3>2, <3>3 DEF Tidy
    <2>7. CASE r = "want_read"
      <3>1. Writer(y, r) = With(y, {"WANT_READ_FROM_WRITE"}, {})
        BY <2>7 DEF Writer
      <3>2. Flagged(Writer(y, r), y, {"WANT_READ_FROM_WRITE"}, {})
        BY <2>4, <3>1, WithFlagged, FlagNames DEF WantRead
      <3> QED BY <2>2, <2>6, <3>2 DEF Flagged, FromWrite
    <2>8. CASE r \in {"want_write", "part"}
      <3>1. Writer(y, r) = With(y, {"WANT_WRITE_FROM_WRITE"}, {})
        BY <2>4, <2>8 DEF Writer
      <3>2. Flagged(Writer(y, r), y, {"WANT_WRITE_FROM_WRITE"}, {})
        BY <2>4, <3>1, WithFlagged, FlagNames DEF WantWrite
      <3> QED BY <2>2, <2>6, <3>2 DEF Flagged, FromWrite
    <2>9. CASE r \notin {"want_read", "want_write", "part"}
      <3>1. Writer(y, r) = Written(y, r) /\ Writing(y, r)
        BY <2>4, <2>9 DEF Writer, Writing
      <3>2. "CLOSED" \notin y.status
        BY <2>3, <2>4, <3>1
      <3> DEFINE x == Written(y, r)
      <3>3. x.status = (y.status \cup {"WRITABLE"}) \ {"WRITING"} /\ x.used = y.used
              /\ x.buffer = FALSE
        BY <2>4, WrittenFacts
      <3> HIDE DEF x
      <3>4. "CONNECTED" \in x.status /\ FromConnect \cap x.status = {} /\ Reads(x)
        BY <2>5, <3>3 DEF Reads, FromRead, FromConnect
      <3>5. Writes(x)
        BY <2>4, <3>2, <3>3 DEF Writes, FromWrite
      <3> QED BY <2>2, <3>1, <3>4, <3>5 DEF Tidy, x
    <2> QED BY <2>7, <2>8, <2>9
  <1> QED BY <1>1, <1>2

\* A read that is under way on a tidy socket leaves it tidy: it ends with
\* the buffer announced, or wants one thing.
LEMMA ReaderTidy ==
  ASSUME NEW y \in Socket, NEW r \in {"done", "eof", "error", "want_read", "want_write"},
         "READING" \in y.status, "READABLE" \notin y.status, FromRead \cap y.status = {},
         y.used = 0, "CONNECTED" \in y.status, FromConnect \cap y.status = {}, Writes(y)
  PROVE  Tidy(Reader(y, r))
  <1>1. ASSUME NEW x \in Socket, NEW f \in FromRead, Flagged(x, y, {f}, {}) PROVE Tidy(x)
    <2>1. x.status = y.status \cup {f} /\ x.used = y.used /\ x.buffer = y.buffer
      BY <1>1 DEF Flagged
    <2>2. "CONNECTED" \in x.status /\ FromConnect \cap x.status = {} /\ Writes(x)
      BY <2>1 DEF Writes, FromWrite, FromRead, FromConnect
    <2>3. Reads(x)
      BY <2>1 DEF Reads, FromRead
    <2> QED BY <2>2, <2>3 DEF Tidy
  <1>2. CASE r = "want_read"
    <2>1. Reader(y, r) = With(y, {"WANT_READ_FROM_READ"}, {})
      BY <1>2 DEF Reader
    <2>2. Flagged(Reader(y, r), y, {"WANT_READ_FROM_READ"}, {})
      BY <2>1, WithFlagged, FlagNames DEF WantRead
    <2> QED BY <1>1, <2>2 DEF Flagged, FromRead
  <1>3. CASE r = "want_write"
    <2>1. Reader(y, r) = With(y, {"WANT_WRITE_FROM_READ"}, {})
      BY <1>3 DEF Reader
    <2>2. Flagged(Reader(y, r), y, {"WANT_WRITE_FROM_READ"}, {})
      BY <2>1, WithFlagged, FlagNames DEF WantWrite
    <2> QED BY <1>1, <2>2 DEF Flagged, FromRead
  <1> DEFINE v == [y EXCEPT !.read_errno = @ \/ r = "error"]
  <1>4. v \in Socket /\ v.status = y.status /\ v.used = 0 /\ v.buffer = y.buffer
    BY DEF Socket
  <1>5. CASE r \in {"done", "eof", "error"} /\ y.ssl /\ "ACCEPTING" \in y.status
    <2> DEFINE x == Over(v)
    <2>1. Reader(y, r) = x
      BY <1>5 DEF Reader
    <2> HIDE DEF v
    <2>2. Flagged(x, v, {"WANT_READ_FROM_READ"}, {"ACCEPTING"})
      BY <1>4, WithFlagged, FlagNames DEF Over, WantRead
    <2> HIDE DEF x
    <2>3. x.status = (y.status \ {"ACCEPTING"}) \cup {"WANT_READ_FROM_READ"} /\ x.used = 0
            /\ x.buffer = y.buffer
      BY <1>4, <2>2 DEF Flagged
    <2>4. "CONNECTED" \in x.status /\ FromConnect \cap x.status = {} /\ Writes(x)
      BY <1>5, <2>3 DEF Writes, FromWrite, FromRead, FromConnect
    <2>5. Reads(x)
      BY <2>3 DEF Reads, FromRead
    <2> QED BY <2>1, <2>4, <2>5 DEF Tidy
  <1>6. CASE r \in {"done", "eof", "error"} /\ ~(y.ssl /\ "ACCEPTING" \in y.status)
    <2> DEFINE n == IF r = "done" THEN 1 ELSE IF r = "error" THEN -1 ELSE v.used
               x == [v EXCEPT !.used = n]
               e == IF r = "eof" THEN {"EOF"} ELSE {}
               w == With(x, {"READABLE"}, {})
               u == With(w, e, {"READING"})
    <2>1. Reader(y, r) = u
      BY <1>6 DEF Reader
    <2>2. n \in -1 .. 1 /\ e \in SUBSET {"EOF"} /\ (n = 0 => e = {"EOF"})
      BY <1>4, <1>6
    <2> HIDE DEF v, n, e
    <2>3. x \in Socket /\ x.buffer = y.buffer /\ x.status = y.status /\ x.used = n
      BY <1>4, <2>2 DEF Socket
    <2> HIDE DEF x
    <2>4. Flagged(w, x, {"READABLE"}, {})
      BY <2>3, WithFlagged, FlagNames
    <2> HIDE DEF w
    <2>5. w \in Socket /\ e \in SUBSET Flags
      BY <2>2, <2>4, FlagNames DEF Flagged
    <2>6. Flagged(u, w, e, {"READING"})
      BY <2>5, WithFlagged
    <2> HIDE DEF u
    <2>7. u.status = ((y.status \cup {"READABLE"}) \ {"READING"}) \cup e /\ u.used = n
            /\ u.buffer = y.buffer
      BY <2>3, <2>4, <2>6 DEF Flagged
    <2>8. "CONNECTED" \in u.status /\ FromConnect \cap u.status = {} /\ Writes(u)
      BY <2>2, <2>7 DEF Writes, FromWrite, FromConnect
    <2>9. Reads(u)
      BY <2>2, <2>7 DEF Reads, FromRead
    <2> QED BY <2>1, <2>8, <2>9 DEF Tidy
  <1> QED BY <1>2, <1>3, <1>5, <1>6

\* So does the call for what the read wanted.
LEMMA AfterReadTidy ==
  ASSUME NEW z \in Socket, NEW want \in FromRead,
         NEW r \in {"done", "eof", "error", "want_read", "want_write"}, Tidy(z)
  PROVE  Tidy(AfterRead(z, want, r))
  <1>1. CASE want \notin z.status
    BY <1>1 DEF AfterRead
  <1>2. CASE want \in z.status
    <2> DEFINE y == With(z, {}, {want})
    <2>1. Flagged(y, z, {}, {want})
      BY WithFlagged
    <2>2. AfterRead(z, want, r) = Reader(y, r)
      BY <1>2 DEF AfterRead
    <2> HIDE DEF y
    <2>3. /\ y \in Socket /\ y.buffer = z.buffer /\ y.status = z.status \ {want} /\ y.used = 0
          /\ "READING" \in y.status /\ "READABLE" \notin y.status /\ FromRead \cap y.status = {}
      BY <1>2, <2>1 DEF Flagged, Tidy, Reads, FromRead, Socket
    <2>4. "CONNECTED" \in y.status /\ FromConnect \cap y.status = {} /\ Writes(y)
      BY <2>3 DEF Tidy, Writes, FromWrite, FromRead, FromConnect
    <2> QED BY <2>2, <2>3, <2>4, ReaderTidy
  <1> QED BY <1>1, <1>2

\* The socket was handled: it is the connection it was, or the write that it
\* waited for with its close is over.
Handled(s, t, fd) ==
  \/ \E z \in Socket :
       Turns(s, t, fd, z) /\ Kept(s.zsockets[fd], z) /\ (Tidy(s.zsockets[fd]) => Tidy(z))
  \/ "CLOSED" \in s.zsockets[fd].status /\ Closes(s, t, fd)

\* The call of zs_writer handles the socket.
LEMMA AfterWriteHandled ==
  ASSUME NEW s \in States, NEW fd \in Fds, NEW want \in FromWrite, NEW r, NEW t,
         Conn(s.zsockets[fd]),
         t = IF want \in Status(s, fd) THEN zs_writer(Flag(s, fd, {}, {want}), fd, r) ELSE s
  PROVE  Handled(s, t, fd)
  <1> DEFINE z == s.zsockets[fd]
             y == With(z, {}, {want})
  <1>1. z \in Socket /\ z.type = "CONNECT"
    BY DEF Conn
  <1>2. CASE want \notin Status(s, fd)
    <2>1. t = s
      BY <1>2
    <2> QED BY <1>1, <2>1, TurnsNot DEF Handled, Kept, Conn
  <1>3. CASE want \in Status(s, fd)
    <2> DEFINE u == Flag(s, fd, {}, {want})
    <2>1. t = zs_writer(u, fd, r) /\ AfterWrite(z, want, r) = Writer(y, r)
      BY <1>3 DEF AfterWrite, Status
    <2>2. "READABLE" \notin {want} /\ "WRITABLE" \notin {want} /\ want # "CLOSED"
      BY DEF FromWrite
    <2>3. Turns(s, u, fd, y)
      BY <2>2, FlagTurns
    <2>4. y.type = "CONNECT" /\ ("CLOSED" \in y.status <=> "CLOSED" \in z.status)
      BY <1>1, <2>2 DEF With, Socket
    <2> HIDE DEF u, y
    <2>5. u \in States /\ u.zsockets[fd] = y
      BY <2>3, TurnsAt
    <2>6. CASE "CLOSED" \in y.status /\ Writing(y, r)
      <3>1. Closes(u, t, fd)
        BY <2>1, <2>4, <2>5, <2>6, WriterCloses
      <3>2. Closes(s, t, fd)
        BY <2>3, <3>1, TurnsCloses
      <3> QED BY <2>4, <2>6, <3>2 DEF Handled
    <2>7. CASE ~("CLOSED" \in y.status /\ Writing(y, r))
      <3>1. Turns(u, t, fd, Writer(y, r))
        BY <2>1, <2>5, <2>7, WriterTurns
      <3>2. Turns(s, t, fd, AfterWrite(z, want, r))
        BY <2>1, <2>3, <3>1, TurnsTwice
      <3>3. Kept(z, AfterWrite(z, want, r))
        BY AfterWriteKeeps
      <3>4. Tidy(z) => Tidy(AfterWrite(z, want, r))
        BY <1>1, <2>4, <2>7, AfterWriteTidy DEF y
      <3>5. AfterWrite(z, want, r) \in Socket
        BY <3>3 DEF Kept
      <3> QED BY <3>2, <3>3, <3>4, <3>5 DEF Handled
    <2> QED BY <2>6, <2>7
  <1> QED BY <1>2, <1>3

\* The call of zs_reader handles the socket.
LEMMA AfterReadHandled ==
  ASSUME NEW s \in States, NEW fd \in Fds, NEW want \in FromRead,
         NEW r \in {"done", "eof", "error", "want_read", "want_write"}, NEW t,
         Conn(s.zsockets[fd]),
         t = IF want \in Status(s, fd) THEN zs_reader(Flag(s, fd, {}, {want}), fd, r) ELSE s
  PROVE  \E z \in Socket : Turns(s, t, fd, z) /\ Kept(s.zsockets[fd], z)
      /\ (Tidy(s.zsockets[fd]) => Tidy(z))
  <1> DEFINE z == s.zsockets[fd]
  <1>1. Turns(s, t, fd, AfterRead(z, want, r))
    BY AfterReadTurns
  <1>2. Kept(z, AfterRead(z, want, r))
    BY AfterReadKeeps
  <1>3. Tidy(z) => Tidy(AfterRead(z, want, r))
    BY AfterReadTidy DEF Conn
  <1>4. AfterRead(z, want, r) \in Socket
    BY <1>2 DEF Kept
  <1> QED BY <1>1, <1>2, <1>3, <1>4

\* One call after the other handles the socket.
LEMMA HandledThen ==
  ASSUME NEW s \in States, NEW t, NEW u, NEW fd \in Fds, NEW z \in Socket, Turns(s, t, fd, z),
         Kept(s.zsockets[fd], z), Tidy(s.zsockets[fd]) => Tidy(z), Handled(t, u, fd)
  PROVE  Handled(s, u, fd)
  <1>1. t.zsockets[fd] = z
    BY TurnsAt
  <1>2. CASE "CLOSED" \in t.zsockets[fd].status /\ Closes(t, u, fd)
    BY <1>1, <1>2, TurnsCloses DEF Handled, Kept
  <1>3. CASE \E y \in Socket : Turns(t, u, fd, y) /\ Kept(t.zsockets[fd], y)
          /\ (Tidy(t.zsockets[fd]) => Tidy(y))
    <2>1. PICK y \in Socket : Turns(t, u, fd, y) /\ Kept(z, y) /\ (Tidy(z) => Tidy(y))
      BY <1>1, <1>3
    <2>2. Turns(s, u, fd, y)
      BY <2>1, TurnsTwice
    <2>3. Kept(s.zsockets[fd], y)
      BY <2>1 DEF Kept
    <2> QED BY <2>1, <2>2, <2>3 DEF Handled
  <1> QED BY <1>2, <1>3 DEF Handled

\* zs_internal_write on a connected socket.
LEMMA WriteThenReadHandled ==
  ASSUME NEW s \in States, NEW fd \in Fds, NEW r,
         r.read \in {"done", "eof", "error", "want_read", "want_write"}, Conn(s.zsockets[fd])
  PROVE  Handled(s, WriteThenRead(s, fd, r), fd)
  <1> DEFINE w == IF "WANT_WRITE_FROM_WRITE" \in Status(s, fd)
                  THEN zs_writer(Flag(s, fd, {}, {"WANT_WRITE_FROM_WRITE"}), fd, r.write) ELSE s
             u == IF "WANT_WRITE_FROM_READ" \in Status(w, fd)
                  THEN zs_reader(Flag(w, fd, {}, {"WANT_WRITE_FROM_READ"}), fd, r.read) ELSE w
  <1>1. WriteThenRead(s, fd, r) = IF IsOpen(w, fd) THEN u ELSE w
    BY DEF WriteThenRead
  <1>2. Handled(s, w, fd)
    <2>1. "WANT_WRITE_FROM_WRITE" \in FromWrite
      BY DEF FromWrite
    <2> QED BY <2>1, AfterWriteHandled
  <1> HIDE DEF w
  <1>3. CASE "CLOSED" \in s.zsockets[fd].status /\ Closes(s, w, fd)
    <2>1. ~IsOpen(w, fd)
      BY <1>3 DEF Closes, IsOpen, Null
    <2> QED BY <1>1, <1>2, <2>1
  <1>4. CASE \E z \in Socket : Turns(s, w, fd, z) /\ Kept(s.zsockets[fd], z)
          /\ (Tidy(s.zsockets[fd]) => Tidy(z))
    <2>1. PICK z \in Socket : Turns(s, w, fd, z) /\ Kept(s.zsockets[fd], z)
            /\ (Tidy(s.zsockets[fd]) => Tidy(z))
      BY <1>4
    <2>2. w \in States /\ w.zsockets[fd] = z
      BY <2>1, TurnsAt
    <2>3. Conn(w.zsockets[fd]) /\ IsOpen(w, fd)
      BY <2>1, <2>2 DEF Kept, Conn, IsOpen
    <2>4. Handled(w, u, fd)
      <3>1. "WANT_WRITE_FROM_READ" \in FromRead
        BY DEF FromRead
      <3> QED BY <2>2, <2>3, <3>1, AfterReadHandled DEF Handled
    <2> HIDE DEF u
    <2>5. Handled(s, u, fd)
      BY <2>1, <2>4, HandledThen
    <2> QED BY <1>1, <2>3, <2>5
  <1> QED BY <1>2, <1>3, <1>4 DEF Handled

\* zs_internal_read on a connected socket: the read it begins finds no read
\* under way and no data unread.
LEMMA ReadThenWriteHandled ==
  ASSUME NEW s \in States, NEW fd \in Fds, NEW r,
         r.read \in {"done", "eof", "error", "want_read", "want_write"}, Conn(s.zsockets[fd]),
         Tidy(s.zsockets[fd]) /\ Status(s, fd) \cap {"WANT_READ_FROM_READ",
                                                     "WANT_READ_FROM_WRITE"} = {} =>
                                                         Status(s, fd) \cap {"READING",
                                                             "READABLE"} = {}
  PROVE  Handled(s, ReadThenWrite(s, fd, r), fd)
  <1> DEFINE b == IF Status(s, fd) \cap {"WANT_READ_FROM_READ", "WANT_READ_FROM_WRITE"} = {}
                  THEN Flag(s, fd, {"READING", "WANT_READ_FROM_READ"}, {}) ELSE s
             g == IF "WANT_READ_FROM_READ" \in Status(b, fd)
                  THEN zs_reader(Flag(b, fd, {}, {"WANT_READ_FROM_READ"}), fd, r.read) ELSE b
             w == IF "WANT_READ_FROM_WRITE" \in Status(g, fd)
                  THEN zs_writer(Flag(g, fd, {}, {"WANT_READ_FROM_WRITE"}), fd, r.write) ELSE g
  <1>1. ReadThenWrite(s, fd, r) = w
    BY DEF ReadThenWrite
  <1>2. s.zsockets[fd] \in Socket
    BY DEF Conn
  <1>3. PICK z \in Socket : Turns(s, b, fd, z) /\ Kept(s.zsockets[fd], z)
          /\ (Tidy(s.zsockets[fd]) => Tidy(z))
    <2>1. CASE Status(s, fd) \cap {"WANT_READ_FROM_READ", "WANT_READ_FROM_WRITE"} = {}
      <3> DEFINE z == With(s.zsockets[fd], {"READING", "WANT_READ_FROM_READ"}, {})
      <3>1. {"READING", "WANT_READ_FROM_READ"} \in SUBSET Flags
        BY FlagNames DEF WantRead
      <3>2. Turns(s, b, fd, z)
        BY <2>1, <3>1, FlagTurns
      <3>3. Flagged(z, s.zsockets[fd], {"READING", "WANT_READ_FROM_READ"}, {})
        BY <1>2, <3>1, WithFlagged
      <3> HIDE DEF z, b
      <3>4. Kept(s.zsockets[fd], z)
        BY <3>3 DEF Flagged, Kept, Conn, Linked
      <3>5. ASSUME Tidy(s.zsockets[fd]) PROVE Tidy(z)
        <4>1. "READING" \notin s.zsockets[fd].status /\ "READABLE" \notin s.zsockets[fd].status
          BY <2>1, <3>5 DEF Status
        <4>2. z.status = s.zsockets[fd].status \cup {"READING", "WANT_READ_FROM_READ"}
                /\ z.used = s.zsockets[fd].used /\ z.buffer = s.zsockets[fd].buffer
          BY <3>3 DEF Flagged
        <4>3. "CONNECTED" \in z.status /\ FromConnect \cap z.status = {} /\ Writes(z)
          BY <3>5, <4>2 DEF Tidy, Writes, FromConnect, FromWrite
        <4>4. Reads(z)
          BY <3>5, <4>1, <4>2 DEF Tidy, Reads, FromRead
        <4> QED BY <4>3, <4>4 DEF Tidy
      <3> QED BY <3>2, <3>4, <3>5 DEF Kept
    <2>2. CASE Status(s, fd) \cap {"WANT_READ_FROM_READ", "WANT_READ_FROM_WRITE"} # {}
      <3>1. b = s
        BY <2>2
      <3> QED BY <1>2, <3>1, TurnsNot DEF Kept, Conn
    <2> QED BY <2>1, <2>2
  <1> HIDE DEF b
  <1>4. b \in States /\ b.zsockets[fd] = z /\ Conn(z)
    BY <1>3, TurnsAt DEF Kept, Conn
  <1>5. PICK y \in Socket : Turns(b, g, fd, y) /\ Kept(z, y) /\ (Tidy(z) => Tidy(y))
    <2>1. "WANT_READ_FROM_READ" \in FromRead
      BY DEF FromRead
    <2> QED BY <1>4, <2>1, AfterReadHandled
  <1> HIDE DEF g
  <1>6. g \in States /\ g.zsockets[fd] = y /\ Conn(y)
    BY <1>4, <1>5, TurnsAt DEF Kept, Conn
  <1>7. Handled(g, w, fd)
    <2>1. "WANT_READ_FROM_WRITE" \in FromWrite
      BY DEF FromWrite
    <2> QED BY <1>6, <2>1, AfterWriteHandled
  <1> HIDE DEF w
  <1>8. Handled(b, w, fd)
    BY <1>4, <1>5, <1>7, HandledThen
  <1>9. Handled(s, w, fd)
    BY <1>3, <1>8, HandledThen
  <1> QED BY <1>1, <1>9

\* An outgoing connection that is not TLS is connected at once.
LEMMA ConnectedFacts ==
  ASSUME NEW z \in Socket, NEW r, ~(z.ssl /\ r = "want_read"), ~(z.ssl /\ r = "want_write")
  PROVE  /\ Connecter(z, r) \in Socket /\ Connecter(z, r).type = z.type
            /\ Connecter(z, r).used = z.used /\ Connecter(z, r).buffer = z.buffer
         /\ Connecter(z, r).status = (z.status \ {"CONNECTING"}) \cup {"WRITABLE", "CONNECTED"}
  <1> DEFINE broken == z.ssl /\ r = "error"
             y == [z EXCEPT !.read_errno = @ \/ broken, !.write_errno = @ \/ broken]
             x == With(y, {"WRITABLE"}, {})
  <1>1. y \in Socket /\ y.status = z.status /\ y.type = z.type /\ y.used = z.used
          /\ y.buffer = z.buffer
    BY DEF Socket
  <1>2. Connecter(z, r) = With(x, {"CONNECTED"}, {"CONNECTING"})
    BY DEF Connecter
  <1> HIDE DEF y
  <1>3. Flagged(x, y, {"WRITABLE"}, {})
    BY <1>1, WithFlagged, FlagNames
  <1> HIDE DEF x
  <1>4. x \in Socket
    BY <1>3 DEF Flagged
  <1>5. Flagged(With(x, {"CONNECTED"}, {"CONNECTING"}), x, {"CONNECTED"}, {"CONNECTING"})
    BY <1>4, WithFlagged, FlagNames
  <1> QED BY <1>1, <1>2, <1>3, <1>5 DEF Flagged

\* zs_connecter leaves a connection.
LEMMA ConnecterKeeps ==
  ASSUME NEW z, NEW r, Conn(z), "CONNECTING" \in z.status
  PROVE  Kept(z, Connecter(z, r))
  <1>1. z \in Socket /\ z.type = "CONNECT" /\ "CONNECTED" \notin z.status
    BY DEF Conn, Linked
  <1>2. CASE z.ssl /\ r = "want_read"
    BY <1>1, <1>2 DEF Connecter, With, Kept, Linked, Socket, Flags, WantRead
  <1>3. CASE z.ssl /\ r = "want_write"
    BY <1>1, <1>3 DEF Connecter, With, Kept, Linked, Socket, Flags, WantWrite
  <1>4. CASE ~(z.ssl /\ r = "want_read") /\ ~(z.ssl /\ r = "want_write")
    BY <1>1, <1>4, ConnectedFacts DEF Kept, Linked
  <1> QED BY <1>2, <1>3, <1>4

\* The handlers of a socket that is connecting.
LEMMA ConnecterHandled ==
  ASSUME NEW s \in States, NEW fd \in Fds, NEW want \in FromConnect, NEW r,
         Conn(s.zsockets[fd]), "CONNECTED" \notin Status(s, fd)
  PROVE  Handled(s, zs_connecter(Flag(s, fd, {}, {want}), fd, r), fd)
  <1> DEFINE z == s.zsockets[fd]
             u == Flag(s, fd, {}, {want})
             y == With(z, {}, {want})
             t == zs_connecter(u, fd, r)
             x == Connecter(y, r)
  <1>1. "READABLE" \notin {want} /\ "WRITABLE" \notin {want}
          /\ want \notin {"CLOSED", "CONNECTED", "CONNECTING"}
    BY DEF FromConnect
  <1>2. Turns(s, u, fd, y)
    BY <1>1, FlagTurns
  <1>3. Flagged(y, z, {}, {want})
    BY WithFlagged DEF Conn
  <1> HIDE DEF u, y
  <1>4. Conn(y) /\ "CONNECTING" \in y.status /\ ("CLOSED" \in y.status <=>
                                                 "CLOSED" \in z.status)
    BY <1>1, <1>3 DEF Conn, Flagged, Linked, Status
  <1>5. u \in States /\ u.zsockets[fd] = y
    BY <1>2, TurnsAt
  <1>6. Turns(u, t, fd, x)
    BY <1>5, ConnecterTurns
  <1>7. Kept(y, x)
    BY <1>4, ConnecterKeeps
  <1> HIDE DEF x
  <1>8. Turns(s, t, fd, x)
    BY <1>2, <1>6, TurnsTwice
  <1>9. Kept(z, x) /\ x \in Socket
    BY <1>4, <1>7 DEF Kept
  <1>10. ~Tidy(z)
    BY DEF Tidy, Status
  <1> QED BY <1>8, <1>9, <1>10 DEF Handled, u

\* The handler has run, and select() watches what the socket wants now.
Served(s, t, fd) ==
  \/ /\ Shifts(s, t, fd) /\ Kept(s.zsockets[fd], t.zsockets[fd])
     /\ Plain /\ Tidy(s.zsockets[fd]) => Tidy(t.zsockets[fd])
     /\ Watched(t, fd)
  \/ "CLOSED" \in s.zsockets[fd].status /\ Closes(s, t, fd)

\* The socket fd is z, and select() watches what it wants.
Settles(s, t, fd, z) ==
  /\ Shifts(s, t, fd) /\ t.zsockets[fd] = z /\ Watched(t, fd)
  /\ t.active_read = s.active_read /\ t.active_write = s.active_write

\* zs_update_fd_state after a change of the socket.
LEMMA TurnsUpdate ==
  ASSUME NEW s \in States, NEW t, NEW fd \in Fds, NEW z, Turns(s, t, fd, z)
  PROVE  Settles(s, zs_update_fd_state(t, fd), fd, z)
  <1> DEFINE u == zs_update_fd_state(t, fd)
  <1>1. t \in States /\ t.zsockets[fd] = z
    BY TurnsAt
  <1>2. Rewatches(t, u, fd)
    BY <1>1, UpdateRewatches
  <1> HIDE DEF u
  <1>3. Shifts(s, t, fd)
    BY TurnsShifts
  <1>4. Shifts(s, u, fd)
    BY <1>2, <1>3, ShiftsTwice DEF Rewatches
  <1>5. u.zsockets[fd] = z /\ Watched(u, fd)
    BY <1>1, <1>2 DEF Rewatches
  <1>6. u.active_read = s.active_read /\ u.active_write = s.active_write
    BY <1>2 DEF Rewatches, Turns
  <1> QED BY <1>4, <1>5, <1>6 DEF u, Settles

\* zs_update_fd_state after a handler, if the socket is still open.
LEMMA HandledServed ==
  ASSUME NEW s \in States, NEW t, NEW fd \in Fds, Handled(s, t, fd)
  PROVE  Served(s, UpdateIfOpen(t, fd), fd)
  <1>1. CASE "CLOSED" \in s.zsockets[fd].status /\ Closes(s, t, fd)
    <2>1. UpdateIfOpen(t, fd) = t
      BY <1>1 DEF Closes, IsOpen, Null, UpdateIfOpen
    <2> QED BY <1>1, <2>1 DEF Served
  <1>2. CASE \E z \in Socket : Turns(s, t, fd, z) /\ Kept(s.zsockets[fd], z)
          /\ (Tidy(s.zsockets[fd]) => Tidy(z))
    <2>1. PICK z \in Socket : Turns(s, t, fd, z) /\ Kept(s.zsockets[fd], z)
            /\ (Tidy(s.zsockets[fd]) => Tidy(z))
      BY <1>2
    <2>2. t.zsockets[fd] = z
      BY <2>1, TurnsAt
    <2>3. UpdateIfOpen(t, fd) = zs_update_fd_state(t, fd)
      BY <2>1, <2>2 DEF UpdateIfOpen, IsOpen, Kept
    <2> DEFINE u == zs_update_fd_state(t, fd)
    <2>4. Settles(s, u, fd, z)
      BY <2>1, TurnsUpdate
    <2> HIDE DEF u
    <2> QED BY <2>1, <2>3, <2>4 DEF Served, Settles, u
  <1> QED BY <1>1, <1>2 DEF Handled

\* zs_internal_write serves a connection.
LEMMA InternalWriteServed ==
  ASSUME NEW s \in States, NEW fd \in Fds, NEW r,
         r.read \in {"done", "eof", "error", "want_read", "want_write"}, Conn(s.zsockets[fd])
  PROVE  Served(s, zs_internal_write(s, fd, r), fd)
  <1>1. CASE "CONNECTED" \in Status(s, fd)
    BY <1>1, WriteThenReadHandled, HandledServed DEF zs_internal_write
  <1>2. CASE "CONNECTED" \notin Status(s, fd)
    <2>1. "WANT_WRITE_FROM_CONNECT" \in FromConnect
      BY DEF FromConnect
    <2> QED BY <1>2, <2>1, ConnecterHandled, HandledServed DEF zs_internal_write
  <1> QED BY <1>1, <1>2

\* zs_internal_read serves a connection that wants to read.
LEMMA InternalReadServed ==
  ASSUME NEW s \in States, NEW fd \in Fds, NEW r,
         r.read \in {"done", "eof", "error", "want_read", "want_write"}, Conn(s.zsockets[fd]),
         WantsRead(s, fd)
  PROVE  Served(s, zs_internal_read(s, fd, r), fd)
  <1>1. CASE "CONNECTED" \in Status(s, fd)
    <2>1. Tidy(s.zsockets[fd]) /\ Status(s, fd) \cap {"WANT_READ_FROM_READ",
                                                      "WANT_READ_FROM_WRITE"} = {}
           => Status(s, fd) \cap {"READING", "READABLE"} = {}
      BY DEF WantsRead, Conn, Tidy, WantRead, FromConnect, Status
    <2> QED BY <1>1, <2>1, ReadThenWriteHandled, HandledServed DEF zs_internal_read
  <1>2. CASE "CONNECTED" \notin Status(s, fd)
    <2>1. "WANT_READ_FROM_CONNECT" \in FromConnect
      BY DEF FromConnect
    <2> QED BY <1>2, <2>1, ConnecterHandled, HandledServed DEF zs_internal_read
  <1> QED BY <1>1, <1>2

----------------------------------------------------------------------------
(* What a step at one socket leaves of the invariant. *)

\* A descriptor that is what it was, is still what it must be.
LEMMA LocalAlike ==
  ASSUME NEW s, NEW t, NEW g, Local(s, g), t.zsockets[g] = s.zsockets[g],
         g \in t.active_read <=> g \in s.active_read,
         g \in t.active_write <=> g \in s.active_write, g \in t.zfd_read <=> g \in s.zfd_read,
         g \in t.zfd_write <=> g \in s.zfd_write
  PROVE  Local(t, g)
  <1>1. Status(t, g) = Status(s, g) /\ (IsOpen(t, g) <=> IsOpen(s, g))
    BY DEF Status, IsOpen
  <1>2. (WantsRead(t, g) <=> WantsRead(s, g)) /\ (WantsWrite(t, g) <=> WantsWrite(s, g))
    BY <1>1 DEF WantsRead, WantsWrite
  <1> QED BY <1>1, <1>2 DEF Local, Watched

\* A step at fd leaves the others what they must be.
LEMMA LocalElsewhere ==
  ASSUME NEW s \in States, NEW t, NEW fd \in Fds, Shifts(s, t, fd), \A g \in Fds : Local(s, g),
         Local(t, fd)
  PROVE  \A g \in Fds : Local(t, g)
  <1> SUFFICES ASSUME NEW g \in Fds, g # fd PROVE Local(t, g)
    OBVIOUS
  <1>1. Local(s, g)
    OBVIOUS
  <1> QED BY <1>1, LocalAlike DEF Shifts, Apart

\* A socket that stays what it was to its owner.
LEMMA OwnedSame ==
  ASSUME NEW s \in States, NEW t, NEW fd \in Fds, NEW h \in SUBSET Fds, NEW x,
         Shifts(s, t, fd), Owned(s, h, x), t.zsockets[fd].type = s.zsockets[fd].type,
         "CLOSED" \in t.zsockets[fd].status <=> "CLOSED" \in s.zsockets[fd].status,
         s.zsockets[fd].type = "LISTEN" =>
             t.zsockets[fd].accepted_fd = s.zsockets[fd].accepted_fd
  PROVE  Owned(t, h, x)
  <1>1. \A g \in Fds : g # fd => t.zsockets[g] = s.zsockets[g]
    BY DEF Shifts, Apart
  <1>2. \A g \in Fds : (Connects(t, g) <=> Connects(s, g))
          /\ ("CLOSED" \in Status(t, g) <=> "CLOSED" \in Status(s, g))
    BY <1>1 DEF Connects, Status
  <1>3. \A l \in Fds, g \in Fds : Offered(t, l, g) <=> Offered(s, l, g)
    BY <1>1 DEF Offered
  <1> QED BY <1>2, <1>3 DEF Owned

\* A connection that nobody holds and nobody is offered is closed.
LEMMA OwnedClosed ==
  ASSUME NEW s \in States, NEW t, NEW fd \in Fds, NEW h \in SUBSET Fds, NEW x,
         Shifts(s, t, fd), Owned(s, h, x), s.zsockets[fd].type = "CONNECT", fd \notin h,
         \A l \in Fds : ~Offered(s, l, fd), t.zsockets[fd] = Null
  PROVE  Owned(t, h, x)
  <1>1. \A g \in Fds : g # fd => t.zsockets[g] = s.zsockets[g]
    BY DEF Shifts, Apart
  <1>2. \A g \in Fds : g # fd => (Connects(t, g) <=> Connects(s, g))
          /\ ("CLOSED" \in Status(t, g) <=> "CLOSED" \in Status(s, g))
    BY <1>1 DEF Connects, Status
  <1>3. ~Connects(t, fd)
    BY DEF Connects, Null
  <1>4. \A l \in Fds, g \in Fds : Offered(t, l, g) <=> Offered(s, l, g)
    BY <1>1 DEF Offered, Null
  <1> QED BY <1>2, <1>3, <1>4 DEF Owned

\* A handler keeps the invariant.
LEMMA ServedKeeps ==
  ASSUME NEW s, NEW t, NEW fd \in Fds, NEW h \in SUBSET Fds, NEW x, Good(s, h, x),
         Conn(s.zsockets[fd]), Served(s, t, fd)
  PROVE  Good(t, h, x)
  <1>1. s \in States /\ Counted(s) /\ (\A g \in Fds : Local(s, g)) /\ Owned(s, h, x)
    BY DEF Good
  <1>2. CASE Shifts(s, t, fd) /\ Kept(s.zsockets[fd], t.zsockets[fd])
          /\ (Plain /\ Tidy(s.zsockets[fd]) => Tidy(t.zsockets[fd])) /\ Watched(t, fd)
    <2>1. Local(s, fd)
      BY <1>1
    <2>2. Sound(t.zsockets[fd])
      BY <1>2, <2>1 DEF Local, Sound, Kept, Conn
    <2>3. Local(t, fd)
      BY <1>2, <2>2 DEF Local, Kept, IsOpen
    <2>4. \A g \in Fds : Local(t, g)
      BY <1>1, <1>2, <2>3, LocalElsewhere
    <2>5. Owned(t, h, x)
      BY <1>1, <1>2, OwnedSame DEF Kept, Conn
    <2> QED BY <1>1, <1>2, <2>4, <2>5 DEF Good, Shifts
  <1>3. CASE "CLOSED" \in s.zsockets[fd].status /\ Closes(s, t, fd)
    <2>1. Shifts(s, t, fd) /\ t.zsockets[fd] = Null /\ fd \notin t.active_read
            /\ fd \notin t.active_write
      BY <1>3 DEF Closes
    <2>2. Local(t, fd)
      BY <2>1 DEF Local, Sound, IsOpen, Null
    <2>3. \A g \in Fds : Local(t, g)
      BY <1>1, <2>1, <2>2, LocalElsewhere
    <2>4. fd \notin h /\ \A l \in Fds : ~Offered(s, l, fd)
      BY <1>1, <1>3 DEF Owned, Status
    <2>5. Owned(t, h, x)
      BY <1>1, <2>1, <2>4, OwnedClosed DEF Conn
    <2> QED BY <1>1, <2>1, <2>3, <2>5 DEF Good, Shifts
  <1> QED BY <1>2, <1>3 DEF Served

\* So does any step at fd that leaves fd, and the ownership, what they must
\* be.
LEMMA SettledKeeps ==
  ASSUME NEW s, NEW t, NEW fd \in Fds, NEW h, NEW x, NEW h2, NEW x2, Good(s, h, x),
         Shifts(s, t, fd), Local(t, fd), Owned(t, h2, x2)
  PROVE  Good(t, h2, x2)
  BY LocalElsewhere DEF Good, Shifts

----------------------------------------------------------------------------
(* The program's calls. *)

\* A change of interest keeps the invariant.
LEMMA TunesKeeps ==
  ASSUME NEW s, NEW t, NEW fd \in Fds, NEW h \in SUBSET Fds, NEW x, Good(s, h, x),
         IsOpen(s, fd), Tunes(s, t, fd)
  PROVE  Good(t, h, x)
  <1>1. s \in States /\ Local(s, fd) /\ Owned(s, h, x)
    BY DEF Good
  <1>2. Shifts(s, t, fd) /\ Watched(t, fd) /\ t.zsockets = s.zsockets
    BY DEF Tunes
  <1>3. Local(t, fd)
    BY <1>1, <1>2 DEF Local, IsOpen
  <1>4. Owned(t, h, x)
    BY <1>1, <1>2, OwnedSame
  <1> QED BY <1>2, <1>3, <1>4, SettledKeeps

\* A descriptor that the program is not interested in is given a socket.
LEMMA FreshTurns ==
  ASSUME NEW s \in States, NEW fd \in Fds, NEW z \in Socket, NEW t, fd \notin s.active_read,
         fd \notin s.active_write, t = [s EXCEPT !.zsockets[fd] = z]
  PROVE  Turns(s, t, fd, z)
  <1>1. s.n_selectable \in Int /\ s.zsockets \in [Fds -> Socket]
    BY StateFields
  <1>2. t = [s EXCEPT !.zsockets = [s.zsockets EXCEPT ![fd] = z],
             !.n_selectable = s.n_selectable]
    BY DEF States
  <1>3. s.n_selectable - Adds(s, fd, z) = s.n_selectable - Adds(s, fd, s.zsockets[fd])
    BY DEF Adds
  <1> QED BY <1>1, <1>2, <1>3, TurnsCounted

\* A descriptor that was free becomes a listening socket.
LEMMA OwnedListening ==
  ASSUME NEW s \in States, NEW t, NEW fd \in Fds, NEW h \in SUBSET Fds, NEW x,
         Shifts(s, t, fd), Owned(s, h, x), s.zsockets[fd].type = "NULL",
         t.zsockets[fd].type = "LISTEN", t.zsockets[fd].accepted_fd = NoFd
  PROVE  Owned(t, h, x)
  <1>1. \A g \in Fds : g # fd => t.zsockets[g] = s.zsockets[g]
    BY DEF Shifts, Apart
  <1>2. \A g \in Fds : (Connects(t, g) <=> Connects(s, g))
          /\ (g # fd => ("CLOSED" \in Status(t, g) <=> "CLOSED" \in Status(s, g)))
    BY <1>1 DEF Connects, Status
  <1>3. \A l \in Fds, g \in Fds : Offered(t, l, g) <=> Offered(s, l, g)
    BY <1>1, FdsAssumption DEF Offered, NoFd
  <1>4. ~Connects(s, fd)
    BY DEF Connects
  <1> QED BY <1>2, <1>3, <1>4 DEF Owned

\* zsocket for a new listening socket keeps the invariant.
LEMMA OpenListenerKeeps ==
  ASSUME NEW s, NEW fd \in Fds, NEW h \in SUBSET Fds, NEW x, NEW ssl \in BOOLEAN,
         Good(s, h, x), ~IsOpen(s, fd)
  PROVE  Good(zs_set_read(Listen(s, fd, ssl), fd), h, x)
  <1> DEFINE z == [Null EXCEPT !.type = "LISTEN", !.ssl = ssl, !.n_open = 1]
             u == Listen(s, fd, ssl)
             t == zs_set_read(u, fd)
  <1>1. s \in States /\ Local(s, fd) /\ Owned(s, h, x)
    BY DEF Good
  <1>2. z \in Socket /\ z.type = "LISTEN" /\ z.status = {} /\ z.accepted_fd = NoFd
    <2>1. PICK n \in Socket : n = Null
      BY NullSocket
    <2>2. n.status = {} /\ n.accepted_fd = NoFd
      BY <2>1 DEF Null
    <2>3. z = [n EXCEPT !.type = "LISTEN", !.ssl = ssl, !.n_open = 1]
      BY <2>1
    <2> HIDE DEF z
    <2> QED BY <2>2, <2>3 DEF Socket
  <1>3. u = [s EXCEPT !.zsockets[fd] = z]
    BY DEF Listen
  <1> HIDE DEF z, u
  <1>4. Turns(s, u, fd, z)
    BY <1>1, <1>2, <1>3, FreshTurns DEF Local
  <1>5. u \in States /\ u.zsockets[fd] = z /\ Shifts(s, u, fd)
    BY <1>1, <1>4, TurnsAt, TurnsShifts
  <1>6. Tunes(u, t, fd)
    BY <1>5, zs_set_read_tunes
  <1> HIDE DEF t
  <1>7. Shifts(s, t, fd) /\ Watched(t, fd) /\ t.zsockets[fd] = z
    BY <1>5, <1>6, ShiftsTwice DEF Tunes
  <1>8. Local(t, fd)
    BY <1>2, <1>7 DEF Local, Sound, Offers, IsOpen
  <1>9. Owned(t, h, x)
    BY <1>1, <1>2, <1>7, OwnedListening DEF IsOpen
  <1>10. Good(t, h, x)
    BY <1>7, <1>8, <1>9, SettledKeeps
  <1> QED BY <1>10 DEF t, u

\* zsocket for one that is open keeps the invariant.
LEMMA ReopenListenerKeeps ==
  ASSUME NEW s, NEW fd \in Fds, NEW h \in SUBSET Fds, NEW x, Good(s, h, x),
         s.zsockets[fd].type = "LISTEN"
  PROVE  Good(zs_set_read(ListenAgain(s, fd), fd), h, x)
  <1> DEFINE y == s.zsockets[fd]
             z == [y EXCEPT !.n_open = @ + 1]
             u == ListenAgain(s, fd)
             t == zs_set_read(u, fd)
  <1>1. s \in States /\ Local(s, fd) /\ Owned(s, h, x) /\ y \in Socket
          /\ s.zsockets \in [Fds -> Socket]
    BY SocketFacts, StateFields DEF Good
  <1>2. z \in Socket /\ z.type = "LISTEN" /\ z.status = y.status
          /\ z.accepted_fd = y.accepted_fd
    BY <1>1 DEF Socket
  <1>3. u = [s EXCEPT !.zsockets = [s.zsockets EXCEPT ![fd] = z]]
    BY <1>1 DEF ListenAgain, States, Socket
  <1> HIDE DEF z, u
  <1>4. Turns(s, u, fd, z)
    BY <1>1, <1>2, <1>3, FieldTurns
  <1>5. u \in States /\ u.zsockets[fd] = z /\ Shifts(s, u, fd)
    BY <1>1, <1>4, TurnsAt, TurnsShifts
  <1>6. Tunes(u, t, fd)
    BY <1>5, zs_set_read_tunes
  <1> HIDE DEF t
  <1>7. Shifts(s, t, fd) /\ Watched(t, fd) /\ t.zsockets[fd] = z
    BY <1>5, <1>6, ShiftsTwice DEF Tunes
  <1>8. Local(t, fd)
    BY <1>1, <1>2, <1>7 DEF Local, Sound, Offers, IsOpen
  <1>9. Owned(t, h, x)
    BY <1>1, <1>2, <1>7, OwnedSame
  <1>10. Good(t, h, x)
    BY <1>7, <1>8, <1>9, SettledKeeps
  <1> QED BY <1>10 DEF t, u

\* The program opens a connection, and holds it.
LEMMA OwnedOpened ==
  ASSUME NEW s \in States, NEW t, NEW fd \in Fds, NEW h \in SUBSET Fds, NEW x,
         Shifts(s, t, fd), Owned(s, h, x), s.zsockets[fd].type = "NULL",
         t.zsockets[fd].type = "CONNECT", "CLOSED" \notin t.zsockets[fd].status
  PROVE  Owned(t, h \cup {fd}, x)
  <1>1. \A g \in Fds : g # fd => t.zsockets[g] = s.zsockets[g]
    BY DEF Shifts, Apart
  <1>2. \A g \in Fds : g # fd => (Connects(t, g) <=> Connects(s, g))
          /\ ("CLOSED" \in Status(t, g) <=> "CLOSED" \in Status(s, g))
    BY <1>1 DEF Connects, Status
  <1>3. \A l \in Fds, g \in Fds : Offered(t, l, g) <=> Offered(s, l, g)
    BY <1>1 DEF Offered
  <1>4. ~Connects(s, fd) /\ Connects(t, fd) /\ "CLOSED" \notin Status(t, fd)
    BY DEF Connects, Status
  <1>5. \A l \in Fds : ~Offered(t, l, fd)
    BY <1>3, <1>4 DEF Owned
  <1> QED BY <1>2, <1>3, <1>4, <1>5 DEF Owned

\* A connection as it begins, the handshake still to come or not, is tidy.
LEMMA NewTidy ==
  ASSUME NEW z, z.used = 0, z.buffer = FALSE, "CONNECTED" \in z.status,
         z.status \subseteq {"WRITABLE", "CONNECTED", "ACCEPTING"}
  PROVE  Tidy(z)
  <1>1. FromRead \cap z.status = {} /\ FromWrite \cap z.status = {}
          /\ FromConnect \cap z.status = {}
    BY DEF FromRead, FromWrite, FromConnect
  <1>2. Reads(z)
    BY <1>1 DEF Reads, FromRead
  <1>3. Writes(z)
    BY <1>1 DEF Writes, FromWrite
  <1> QED BY <1>1, <1>2, <1>3 DEF Tidy

\* zsocket for an outgoing connection keeps the invariant.
LEMMA OpenConnectKeeps ==
  ASSUME NEW s, NEW fd \in Fds, NEW h \in SUBSET Fds, NEW x, NEW ssl \in ConnectModes, NEW r,
         Good(s, h, x), ~IsOpen(s, fd)
  PROVE  Good(ConnectTo(s, fd, ssl, r), h \cup {fd}, x)
  <1> DEFINE z == [Null EXCEPT !.type = "CONNECT", !.ssl = ssl, !.parent_fd = NoFd]
             u == NewConnect(s, fd, ssl, NoFd)
             y == With(z, {"CONNECTING"}, {})
             v == Flag(u, fd, {"CONNECTING"}, {})
             c == Connecter(y, r)
             w == zs_connecter(v, fd, r)
             t == zs_update_fd_state(w, fd)
  <1>1. s \in States /\ Local(s, fd) /\ Owned(s, h, x)
    BY DEF Good
  <1>2. z \in Socket /\ z.type = "CONNECT" /\ z.status = {} /\ z.ssl = ssl /\ z.used = 0
          /\ z.buffer = FALSE
    <2>1. PICK n \in Socket : n = Null
      BY NullSocket
    <2>2. n.status = {} /\ n.used = 0 /\ n.buffer = FALSE
      BY <2>1 DEF Null
    <2>3. z = [n EXCEPT !.type = "CONNECT", !.ssl = ssl, !.parent_fd = NoFd]
      BY <2>1
    <2>4. ssl \in BOOLEAN
      BY ModesAssumption
    <2> HIDE DEF z
    <2> QED BY <2>2, <2>3, <2>4 DEF Socket
  <1>3. u = [s EXCEPT !.zsockets[fd] = z]
    BY DEF NewConnect
  <1>4. ConnectTo(s, fd, ssl, r) = t
    BY DEF ConnectTo
  <1> HIDE DEF z, u
  <1>5. Turns(s, u, fd, z)
    BY <1>1, <1>2, <1>3, FreshTurns DEF Local
  <1>6. u \in States /\ u.zsockets[fd] = z
    BY <1>1, <1>5, TurnsAt
  <1>7. Turns(u, v, fd, y)
    BY <1>6, FlagTurns, FlagNames
  <1>8. Flagged(y, z, {"CONNECTING"}, {})
    BY <1>2, WithFlagged, FlagNames
  <1> HIDE DEF v, y
  <1>9. v \in States /\ v.zsockets[fd] = y
    BY <1>6, <1>7, TurnsAt
  <1>10. Turns(v, w, fd, c)
    BY <1>9, ConnecterTurns
  <1>11. y \in Socket /\ y.status = {"CONNECTING"} /\ y.type = "CONNECT" /\ y.ssl = ssl
           /\ y.used = 0 /\ y.buffer = FALSE
    BY <1>2, <1>8 DEF Flagged
  <1>12. Kept(y, c)
    BY <1>11, ConnecterKeeps DEF Conn, Linked
  <1>13. Plain => Tidy(c)
    <2>1. ASSUME Plain PROVE c.status = {"WRITABLE", "CONNECTED"} /\ c.used = 0
            /\ c.buffer = FALSE
      <3>1. ~y.ssl
        BY <1>11, <2>1, ModesAssumption DEF Plain
      <3> QED BY <1>11, <3>1, ConnectedFacts
    <2> HIDE DEF c
    <2> QED BY <2>1, NewTidy
  <1> HIDE DEF w, c
  <1>14. Turns(s, v, fd, y)
    BY <1>1, <1>5, <1>7, TurnsTwice
  <1>15. Turns(s, w, fd, c)
    BY <1>1, <1>10, <1>14, TurnsTwice
  <1>16. Settles(s, t, fd, c)
    BY <1>1, <1>15, TurnsUpdate
  <1> HIDE DEF t
  <1>17. Local(t, fd)
    BY <1>12, <1>13, <1>16 DEF Local, Sound, IsOpen, Kept, Settles
  <1>18. Owned(t, h \cup {fd}, x)
    <2>1. Shifts(s, t, fd) /\ t.zsockets[fd].type = "CONNECT"
            /\ "CLOSED" \notin t.zsockets[fd].status
      BY <1>11, <1>12, <1>16 DEF Kept, Settles
    <2> QED BY <1>1, <2>1, OwnedOpened DEF IsOpen
  <1>19. Good(t, h \cup {fd}, x)
    BY <1>16, <1>17, <1>18, SettledKeeps DEF Settles
  <1> QED BY <1>4, <1>19

\* The connection that the listening socket l offered is the program's.
LEMMA OwnedAccepted ==
  ASSUME NEW s \in States, NEW t, NEW l \in Fds, NEW fd \in Fds, NEW h \in SUBSET Fds, NEW x,
         Shifts(s, t, l), Owned(s, h, x), Offered(s, l, fd), t.zsockets[l].type = "LISTEN",
         t.zsockets[l].accepted_fd = NoFd
  PROVE  Owned(t, h \cup {fd}, x)
  <1>1. \A g \in Fds : g # l => t.zsockets[g] = s.zsockets[g]
    BY DEF Shifts, Apart
  <1>2. s.zsockets[l].type = "LISTEN"
    BY DEF Offered
  <1>3. \A g \in Fds : (Connects(t, g) <=> Connects(s, g))
          /\ (g # l => ("CLOSED" \in Status(t, g) <=> "CLOSED" \in Status(s, g)))
    BY <1>1, <1>2 DEF Connects, Status
  <1>4. ~Connects(s, l)
    BY <1>2 DEF Connects
  <1>5. \A k \in Fds, g \in Fds : Offered(t, k, g) <=> Offered(s, k, g) /\ k # l
    BY <1>1, FdsAssumption DEF Offered, NoFd
  <1>6. \A k \in Fds : k # l => ~Offered(s, k, fd)
    BY DEF Owned
  <1>7. \A g \in Fds : Offered(s, l, g) => g = fd
    BY DEF Offered
  <1>8. Connects(s, fd) /\ "CLOSED" \notin Status(s, fd)
    BY DEF Owned
  <1>9. \A g \in h \cup {fd} : Connects(t, g) /\ "CLOSED" \notin Status(t, g)
    BY <1>3, <1>4, <1>8 DEF Owned
  <1>10. \A k \in Fds, g \in Fds : Offered(t, k, g) =>
            /\ Connects(t, g) /\ g \notin h \cup {fd} /\ "CLOSED" \notin Status(t, g)
            /\ \A j \in Fds : Offered(t, j, g) => j = k
    BY <1>3, <1>4, <1>5, <1>6 DEF Owned
  <1>11. \A g \in Fds : Connects(t, g) =>
            g \in h \cup {fd} \/ "CLOSED" \in Status(t, g) \/ g \in x \/ \E k \in Fds :
                Offered(t, k, g)
    <2> SUFFICES ASSUME NEW g \in Fds, Connects(t, g), g # fd
                 PROVE  g \in h \/ "CLOSED" \in Status(t, g) \/ g \in x \/ \E k \in Fds :
                     Offered(t, k, g)
      OBVIOUS
    <2>1. g \in h \/ "CLOSED" \in Status(s, g) \/ g \in x \/ \E k \in Fds : Offered(s, k, g)
      BY <1>3 DEF Owned
    <2>2. \A k \in Fds : Offered(s, k, g) => Offered(t, k, g)
      BY <1>5, <1>7
    <2>3. g # l
      BY <1>3, <1>4
    <2> QED BY <1>3, <2>1, <2>2, <2>3
  <1> QED BY <1>9, <1>10, <1>11 DEF Owned

\* zs_accept keeps the invariant: a READABLE listening socket has a
\* connection to give.
LEMMA AcceptKeeps ==
  ASSUME NEW s, NEW l \in Fds, NEW h \in SUBSET Fds, NEW x, Good(s, h, x),
         s.zsockets[l].type = "LISTEN", "READABLE" \in Status(s, l)
  PROVE  s.zsockets[l].accepted_fd \in Fds /\ Good(zs_accept(s, l),
                                                   h \cup {s.zsockets[l].accepted_fd}, x)
  <1> DEFINE z == s.zsockets[l]
             y == With(z, {}, {"READABLE"})
             u == DropReadable(s, l)
             v == zs_update_fd_state(u, l)
             w == [y EXCEPT !.accepted_fd = NoFd]
             t == [v EXCEPT !.zsockets = [v.zsockets EXCEPT ![l] = w]]
  <1>1. s \in States /\ Local(s, l) /\ Owned(s, h, x) /\ z \in Socket
    BY SocketFacts DEF Good
  <1>2. z.accepted_fd \in Fds /\ z.status = {"READABLE"} /\ Offered(s, l, z.accepted_fd)
    BY <1>1 DEF Local, Sound, Offers, Socket, Status, Offered
  <1>3. Turns(s, u, l, y)
    BY <1>1, DropReadableTurns
  <1>4. Flagged(y, z, {}, {"READABLE"})
    BY <1>1, WithFlagged
  <1>5. zs_accept(s, l) = [v EXCEPT !.zsockets[l].accepted_fd = NoFd]
    BY DEF zs_accept
  <1> HIDE DEF u, y
  <1>6. Settles(s, v, l, y)
    BY <1>1, <1>3, TurnsUpdate
  <1> HIDE DEF v
  <1>7. v \in States /\ v.zsockets \in [Fds -> Socket] /\ v.zsockets[l] = y
    BY <1>6, StateFields DEF Settles, Shifts
  <1>8. y \in Socket /\ y.type = "LISTEN" /\ y.status = {}
    BY <1>2, <1>4 DEF Flagged
  <1>9. w \in Socket /\ w.type = "LISTEN" /\ w.status = {} /\ w.accepted_fd = NoFd
    BY <1>8 DEF Socket
  <1>10. zs_accept(s, l) = t
    BY <1>5, <1>7 DEF States, Socket
  <1> HIDE DEF w
  <1>11. Turns(v, t, l, w)
    BY <1>7, <1>8, <1>9, FieldTurns
  <1> HIDE DEF t
  <1>12. t.zsockets[l] = w /\ Shifts(v, t, l)
    BY <1>7, <1>11, TurnsAt, TurnsShifts
  <1>13. Shifts(s, t, l)
    BY <1>6, <1>12, ShiftsTwice DEF Settles
  <1>14. Watched(t, l)
    <2>1. Status(t, l) = Status(v, l) /\ t.zsockets[l].type = v.zsockets[l].type
      BY <1>7, <1>8, <1>9, <1>12 DEF Status
    <2> QED BY <1>6, <1>11, <2>1 DEF Settles, Watched, WantsRead, WantsWrite, Turns
  <1>15. Local(t, l)
    BY <1>9, <1>12, <1>14 DEF Local, Sound, Offers, IsOpen
  <1>16. Owned(t, h \cup {z.accepted_fd}, x)
    BY <1>1, <1>2, <1>9, <1>12, <1>13, OwnedAccepted
  <1>17. Good(t, h \cup {z.accepted_fd}, x)
    BY <1>13, <1>15, <1>16, SettledKeeps
  <1> QED BY <1>2, <1>10, <1>17

\* A listening socket is closed, and the connection it offered is lost.
LEMMA OwnedLost ==
  ASSUME NEW s \in States, NEW t, NEW l \in Fds, NEW h \in SUBSET Fds, NEW x, Shifts(s, t, l),
         Owned(s, h, x), s.zsockets[l].type = "LISTEN", t.zsockets[l] = Null
  PROVE  Owned(t, h, x \cup ({s.zsockets[l].accepted_fd} \ {NoFd}))
  <1>1. \A g \in Fds : g # l => t.zsockets[g] = s.zsockets[g]
    BY DEF Shifts, Apart
  <1>2. \A g \in Fds : (Connects(t, g) <=> Connects(s, g))
          /\ (g # l => ("CLOSED" \in Status(t, g) <=> "CLOSED" \in Status(s, g)))
    BY <1>1 DEF Connects, Status, Null
  <1>3. ~Connects(s, l)
    BY DEF Connects
  <1>4. \A k \in Fds, g \in Fds : Offered(t, k, g) <=> Offered(s, k, g) /\ k # l
    BY <1>1 DEF Offered, Null
  <1>5. \A g \in Fds : Offered(s, l, g) => g \in {s.zsockets[l].accepted_fd} \ {NoFd}
    BY FdsAssumption DEF Offered, NoFd
  <1>6. \A g \in h : Connects(t, g) /\ "CLOSED" \notin Status(t, g)
    BY <1>2, <1>3 DEF Owned
  <1>7. \A k \in Fds, g \in Fds : Offered(t, k, g) =>
            /\ Connects(t, g) /\ g \notin h /\ "CLOSED" \notin Status(t, g)
            /\ \A j \in Fds : Offered(t, j, g) => j = k
    BY <1>2, <1>3, <1>4 DEF Owned
  <1>8. \A g \in Fds : Connects(t, g) =>
            g \in h \/ "CLOSED" \in Status(t, g)
                \/ g \in x \cup ({s.zsockets[l].accepted_fd} \ {NoFd}) \/ \E k \in Fds :
                   Offered(t, k, g)
    <2> SUFFICES ASSUME NEW g \in Fds, Connects(t, g)
                 PROVE  g \in h \/ "CLOSED" \in Status(t, g) \/ g \in x
                     \/ g \in {s.zsockets[l].accepted_fd} \ {NoFd} \/ \E k \in Fds :
                        Offered(t, k, g)
      OBVIOUS
    <2>1. g \in h \/ "CLOSED" \in Status(s, g) \/ g \in x \/ \E k \in Fds : Offered(s, k, g)
      BY <1>2 DEF Owned
    <2>2. g # l
      BY <1>2, <1>3
    <2> QED BY <1>2, <1>4, <1>5, <2>1, <2>2
  <1> QED BY <1>6, <1>7, <1>8 DEF Owned

\* zs_close of a listening socket keeps the invariant, whether others have
\* it open or not.
LEMMA CloseListenerKeeps ==
  ASSUME NEW s, NEW l \in Fds, NEW h \in SUBSET Fds, NEW x, Good(s, h, x),
         s.zsockets[l].type = "LISTEN"
  PROVE  Good(zs_close(s, l), h, IF IsOpen(zs_close(s, l), l) THEN x
              ELSE x \cup ({s.zsockets[l].accepted_fd} \ {NoFd}))
  <1> DEFINE z == s.zsockets[l]
             t == zs_close(s, l)
  <1>1. s \in States /\ Local(s, l) /\ Owned(s, h, x) /\ z \in Socket
          /\ s.zsockets \in [Fds -> Socket]
    BY SocketFacts, StateFields DEF Good
  <1>2. CASE z.n_open > 1
    <2> DEFINE y == [z EXCEPT !.n_open = @ - 1]
    <2>1. y \in Socket /\ y.type = "LISTEN" /\ y.status = z.status
            /\ y.accepted_fd = z.accepted_fd
      BY <1>1, <1>2 DEF Socket
    <2>2. t = [s EXCEPT !.zsockets = [s.zsockets EXCEPT ![l] = y]]
      BY <1>1, <1>2 DEF zs_close, States, Socket
    <2> HIDE DEF t, y
    <2>3. Turns(s, t, l, y)
      BY <1>1, <2>1, <2>2, FieldTurns
    <2>4. t.zsockets[l] = y /\ Shifts(s, t, l)
      BY <1>1, <2>3, TurnsAt, TurnsShifts
    <2>5. Watched(t, l)
      <3>1. Status(t, l) = Status(s, l) /\ t.zsockets[l].type = s.zsockets[l].type
        BY <2>1, <2>4 DEF Status
      <3>2. Watched(s, l)
        BY <1>1 DEF Local, IsOpen
      <3> QED BY <2>3, <3>1, <3>2 DEF Watched, WantsRead, WantsWrite, Turns
    <2>6. Local(t, l) /\ IsOpen(t, l)
      BY <1>1, <2>1, <2>4, <2>5 DEF Local, Sound, Offers, IsOpen
    <2>7. Owned(t, h, x)
      BY <1>1, <2>1, <2>4, OwnedSame
    <2>8. Good(t, h, x)
      BY <2>4, <2>6, <2>7, SettledKeeps
    <2> QED BY <2>6, <2>8 DEF t
  <1>3. CASE ~(z.n_open > 1)
    <2>1. t = FullClose(s, l)
      BY <1>3 DEF zs_close
    <2>2. Closes(s, t, l)
      BY <1>1, <2>1, FullCloseCloses
    <2> HIDE DEF t
    <2>3. Shifts(s, t, l) /\ t.zsockets[l] = Null /\ l \notin t.active_read
            /\ l \notin t.active_write
      BY <2>2 DEF Closes
    <2>4. Local(t, l) /\ ~IsOpen(t, l)
      BY <2>3 DEF Local, Sound, IsOpen, Null
    <2>5. Owned(t, h, x \cup ({z.accepted_fd} \ {NoFd}))
      BY <1>1, <2>3, OwnedLost
    <2>6. Good(t, h, x \cup ({z.accepted_fd} \ {NoFd}))
      BY <2>3, <2>4, <2>5, SettledKeeps
    <2> QED BY <2>4, <2>6 DEF t
  <1> QED BY <1>2, <1>3

\* zs_write leaves what a handler leaves.
LEMMA WriteServed ==
  ASSUME NEW s \in States, NEW fd \in Fds, Conn(s.zsockets[fd]), "WRITABLE" \in Status(s, fd),
         EarlyWrites \/ "ACCEPTING" \notin Status(s, fd)
  PROVE  Served(s, zs_write(s, fd), fd)
  <1> DEFINE z == s.zsockets[fd]
             y == With(z, {}, {"WRITABLE"})
             u == DropWritable(s, fd)
  <1>1. z \in Socket /\ z.type = "CONNECT" /\ Linked(z)
    BY DEF Conn
  <1>2. Turns(s, u, fd, y)
    BY DropWritableTurns
  <1>3. Flagged(y, z, {}, {"WRITABLE"})
    BY <1>1, WithFlagged
  <1> HIDE DEF u, y
  <1>4. u \in States /\ u.zsockets \in [Fds -> Socket] /\ u.zsockets[fd] = y /\ y \in Socket
    BY <1>2, TurnsAt, StateFields
  <1>5. y.status = z.status \ {"WRITABLE"} /\ y.type = "CONNECT" /\ y.used = z.used
          /\ y.buffer = z.buffer
    BY <1>1, <1>3 DEF Flagged
  <1>6. ASSUME Plain, Tidy(z)
        PROVE  /\ "CONNECTED" \in z.status /\ FromConnect \cap z.status = {} /\ Reads(z)
                  /\ z.buffer = FALSE
               /\ "WRITING" \notin z.status /\ FromWrite \cap z.status = {}
                  /\ "CLOSED" \notin z.status /\ "ACCEPTING" \notin z.status
    BY <1>1, <1>6 DEF Tidy, Writes, Plain, Status, Socket
  <1>7. CASE z.write_errno
    <2> DEFINE x == [y EXCEPT !.write_errno = FALSE]
               v == [u EXCEPT !.zsockets = [u.zsockets EXCEPT ![fd] = x]]
               t == zs_update_fd_state(v, fd)
    <2>1. zs_write(s, fd) = zs_update_fd_state([u EXCEPT !.zsockets[fd].write_errno = FALSE],
                                               fd)
      BY <1>7 DEF zs_write, u
    <2>2. [u EXCEPT !.zsockets[fd].write_errno = FALSE] = v
      BY <1>4 DEF States, Socket
    <2>3. x \in Socket /\ x.type = "CONNECT" /\ x.status = y.status /\ x.used = y.used
            /\ x.buffer = y.buffer
      BY <1>4, <1>5 DEF Socket
    <2> HIDE DEF x
    <2>4. Turns(u, v, fd, x)
      BY <1>4, <2>3, FieldTurns
    <2> HIDE DEF v
    <2>5. Turns(s, v, fd, x)
      BY <1>2, <2>4, TurnsTwice
    <2>6. Settles(s, t, fd, x)
      BY <2>5, TurnsUpdate
    <2>7. Kept(z, x)
      BY <1>1, <1>5, <2>3 DEF Kept, Linked
    <2>8. ASSUME Plain, Tidy(z) PROVE Tidy(x)
      <3>1. Reads(x)
        BY <1>5, <1>6, <2>3, <2>8 DEF Reads, FromRead
      <3>2. Writes(x)
        BY <1>5, <1>6, <2>3, <2>8 DEF Writes, FromWrite
      <3> QED BY <1>5, <1>6, <2>3, <2>8, <3>1, <3>2 DEF Tidy
    <2> HIDE DEF t
    <2>9. Served(s, t, fd)
      BY <2>6, <2>7, <2>8 DEF Served, Settles
    <2> QED BY <2>1, <2>2, <2>9 DEF t
  <1>8. CASE ~z.write_errno
    <2> DEFINE x == [y EXCEPT !.buffer = TRUE]
               v == [u EXCEPT !.zsockets = [u.zsockets EXCEPT ![fd] = x]]
               w == Flag(v, fd, {"WRITING", "WANT_WRITE_FROM_WRITE"}, {})
               o == With(x, {"WRITING", "WANT_WRITE_FROM_WRITE"}, {})
               t == zs_update_fd_state(w, fd)
    <2>1. zs_write(s, fd) = zs_update_fd_state(Flag([u EXCEPT !.zsockets[fd].buffer = TRUE], fd,
                                                    {"WRITING", "WANT_WRITE_FROM_WRITE"}, {}),
                                                        fd)
      BY <1>8 DEF zs_write, u
    <2>2. [u EXCEPT !.zsockets[fd].buffer = TRUE] = v
      BY <1>4 DEF States, Socket
    <2>3. x \in Socket /\ x.type = "CONNECT" /\ x.status = y.status /\ x.used = y.used
            /\ x.buffer = TRUE
      BY <1>4, <1>5 DEF Socket
    <2> HIDE DEF x
    <2>4. Turns(u, v, fd, x)
      BY <1>4, <2>3, FieldTurns
    <2> HIDE DEF v
    <2>5. Turns(s, v, fd, x)
      BY <1>2, <2>4, TurnsTwice
    <2>6. v \in States /\ v.zsockets[fd] = x
      BY <2>5, TurnsAt
    <2>7. {"WRITING", "WANT_WRITE_FROM_WRITE"} \in SUBSET Flags
      BY FlagNames DEF FromWrite
    <2>8. Turns(v, w, fd, o)
      BY <2>6, <2>7, FlagTurns
    <2>9. Flagged(o, x, {"WRITING", "WANT_WRITE_FROM_WRITE"}, {})
      BY <2>3, <2>7, WithFlagged
    <2> HIDE DEF w, o
    <2>10. Turns(s, w, fd, o)
      BY <2>5, <2>8, TurnsTwice
    <2>11. Settles(s, t, fd, o)
      BY <2>10, TurnsUpdate
    <2>12. o \in Socket /\ o.type = "CONNECT" /\ o.buffer = TRUE /\ o.used = z.used
           /\ o.status = (z.status \ {"WRITABLE"}) \cup {"WRITING", "WANT_WRITE_FROM_WRITE"}
      BY <1>5, <2>3, <2>9 DEF Flagged
    <2>13. Kept(z, o)
      BY <1>1, <2>12 DEF Kept, Linked
    <2>14. ASSUME Plain, Tidy(z) PROVE Tidy(o)
      <3>1. Reads(o)
        BY <1>6, <2>12, <2>14 DEF Reads, FromRead
      <3>2. Writes(o)
        BY <1>6, <2>12, <2>14 DEF Writes, FromWrite
      <3>3. "CONNECTED" \in o.status /\ FromConnect \cap o.status = {}
        BY <1>6, <2>12, <2>14 DEF FromConnect
      <3> QED BY <3>1, <3>2, <3>3 DEF Tidy
    <2> HIDE DEF t
    <2>15. Served(s, t, fd)
      BY <2>11, <2>13, <2>14 DEF Served, Settles
    <2> QED BY <2>1, <2>2, <2>15 DEF t, w
  <1> QED BY <1>7, <1>8

\* The read-ahead of a tidy socket whose data was taken leaves it tidy.
LEMMA ReadAheadTidy ==
  ASSUME NEW y \in Socket, NEW r \in {"done", "eof", "error", "want_read", "want_write"},
         NEW u, Flagged(u, Reader(y, r), {}, FromRead), "READING" \notin y.status,
         "READABLE" \notin y.status, FromRead \cap y.status = {}, y.used = 0,
         "CONNECTED" \in y.status, FromConnect \cap y.status = {}, Writes(y)
  PROVE  Tidy(u)
  <1>1. u.status = Reader(y, r).status \ FromRead /\ u.used = Reader(y, r).used
          /\ u.buffer = Reader(y, r).buffer
    BY DEF Flagged
  <1>2. ASSUME u.status = y.status, u.used = 0, u.buffer = y.buffer PROVE Tidy(u)
    BY <1>2 DEF Tidy, Reads, Writes, FromRead
  <1>3. CASE r = "want_read"
    <2>1. Flagged(Reader(y, r), y, {"WANT_READ_FROM_READ"}, {})
      BY <1>3, WithFlagged, FlagNames DEF Reader, WantRead
    <2>2. u.status = y.status /\ u.used = 0 /\ u.buffer = y.buffer
      BY <1>1, <2>1 DEF Flagged, FromRead
    <2> QED BY <1>2, <2>2
  <1>4. CASE r = "want_write"
    <2>1. Flagged(Reader(y, r), y, {"WANT_WRITE_FROM_READ"}, {})
      BY <1>4, WithFlagged, FlagNames DEF Reader, WantWrite
    <2>2. u.status = y.status /\ u.used = 0 /\ u.buffer = y.buffer
      BY <1>1, <2>1 DEF Flagged, FromRead
    <2> QED BY <1>2, <2>2
  <1> DEFINE v == [y EXCEPT !.read_errno = @ \/ r = "error"]
  <1>5. v \in Socket /\ v.status = y.status /\ v.used = 0 /\ v.buffer = y.buffer
    BY DEF Socket
  <1>6. CASE r \in {"done", "eof", "error"} /\ y.ssl /\ "ACCEPTING" \in y.status
    <2>1. Reader(y, r) = Over(v)
      BY <1>6 DEF Reader
    <2> HIDE DEF v
    <2>2. "WRITING" \notin y.status
      BY <1>6 DEF Writes
    <2>3. Flagged(Over(v), v, {}, {"ACCEPTING"})
      BY <1>5, <2>2, WithFlagged DEF Over
    <2>4. u.status = y.status \ {"ACCEPTING"} /\ u.used = 0 /\ u.buffer = y.buffer
      BY <1>1, <1>5, <2>1, <2>3 DEF Flagged
    <2>5. "CONNECTED" \in u.status /\ FromConnect \cap u.status = {} /\ Writes(u)
      BY <2>4 DEF Writes, FromWrite
    <2>6. Reads(u)
      BY <2>4 DEF Reads, FromRead
    <2> QED BY <2>5, <2>6 DEF Tidy
  <1>7. CASE r \in {"done", "eof", "error"} /\ ~(y.ssl /\ "ACCEPTING" \in y.status)
    <2> DEFINE n == IF r = "done" THEN 1 ELSE IF r = "error" THEN -1 ELSE v.used
               x == [v EXCEPT !.used = n]
               e == IF r = "eof" THEN {"EOF"} ELSE {}
               w == With(x, {"READABLE"}, {})
               o == With(w, e, {"READING"})
    <2>1. Reader(y, r) = o
      BY <1>7 DEF Reader
    <2>2. n \in -1 .. 1 /\ e \in SUBSET {"EOF"} /\ (n = 0 => e = {"EOF"})
      BY <1>5, <1>7
    <2> HIDE DEF v, n, e
    <2>3. x \in Socket /\ x.buffer = y.buffer /\ x.status = y.status /\ x.used = n
      BY <1>5, <2>2 DEF Socket
    <2> HIDE DEF x
    <2>4. Flagged(w, x, {"READABLE"}, {})
      BY <2>3, WithFlagged, FlagNames
    <2> HIDE DEF w
    <2>5. w \in Socket /\ e \in SUBSET Flags
      BY <2>2, <2>4, FlagNames DEF Flagged
    <2>6. Flagged(o, w, e, {"READING"})
      BY <2>5, WithFlagged
    <2> HIDE DEF o
    <2>7. u.status = y.status \cup {"READABLE"} \cup e /\ u.used = n /\ u.buffer = y.buffer
      BY <1>1, <2>1, <2>2, <2>3, <2>4, <2>6 DEF Flagged, FromRead
    <2>8. "CONNECTED" \in u.status /\ FromConnect \cap u.status = {} /\ Writes(u)
      BY <2>2, <2>7 DEF Writes, FromWrite, FromConnect
    <2>9. Reads(u)
      BY <2>2, <2>7 DEF Reads, FromRead
    <2> QED BY <2>8, <2>9 DEF Tidy
  <1> QED BY <1>3, <1>4, <1>6, <1>7

\* zs_read leaves what a handler leaves.
LEMMA ReadServed ==
  ASSUME NEW s \in States, NEW fd \in Fds, NEW all \in BOOLEAN,
         NEW r \in {"done", "eof", "error", "want_read", "want_write"}, Conn(s.zsockets[fd]),
         "READABLE" \in Status(s, fd), Watched(s, fd)
  PROVE  Served(s, zs_read(s, fd, all, r), fd)
  <1> DEFINE z == s.zsockets[fd]
             takes == z.used = 1 /\ ~z.read_errno
             m == IF takes THEN 0 ELSE z.used
             y == [z EXCEPT !.used = m]
             u == [s EXCEPT !.zsockets = [s.zsockets EXCEPT ![fd] = y]]
  <1>1. z \in Socket /\ z.type = "CONNECT" /\ Linked(z) /\ s.zsockets \in [Fds -> Socket]
    BY StateFields DEF Conn
  <1>2. CASE z.used = 1 /\ ~all
    <2>1. zs_read(s, fd, all, r) = s
      BY <1>2 DEF zs_read
    <2>2. Shifts(s, s, fd)
      BY DEF Shifts, Apart
    <2> QED BY <1>1, <2>1, <2>2 DEF Served, Kept
  <1>3. m \in -1 .. 1
    BY <1>1 DEF Socket
  <1>4. [s EXCEPT !.zsockets[fd].used = IF takes THEN 0 ELSE @] = u
    BY <1>1 DEF States, Socket
  <1> HIDE DEF m
  <1>5. y \in Socket /\ y.status = z.status /\ y.type = "CONNECT" /\ y.buffer = z.buffer
          /\ y.used = m
    BY <1>1, <1>3 DEF Socket
  <1> HIDE DEF y
  <1>6. Turns(s, u, fd, y)
    BY <1>5, FieldTurns
  <1> HIDE DEF u
  <1>7. u \in States /\ u.zsockets[fd] = y
    BY <1>6, TurnsAt
  <1>8. ~(z.used = 1 /\ ~all) => zs_read(s, fd, all, r) =
           IF y.used # 0 \/ "EOF" \in Status(s, fd) THEN u
               ELSE zs_update_fd_state(ReadAhead(DropReadable(u, fd), fd, r), fd)
    BY <1>4, <1>7 DEF zs_read
  <1>9. Kept(z, y)
    BY <1>1, <1>5 DEF Kept, Linked
  <1>10. ASSUME Tidy(z) PROVE /\ "CONNECTED" \in z.status /\ FromConnect \cap z.status = {}
                                 /\ Writes(y)
                              /\ "READING" \notin z.status /\ FromRead \cap z.status = {}
    BY <1>5, <1>10 DEF Tidy, Reads, Writes, Status
  <1>11. CASE ~(z.used = 1 /\ ~all) /\ (y.used # 0 \/ "EOF" \in Status(s, fd))
    <2>1. zs_read(s, fd, all, r) = u
      BY <1>8, <1>11
    <2>2. Shifts(s, u, fd)
      BY <1>6, TurnsShifts
    <2>3. Watched(u, fd)
      <3>1. Status(u, fd) = Status(s, fd) /\ u.zsockets[fd].type = s.zsockets[fd].type
        BY <1>1, <1>5, <1>7 DEF Status
      <3> QED BY <1>6, <3>1 DEF Watched, WantsRead, WantsWrite, Turns
    <2>4. ASSUME Tidy(z) PROVE Tidy(y)
      <3>1. Reads(y)
        BY <1>5, <1>10, <1>11, <2>4 DEF Reads, Status, FromRead
      <3> QED BY <1>5, <1>10, <2>4, <3>1 DEF Tidy
    <2> QED BY <1>7, <1>9, <2>1, <2>2, <2>3, <2>4 DEF Served
  <1>12. CASE ~(z.used = 1 /\ ~all) /\ ~(y.used # 0 \/ "EOF" \in Status(s, fd))
    <2> DEFINE v == DropReadable(u, fd)
               x == With(y, {}, {"READABLE"})
               w == zs_reader(v, fd, r)
               c == Reader(x, r)
               kept == x.status \cap FromRead
               q == Flag(w, fd, kept, FromRead)
               o == With(c, kept, FromRead)
               t == zs_update_fd_state(q, fd)
    <2>1. zs_read(s, fd, all, r) = zs_update_fd_state(ReadAhead(v, fd, r), fd)
      BY <1>8, <1>12
    <2>2. Turns(u, v, fd, x)
      BY <1>7, DropReadableTurns
    <2>3. Flagged(x, y, {}, {"READABLE"})
      BY <1>5, WithFlagged
    <2> HIDE DEF v, x
    <2>4. v \in States /\ v.zsockets[fd] = x
      BY <1>7, <2>2, TurnsAt
    <2>5. ReadAhead(v, fd, r) = q
      BY <2>4 DEF ReadAhead, Status, FromRead
    <2>6. x \in Socket /\ x.status = z.status \ {"READABLE"} /\ x.type = "CONNECT"
            /\ x.buffer = z.buffer /\ x.used = y.used
      BY <1>5, <2>3 DEF Flagged
    <2>7. Conn(x) /\ ("CLOSED" \in x.status <=> "CLOSED" \in z.status)
      BY <1>1, <2>6 DEF Conn, Linked
    <2>8. Turns(v, w, fd, c)
      BY <2>4, ReaderTurns
    <2>9. Kept(x, c)
      BY <2>7, ReaderKeeps
    <2>10. kept \in SUBSET Flags /\ "READABLE" \notin kept /\ "WRITABLE" \notin kept
      BY FlagNames DEF FromRead
    <2>11. "READABLE" \notin FromRead /\ "WRITABLE" \notin FromRead /\ kept \subseteq FromRead
      BY DEF FromRead
    <2> HIDE DEF w
    <2>12. w \in States /\ w.zsockets[fd] = c /\ c \in Socket
      BY <2>4, <2>8, TurnsAt
    <2>13. Turns(w, q, fd, o)
      <3> HIDE DEF c, kept
      <3> QED BY <2>10, <2>11, <2>12, FlagTurns
    <2>14. Flagged(o, c, kept, FromRead)
      <3> HIDE DEF c, kept
      <3> QED BY <2>10, <2>12, WithFlagged
    <2>15. Turns(s, v, fd, x)
      BY <1>6, <2>2, TurnsTwice
    <2>16. Turns(s, w, fd, c)
      BY <2>8, <2>15, TurnsTwice
    <2> HIDE DEF q, o
    <2>17. Turns(s, q, fd, o)
      BY <2>13, <2>16, TurnsTwice
    <2>18. Settles(s, t, fd, o)
      BY <2>17, TurnsUpdate
    <2>19. Kept(z, o)
      <3> HIDE DEF c, kept
      <3> QED BY <2>7, <2>9, <2>11, <2>14 DEF Kept, Flagged, Linked, FromRead
    <2>20. ASSUME Tidy(z) PROVE Tidy(o)
      <3>1. kept = {}
        BY <1>10, <2>6, <2>20
      <3>2. Flagged(o, Reader(x, r), {}, FromRead)
        BY <2>14, <3>1
      <3>3. "READING" \notin x.status /\ "READABLE" \notin x.status
              /\ FromRead \cap x.status = {} /\ x.used = 0
        BY <1>10, <1>12, <2>6, <2>20
      <3>4. "CONNECTED" \in x.status /\ FromConnect \cap x.status = {} /\ Writes(x)
        BY <1>5, <1>10, <2>6, <2>20 DEF Writes, FromWrite
      <3> QED BY <2>6, <3>2, <3>3, <3>4, ReadAheadTidy
    <2> HIDE DEF t
    <2>21. Served(s, t, fd)
      BY <2>18, <2>19, <2>20 DEF Served, Settles
    <2> QED BY <2>1, <2>5, <2>21 DEF t
  <1> QED BY <1>2, <1>11, <1>12

\* The program lets go of a connection: it is closed, or it is closing.
LEMMA OwnedDropped ==
  ASSUME NEW s \in States, NEW t, NEW fd \in Fds, NEW h \in SUBSET Fds, NEW x,
         Shifts(s, t, fd), Owned(s, h, x), fd \in h, t.zsockets[fd].type # "LISTEN",
         Connects(t, fd) => "CLOSED" \in Status(t, fd)
  PROVE  Owned(t, h \ {fd}, x)
  <1>1. \A g \in Fds : g # fd => t.zsockets[g] = s.zsockets[g]
    BY DEF Shifts, Apart
  <1>2. \A g \in Fds : g # fd => (Connects(t, g) <=> Connects(s, g))
          /\ ("CLOSED" \in Status(t, g) <=> "CLOSED" \in Status(s, g))
    BY <1>1 DEF Connects, Status
  <1>3. Connects(s, fd) /\ \A l \in Fds : ~Offered(s, l, fd)
    BY DEF Owned
  <1>4. \A l \in Fds, g \in Fds : Offered(t, l, g) <=> Offered(s, l, g)
    BY <1>1, <1>3 DEF Offered, Connects
  <1> QED BY <1>2, <1>3, <1>4 DEF Owned

\* zs_close of a connection keeps the invariant: it is closed, or its write
\* goes on.
LEMMA CloseKeeps ==
  ASSUME NEW s, NEW fd \in Fds, NEW h \in SUBSET Fds, NEW x, Good(s, h, x), fd \in h
  PROVE  Good(zs_close(s, fd), h \ {fd}, x)
  <1> DEFINE z == s.zsockets[fd]
  <1>1. s \in States /\ Local(s, fd) /\ Owned(s, h, x) /\ z \in Socket
    BY SocketFacts DEF Good
  <1>2. z.type = "CONNECT" /\ Linked(z) /\ (Plain => Tidy(z))
    BY <1>1 DEF Owned, Connects, Local, Sound
  <1>3. CASE "WRITING" \in z.status
    <2> DEFINE v == zs_clr_read(s, fd)
               w == zs_clr_write(v, fd)
               t == Flag(w, fd, {"CLOSED"}, {})
               y == With(z, {"CLOSED"}, {})
    <2>1. zs_close(s, fd) = t
      BY <1>2, <1>3 DEF zs_close
    <2>2. Tunes(s, v, fd)
      BY <1>1, zs_clr_read_tunes
    <2>3. v \in States
      BY <2>2 DEF Tunes, Shifts
    <2> HIDE DEF v
    <2>4. Tunes(v, w, fd)
      BY <2>3, zs_clr_write_tunes
    <2> HIDE DEF w
    <2>5. w \in States /\ w.zsockets[fd] = z /\ Watched(w, fd)
      BY <2>2, <2>4 DEF Tunes, Shifts
    <2>6. Turns(w, t, fd, y)
      BY <2>5, FlagTurns, FlagNames
    <2>7. Flagged(y, z, {"CLOSED"}, {})
      BY <1>1, WithFlagged, FlagNames
    <2> HIDE DEF t, y
    <2>8. t.zsockets[fd] = y /\ Shifts(w, t, fd)
      BY <2>5, <2>6, TurnsAt, TurnsShifts
    <2>9. Shifts(s, w, fd)
      BY <2>2, <2>4, ShiftsTwice DEF Tunes
    <2>10. Shifts(s, t, fd)
      BY <2>8, <2>9, ShiftsTwice
    <2>11. y.type = "CONNECT" /\ y.status = z.status \cup {"CLOSED"} /\ y.used = z.used
             /\ y.buffer = z.buffer
      BY <1>2, <2>7 DEF Flagged
    <2>12. Watched(t, fd)
      <3>1. t.zsockets[fd].type = "CONNECT" /\ w.zsockets[fd].type = "CONNECT"
        BY <1>2, <2>5, <2>8, <2>11
      <3>2. Status(t, fd) = Status(w, fd) \cup {"CLOSED"}
        BY <2>5, <2>8, <2>11 DEF Status
      <3>3. (WantsRead(t, fd) <=> WantsRead(w, fd)) /\ (WantsWrite(t, fd) <=> WantsWrite(w, fd))
        BY <2>6, <3>1, <3>2 DEF WantsRead, WantsWrite, WantRead, WantWrite, Turns
      <3> QED BY <2>5, <2>6, <3>1, <3>3 DEF Watched, Turns
    <2>13. ASSUME Plain PROVE Tidy(y)
      <3>1. Reads(y)
        BY <1>2, <2>11, <2>13 DEF Tidy, Reads, FromRead
      <3>2. Writes(y)
        BY <1>2, <1>3, <2>11, <2>13 DEF Tidy, Writes, FromWrite
      <3> QED BY <1>2, <2>11, <2>13, <3>1, <3>2 DEF Tidy, FromConnect
    <2>14. Local(t, fd)
      BY <1>2, <2>8, <2>11, <2>12, <2>13 DEF Local, Sound, Linked, IsOpen
    <2>15. Owned(t, h \ {fd}, x)
      BY <1>1, <2>8, <2>10, <2>11, OwnedDropped DEF Status
    <2>16. Good(t, h \ {fd}, x)
      BY <2>10, <2>14, <2>15, SettledKeeps
    <2> QED BY <2>1, <2>16
  <1>4. CASE "WRITING" \notin z.status
    <2> DEFINE t == zs_close(s, fd)
    <2>1. t = FullClose(s, fd)
      BY <1>2, <1>4 DEF zs_close
    <2>2. Closes(s, t, fd)
      BY <1>1, <2>1, FullCloseCloses
    <2> HIDE DEF t
    <2>3. Shifts(s, t, fd) /\ t.zsockets[fd] = Null /\ fd \notin t.active_read
            /\ fd \notin t.active_write
      BY <2>2 DEF Closes
    <2>4. Local(t, fd)
      BY <2>3 DEF Local, Sound, IsOpen, Null
    <2>5. t.zsockets[fd].type = "NULL"
      BY <2>3 DEF Null
    <2>6. Owned(t, h \ {fd}, x)
      BY <1>1, <2>3, <2>5, OwnedDropped DEF Connects
    <2>7. Good(t, h \ {fd}, x)
      BY <2>3, <2>4, <2>6, SettledKeeps
    <2> QED BY <2>7 DEF t
  <1> QED BY <1>3, <1>4

----------------------------------------------------------------------------
(* Accepting: a step at two sockets, the listening one and its child. *)

\* The listening socket f is y, its child n is z, and the others are what
\* they were.
Pair(s, t, f, n, y, z) ==
  /\ t \in States /\ t.zsockets[f] = y /\ t.zsockets[n] = z
  /\ \A g \in Fds \ {f, n} :
       /\ t.zsockets[g] = s.zsockets[g]
       /\ g \in t.zfd_read <=> g \in s.zfd_read
       /\ g \in t.zfd_write <=> g \in s.zfd_write
  /\ t.active_read = s.active_read /\ t.active_write = s.active_write
  /\ Counted(s) => Counted(t)

\* A change of the listening socket.
LEMMA PairParent ==
  ASSUME NEW s \in States, NEW t, NEW u, NEW f \in Fds, NEW n \in Fds, NEW y, NEW z, NEW x,
         f # n, Pair(s, t, f, n, y, z), Turns(t, u, f, x)
  PROVE  Pair(s, u, f, n, x, z)
  <1>1. t \in States /\ t.zsockets \in [Fds -> Socket]
    BY StateFields DEF Pair
  <1>2. u.zsockets[f] = x /\ \A g \in Fds : g # f => u.zsockets[g] = t.zsockets[g]
    BY <1>1 DEF Turns
  <1> QED BY <1>2 DEF Turns, Pair

\* A change of the child.
LEMMA PairChild ==
  ASSUME NEW s \in States, NEW t, NEW u, NEW f \in Fds, NEW n \in Fds, NEW y, NEW z, NEW x,
         f # n, Pair(s, t, f, n, y, z), Turns(t, u, n, x)
  PROVE  Pair(s, u, f, n, y, x)
  <1>1. t \in States /\ t.zsockets \in [Fds -> Socket]
    BY StateFields DEF Pair
  <1>2. u.zsockets[n] = x /\ \A g \in Fds : g # n => u.zsockets[g] = t.zsockets[g]
    BY <1>1 DEF Turns
  <1> QED BY <1>2 DEF Turns, Pair

\* zs_update_fd_state for either.
LEMMA PairRewatches ==
  ASSUME NEW s \in States, NEW t, NEW u, NEW f \in Fds, NEW n \in Fds, NEW y, NEW z,
         NEW g \in {f, n}, Pair(s, t, f, n, y, z), Rewatches(t, u, g)
  PROVE  Pair(s, u, f, n, y, z)
  BY DEF Pair, Rewatches, Shifts, Apart

\* zs_update_fd_state for one leaves what select() watches of the other.
LEMMA WatchedStill ==
  ASSUME NEW t \in States, NEW u, NEW f \in Fds, NEW n \in Fds, f # n, Watched(t, n),
         Rewatches(t, u, f)
  PROVE  Watched(u, n)
  <1>1. Status(u, n) = Status(t, n) /\ u.zsockets[n] = t.zsockets[n]
    BY DEF Rewatches, Status
  <1>2. (WantsRead(u, n) <=> WantsRead(t, n)) /\ (WantsWrite(u, n) <=> WantsWrite(t, n))
    BY <1>1 DEF WantsRead, WantsWrite, Rewatches
  <1> QED BY <1>2 DEF Watched, Rewatches, Shifts, Apart

\* The listening socket while zs_internal_accept runs.
Calls(y, n) == y.type = "LISTEN" /\ y.status \subseteq {"READABLE", "ACCEPTING"}
    /\ y.accepted_fd = n

\* The child as zs_type_init leaves it.
Newborn(z, fd) == z.type = "CONNECT" /\ z.used = 0 /\ z.buffer = FALSE /\ z.status = {}
    /\ z.parent_fd = fd

\* The listening socket once it offers its child.
Offerer(y, n) == y.type = "LISTEN" /\ y.status = {"READABLE"} /\ y.accepted_fd = n

\* The child once it is connected.
Child(z) ==
  /\ z.type = "CONNECT" /\ z.used = 0 /\ z.buffer = FALSE
  /\ z.status \subseteq {"WRITABLE", "CONNECTED", "ACCEPTING"} /\ "CONNECTED" \in z.status

\* The listening socket f offers its child n.
Begets(s, t, f, n) ==
  \E y \in Socket, z \in Socket :
    Pair(s, t, f, n, y, z) /\ Offerer(y, n) /\ Child(z)

\* zs_internal_accept up to the call of zs_accepter,
Offering(s, fd, n) == [NewConnect(Flag(s, fd, {"ACCEPTING"}, {}), n, s.zsockets[fd].ssl,
                                  fd) EXCEPT !.zsockets[fd].accepted_fd = n]

\* what zs_accepter does to the listening socket,
Told(s, fd) == Flag(MakeReadable(s, fd), fd, {}, {"ACCEPTING"})

\* and what it does to the child.
Made(s, n, new) == Flag(MakeWritable(s, n), n, new, {})

\* The first of these three steps.
LEMMA OfferingPair ==
  ASSUME NEW s \in States, NEW fd \in Fds, NEW n \in Fds, fd # n, n \notin s.active_read,
         n \notin s.active_write, s.zsockets[fd].type = "LISTEN",
         s.zsockets[fd].status \subseteq {"READABLE"}
  PROVE  \E y \in Socket, z \in Socket :
           Pair(s, Offering(s, fd, n), fd, n, y, z) /\ Calls(y, n) /\ Newborn(z, fd)
  <1> DEFINE x == s.zsockets[fd]
             v == With(x, {"ACCEPTING"}, {})
             a == Flag(s, fd, {"ACCEPTING"}, {})
             z == [Null EXCEPT !.type = "CONNECT", !.ssl = x.ssl, !.parent_fd = fd]
             b == NewConnect(a, n, x.ssl, fd)
             y == [v EXCEPT !.accepted_fd = n]
             o == [b EXCEPT !.zsockets = [b.zsockets EXCEPT ![fd] = y]]
  <1>1. x \in Socket /\ x.ssl \in BOOLEAN
    BY SocketFacts DEF Socket
  <1>2. Pair(s, s, fd, n, x, s.zsockets[n])
    BY DEF Pair
  <1>3. Turns(s, a, fd, v)
    BY FlagTurns, FlagNames
  <1>4. Flagged(v, x, {"ACCEPTING"}, {})
    BY <1>1, WithFlagged, FlagNames
  <1>5. z \in Socket /\ z.type = "CONNECT" /\ z.status = {} /\ z.used = 0 /\ z.buffer = FALSE
          /\ z.parent_fd = fd
    <2>1. PICK e \in Socket : e = Null
      BY NullSocket
    <2>2. e.status = {} /\ e.used = 0 /\ e.buffer = FALSE
      BY <2>1 DEF Null
    <2>3. z = [e EXCEPT !.type = "CONNECT", !.ssl = x.ssl, !.parent_fd = fd]
      BY <2>1
    <2> HIDE DEF z, x
    <2> QED BY <1>1, <2>2, <2>3 DEF Socket
  <1>6. b = [a EXCEPT !.zsockets[n] = z]
    BY DEF NewConnect
  <1>7. Offering(s, fd, n) = [b EXCEPT !.zsockets[fd].accepted_fd = n]
    BY DEF Offering
  <1> HIDE DEF a, v, z, b
  <1>8. Pair(s, a, fd, n, v, s.zsockets[n])
    BY <1>2, <1>3, PairParent
  <1>9. a \in States /\ n \notin a.active_read /\ n \notin a.active_write
    BY <1>8 DEF Pair
  <1>10. Turns(a, b, n, z)
    BY <1>5, <1>6, <1>9, FreshTurns
  <1>11. Pair(s, b, fd, n, v, z)
    BY <1>8, <1>10, PairChild
  <1>12. b \in States /\ b.zsockets \in [Fds -> Socket] /\ b.zsockets[fd] = v
    BY <1>11, StateFields DEF Pair
  <1>13. v \in Socket /\ v.type = "LISTEN" /\ v.status \subseteq {"READABLE", "ACCEPTING"}
    BY <1>4 DEF Flagged
  <1>14. y \in Socket /\ y.type = "LISTEN" /\ y.status = v.status /\ y.accepted_fd = n
    BY <1>13 DEF Socket
  <1>15. Offering(s, fd, n) = o
    BY <1>7, <1>12, <1>13 DEF States, Socket
  <1> HIDE DEF y
  <1>16. Turns(b, o, fd, y)
    BY <1>12, <1>14, FieldTurns
  <1> HIDE DEF o
  <1>17. Pair(s, o, fd, n, y, z)
    BY <1>11, <1>16, PairParent
  <1>18. Calls(y, n) /\ Newborn(z, fd)
    BY <1>5, <1>13, <1>14 DEF Calls, Newborn
  <1> QED BY <1>5, <1>14, <1>15, <1>17, <1>18

\* The second: READABLE is set, ACCEPTING cleared.
LEMMA ToldPair ==
  ASSUME NEW s \in States, NEW t, NEW fd \in Fds, NEW n \in Fds, fd # n, NEW y \in Socket,
         NEW z \in Socket, Pair(s, t, fd, n, y, z), Calls(y, n)
  PROVE  \E v \in Socket : Pair(s, Told(t, fd), fd, n, v, z) /\ Offerer(v, n)
  <1> DEFINE u == MakeReadable(t, fd)
             x == With(y, {"READABLE"}, {})
             v == With(x, {}, {"ACCEPTING"})
  <1>1. t \in States /\ t.zsockets[fd] = y
    BY DEF Pair
  <1>2. Turns(t, u, fd, x)
    BY <1>1, MakeReadableTurns
  <1>3. Flagged(x, y, {"READABLE"}, {})
    BY WithFlagged, FlagNames
  <1>4. x \in Socket
    BY <1>3 DEF Flagged
  <1>5. Flagged(v, x, {}, {"ACCEPTING"})
    BY <1>4, WithFlagged
  <1>6. Told(t, fd) = Flag(u, fd, {}, {"ACCEPTING"})
    BY DEF Told
  <1> HIDE DEF u, x
  <1>7. u \in States /\ u.zsockets[fd] = x
    BY <1>1, <1>2, TurnsAt
  <1>8. Turns(u, Told(t, fd), fd, v)
    BY <1>6, <1>7, FlagTurns
  <1> HIDE DEF v
  <1>9. Pair(s, u, fd, n, x, z)
    BY <1>2, PairParent
  <1>10. Pair(s, Told(t, fd), fd, n, v, z)
    BY <1>8, <1>9, PairParent
  <1>11. v \in Socket /\ Offerer(v, n)
    BY <1>3, <1>5 DEF Flagged, Calls, Offerer
  <1> QED BY <1>10, <1>11

\* The third: the child is WRITABLE and CONNECTED.
LEMMA MadePair ==
  ASSUME NEW s \in States, NEW t, NEW fd \in Fds, NEW n \in Fds, fd # n, NEW y \in Socket,
         NEW z \in Socket, NEW new \in SUBSET {"CONNECTED", "ACCEPTING"}, "CONNECTED" \in new,
         Pair(s, t, fd, n, y, z), Newborn(z, fd)
  PROVE  \E v \in Socket : Pair(s, Made(t, n, new), fd, n, y, v) /\ Child(v)
  <1> DEFINE u == MakeWritable(t, n)
             x == With(z, {"WRITABLE"}, {})
             v == With(x, new, {})
  <1>1. t \in States /\ t.zsockets[n] = z
    BY DEF Pair
  <1>2. Turns(t, u, n, x)
    BY <1>1, MakeWritableTurns
  <1>3. Flagged(x, z, {"WRITABLE"}, {})
    BY WithFlagged, FlagNames
  <1>4. x \in Socket /\ new \in SUBSET Flags /\ "READABLE" \notin new /\ "WRITABLE" \notin new
    BY <1>3, FlagNames DEF Flagged
  <1>5. Flagged(v, x, new, {})
    BY <1>4, WithFlagged
  <1>6. Made(t, n, new) = Flag(u, n, new, {})
    BY DEF Made
  <1> HIDE DEF u, x
  <1>7. u \in States /\ u.zsockets[n] = x
    BY <1>1, <1>2, TurnsAt
  <1>8. Turns(u, Made(t, n, new), n, v)
    BY <1>4, <1>6, <1>7, FlagTurns
  <1> HIDE DEF v
  <1>9. Pair(s, u, fd, n, y, x)
    BY <1>2, PairChild
  <1>10. Pair(s, Made(t, n, new), fd, n, y, v)
    BY <1>8, <1>9, PairChild
  <1>11. v \in Socket /\ v.type = "CONNECT" /\ v.used = 0 /\ v.buffer = FALSE
           /\ v.status = {"WRITABLE"} \cup new
    BY <1>3, <1>5 DEF Flagged, Newborn
  <1>12. Child(v)
    BY <1>11 DEF Child
  <1> QED BY <1>10, <1>11, <1>12

\* zs_internal_accept with a new descriptor, and the three calls of
\* zs_update_fd_state.
LEMMA InternalAcceptBegets ==
  ASSUME NEW s \in States, NEW fd \in Fds, NEW n \in Fds, fd # n, n \notin s.active_read,
         n \notin s.active_write, s.zsockets[fd].type = "LISTEN",
         s.zsockets[fd].status \subseteq {"READABLE"}
  PROVE  LET t == zs_internal_accept(s, fd, n) IN Begets(s, t, fd, n) /\ Watched(t, fd)
      /\ Watched(t, n)
  <1> DEFINE o == Offering(s, fd, n)
  <1>1. PICK y \in Socket, z \in Socket :
           Pair(s, o, fd, n, y, z) /\ Calls(y, n) /\ Newborn(z, fd)
    BY OfferingPair
  <1> DEFINE new == {"CONNECTED"} \cup (IF o.zsockets[n].ssl THEN {"ACCEPTING"} ELSE {})
             d == Made(Told(o, fd), n, new)
             e == zs_update_fd_state(d, fd)
             c == zs_update_fd_state(e, n)
             t == zs_update_fd_state(c, fd)
  <1>2. o.zsockets[n].parent_fd = fd
    BY <1>1 DEF Pair, Newborn
  <1>3. zs_internal_accept(s, fd, n) = zs_update_fd_state(zs_update_fd_state(zs_accepter(o, n),
          n), fd)
    <2>1. n # NoFd
      BY FdsAssumption DEF NoFd
    <2> QED BY <2>1 DEF zs_internal_accept, Offering
  <1>4. zs_accepter(o, n) = e
    BY <1>2 DEF zs_accepter, Made, Told
  <1>5. new \in SUBSET {"CONNECTED", "ACCEPTING"} /\ "CONNECTED" \in new
    OBVIOUS
  <1> HIDE DEF o, new
  <1>6. PICK v \in Socket : Pair(s, Told(o, fd), fd, n, v, z) /\ Offerer(v, n)
    BY <1>1, ToldPair
  <1>7. PICK w \in Socket : Pair(s, d, fd, n, v, w) /\ Child(w)
    BY <1>1, <1>5, <1>6, MadePair
  <1> HIDE DEF d
  <1>8. d \in States
    BY <1>7 DEF Pair
  <1>9. Rewatches(d, e, fd)
    BY <1>8, UpdateRewatches
  <1> HIDE DEF e
  <1>10. Pair(s, e, fd, n, v, w)
    BY <1>7, <1>9, PairRewatches
  <1>11. e \in States
    BY <1>10 DEF Pair
  <1>12. Rewatches(e, c, n)
    BY <1>11, UpdateRewatches
  <1> HIDE DEF c
  <1>13. Pair(s, c, fd, n, v, w)
    BY <1>10, <1>12, PairRewatches
  <1>14. c \in States
    BY <1>13 DEF Pair
  <1>15. Rewatches(c, t, fd)
    BY <1>14, UpdateRewatches
  <1>16. zs_internal_accept(s, fd, n) = t
    BY <1>3, <1>4 DEF c
  <1> HIDE DEF t
  <1>17. Pair(s, t, fd, n, v, w)
    BY <1>13, <1>15, PairRewatches
  <1>18. Watched(t, n) /\ Watched(t, fd)
    BY <1>12, <1>14, <1>15, WatchedStill DEF Rewatches
  <1>19. Begets(s, t, fd, n)
    BY <1>6, <1>7, <1>17 DEF Begets
  <1> QED BY <1>16, <1>18, <1>19

\* The child is offered by f, and by no other socket.
LEMMA OwnedOffered ==
  ASSUME NEW s \in States, NEW t, NEW f \in Fds, NEW n \in Fds, NEW h \in SUBSET Fds, NEW x,
         f # n, Owned(s, h, x), NEW y \in Socket, NEW z \in Socket, Pair(s, t, f, n, y, z),
         Offerer(y, n), Child(z), s.zsockets[f].type = "LISTEN",
         s.zsockets[f].accepted_fd = NoFd, s.zsockets[n].type = "NULL"
  PROVE  Owned(t, h, x)
  <1>1. \A g \in Fds : g # f /\ g # n => t.zsockets[g] = s.zsockets[g]
    BY DEF Pair
  <1>2. t.zsockets[f].type = "LISTEN" /\ t.zsockets[f].accepted_fd = n
          /\ t.zsockets[n].type = "CONNECT"
    BY DEF Pair, Offerer, Child
  <1>3. Connects(t, n) /\ ~Connects(s, n) /\ ~Connects(t, f) /\ ~Connects(s, f)
          /\ "CLOSED" \notin Status(t, n)
    BY <1>2 DEF Connects, Pair, Child, Status
  <1>4. \A g \in Fds : g # f /\ g # n =>
          (Connects(t, g) <=> Connects(s, g)) /\ Status(t, g) = Status(s, g)
    BY <1>1 DEF Connects, Status
  <1>5. \A l \in Fds, g \in Fds : Offered(s, l, g) => l # f /\ l # n /\ g # n
    BY <1>3, FdsAssumption DEF Offered, Owned, NoFd
  <1>6. \A l \in Fds, g \in Fds : l # f => (Offered(t, l, g) <=> Offered(s, l, g))
    BY <1>1, <1>2 DEF Offered
  <1>7. \A g \in Fds : Offered(t, f, g) <=> g = n
    BY <1>2 DEF Offered
  <1>8. \A g \in h : Connects(t, g) /\ "CLOSED" \notin Status(t, g)
    BY <1>3, <1>4 DEF Owned
  <1>9. \A l \in Fds, g \in Fds : Offered(t, l, g) =>
           /\ Connects(t, g) /\ g \notin h /\ "CLOSED" \notin Status(t, g)
           /\ \A k \in Fds : Offered(t, k, g) => k = l
    <2> SUFFICES ASSUME NEW l \in Fds, NEW g \in Fds, Offered(t, l, g)
                 PROVE  /\ Connects(t, g) /\ g \notin h /\ "CLOSED" \notin Status(t, g)
                        /\ \A k \in Fds : Offered(t, k, g) => k = l
      OBVIOUS
    <2>1. CASE l = f
      <3>1. g = n
        BY <1>7, <2>1
      <3>2. n \notin h
        BY <1>3 DEF Owned
      <3>3. \A k \in Fds : Offered(t, k, n) => k = f
        BY <1>5, <1>6
      <3> QED BY <1>3, <2>1, <3>1, <3>2, <3>3
    <2>2. CASE l # f
      <3>1. Offered(s, l, g) /\ g # n
        BY <1>5, <1>6, <2>2
      <3>2. Connects(s, g) /\ g \notin h /\ "CLOSED" \notin Status(s, g) /\ \A k \in Fds :
              Offered(s, k, g) => k = l
        BY <3>1 DEF Owned
      <3>3. g # f
        BY <1>3, <3>2
      <3>4. \A k \in Fds : Offered(t, k, g) => Offered(s, k, g)
        BY <1>6, <1>7, <3>1
      <3> QED BY <1>4, <3>1, <3>2, <3>3, <3>4
    <2> QED BY <2>1, <2>2
  <1>10. \A g \in Fds : Connects(t, g) =>
            g \in h \/ "CLOSED" \in Status(t, g) \/ g \in x \/ \E l \in Fds : Offered(t, l, g)
    <2> SUFFICES ASSUME NEW g \in Fds, Connects(t, g), g # n
                 PROVE  g \in h \/ "CLOSED" \in Status(t, g) \/ g \in x \/ \E l \in Fds :
                     Offered(t, l, g)
      BY <1>7
    <2>1. g # f /\ Connects(s, g) /\ Status(t, g) = Status(s, g)
      BY <1>3, <1>4
    <2>2. g \in h \/ "CLOSED" \in Status(s, g) \/ g \in x \/ \E l \in Fds : Offered(s, l, g)
      BY <2>1 DEF Owned
    <2>3. \A l \in Fds : Offered(s, l, g) => Offered(t, l, g)
      BY <1>5, <1>6
    <2> QED BY <2>1, <2>2, <2>3
  <1> QED BY <1>8, <1>9, <1>10 DEF Owned

\* An accept keeps the invariant.
LEMMA BegetsKeeps ==
  ASSUME NEW s, NEW t, NEW f \in Fds, NEW n \in Fds, NEW h \in SUBSET Fds, NEW x, f # n,
         Good(s, h, x), s.zsockets[f].type = "LISTEN", s.zsockets[f].accepted_fd = NoFd,
         s.zsockets[n].type = "NULL", Begets(s, t, f, n), Watched(t, f), Watched(t, n)
  PROVE  Good(t, h, x)
  <1>1. s \in States /\ Counted(s) /\ (\A g \in Fds : Local(s, g)) /\ Owned(s, h, x)
    BY DEF Good
  <1>2. PICK y \in Socket, z \in Socket : Pair(s, t, f, n, y, z) /\ Offerer(y, n) /\ Child(z)
    BY DEF Begets
  <1>3. t \in States /\ Counted(t) /\ t.zsockets[f] = y /\ t.zsockets[n] = z
    BY <1>1, <1>2 DEF Pair
  <1>4. Local(t, f)
    <2>1. y.type = "LISTEN" /\ Offers(y)
      BY <1>2, FdsAssumption DEF Offerer, Offers, NoFd
    <2> QED BY <1>3, <2>1 DEF Local, Sound, IsOpen
  <1>5. Local(t, n)
    <2>1. z.type = "CONNECT" /\ Linked(z)
      BY <1>2 DEF Child, Linked
    <2>2. Tidy(z)
      BY <1>2, NewTidy DEF Child
    <2> QED BY <1>3, <2>1, <2>2 DEF Local, Sound, IsOpen
  <1>6. ASSUME NEW g \in Fds, g # f, g # n PROVE Local(t, g)
    BY <1>1, <1>2, <1>6, LocalAlike DEF Pair
  <1>7. Owned(t, h, x)
    BY <1>1, <1>2, OwnedOffered
  <1> QED BY <1>3, <1>4, <1>5, <1>6, <1>7 DEF Good

\* So does one that failed: the listening socket is what it was.
LEMMA AcceptFailsKeeps ==
  ASSUME NEW s, NEW fd \in Fds, NEW h \in SUBSET Fds, NEW x, Good(s, h, x),
         s.zsockets[fd].type = "LISTEN", s.zsockets[fd].status = {},
         s.zsockets[fd].accepted_fd = NoFd
  PROVE  Good(zs_internal_accept(s, fd, NoFd), h, x)
  <1> DEFINE z == s.zsockets[fd]
             t == zs_update_fd_state(s, fd)
  <1>1. s \in States /\ Local(s, fd) /\ Owned(s, h, x) /\ z \in Socket
          /\ s.zsockets \in [Fds -> Socket]
    BY StateFields DEF Good
  <1>2. [Flag(s, fd, {}, {"ACCEPTING"}) EXCEPT !.zsockets[fd].accepted_fd = NoFd] = s
    <2> DEFINE y == [z EXCEPT !.status = (z.status \ {"ACCEPTING"}) \cup {}]
    <2>1. y = z
      <3>1. (z.status \ {"ACCEPTING"}) \cup {} = z.status
        OBVIOUS
      <3> QED BY <1>1, <3>1 DEF Socket
    <2>2. Flag(s, fd, {}, {"ACCEPTING"}) = [s EXCEPT !.zsockets = [s.zsockets EXCEPT ![fd] = y]]
      BY <1>1 DEF Flag, States
    <2>3. Flag(s, fd, {}, {"ACCEPTING"}) = s
      BY <1>1, <2>1, <2>2 DEF States
    <2>4. [s EXCEPT !.zsockets[fd].accepted_fd = NoFd] =
            [s EXCEPT !.zsockets = [s.zsockets EXCEPT ![fd] = [z EXCEPT !.accepted_fd = NoFd]]]
      BY <1>1 DEF States
    <2>5. [z EXCEPT !.accepted_fd = NoFd] = z
      BY <1>1 DEF Socket
    <2>6. [s EXCEPT !.zsockets[fd].accepted_fd = NoFd] = s
      BY <1>1, <2>4, <2>5 DEF States
    <2> QED BY <2>3, <2>6
  <1>3. zs_internal_accept(s, fd, NoFd) = t
    BY <1>2 DEF zs_internal_accept
  <1>4. Rewatches(s, t, fd)
    BY <1>1, UpdateRewatches
  <1> HIDE DEF t
  <1>5. Tunes(s, t, fd) /\ IsOpen(s, fd)
    BY <1>4 DEF Rewatches, Tunes, IsOpen
  <1> QED BY <1>3, <1>5, TunesKeeps

----------------------------------------------------------------------------
(* The steps. *)

\* The invariant holds after zs_init.
LEMMA InitGood == Init => IInv
  <1> SUFFICES ASSUME Init PROVE IInv
    OBVIOUS
  <1>1. st = Empty /\ held = {} /\ lost = {} /\ exited = FALSE
    BY DEF Init
  <1>2. Empty \in States
    BY NullSocket DEF Empty, States
  <1>3. \A fd \in Fds : Empty.zsockets[fd].type = "NULL"
    BY DEF Empty, Null
  <1>4. RSelectable(Empty) = {} /\ WSelectable(Empty) = {} /\ Empty.n_selectable = 0
    BY DEF RSelectable, WSelectable, Empty
  <1>5. Counted(Empty)
    BY <1>4, FS_EmptySet DEF Counted
  <1>6. \A fd \in Fds : Local(Empty, fd)
    <2>1. Empty.active_read = {} /\ Empty.active_write = {}
      BY DEF Empty
    <2> QED BY <1>3, <2>1 DEF Local, Sound, IsOpen
  <1>7. Owned(Empty, {}, {})
    BY <1>3 DEF Owned, Connects, Offered
  <1> QED BY <1>1, <1>2, <1>5, <1>6, <1>7 DEF IInv, Good

\* A connection that is open is what the handlers need.
LEMMA HeldConn ==
  ASSUME NEW s, NEW fd \in Fds, NEW h \in SUBSET Fds, NEW x, Good(s, h, x),
         s.zsockets[fd].type = "CONNECT"
  PROVE  s \in States /\ Conn(s.zsockets[fd]) /\ Watched(s, fd)
  BY SocketFacts DEF Good, Local, Sound, Conn, IsOpen

\* FdAccept keeps the invariant: a listening socket is watched only while it
\* offers nothing.
LEMMA FdAcceptKeeps ==
  ASSUME IInv, NEW fd \in Fds, FdAccept(fd)
  PROVE  IInv'
  <1>1. held \in SUBSET Fds /\ lost \in SUBSET Fds /\ exited \in BOOLEAN /\ Good(st, held, lost)
    BY DEF IInv
  <1>2. held' = held /\ lost' = lost /\ exited' = exited /\ fd \in st.zfd_read
          /\ st.zsockets[fd].type = "LISTEN"
    BY DEF FdAccept, Ready
  <1>3. PICK n \in Free \cup {NoFd} : st' = zs_internal_accept(st, fd, n)
    BY DEF FdAccept
  <1>4. st \in States /\ (\A g \in Fds : Local(st, g)) /\ st.zsockets[fd] \in Socket
    BY <1>1, SocketFacts DEF Good
  <1>5. st.zsockets[fd].status = {} /\ st.zsockets[fd].accepted_fd = NoFd
    <2>1. Offers(st.zsockets[fd]) /\ Watched(st, fd)
      BY <1>2, <1>4 DEF Local, Sound, IsOpen
    <2>2. "READABLE" \notin Status(st, fd)
      BY <1>2, <2>1 DEF Watched, WantsRead
    <2> QED BY <2>1, <2>2 DEF Offers, Status
  <1>6. Good(st', held, lost)
    <2>1. CASE n = NoFd
      BY <1>1, <1>2, <1>3, <1>5, <2>1, AcceptFailsKeeps
    <2>2. CASE n \in Free
      <3>1. n \in Fds /\ st.zsockets[n].type = "NULL" /\ n # fd
        BY <1>2, <2>2 DEF Free, IsOpen
      <3>2. n \notin st.active_read /\ n \notin st.active_write
        BY <1>4, <3>1 DEF Local, IsOpen
      <3>3. Begets(st, st', fd, n) /\ Watched(st', fd) /\ Watched(st', n)
        BY <1>2, <1>3, <1>4, <1>5, <3>1, <3>2, InternalAcceptBegets
      <3> QED BY <1>1, <1>2, <1>5, <3>1, <3>3, BegetsKeeps
    <2> QED BY <2>1, <2>2
  <1> QED BY <1>1, <1>2, <1>6 DEF IInv

\* What zs_reader can be told of a read.
LEMMA OutcomesRead ==
  ASSUME NEW ssl
  PROVE  ReadOutcomes(ssl) \subseteq {"done", "eof", "error", "want_read", "want_write"}
  BY DEF ReadOutcomes

\* FdRead keeps the invariant.
LEMMA FdReadKeeps ==
  ASSUME IInv, NEW fd \in Fds, NEW r \in Results(fd), FdRead(fd, r)
  PROVE  IInv'
  <1>1. held \in SUBSET Fds /\ lost \in SUBSET Fds /\ exited \in BOOLEAN /\ Good(st, held, lost)
    BY DEF IInv
  <1>2. held' = held /\ lost' = lost /\ exited' = exited /\ fd \in st.zfd_read
          /\ Connects(st, fd) /\ st' = zs_internal_read(st, fd, r)
    BY DEF FdRead, Ready, Connects
  <1>3. st \in States /\ Conn(st.zsockets[fd]) /\ Watched(st, fd)
    BY <1>1, <1>2, HeldConn DEF Connects
  <1>4. r.read \in {"done", "eof", "error", "want_read", "want_write"}
    BY OutcomesRead DEF Results
  <1>5. WantsRead(st, fd)
    BY <1>2, <1>3 DEF Watched
  <1>6. Served(st, st', fd)
    BY <1>2, <1>3, <1>4, <1>5, InternalReadServed
  <1>7. Good(st', held, lost)
    BY <1>1, <1>3, <1>6, ServedKeeps
  <1> QED BY <1>1, <1>2, <1>7 DEF IInv

\* FdWrite keeps the invariant.
LEMMA FdWriteKeeps ==
  ASSUME IInv, NEW fd \in Fds, NEW r \in Results(fd), FdWrite(fd, r)
  PROVE  IInv'
  <1>1. held \in SUBSET Fds /\ lost \in SUBSET Fds /\ exited \in BOOLEAN /\ Good(st, held, lost)
    BY DEF IInv
  <1>2. held' = held /\ lost' = lost /\ exited' = exited /\ Connects(st, fd)
          /\ st' = zs_internal_write(st, fd, r)
    BY DEF FdWrite, Connects
  <1>3. st \in States /\ Conn(st.zsockets[fd])
    BY <1>1, <1>2, HeldConn DEF Connects
  <1>4. r.read \in {"done", "eof", "error", "want_read", "want_write"}
    BY OutcomesRead DEF Results
  <1>5. Served(st, st', fd)
    BY <1>2, <1>3, <1>4, InternalWriteServed
  <1>6. Good(st', held, lost)
    BY <1>1, <1>3, <1>5, ServedKeeps
  <1> QED BY <1>1, <1>2, <1>6 DEF IInv

\* Interest keeps the invariant.
LEMMA InterestKeeps ==
  ASSUME IInv, NEW fd \in Fds, Interest(fd)
  PROVE  IInv'
  <1>1. held \in SUBSET Fds /\ lost \in SUBSET Fds /\ exited \in BOOLEAN /\ Good(st, held, lost)
    BY DEF IInv
  <1>2. held' = held /\ lost' = lost /\ exited' = exited /\ fd \in held
    BY DEF Interest, Call
  <1>3. st' \in {zs_set_read(st, fd), zs_clr_read(st, fd), zs_set_write(st, fd),
                 zs_clr_write(st, fd)}
    BY DEF Interest, Call
  <1>4. st \in States /\ IsOpen(st, fd)
    BY <1>1, <1>2 DEF Good, Owned, Connects, IsOpen
  <1>5. Tunes(st, st', fd)
    BY <1>3, <1>4, zs_set_read_tunes, zs_clr_read_tunes, zs_set_write_tunes, zs_clr_write_tunes
  <1>6. Good(st', held, lost)
    BY <1>1, <1>4, <1>5, TunesKeeps
  <1> QED BY <1>1, <1>2, <1>6 DEF IInv

\* ReadCall keeps the invariant.
LEMMA ReadCallKeeps ==
  ASSUME IInv, NEW fd \in Fds, NEW all \in BOOLEAN,
         NEW r \in ReadOutcomes(st.zsockets[fd].ssl), ReadCall(fd, all, r)
  PROVE  IInv'
  <1>1. held \in SUBSET Fds /\ lost \in SUBSET Fds /\ exited \in BOOLEAN /\ Good(st, held, lost)
    BY DEF IInv
  <1>2. /\ held' = held /\ lost' = lost /\ exited' = exited /\ fd \in held
        /\ "READABLE" \in Status(st, fd) /\ st' = zs_read(st, fd, all, r)
    BY DEF ReadCall, Call
  <1>3. Connects(st, fd)
    BY <1>1, <1>2 DEF Good, Owned
  <1>4. st \in States /\ Conn(st.zsockets[fd]) /\ Watched(st, fd)
    BY <1>1, <1>3, HeldConn DEF Connects
  <1>5. r \in {"done", "eof", "error", "want_read", "want_write"}
    BY OutcomesRead
  <1>6. Served(st, st', fd)
    BY <1>2, <1>4, <1>5, ReadServed
  <1>7. Good(st', held, lost)
    BY <1>1, <1>4, <1>6, ServedKeeps
  <1> QED BY <1>1, <1>2, <1>7 DEF IInv

\* WriteCall keeps the invariant.
LEMMA WriteCallKeeps ==
  ASSUME IInv, NEW fd \in Fds, WriteCall(fd)
  PROVE  IInv'
  <1>1. held \in SUBSET Fds /\ lost \in SUBSET Fds /\ exited \in BOOLEAN /\ Good(st, held, lost)
    BY DEF IInv
  <1>2. /\ held' = held /\ lost' = lost /\ exited' = exited /\ fd \in held
           /\ "WRITABLE" \in Status(st, fd)
        /\ EarlyWrites \/ "ACCEPTING" \notin Status(st, fd)
        /\ st' = zs_write(st, fd)
    BY DEF WriteCall, Call
  <1>3. Connects(st, fd)
    BY <1>1, <1>2 DEF Good, Owned
  <1>4. st \in States /\ Conn(st.zsockets[fd]) /\ Watched(st, fd)
    BY <1>1, <1>3, HeldConn DEF Connects
  <1>5. Served(st, st', fd)
    BY <1>2, <1>4, WriteServed
  <1>6. Good(st', held, lost)
    BY <1>1, <1>4, <1>5, ServedKeeps
  <1> QED BY <1>1, <1>2, <1>6 DEF IInv

\* The calls that open and close a listening socket keep the invariant.
LEMMA ListenersKeep ==
  ASSUME IInv, NEW fd \in Fds,
         ReopenListener(fd) \/ CloseListener(fd) \/ \E ssl \in ListenModes :
             OpenListener(fd, ssl)
  PROVE  IInv'
  <1>1. held \in SUBSET Fds /\ lost \in SUBSET Fds /\ exited \in BOOLEAN /\ Good(st, held, lost)
    BY DEF IInv
  <1>2. CASE ReopenListener(fd)
    <2>1. held' = held /\ lost' = lost /\ exited' = exited /\ st.zsockets[fd].type = "LISTEN"
            /\ st' = zs_set_read(ListenAgain(st, fd), fd)
      BY <1>2 DEF ReopenListener, Call, OpenListeners
    <2>2. Good(st', held, lost)
      BY <1>1, <2>1, ReopenListenerKeeps
    <2> QED BY <1>1, <2>1, <2>2 DEF IInv
  <1>3. ASSUME NEW ssl \in ListenModes, OpenListener(fd, ssl) PROVE IInv'
    <2>1. held' = held /\ lost' = lost /\ exited' = exited /\ ~IsOpen(st, fd)
            /\ st' = zs_set_read(Listen(st, fd, ssl), fd)
      BY <1>3 DEF OpenListener, Call, Free
    <2>2. ssl \in BOOLEAN
      BY ModesAssumption
    <2>3. Good(st', held, lost)
      BY <1>1, <2>1, <2>2, OpenListenerKeeps
    <2> QED BY <1>1, <2>1, <2>3 DEF IInv
  <1>4. CASE CloseListener(fd)
    <2>1. /\ held' = held /\ exited' = exited /\ st.zsockets[fd].type = "LISTEN"
             /\ st' = zs_close(st, fd)
          /\ lost' = IF IsOpen(st', fd) THEN lost
             ELSE lost \cup ({st.zsockets[fd].accepted_fd} \ {NoFd})
      BY <1>4 DEF CloseListener, Call, OpenListeners
    <2>2. st.zsockets[fd] \in Socket
      BY <1>1, SocketFacts DEF Good
    <2>3. lost' \in SUBSET Fds
      BY <1>1, <2>1, <2>2 DEF Socket
    <2>4. Good(st', held, lost')
      BY <1>1, <2>1, CloseListenerKeeps
    <2> QED BY <1>1, <2>1, <2>3, <2>4 DEF IInv
  <1> QED BY <1>2, <1>3, <1>4

\* The calls that begin and end the program's hold on a connection keep the
\* invariant.
LEMMA ConnectionsKeep ==
  ASSUME IInv, NEW fd \in Fds,
         AcceptCall(fd) \/ CloseCall(fd) \/ \E ssl \in ConnectModes, r \in Outcomes :
             OpenConnect(fd, ssl, r)
  PROVE  IInv'
  <1>1. held \in SUBSET Fds /\ lost \in SUBSET Fds /\ exited \in BOOLEAN /\ Good(st, held, lost)
    BY DEF IInv
  <1>2. CASE AcceptCall(fd)
    <2>1. /\ held' = held \cup {st.zsockets[fd].accepted_fd} /\ lost' = lost /\ exited' = exited
          /\ st.zsockets[fd].type = "LISTEN" /\ "READABLE" \in Status(st, fd)
             /\ st' = zs_accept(st, fd)
      BY <1>2 DEF AcceptCall, Call, OpenListeners
    <2>2. st.zsockets[fd].accepted_fd \in Fds /\ Good(st', held', lost)
      BY <1>1, <2>1, AcceptKeeps
    <2> QED BY <1>1, <2>1, <2>2 DEF IInv
  <1>3. ASSUME NEW ssl \in ConnectModes, NEW r \in Outcomes, OpenConnect(fd, ssl, r) PROVE IInv'
    <2>1. held' = held \cup {fd} /\ lost' = lost /\ exited' = exited /\ ~IsOpen(st, fd)
            /\ st' = ConnectTo(st, fd, ssl, r)
      BY <1>3 DEF OpenConnect, Call, Free
    <2>2. Good(st', held', lost)
      BY <1>1, <2>1, OpenConnectKeeps
    <2> QED BY <1>1, <2>1, <2>2 DEF IInv
  <1>4. CASE CloseCall(fd)
    <2>1. held' = held \ {fd} /\ lost' = lost /\ exited' = exited /\ fd \in held
            /\ st' = zs_close(st, fd)
      BY <1>4 DEF CloseCall, Call
    <2>2. Good(st', held', lost)
      BY <1>1, <2>1, CloseKeeps
    <2> QED BY <1>1, <2>1, <2>2 DEF IInv
  <1> QED BY <1>2, <1>3, <1>4

\* Every step keeps the invariant.
LEMMA NextKeeps == IInv /\ [Next]_vars => IInv'
  <1> SUFFICES ASSUME IInv, [Next]_vars PROVE IInv'
    OBVIOUS
  <1>1. CASE SelectFails \/ \E fd \in Fds : FdWriteListener(fd)
    BY <1>1 DEF SelectFails, FdWriteListener, IInv
  <1>2. ASSUME NEW fd \in Fds, FdAccept(fd) PROVE IInv'
    BY <1>2, FdAcceptKeeps
  <1>3. ASSUME NEW fd \in Fds, NEW r \in Results(fd), FdRead(fd, r) \/ FdWrite(fd, r)
          PROVE IInv'
    BY <1>3, FdReadKeeps, FdWriteKeeps
  <1>4. ASSUME NEW fd \in Fds, Interest(fd) \/ WriteCall(fd) PROVE IInv'
    BY <1>4, InterestKeeps, WriteCallKeeps
  <1>5. ASSUME NEW fd \in Fds, NEW all \in BOOLEAN, NEW r \in ReadOutcomes(st.zsockets[fd].ssl),
          ReadCall(fd, all, r) PROVE IInv'
    BY <1>5, ReadCallKeeps
  <1>6. ASSUME NEW fd \in Fds, ReopenListener(fd) \/ CloseListener(fd)
          \/ \E ssl \in ListenModes : OpenListener(fd, ssl) PROVE IInv'
    BY <1>6, ListenersKeep
  <1>7. ASSUME NEW fd \in Fds, AcceptCall(fd) \/ CloseCall(fd) \/ \E ssl \in ConnectModes,
          r \in Outcomes : OpenConnect(fd, ssl, r) PROVE IInv'
    BY <1>7, ConnectionsKeep
  <1>8. CASE UNCHANGED vars
    BY <1>8 DEF vars, IInv
  <1> QED BY <1>1, <1>2, <1>3, <1>4, <1>5, <1>6, <1>7, <1>8 DEF Next

----------------------------------------------------------------------------
(* The theorems. *)

\* The invariant holds of every state that a program on zsocket.c reaches.
THEOREM ZLoopInvariant == Spec => []IInv
  BY InitGood, NextKeeps, PTL DEF Spec

\* For any number of descriptors: n_selectable, which zsocket.c adds to and
\* subtracts from in a dozen places, is the number of events that zs_select
\* would report.
THEOREM CountRight == Spec => []SelectableCounted
  <1>1. IInv => SelectableCounted
    BY DEF IInv, Good, Counted, SelectableCounted
  <1> QED BY <1>1, ZLoopInvariant, PTL

\* For any number of descriptors: every descriptor that zs_select goes
\* through has a socket, so its loop ends.
THEOREM ActiveOpen == Spec => []ActiveExists
  <1>1. IInv => ActiveExists
    BY StateFields DEF IInv, Good, Local, ActiveExists
  <1> QED BY <1>1, ZLoopInvariant, PTL

\* For any number of descriptors: after every handler and every call,
\* select() watches exactly what each connection wants, and watches the
\* listening sockets for reading exactly while they want it.
THEOREM WatchRight == Spec => []WatchCurrent
  <1>1. IInv => WatchCurrent
    BY DEF IInv, Good, Local, Watched, WatchCurrent
  <1> QED BY <1>1, ZLoopInvariant, PTL

\* For any number of descriptors: no connection is forgotten; one that
\* nobody holds is closing, is offered by the listening socket that accepted
\* it, or was dropped with that.
THEOREM ConnectionsAccounted == Spec => []Accounted
  <1>1. ASSUME IInv PROVE Accounted
    <2>1. held \subseteq Fds /\ st \in States /\ Owned(st, held, lost) /\ \A fd \in Fds :
            Local(st, fd)
      BY <1>1 DEF IInv, Good
    <2>2. \A l \in Fds, fd \in Fds : Offered(st, l, fd) => l \in OpenListeners
            /\ st.zsockets[l].accepted_fd = fd /\ "READABLE" \in Status(st, l)
      <3> SUFFICES ASSUME NEW l \in Fds, NEW fd \in Fds, Offered(st, l, fd)
          PROVE l \in OpenListeners /\ st.zsockets[l].accepted_fd = fd
              /\ "READABLE" \in Status(st, l)
        OBVIOUS
      <3>1. Offers(st.zsockets[l]) /\ fd # NoFd
        BY <2>1, FdsAssumption DEF Local, Sound, Offered, NoFd
      <3> QED BY <3>1 DEF Offered, OpenListeners, Offers, Status
    <2>3. \A fd \in held : Connects(st, fd) /\ "CLOSED" \notin Status(st, fd)
      BY <2>1 DEF Owned
    <2>4. held \subseteq OpenConnects
      BY <2>1, <2>3 DEF Connects, OpenConnects
    <2>5. ASSUME NEW fd \in OpenConnects, fd \notin held
          PROVE  \/ "CLOSED" \in Status(st, fd)
                 \/ \E l \in OpenListeners : st.zsockets[l].accepted_fd = fd
                    /\ "READABLE" \in Status(st, l)
                 \/ fd \in lost
      <3>1. fd \in Fds /\ Connects(st, fd)
        BY DEF OpenConnects, Connects
      <3>2. "CLOSED" \in Status(st, fd) \/ fd \in lost \/ \E l \in Fds : Offered(st, l, fd)
        BY <2>1, <2>5, <3>1 DEF Owned
      <3> QED BY <2>2, <3>1, <3>2
    <2> QED BY <2>3, <2>4, <2>5 DEF Accounted
  <1> QED BY <1>1, ZLoopInvariant, PTL

\* The state is well formed, and a connection is connected or connecting but
\* not both.
THEOREM ZLoopType == Spec => []TypeOK
  <1>1. IInv => TypeOK
    BY DEF IInv, Good, Local, Sound, Linked, TypeOK, OpenConnects, Status
  <1> QED BY <1>1, ZLoopInvariant, PTL

\* For any number of descriptors, and a program that does not write before
\* the TLS handshake has ended: zs_reader never finds unread data in the
\* buffer it fills.
THEOREM ReadBuffers ==
  ASSUME Plain
  PROVE  Spec => []ReadBufferFree
  <1>1. ASSUME IInv PROVE ReadBufferFree
    <2> SUFFICES ASSUME NEW fd \in OpenConnects
                 PROVE /\ st.zsockets[fd].used # 0 => "READABLE" \in Status(st, fd)
                       /\ "READABLE" \in Status(st, fd) =>
                            /\ Status(st, fd) \cap {"READING", "WANT_READ_FROM_READ",
                                                    "WANT_WRITE_FROM_READ"} = {}
                            /\ st.zsockets[fd].used = 0 => "EOF" \in Status(st, fd)
      BY DEF ReadBufferFree
    <2>1. Reads(st.zsockets[fd])
      BY <1>1 DEF IInv, Good, Local, Sound, OpenConnects, Tidy
    <2> QED BY <2>1 DEF Reads, FromRead, Status
  <1> QED BY <1>1, ZLoopInvariant, PTL

\* For any number of descriptors, and such a program: what zs_write accepted
\* is pending until it is written, and a zs_close that came meanwhile is not
\* forgotten.
THEOREM WritesPending ==
  ASSUME Plain
  PROVE  Spec => []WritePending
  <1>1. ASSUME IInv PROVE WritePending
    <2> SUFFICES ASSUME NEW fd \in OpenConnects
                 PROVE /\ st.zsockets[fd].buffer <=> "WRITING" \in Status(st, fd)
                       /\ "WRITING" \in Status(st, fd) =>
                            /\ "WRITABLE" \notin Status(st, fd)
                            /\ Status(st, fd) \cap {"WANT_WRITE_FROM_WRITE",
                                                    "WANT_READ_FROM_WRITE"} # {}
                       /\ "CLOSED" \in Status(st, fd) => "WRITING" \in Status(st, fd)
      BY DEF WritePending
    <2>1. Writes(st.zsockets[fd])
      BY <1>1 DEF IInv, Good, Local, Sound, OpenConnects, Tidy
    <2> QED BY <2>1 DEF Writes, FromWrite, Status
  <1> QED BY <1>1, ZLoopInvariant, PTL
=============================================================================
