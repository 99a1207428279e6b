---------------------------- MODULE ProxyProofs -----------------------------
(*************************************************************************)
(* Proxy, for any number of descriptors, msgids and websites: one        *)
(* inductive invariant of the daemon's state, kept by every handler of   *)
(* zimrd/main.c and by everything a client or an application can do,     *)
(* from which Routed, TableSound, Paced, Continued and Registered        *)
(* follow. The parts of the invariant are predicates of a state e, so    *)
(* that they can also be stated of the states between two calls of one   *)
(* handler. A handler is first reduced to a relation between the state   *)
(* before and after it (it drops a connection, tunes one, routes a       *)
(* request, unlinks an application, ...), and each relation is shown to  *)
(* keep the invariant once.                                              *)
(*************************************************************************)
EXTENDS Proxy, WellFoundedInduction, FiniteSetTheorems, TLAPS

----------------------------------------------------------------------------
(* The states the daemon can be in, field by field. *)

\* The socket of a client, open or closing in the background.
ClientSocks == [kind: {"client"}, busy: BOOLEAN, bad: BOOLEAN, rd: BOOLEAN, wr: BOOLEAN,
                closing: BOOLEAN]

\* A listening socket, with the number of websites that have it open.
ListenSocks == [kind: {"listen"}, n_open: Nat \ {0}]

\* Any socket.
Socks == {Free, LinkSocket} \cup ListenSocks \cup ClientSocks

\* connections[fd]: none, or a request in one of its stages.
Conns == [stage: {None, "head", "body", "done"}, listener: Fds \cup {NoFd},
          link: Fds \cup {NoFd}, msgid: MsgIds \cup {NoId}]

\* A website: none, or an url and its listening socket.
Sites == [url: Urls \cup {NoUrl}, listener: Fds \cup {NoFd}]

\* A message of a link. A closed message has lost its type.
FullMsgs == [type: Fds \cup {NoFd, Command}, url: Urls \cup {NoUrl}, accepted: BOOLEAN,
             inq: Nat, space: BOOLEAN, gone: BOOLEAN, closed: BOOLEAN, rd: BOOLEAN, wr: BOOLEAN]

\* msgs[msgid]: NULL or a message.
Msgs == {NoMsg} \cup FullMsgs

\* All states of the daemon.
States == [sock: [Fds -> Socks], conn: [Fds -> Conns], site: [Fds -> Sites], asked: SUBSET Fds,
           msgs: [Fds -> [MsgIds -> Msgs]],
           failed: {None, "no connection", "no listening socket"}]

----------------------------------------------------------------------------
(* The parts of the invariant. *)

\* A message the daemon still answers: neither a command nor closed.
Live(e, l, m) == e.msgs[l][m] # NoMsg /\ ~e.msgs[l][m].closed /\ e.msgs[l][m].type # Command

\* The connection table has an entry exactly for the clients that are not
\* closing.
TableOf(e) ==
  \A fd \in Fds : e.conn[fd] # NoConn <=> e.sock[fd].kind = "client" /\ ~e.sock[fd].closing

\* A connection has a link and a msgid exactly once its header was read, and
\* always the listening socket it came from.
StagedOf(e) ==
  \A fd \in Fds :
    /\ e.conn[fd].stage = None <=> e.conn[fd] = NoConn
    /\ e.conn[fd].stage = "head" =>
         e.conn[fd].link = NoFd /\ e.conn[fd].msgid = NoId /\ e.conn[fd].listener \in Fds
    /\ e.conn[fd].stage \in {"body", "done"} =>
         e.conn[fd].link \in Fds /\ e.conn[fd].msgid \in MsgIds /\ e.conn[fd].listener \in Fds

\* A connection refers to a message exactly when that message is live and
\* has the connection's descriptor as its type.
RoutedOf(e) ==
  \A fd, l \in Fds, m \in MsgIds :
    e.conn[fd].link = l /\ e.conn[fd].msgid = m <=> Live(e, l, m) /\ e.msgs[l][m].type = fd

\* Messages exist on links only, a message is closed exactly when its type
\* is gone, and connections use links of registered websites.
LinkedOf(e) ==
  /\ \A l \in Fds, m \in MsgIds : e.msgs[l][m] # NoMsg =>
       e.sock[l].kind = "link" /\ (e.msgs[l][m].closed <=> e.msgs[l][m].type = NoFd)
  /\ \A fd \in Fds : e.conn[fd].link \in Fds => e.site[e.conn[fd].link] # NoSite

\* The registration command of an application.
CommandAt(e, l, m) == e.msgs[l][m] # NoMsg /\ e.msgs[l][m].type = Command

\* An application sends one command, before it has a website: there is at
\* most one on a link.
AskedOf(e) ==
  /\ \A l \in e.asked : e.sock[l].kind = "link"
  /\ \A l \in Fds : e.site[l] # NoSite => l \in e.asked
  /\ \A l \in Fds, m \in MsgIds : CommandAt(e, l, m) => l \in e.asked /\ e.site[l] = NoSite
  /\ \A l \in Fds, m, n \in MsgIds : CommandAt(e, l, m) /\ CommandAt(e, l, n) => m = n

\* A website is registered on a link with an open listening socket, once;
\* the listening socket counts its websites.
SitesOf(e) ==
  /\ \A l \in Fds : e.site[l] # NoSite =>
       /\ e.site[l].url \in Urls /\ e.sock[l].kind = "link"
       /\ e.site[l].listener \in Fds /\ e.sock[e.site[l].listener].kind = "listen"
  /\ \A l1, l2 \in Fds : e.site[l1] # NoSite /\ e.site[l1].url = e.site[l2].url => l1 = l2
  /\ \A lisn \in Fds : e.sock[lisn].kind = "listen" =>
       e.sock[lisn].n_open = Cardinality({l \in Fds : e.site[l].listener = lisn})

\* The tables agree with each other.
Sound(e) == TableOf(e) /\ StagedOf(e) /\ RoutedOf(e) /\ LinkedOf(e) /\ AskedOf(e) /\ SitesOf(e)

\* A closing client waits for its write only, no response is written before
\* the request was routed, and a message never holds more than the buffer
\* does; a closed message and a command ask for nothing that is not theirs.
QuietOf(e) ==
  /\ \A fd \in Fds : e.sock[fd].kind = "client" /\ e.sock[fd].closing =>
       e.sock[fd].busy /\ ~e.sock[fd].rd /\ ~e.sock[fd].wr
  /\ \A fd \in Fds : e.conn[fd].stage = "head" => ~e.sock[fd].wr
  /\ \A l \in Fds, m \in MsgIds : e.msgs[l][m] # NoMsg =>
       /\ e.msgs[l][m].inq <= NBuff
       /\ e.msgs[l][m].closed => e.msgs[l][m].accepted /\ e.msgs[l][m].space /\ ~e.msgs[l][m].rd
          /\ ~e.msgs[l][m].wr
       /\ e.msgs[l][m].type = Command => e.msgs[l][m].url \in Urls /\ e.msgs[l][m].space
          /\ ~e.msgs[l][m].gone /\ ~e.msgs[l][m].wr
       /\ ~e.msgs[l][m].accepted => e.msgs[l][m].type = Command

\* A part of a response is read only when the client's socket is idle, a
\* part of a body only when the message has room or is gone.
PacedOf(e) ==
  \A fd, l \in Fds, m \in MsgIds : e.conn[fd].link = l /\ e.conn[fd].msgid = m =>
    /\ e.msgs[l][m].rd => ~e.sock[fd].busy
    /\ e.conn[fd].stage = "body" /\ e.sock[fd].rd => e.msgs[l][m].space \/ e.msgs[l][m].gone

\* Each connection waits for an event it asked for.
AwaitedOf(e) ==
  /\ \A fd \in Fds : e.conn[fd].stage = "head" => e.sock[fd].rd
  /\ \A fd, l \in Fds, m \in MsgIds : e.conn[fd].link = l /\ e.conn[fd].msgid = m =>
       /\ e.conn[fd].stage = "body" => e.sock[fd].rd \/ e.msgs[l][m].wr
       /\ e.sock[fd].wr \/ e.msgs[l][m].rd

\* The interests of sockets and messages agree. Once the process ended on a
\* missing listening socket nothing is awaited.
Flows(e) == QuietOf(e) /\ PacedOf(e) /\ (e.failed = None => AwaitedOf(e))

----------------------------------------------------------------------------
(* Relations between the state before and after a part of a handler. *)

\* A message after msg_close.
ClosedOf(msg) ==
  msg.closed /\ msg.type = NoFd /\ msg.accepted /\ msg.space /\ ~msg.rd /\ ~msg.wr
      /\ msg.inq = 0

\* f is e without the connection fd: its client is closed or closing, its
\* message closed or gone. A message of a link may be left closed.
Drops(e, f, fd) ==
  /\ f.site = e.site /\ f.asked = e.asked /\ f.failed = e.failed
  /\ f.conn[fd] = NoConn
  /\ f.sock[fd].kind = "client" =>
       f.sock[fd].closing /\ f.sock[fd].busy /\ ~f.sock[fd].rd /\ ~f.sock[fd].wr
  /\ f.sock[fd].kind \in {"free", "client"}
  /\ \A x \in Fds \ {fd} : f.conn[x] = e.conn[x] /\ f.sock[x] = e.sock[x]
  /\ \A l \in Fds, m \in MsgIds :
       IF e.conn[fd].link = l /\ e.conn[fd].msgid = m
       THEN f.msgs[l][m] # NoMsg => ClosedOf(f.msgs[l][m])
       ELSE \/ f.msgs[l][m] = e.msgs[l][m]
            \/ e.msgs[l][m] = NoMsg /\ e.sock[l].kind = "link" /\ ClosedOf(f.msgs[l][m])

\* f has the sockets, connections, messages and websites of e: only flags,
\* counts and the progress of a body changed.
SameShape(e, f) ==
  /\ f.site = e.site /\ f.asked = e.asked
  /\ \A fd \in Fds :
       \/ f.conn[fd] = e.conn[fd]
       \/ /\ f.conn[fd].stage \in {"body", "done"} /\ e.conn[fd].stage \in {"body", "done"}
          /\ f.conn[fd].link = e.conn[fd].link /\ f.conn[fd].msgid = e.conn[fd].msgid
          /\ f.conn[fd].listener = e.conn[fd].listener
  /\ \A fd \in Fds : /\ f.sock[fd].kind = e.sock[fd].kind
                     /\ f.sock[fd].kind = "client" => f.sock[fd].closing = e.sock[fd].closing
                     /\ f.sock[fd].kind = "listen" => f.sock[fd].n_open = e.sock[fd].n_open
  /\ \A l \in Fds, m \in MsgIds :
       \/ f.msgs[l][m] = e.msgs[l][m]
       \/ /\ f.msgs[l][m] # NoMsg /\ e.msgs[l][m] # NoMsg
          /\ f.msgs[l][m].type = e.msgs[l][m].type
          /\ f.msgs[l][m].closed = e.msgs[l][m].closed

----------------------------------------------------------------------------
(* Types, and the steps that leave the shape of the tables alone. *)

\* A nonempty set of numbers has a least element: get_avail_msgid finds one.
LEMMA Least ==
  ASSUME NEW S \in SUBSET Nat, S # {}
  PROVE  \E n \in S : \A m \in S : n <= m
  <1>1. PICK x \in S : \A y \in S : ~(<<y, x>> \in OpToRel(<, Nat))
    BY WFMin, NatLessThanWellFounded, Zenon
  <1>2. ASSUME NEW y \in S PROVE x <= y
    <2>1. x \in Nat /\ y \in Nat /\ ~(y < x)
      BY <1>1 DEF OpToRel
    <2> QED BY <2>1
  <1> QED BY <1>2

\* What a state is made of.
LEMMA Typed ==
  ASSUME NEW e \in States
  PROVE  /\ \A fd \in Fds : /\ e.sock[fd] \in Socks /\ e.sock[fd].kind \in {"free", "link",
                               "listen", "client"}
                            /\ e.conn[fd] \in Conns /\ e.site[fd] \in Sites
                            /\ e.conn[fd].stage \in {None, "head", "body", "done"}
                            /\ e.conn[fd].link \in Fds \cup {NoFd}
                            /\ e.conn[fd].msgid \in MsgIds \cup {NoId}
                            /\ e.conn[fd].listener \in Fds \cup {NoFd}
         /\ \A fd \in Fds, m \in MsgIds : e.msgs[fd][m] \in Msgs
            /\ (e.msgs[fd][m] # NoMsg => e.msgs[fd][m].type \in Fds \cup {NoFd, Command})
         /\ e.asked \subseteq Fds
  <1>1. /\ e.sock \in [Fds -> Socks] /\ e.conn \in [Fds -> Conns] /\ e.site \in [Fds -> Sites]
        /\ e.msgs \in [Fds -> [MsgIds -> Msgs]] /\ e.asked \subseteq Fds
    BY DEF States
  <1>2. \A s \in Socks : s.kind \in {"free", "link", "listen", "client"}
    BY DEF Socks, Free, LinkSocket, ListenSocks, ClientSocks
  <1>3. \A c \in Conns : /\ c.stage \in {None, "head", "body", "done"}
                            /\ c.link \in Fds \cup {NoFd}
                         /\ c.msgid \in MsgIds \cup {NoId} /\ c.listener \in Fds \cup {NoFd}
    BY DEF Conns
  <1>4. \A m \in Msgs : m # NoMsg => m.type \in Fds \cup {NoFd, Command}
    BY DEF Msgs, FullMsgs
  <1> QED BY <1>1, <1>2, <1>3, <1>4

\* The tables agree after a step that keeps their shape.
LEMMA ShapeKeeps ==
  ASSUME NEW e \in States, NEW f \in States, Sound(e), SameShape(e, f)
  PROVE  Sound(f)
  <1>1. \A fd \in Fds : /\ f.conn[fd] = NoConn <=> e.conn[fd] = NoConn
                        /\ f.conn[fd].link = e.conn[fd].link
                           /\ f.conn[fd].msgid = e.conn[fd].msgid
     BY DEF SameShape, NoConn, None
  <1>2. TableOf(f)
     BY <1>1 DEF SameShape, TableOf, Sound
  <1>3. StagedOf(f)
     BY <1>1 DEF SameShape, StagedOf, Sound, None
  <1>4. RoutedOf(f)
    <2>1. \A l \in Fds, m \in MsgIds : Live(f, l, m) <=> Live(e, l, m)
       BY DEF SameShape, Live
    <2>2. \A l \in Fds, m \in MsgIds : Live(f, l, m) => f.msgs[l][m].type = e.msgs[l][m].type
       BY DEF SameShape, Live
    <2> QED BY <1>1, <2>1, <2>2 DEF RoutedOf, Sound
  <1>5. LinkedOf(f)
     BY <1>1, Typed DEF SameShape, Sound, LinkedOf
  <1>6. AskedOf(f)
     BY Typed DEF SameShape, Sound, AskedOf, CommandAt
  <1>7. SitesOf(f)
     BY DEF SameShape, Sound, SitesOf
  <1> QED BY <1>2, <1>3, <1>4, <1>5, <1>6, <1>7 DEF Sound

\* Dropping a connection keeps the invariant: the message of the connection
\* leaves with it, and no other connection had it.
LEMMA DropKeeps ==
  ASSUME NEW e \in States, NEW f \in States, NEW fd \in Fds, e.conn[fd] # NoConn, Sound(e),
         Flows(e), Drops(e, f, fd)
  PROVE  Sound(f) /\ Flows(f)
  <1>1. e.sock[fd].kind = "client" /\ ~e.sock[fd].closing
    BY DEF Sound, TableOf
  <1>2. \A x \in Fds : (e.sock[x].kind \in {"link", "listen"} => f.sock[x] = e.sock[x])
          /\ (f.sock[x].kind \in {"link", "listen"} => f.sock[x] = e.sock[x])
    BY <1>1 DEF Drops
  <1>3. TableOf(f)
     BY DEF TableOf, Sound, Drops
  <1>4. StagedOf(f)
     BY DEF StagedOf, Sound, Drops, NoConn, None
  <1>5. RoutedOf(f)
    <2>1. ASSUME NEW x \in Fds, NEW l \in Fds, NEW m \in MsgIds
          PROVE  f.conn[x].link = l /\ f.conn[x].msgid = m <=> Live(f, l, m)
              /\ f.msgs[l][m].type = x
      <3>1. /\ e.conn[x].link = l /\ e.conn[x].msgid = m <=> Live(e, l, m)
               /\ e.msgs[l][m].type = x
            /\ e.conn[fd].link = l /\ e.conn[fd].msgid = m <=> Live(e, l, m)
               /\ e.msgs[l][m].type = fd
         BY DEF Sound, RoutedOf
      <3>2. CASE x = fd
         BY <3>1, <3>2, FdsAssumption DEF Drops, Live, NoConn, ClosedOf
      <3>3. CASE x # fd
         BY <3>1, <3>3 DEF Drops, Live, ClosedOf
      <3> QED BY <3>2, <3>3
    <2> QED BY <2>1 DEF RoutedOf
  <1>6. LinkedOf(f)
    <2>1. ASSUME NEW l \in Fds, NEW m \in MsgIds, f.msgs[l][m] # NoMsg
          PROVE f.sock[l].kind = "link" /\ (f.msgs[l][m].closed <=> f.msgs[l][m].type = NoFd)
       BY <1>2, <2>1 DEF Sound, LinkedOf, RoutedOf, Live, Drops, ClosedOf
    <2>2. ASSUME NEW x \in Fds, f.conn[x].link \in Fds PROVE f.site[f.conn[x].link] # NoSite
       BY <2>2, FdsAssumption DEF Sound, LinkedOf, Drops, NoConn
    <2> QED BY <2>1, <2>2 DEF LinkedOf
  <1>7. AskedOf(f)
    <2>1. \A l \in Fds, m \in MsgIds : CommandAt(f, l, m) => CommandAt(e, l, m)
      BY FdsAssumption DEF Drops, CommandAt, ClosedOf
    <2>2. f.site = e.site /\ f.asked = e.asked
      BY DEF Drops
    <2> QED BY <1>2, <2>1, <2>2, Typed DEF Sound, AskedOf
  <1>8. SitesOf(f)
    <2>1. f.site = e.site /\ f.asked = e.asked
      BY DEF Drops
    <2> QED BY <1>2, <2>1, Typed DEF Sound, SitesOf
  <1>9. QuietOf(f)
    <2>1. \A x \in Fds : f.sock[x].kind = "client" /\ f.sock[x].closing =>
            f.sock[x].busy /\ ~f.sock[x].rd /\ ~f.sock[x].wr
      BY DEF Flows, QuietOf, Drops
    <2>2. \A x \in Fds : f.conn[x].stage = "head" => ~f.sock[x].wr
      BY DEF Flows, QuietOf, Drops, NoConn, None
    <2>3. ASSUME NEW l \in Fds, NEW m \in MsgIds, f.msgs[l][m] # NoMsg,
            f.msgs[l][m] # e.msgs[l][m]
          PROVE  ClosedOf(f.msgs[l][m])
      BY <2>3 DEF Drops
    <2> QED BY <2>1, <2>2, <2>3, FdsAssumption, NBuffAssumption DEF Flows, QuietOf, ClosedOf
  <1>10. ASSUME NEW x \in Fds, NEW l \in Fds, NEW m \in MsgIds, f.conn[x].link = l,
           f.conn[x].msgid = m
         PROVE  x # fd /\ f.conn[x] = e.conn[x] /\ f.sock[x] = e.sock[x]
             /\ f.msgs[l][m] = e.msgs[l][m]
    <2>1. x # fd
      BY <1>10, FdsAssumption DEF Drops, NoConn
    <2>2. f.conn[x] = e.conn[x] /\ f.sock[x] = e.sock[x]
      BY <2>1 DEF Drops
    <2>3. e.msgs[l][m] # NoMsg /\ ~(e.conn[fd].link = l /\ e.conn[fd].msgid = m)
      BY <1>10, <2>1, <2>2 DEF Sound, RoutedOf, Live
    <2> QED BY <2>1, <2>2, <2>3 DEF Drops
  <1>11. PacedOf(f)
    BY <1>10 DEF Flows, PacedOf
  <1>12. ASSUME f.failed = None PROVE AwaitedOf(f)
    <2>1. \A x \in Fds : f.conn[x].stage = "head" => f.sock[x].rd
      BY <1>12 DEF Flows, AwaitedOf, Drops, NoConn, None
    <2> QED BY <1>10, <1>12, <2>1 DEF Flows, AwaitedOf, Drops
  <1> QED BY <1>3, <1>4, <1>5, <1>6, <1>7, <1>8, <1>9, <1>11, <1>12 DEF Sound, Flows

----------------------------------------------------------------------------
(* Changes of one socket or one message. *)

\* fd is the socket of a client.
Client(e, fd) == e.sock[fd].kind = "client"

\* The kind of a socket says which record it is.
LEMMA SockKinds ==
  ASSUME NEW s \in Socks
  PROVE  /\ s.kind = "client" <=> s \in ClientSocks
         /\ s.kind = "listen" <=> s \in ListenSocks
         /\ s.kind = "link" <=> s = LinkSocket
         /\ s.kind = "free" <=> s = Free
  BY DEF Socks, ClientSocks, ListenSocks, LinkSocket, Free

\* f is e but for the socket fd, a client's with these fields.
Socket(e, f, fd, busy, bad, rd, wr, closing) ==
  /\ f \in States
  /\ f.conn = e.conn /\ f.site = e.site /\ f.asked = e.asked /\ f.msgs = e.msgs
     /\ f.failed = e.failed
  /\ \A x \in Fds \ {fd} : f.sock[x] = e.sock[x]
  /\ f.sock[fd].kind = "client" /\ f.sock[fd].busy = busy /\ f.sock[fd].bad = bad
  /\ f.sock[fd].rd = rd /\ f.sock[fd].wr = wr /\ f.sock[fd].closing = closing

\* An assignment to one client's socket.
LEMMA SetSocket ==
  ASSUME NEW e \in States, NEW fd \in Fds, NEW s \in ClientSocks
  PROVE  Socket(e, [e EXCEPT !.sock[fd] = s], fd, s.busy, s.bad, s.rd, s.wr, s.closing)
  <1>1. s \in Socks /\ s.kind = "client"
    BY DEF Socks, ClientSocks
  <1>2. e.sock \in [Fds -> Socks]
    BY DEF States
  <1> QED BY <1>1, <1>2 DEF Socket, States

\* zs_set_read, zs_clr_read, zs_set_write, zs_clr_write and zs_write change
\* one flag of one socket.
LEMMA Flagged ==
  ASSUME NEW e \in States, NEW fd \in Fds, Client(e, fd)
  PROVE  LET s == e.sock[fd] IN
         /\ Socket(e, zs_set_read(e, fd), fd, s.busy, s.bad, TRUE, s.wr, s.closing)
         /\ Socket(e, zs_clr_read(e, fd), fd, s.busy, s.bad, FALSE, s.wr, s.closing)
         /\ Socket(e, zs_set_write(e, fd), fd, s.busy, s.bad, s.rd, TRUE, s.closing)
         /\ Socket(e, zs_clr_write(e, fd), fd, s.busy, s.bad, s.rd, FALSE, s.closing)
         /\ Socket(e, zs_write(e, fd), fd, s.busy \/ ~s.bad, s.bad, s.rd, s.wr, s.closing)
  <1>1. PICK s \in ClientSocks : s = e.sock[fd]
    BY SockKinds, Typed DEF Client
  <1>2. Socket(e, zs_set_read(e, fd), fd, s.busy, s.bad, TRUE, s.wr, s.closing)
    <2> DEFINE t == [s EXCEPT !.rd = TRUE]
    <2>1. /\ t \in ClientSocks /\ t.rd = TRUE
          /\ t.busy = s.busy /\ t.bad = s.bad /\ t.wr = s.wr /\ t.closing = s.closing
      BY DEF ClientSocks
    <2>2. zs_set_read(e, fd) = [e EXCEPT !.sock[fd] = t]
      BY <1>1 DEF zs_set_read
    <2> HIDE DEF t
    <2> QED BY <2>1, <2>2, SetSocket
  <1>3. Socket(e, zs_clr_read(e, fd), fd, s.busy, s.bad, FALSE, s.wr, s.closing)
    <2> DEFINE t == [s EXCEPT !.rd = FALSE]
    <2>1. /\ t \in ClientSocks /\ t.rd = FALSE
          /\ t.busy = s.busy /\ t.bad = s.bad /\ t.wr = s.wr /\ t.closing = s.closing
      BY DEF ClientSocks
    <2>2. zs_clr_read(e, fd) = [e EXCEPT !.sock[fd] = t]
      BY <1>1 DEF zs_clr_read
    <2> HIDE DEF t
    <2> QED BY <2>1, <2>2, SetSocket
  <1>4. Socket(e, zs_set_write(e, fd), fd, s.busy, s.bad, s.rd, TRUE, s.closing)
    <2> DEFINE t == [s EXCEPT !.wr = TRUE]
    <2>1. /\ t \in ClientSocks /\ t.wr = TRUE
          /\ t.busy = s.busy /\ t.bad = s.bad /\ t.rd = s.rd /\ t.closing = s.closing
      BY DEF ClientSocks
    <2>2. zs_set_write(e, fd) = [e EXCEPT !.sock[fd] = t]
      BY <1>1 DEF zs_set_write
    <2> HIDE DEF t
    <2> QED BY <2>1, <2>2, SetSocket
  <1>5. Socket(e, zs_clr_write(e, fd), fd, s.busy, s.bad, s.rd, FALSE, s.closing)
    <2> DEFINE t == [s EXCEPT !.wr = FALSE]
    <2>1. /\ t \in ClientSocks /\ t.wr = FALSE
          /\ t.busy = s.busy /\ t.bad = s.bad /\ t.rd = s.rd /\ t.closing = s.closing
      BY DEF ClientSocks
    <2>2. zs_clr_write(e, fd) = [e EXCEPT !.sock[fd] = t]
      BY <1>1 DEF zs_clr_write
    <2> HIDE DEF t
    <2> QED BY <2>1, <2>2, SetSocket
  <1>6. Socket(e, zs_write(e, fd), fd, s.busy \/ ~s.bad, s.bad, s.rd, s.wr, s.closing)
    <2>1. CASE s.busy \/ s.bad
      <3>1. zs_write(e, fd) = e
        BY <1>1, <2>1 DEF zs_write, WriteRefused
      <3>2. s.busy = (s.busy \/ ~s.bad)
        BY <2>1 DEF ClientSocks
      <3> QED BY <1>1, <3>1, <3>2 DEF Socket, ClientSocks
    <2>2. CASE ~s.busy /\ ~s.bad
      <3> DEFINE t == [s EXCEPT !.busy = TRUE]
      <3>1. t \in ClientSocks /\ t.busy = TRUE /\ t.bad = s.bad /\ t.rd = s.rd /\ t.wr = s.wr
              /\ t.closing = s.closing
        BY DEF ClientSocks
      <3>2. zs_write(e, fd) = [e EXCEPT !.sock[fd] = t]
        BY <1>1, <2>2 DEF zs_write, WriteRefused
      <3>3. (s.busy \/ ~s.bad) = TRUE
        BY <2>2
      <3> HIDE DEF t
      <3> QED BY <3>1, <3>2, <3>3, SetSocket
    <2> QED BY <2>1, <2>2
  <1> QED BY <1>1, <1>2, <1>3, <1>4, <1>5, <1>6

\* f is e but for one message, which is v.
Message(e, f, l, m, v) ==
  /\ f \in States
  /\ f.conn = e.conn /\ f.site = e.site /\ f.asked = e.asked /\ f.sock = e.sock
     /\ f.failed = e.failed
  /\ f.msgs[l][m] = v
  /\ \A x \in Fds, n \in MsgIds : x # l \/ n # m => f.msgs[x][n] = e.msgs[x][n]

\* An assignment to one message.
LEMMA SetMessage ==
  ASSUME NEW e \in States, NEW l \in Fds, NEW m \in MsgIds, NEW v \in Msgs
  PROVE  Message(e, [e EXCEPT !.msgs[l][m] = v], l, m, v)
  <1>1. e.msgs \in [Fds -> [MsgIds -> Msgs]]
    BY DEF States
  <1> QED BY <1>1 DEF Message, States

\* msg_close frees a message the application closed, and otherwise leaves it
\* closed.
LEMMA Closed ==
  ASSUME NEW v \in Msgs, v # NoMsg
  PROVE  /\ ClosedMsg(v) \in Msgs
         /\ ClosedMsg(v) = NoMsg \/ ClosedOf(ClosedMsg(v))
  <1> DEFINE c == [NewMsg(NoFd, NoUrl) EXCEPT !.closed = TRUE]
  <1>1. c \in Msgs /\ ClosedOf(c)
    BY FdsAssumption DEF NewMsg, Msgs, FullMsgs, ClosedOf
  <1>2. NoMsg \in Msgs
    BY DEF Msgs
  <1>3. ClosedMsg(v) = NoMsg \/ ClosedMsg(v) = c
    BY DEF ClosedMsg
  <1> HIDE DEF c
  <1> QED BY <1>1, <1>2, <1>3

\* zs_close frees a socket, or leaves it closing when its write is not done.
LEMMA ClosedSocket ==
  ASSUME NEW s \in ClientSocks
  PROVE  \/ ~s.busy /\ ClosedClient(s) = Free
         \/ /\ ClosedClient(s) \in ClientSocks /\ ClosedClient(s).kind = "client"
            /\ ClosedClient(s).busy
            /\ ClosedClient(s).closing /\ ~ClosedClient(s).rd /\ ~ClosedClient(s).wr
  BY DEF ClosedClient, ClientSocks

\* cleanup_connection drops the connection and nothing else.
LEMMA Cleanup ==
  ASSUME NEW e \in States, NEW fd \in Fds, Client(e, fd), e.conn[fd] # NoConn
  PROVE  cleanup_connection(e, fd) \in States /\ Drops(e, cleanup_connection(e, fd), fd)
  <1> DEFINE l == e.conn[fd].link
             m == e.conn[fd].msgid
             hasMsg == l # NoFd /\ m # NoId /\ e.msgs[l][m] # NoMsg
             closed == IF hasMsg THEN [e EXCEPT !.msgs[l][m] = ClosedMsg(@)] ELSE e
             f == [closed EXCEPT !.sock[fd] = ClosedClient(@), !.conn[fd] = NoConn]
  <1>1. cleanup_connection(e, fd) = f
    BY DEF cleanup_connection
  <1>2. l \in Fds \cup {NoFd} /\ m \in MsgIds \cup {NoId}
    BY Typed
  <1>3. /\ closed \in States
        /\ closed.sock = e.sock /\ closed.conn = e.conn /\ closed.site = e.site
           /\ closed.asked = e.asked /\ closed.failed = e.failed
        /\ \A x \in Fds, n \in MsgIds : IF x = l /\ n = m THEN closed.msgs[x][n] = NoMsg
           \/ ClosedOf(closed.msgs[x][n])
                                        ELSE closed.msgs[x][n] = e.msgs[x][n]
    <2>1. CASE hasMsg
      <3>1. l \in Fds /\ m \in MsgIds /\ e.msgs[l][m] \in Msgs /\ e.msgs[l][m] # NoMsg
        BY <1>2, <2>1, Typed
      <3> DEFINE v == ClosedMsg(e.msgs[l][m])
      <3>2. v \in Msgs /\ (v = NoMsg \/ ClosedOf(v))
        BY <3>1, Closed
      <3>3. closed = [e EXCEPT !.msgs[l][m] = v]
        BY <2>1
      <3> HIDE DEF v, closed, l, m
      <3>4. Message(e, closed, l, m, v)
        BY <3>1, <3>2, <3>3, SetMessage
      <3> QED BY <3>1, <3>2, <3>4 DEF Message
    <2>2. CASE ~hasMsg
      <3>1. closed = e
        BY <2>2
      <3>2. \A x \in Fds, n \in MsgIds : x = l /\ n = m => e.msgs[x][n] = NoMsg
        BY <2>2, FdsAssumption, MsgIdsAssumption DEF NoId
      <3> QED BY <3>1, <3>2
    <2> QED BY <2>1, <2>2
  <1>4. PICK s \in ClientSocks : s = e.sock[fd]
    BY SockKinds, Typed DEF Client
  <1> DEFINE t == ClosedClient(s)
  <1>5. t \in Socks /\ t.kind \in {"free", "client"} /\ (t.kind = "client" => t.closing
                                                         /\ t.busy /\ ~t.rd /\ ~t.wr)
    BY ClosedSocket DEF Socks, Free
  <1>6. NoConn \in Conns
    BY DEF NoConn, Conns
  <1> HIDE DEF closed, t, l, m
  <1>7. /\ f \in States
        /\ f.site = closed.site /\ f.asked = closed.asked /\ f.failed = closed.failed
           /\ f.msgs = closed.msgs
        /\ f.sock = [closed.sock EXCEPT ![fd] = t]
           /\ f.conn = [closed.conn EXCEPT ![fd] = NoConn]
    BY <1>3, <1>4, <1>5, <1>6 DEF States, t
  <1>8. e.sock \in [Fds -> Socks] /\ e.conn \in [Fds -> Conns]
    BY DEF States
  <1> HIDE DEF f
  <1>9. /\ f.conn[fd] = NoConn /\ f.sock[fd] = t
        /\ \A x \in Fds \ {fd} : f.conn[x] = e.conn[x] /\ f.sock[x] = e.sock[x]
    BY <1>3, <1>7, <1>8
  <1>10. \A x \in Fds, n \in MsgIds : IF e.conn[fd].link = x /\ e.conn[fd].msgid = n
           THEN f.msgs[x][n] = NoMsg \/ ClosedOf(f.msgs[x][n])
                                        ELSE f.msgs[x][n] = e.msgs[x][n]
    BY <1>3, <1>7 DEF l, m
  <1> QED BY <1>1, <1>3, <1>5, <1>7, <1>9, <1>10 DEF Drops

----------------------------------------------------------------------------
(* Dropping a connection, and tuning one. *)

\* g is e up to the socket, the connection and the message of fd, which may
\* be a new one.
Near(e, g, fd) ==
  /\ g.site = e.site /\ g.asked = e.asked /\ g.failed = e.failed
  /\ g.conn[fd] # NoConn /\ g.sock[fd].kind = "client"
  /\ \A x \in Fds \ {fd} : g.conn[x] = e.conn[x] /\ g.sock[x] = e.sock[x]
  /\ \A l \in Fds, m \in MsgIds :
       IF g.conn[fd].link = l /\ g.conn[fd].msgid = m
       THEN (e.conn[fd].link = l /\ e.conn[fd].msgid = m)
           \/ (e.msgs[l][m] = NoMsg /\ e.sock[l].kind = "link")
       ELSE ~(e.conn[fd].link = l /\ e.conn[fd].msgid = m) /\ g.msgs[l][m] = e.msgs[l][m]

\* A handler that gives up on fd after some changes of its own to fd leaves
\* the invariant true.
LEMMA CleanupKeeps ==
  ASSUME NEW e \in States, NEW g \in States, NEW fd \in Fds, e.conn[fd] # NoConn, Sound(e),
         Flows(e), Near(e, g, fd)
  PROVE  cleanup_connection(g, fd) \in States /\ Sound(cleanup_connection(g, fd))
      /\ Flows(cleanup_connection(g, fd))
  <1> DEFINE f == cleanup_connection(g, fd)
  <1>1. f \in States /\ Drops(g, f, fd)
    BY Cleanup DEF Near, Client
  <1> HIDE DEF f
  <1>2. Drops(e, f, fd)
    BY <1>1 DEF Drops, Near
  <1> QED BY <1>1, <1>2, DropKeeps DEF f

\* The invariant: no handler found connections[fd] = NULL, the tables agree
\* and so do the interests.
Good(e) == e \in States /\ e.failed # "no connection" /\ Sound(e) /\ Flows(e)

\* f is e up to the flags of the client fd, the stage of its request and the
\* flags of its message, and what PacedOf and AwaitedOf say of that
\* connection holds in f.
Tunes(e, f, fd, l, m) ==
  /\ f \in States /\ f.failed = e.failed /\ f.site = e.site /\ f.asked = e.asked
  /\ \A x \in Fds \ {fd} : f.sock[x] = e.sock[x] /\ f.conn[x] = e.conn[x]
  /\ \A x \in Fds, n \in MsgIds : x # l \/ n # m => f.msgs[x][n] = e.msgs[x][n]
  /\ f.sock[fd].kind = "client" /\ f.sock[fd].closing = e.sock[fd].closing
  /\ f.conn[fd].stage \in {"body", "done"}
  /\ f.conn[fd].link = l /\ f.conn[fd].msgid = m /\ f.conn[fd].listener = e.conn[fd].listener
  /\ f.msgs[l][m] # NoMsg /\ f.msgs[l][m].type = e.msgs[l][m].type
     /\ f.msgs[l][m].closed = e.msgs[l][m].closed
  /\ f.msgs[l][m].accepted = e.msgs[l][m].accepted /\ f.msgs[l][m].inq <= NBuff
  /\ f.msgs[l][m].rd => ~f.sock[fd].busy
  /\ f.conn[fd].stage = "body" /\ f.sock[fd].rd => f.msgs[l][m].space \/ f.msgs[l][m].gone
  /\ f.conn[fd].stage = "body" => f.sock[fd].rd \/ f.msgs[l][m].wr
  /\ f.sock[fd].wr \/ f.msgs[l][m].rd

\* The connection fd has the message m of the link l, and nobody else has.
Owns(e, fd, l, m) ==
  /\ e.conn[fd] # NoConn /\ e.conn[fd].stage \in {"body", "done"}
  /\ e.sock[fd].kind = "client" /\ ~e.sock[fd].closing /\ e.sock[l].kind = "link"
  /\ e.site[l] # NoSite
  /\ e.msgs[l][m] # NoMsg /\ ~e.msgs[l][m].closed /\ e.msgs[l][m].type = fd
  /\ fd # Command /\ fd # l
  /\ \A x \in Fds : x # fd => ~(e.conn[x].link = l /\ e.conn[x].msgid = m)

\* A connection that refers to a message owns it.
LEMMA Owned ==
  ASSUME NEW e \in States, Sound(e), NEW fd \in Fds, NEW l \in Fds, NEW m \in MsgIds,
         e.conn[fd].link = l, e.conn[fd].msgid = m
  PROVE  Owns(e, fd, l, m)
  <1>1. e.conn[fd].stage \in {"body", "done"} /\ e.conn[fd] # NoConn
    BY Typed, FdsAssumption DEF Sound, StagedOf, NoConn, None
  <1>2. e.sock[fd].kind = "client" /\ ~e.sock[fd].closing
    BY <1>1 DEF Sound, TableOf
  <1>3. e.msgs[l][m] # NoMsg /\ ~e.msgs[l][m].closed /\ e.msgs[l][m].type = fd
    BY DEF Sound, RoutedOf, Live
  <1>4. \A x \in Fds : x # fd => ~(e.conn[x].link = l /\ e.conn[x].msgid = m)
    BY <1>3 DEF Sound, RoutedOf
  <1>5. e.site[l] # NoSite /\ e.sock[l].kind = "link"
    BY <1>3 DEF Sound, LinkedOf
  <1> QED BY <1>1, <1>2, <1>3, <1>4, <1>5, FdsAssumption DEF Owns

\* Tuning one connection keeps the invariant: nobody shares its socket or
\* its message.
LEMMA TuneKeeps ==
  ASSUME NEW e \in States, Good(e), NEW f \in States, NEW fd \in Fds, NEW l \in Fds,
         NEW m \in MsgIds, e.conn[fd].link = l, e.conn[fd].msgid = m, Tunes(e, f, fd, l, m)
  PROVE  Good(f)
  <1>1. e \in States /\ f \in States /\ Sound(e) /\ Flows(e) /\ f.failed # "no connection"
    BY DEF Good, Tunes
  <1>2. Owns(e, fd, l, m)
    BY <1>1, Owned
  <1>3. SameShape(e, f)
    <2>1. f.site = e.site /\ f.asked = e.asked
      BY DEF Tunes
    <2>2. ASSUME NEW x \in Fds
          PROVE  \/ f.conn[x] = e.conn[x]
                 \/ /\ f.conn[x].stage \in {"body", "done"}
                    /\ e.conn[x].stage \in {"body", "done"}
                    /\ f.conn[x].link = e.conn[x].link /\ f.conn[x].msgid = e.conn[x].msgid
                    /\ f.conn[x].listener = e.conn[x].listener
      BY <1>2 DEF Tunes, Owns
    <2>3. ASSUME NEW x \in Fds
          PROVE  /\ f.sock[x].kind = e.sock[x].kind
                 /\ f.sock[x].kind = "client" => f.sock[x].closing = e.sock[x].closing
                 /\ f.sock[x].kind = "listen" => f.sock[x].n_open = e.sock[x].n_open
      BY <1>2 DEF Tunes, Owns
    <2>4. ASSUME NEW x \in Fds, NEW n \in MsgIds
          PROVE  \/ f.msgs[x][n] = e.msgs[x][n]
                 \/ /\ f.msgs[x][n] # NoMsg /\ e.msgs[x][n] # NoMsg
                    /\ f.msgs[x][n].type = e.msgs[x][n].type
                    /\ f.msgs[x][n].closed = e.msgs[x][n].closed
      BY <1>2 DEF Tunes, Owns
    <2> QED BY <2>1, <2>2, <2>3, <2>4 DEF SameShape
  <1>4. Sound(f)
    BY <1>1, <1>3, ShapeKeeps
  <1>5. QuietOf(f)
    <2>1. \A x \in Fds : f.sock[x].kind = "client" /\ f.sock[x].closing =>
            f.sock[x].busy /\ ~f.sock[x].rd /\ ~f.sock[x].wr
      <3>1. ~f.sock[fd].closing
        BY <1>2 DEF Owns, Tunes
      <3>2. \A x \in Fds : x # fd => f.sock[x] = e.sock[x]
        BY DEF Tunes
      <3> QED BY <1>1, <3>1, <3>2 DEF Flows, QuietOf
    <2>2. \A x \in Fds : f.conn[x].stage = "head" => ~f.sock[x].wr
      <3>1. f.conn[fd].stage \in {"body", "done"}
        BY DEF Tunes
      <3>2. \A x \in Fds : x # fd => f.sock[x] = e.sock[x] /\ f.conn[x] = e.conn[x]
        BY DEF Tunes
      <3> QED BY <1>1, <3>1, <3>2 DEF Flows, QuietOf
    <2>3. f.msgs[l][m].accepted
      BY <1>1, <1>2 DEF Owns, Flows, QuietOf, Tunes
    <2>4. ASSUME NEW x \in Fds, NEW n \in MsgIds, f.msgs[x][n] # NoMsg
          PROVE  /\ f.msgs[x][n].inq <= NBuff
                 /\ f.msgs[x][n].closed => f.msgs[x][n].accepted /\ f.msgs[x][n].space
                    /\ ~f.msgs[x][n].rd /\ ~f.msgs[x][n].wr
                 /\ f.msgs[x][n].type = Command => f.msgs[x][n].url \in Urls
                    /\ f.msgs[x][n].space /\ ~f.msgs[x][n].gone /\ ~f.msgs[x][n].wr
                 /\ ~f.msgs[x][n].accepted => f.msgs[x][n].type = Command
      <3>1. CASE x = l /\ n = m
        BY <1>2, <2>3, <3>1 DEF Owns, Tunes
      <3>2. CASE x # l \/ n # m
        <4>1. f.msgs[x][n] = e.msgs[x][n]
          BY <3>2 DEF Tunes
        <4> QED BY <1>1, <2>4, <4>1 DEF Flows, QuietOf
      <3> QED BY <3>1, <3>2
    <2> QED BY <2>1, <2>2, <2>4 DEF QuietOf
  <1>6. ASSUME NEW x \in Fds \ {fd}, NEW k \in Fds, NEW n \in MsgIds, f.conn[x].link = k,
          f.conn[x].msgid = n
        PROVE  f.conn[x] = e.conn[x] /\ f.sock[x] = e.sock[x] /\ f.msgs[k][n] = e.msgs[k][n]
    BY <1>2, <1>6 DEF Owns, Tunes
  <1>7. PacedOf(f)
    <2>1. ASSUME NEW x \in Fds, NEW k \in Fds, NEW n \in MsgIds, f.conn[x].link = k,
            f.conn[x].msgid = n
          PROVE  /\ f.msgs[k][n].rd => ~f.sock[x].busy
                 /\ f.conn[x].stage = "body" /\ f.sock[x].rd =>
                      f.msgs[k][n].space \/ f.msgs[k][n].gone
      <3>1. CASE x = fd
        BY <2>1, <3>1 DEF Tunes
      <3>2. CASE x # fd
        <4>1. f.conn[x] = e.conn[x] /\ f.sock[x] = e.sock[x] /\ f.msgs[k][n] = e.msgs[k][n]
          BY <1>6, <2>1, <3>2
        <4> QED BY <1>1, <2>1, <4>1 DEF Flows, PacedOf
      <3> QED BY <3>1, <3>2
    <2> QED BY <2>1 DEF PacedOf
  <1>8. ASSUME f.failed = None PROVE AwaitedOf(f)
    <2>1. AwaitedOf(e)
      BY <1>1, <1>8 DEF Flows, Tunes
    <2>2. \A x \in Fds : f.conn[x].stage = "head" => f.sock[x].rd
      BY <2>1 DEF AwaitedOf, Tunes
    <2> QED BY <1>6, <2>1, <2>2 DEF AwaitedOf, Tunes
  <1> QED BY <1>1, <1>4, <1>5, <1>7, <1>8 DEF Good, Flows

\* A message that is not NULL has all its fields.
LEMMA FullMsg ==
  ASSUME NEW v \in Msgs
  PROVE  v # NoMsg <=> v \in FullMsgs
  BY DEF Msgs, FullMsgs, NoMsg

\* v and w are messages that differ at most in the named fields.
Differ(v, w, flags) ==
  /\ v \in FullMsgs /\ w \in FullMsgs
  /\ v.type = w.type /\ v.url = w.url /\ v.closed = w.closed
  /\ "accepted" \notin flags => v.accepted = w.accepted
  /\ "inq" \notin flags => v.inq = w.inq
  /\ "space" \notin flags => v.space = w.space
  /\ "gone" \notin flags => v.gone = w.gone
  /\ "rd" \notin flags => v.rd = w.rd
  /\ "wr" \notin flags => v.wr = w.wr

\* An assignment to one field of a message.
LEMMA FlagMessage ==
  ASSUME NEW v \in FullMsgs, NEW b \in BOOLEAN, NEW k \in Nat
  PROVE  /\ Differ(v, [v EXCEPT !.rd = b], {"rd"}) /\ [v EXCEPT !.rd = b].rd = b
         /\ Differ(v, [v EXCEPT !.wr = b], {"wr"}) /\ [v EXCEPT !.wr = b].wr = b
         /\ Differ(v, [v EXCEPT !.space = b], {"space"}) /\ [v EXCEPT !.space = b].space = b
         /\ Differ(v, [v EXCEPT !.gone = b], {"gone"}) /\ [v EXCEPT !.gone = b].gone = b
         /\ Differ(v, [v EXCEPT !.inq = k], {"inq"}) /\ [v EXCEPT !.inq = k].inq = k
  BY DEF FullMsgs, Differ

\* An assignment to the read interest of a message in the table.
LEMMA FlagsMessage ==
  ASSUME NEW e \in States, NEW l \in Fds, NEW m \in MsgIds, e.msgs[l][m] # NoMsg,
         NEW b \in BOOLEAN
  PROVE  Message(e, [e EXCEPT !.msgs[l][m].rd = b], l, m, [e.msgs[l][m] EXCEPT !.rd = b])
  <1>1. PICK v \in FullMsgs : v = e.msgs[l][m]
    BY FullMsg, Typed
  <1> DEFINE w == [v EXCEPT !.rd = b]
  <1>2. w \in Msgs
    BY DEF FullMsgs, Msgs
  <1>3. [e EXCEPT !.msgs[l][m].rd = b] = [e EXCEPT !.msgs[l][m] = w]
          /\ [e.msgs[l][m] EXCEPT !.rd = b] = w
    BY <1>1
  <1> HIDE DEF w
  <1> QED BY <1>2, <1>3, SetMessage

\* A live message has a connection.
LEMMA Owner ==
  ASSUME NEW e \in States, Sound(e), NEW l \in Fds, NEW m \in MsgIds, Live(e, l, m)
  PROVE  \E fd \in Fds : e.msgs[l][m].type = fd /\ e.conn[fd].link = l /\ e.conn[fd].msgid = m
  <1>1. e.msgs[l][m].type \in Fds
    BY Typed DEF Sound, LinkedOf, Live
  <1> QED BY <1>1 DEF Sound, RoutedOf

\* What the invariant says of one connection that has a message.
LEMMA Flow ==
  ASSUME NEW e \in States, Good(e), NEW fd \in Fds, NEW l \in Fds, NEW m \in MsgIds,
         e.conn[fd].link = l, e.conn[fd].msgid = m
  PROVE  /\ e.msgs[l][m] \in FullMsgs /\ e.msgs[l][m].accepted /\ e.msgs[l][m].inq <= NBuff
         /\ e.msgs[l][m].rd => ~e.sock[fd].busy
         /\ e.conn[fd].stage = "body" /\ e.sock[fd].rd =>
              e.msgs[l][m].space \/ e.msgs[l][m].gone
         /\ e.failed = None /\ e.conn[fd].stage = "body" => e.sock[fd].rd \/ e.msgs[l][m].wr
         /\ e.failed = None => e.sock[fd].wr \/ e.msgs[l][m].rd
  <1>1. Owns(e, fd, l, m)
    BY Owned DEF Good
  <1>2. e.msgs[l][m] \in FullMsgs
    BY <1>1, Typed, FullMsg DEF Owns
  <1>3. e.msgs[l][m].accepted /\ e.msgs[l][m].inq <= NBuff
    BY <1>1 DEF Good, Flows, QuietOf, Owns
  <1>4. /\ e.msgs[l][m].rd => ~e.sock[fd].busy
        /\ e.conn[fd].stage = "body" /\ e.sock[fd].rd => e.msgs[l][m].space \/ e.msgs[l][m].gone
    BY DEF Good, Flows, PacedOf
  <1>5. ASSUME e.failed = None
        PROVE  /\ e.conn[fd].stage = "body" => e.sock[fd].rd \/ e.msgs[l][m].wr
               /\ e.sock[fd].wr \/ e.msgs[l][m].rd
    BY <1>5 DEF Good, Flows, AwaitedOf
  <1> QED BY <1>2, <1>3, <1>4, <1>5

\* A step that changes one live message, and asks no less of it, keeps the
\* invariant.
LEMMA MessageTuned ==
  ASSUME NEW e \in States, Good(e), e.failed = None, NEW f \in States, NEW w, NEW fd \in Fds,
         NEW l \in Fds, NEW m \in MsgIds, e.conn[fd].link = l, e.conn[fd].msgid = m,
         Message(e, f, l, m, w), Differ(e.msgs[l][m], w, {"inq", "space", "gone", "rd", "wr"}),
         w.inq <= NBuff, w.rd => ~e.sock[fd].busy,
         e.conn[fd].stage = "body" /\ e.sock[fd].rd => w.space \/ w.gone,
         e.conn[fd].stage = "body" => e.sock[fd].rd \/ w.wr, e.sock[fd].wr \/ w.rd
  PROVE  Good(f)
  <1>1. Owns(e, fd, l, m)
    BY Owned DEF Good
  <1>2. w # NoMsg
    BY FullMsg DEF Differ, Msgs
  <1>3. Tunes(e, f, fd, l, m)
    BY <1>1, <1>2 DEF Message, Differ, Tunes, Owns
  <1> QED BY <1>3, TuneKeeps

\* What an application does to a live message (a packet, an acknowledgement,
\* a close) keeps the invariant.
LEMMA Arrives ==
  ASSUME NEW e \in States, Good(e), e.failed = None, NEW l \in Fds, NEW m \in MsgIds,
         Live(e, l, m), NEW w, Differ(e.msgs[l][m], w, {"inq", "space", "gone"}),
         w.inq <= NBuff, e.msgs[l][m].space => w.space, e.msgs[l][m].gone => w.gone
  PROVE  Good([e EXCEPT !.msgs[l][m] = w])
  <1> DEFINE f == [e EXCEPT !.msgs[l][m] = w]
  <1>1. Sound(e)
    BY DEF Good
  <1>2. PICK fd \in Fds : e.msgs[l][m].type = fd /\ e.conn[fd].link = l /\ e.conn[fd].msgid = m
    BY <1>1, Owner
  <1>3. Message(e, f, l, m, w) /\ f \in States
    BY SetMessage DEF Differ, Msgs, Message
  <1> HIDE DEF f
  <1>4. Differ(e.msgs[l][m], w, {"inq", "space", "gone", "rd", "wr"}) /\ w.rd = e.msgs[l][m].rd
          /\ w.wr = e.msgs[l][m].wr
    BY DEF Differ
  <1>5. /\ w.rd => ~e.sock[fd].busy
        /\ e.conn[fd].stage = "body" /\ e.sock[fd].rd => w.space \/ w.gone
        /\ e.conn[fd].stage = "body" => e.sock[fd].rd \/ w.wr
        /\ e.sock[fd].wr \/ w.rd
    BY <1>2, <1>4, Flow
  <1> QED BY <1>2, <1>3, <1>4, <1>5, MessageTuned DEF f

----------------------------------------------------------------------------
(* The applications, and the accepting of connections and messages. *)

\* AppReplies keeps the invariant.
LEMMA AppRepliesKeeps ==
  ASSUME Good(d), NEW l \in Fds, NEW m \in MsgIds, AppReplies(l, m)
  PROVE  Good(d')
  <1>1. d \in States /\ d.failed = None /\ Live(d, l, m) /\ d.msgs[l][m].inq < NBuff
    BY DEF AppReplies, Good, Runs, Live, Messages
  <1>2. PICK v \in FullMsgs : v = d.msgs[l][m]
    BY <1>1, FullMsg, Typed DEF Live
  <1> DEFINE w == [v EXCEPT !.inq = v.inq + 1]
  <1>3. v.inq \in Nat /\ v.inq + 1 \in Nat /\ v.inq + 1 <= NBuff
    BY <1>1, <1>2, NBuffAssumption DEF FullMsgs
  <1>4. Differ(v, w, {"inq"}) /\ w.inq = v.inq + 1
    BY <1>3, FlagMessage
  <1>5. d' = [d EXCEPT !.msgs[l][m] = w]
    BY <1>2 DEF AppReplies, Handle
  <1> HIDE DEF w
  <1>6. /\ Differ(d.msgs[l][m], w, {"inq", "space", "gone"}) /\ w.inq <= NBuff
        /\ d.msgs[l][m].space => w.space
        /\ d.msgs[l][m].gone => w.gone
    BY <1>2, <1>3, <1>4 DEF Differ
  <1> QED BY <1>1, <1>5, <1>6, Arrives

\* AppAcknowledges keeps the invariant.
LEMMA AppAcknowledgesKeeps ==
  ASSUME Good(d), NEW l \in Fds, NEW m \in MsgIds, AppAcknowledges(l, m)
  PROVE  Good(d')
  <1>1. d \in States /\ d.failed = None /\ d.msgs[l][m] # NoMsg /\ ~d.msgs[l][m].space
    BY DEF AppAcknowledges, Good, Runs, Messages
  <1>2. Live(d, l, m) /\ d.msgs[l][m].inq <= NBuff
    BY <1>1 DEF Good, Flows, QuietOf, Live
  <1>3. PICK v \in FullMsgs : v = d.msgs[l][m]
    BY <1>1, FullMsg, Typed
  <1> DEFINE w == [v EXCEPT !.space = TRUE]
  <1>4. Differ(v, w, {"space"}) /\ w.space
    BY FlagMessage
  <1>5. d' = [d EXCEPT !.msgs[l][m] = w]
    BY <1>3 DEF AppAcknowledges, Handle
  <1> HIDE DEF w
  <1>6. /\ Differ(d.msgs[l][m], w, {"inq", "space", "gone"}) /\ w.inq <= NBuff
        /\ d.msgs[l][m].space => w.space
        /\ d.msgs[l][m].gone => w.gone
    BY <1>2, <1>3, <1>4 DEF Differ
  <1> QED BY <1>1, <1>2, <1>5, <1>6, Arrives

\* AppCloses keeps the invariant.
LEMMA AppClosesKeeps ==
  ASSUME Good(d), NEW l \in Fds, NEW m \in MsgIds, AppCloses(l, m)
  PROVE  Good(d')
  <1>1. d \in States /\ d.failed = None /\ d.msgs[l][m] # NoMsg /\ Sound(d) /\ Flows(d)
    BY DEF AppCloses, Good, Runs, Messages
  <1>2. CASE Live(d, l, m) /\ d' = [d EXCEPT !.msgs[l][m].gone = TRUE]
    <2>1. d.msgs[l][m].inq <= NBuff
      BY <1>1 DEF Flows, QuietOf
    <2>2. PICK v \in FullMsgs : v = d.msgs[l][m]
      BY <1>1, FullMsg, Typed
    <2> DEFINE w == [v EXCEPT !.gone = TRUE]
    <2>3. Differ(v, w, {"gone"}) /\ w.gone
      BY FlagMessage
    <2>4. d' = [d EXCEPT !.msgs[l][m] = w]
      BY <1>2, <2>2
    <2> HIDE DEF w
    <2>5. /\ Differ(d.msgs[l][m], w, {"inq", "space", "gone"}) /\ w.inq <= NBuff
          /\ d.msgs[l][m].space => w.space
          /\ d.msgs[l][m].gone => w.gone
      BY <2>1, <2>2, <2>3 DEF Differ
    <2>6. Live(d, l, m)
      BY <1>2
    <2> QED BY <1>1, <2>4, <2>5, <2>6, Arrives
  <1>3. CASE d.msgs[l][m].closed /\ d' = [d EXCEPT !.msgs[l][m] = NoMsg]
    <2>1. Message(d, d', l, m, NoMsg)
      BY <1>1, <1>3, SetMessage DEF Msgs
    <2>2. ~Live(d, l, m) /\ ~Live(d', l, m) /\ \A x \in Fds, n \in MsgIds : x # l \/ n # m =>
            (Live(d', x, n) <=> Live(d, x, n))
      BY <1>3, <2>1 DEF Live, Message
    <2>3. d' \in States /\ d'.failed = d.failed /\ d'.sock = d.sock /\ d'.conn = d.conn
            /\ d'.site = d.site /\ d'.asked = d.asked
          /\ d'.msgs[l][m] = NoMsg
          /\ \A x \in Fds, n \in MsgIds : d'.msgs[x][n] # NoMsg => d'.msgs[x][n] = d.msgs[x][n]
      BY <2>1 DEF Message
    <2>4. TableOf(d') /\ StagedOf(d') /\ SitesOf(d')
      BY <1>1, <2>3 DEF Sound, TableOf, StagedOf, SitesOf
    <2>5. RoutedOf(d')
      BY <1>1, <2>1, <2>2 DEF Sound, RoutedOf, Message
    <2>6. LinkedOf(d')
      BY <1>1, <2>3 DEF Sound, LinkedOf
    <2>7. AskedOf(d')
      BY <1>1, <2>3 DEF Sound, AskedOf, CommandAt
    <2>8. QuietOf(d')
      BY <1>1, <2>3 DEF Flows, QuietOf
    <2>9. \A fd, x \in Fds, n \in MsgIds : d.conn[fd].link = x /\ d.conn[fd].msgid = n =>
            d'.msgs[x][n] = d.msgs[x][n]
      BY <1>1, <2>1, <2>2 DEF Sound, RoutedOf, Message
    <2>10. PacedOf(d') /\ AwaitedOf(d')
      BY <1>1, <2>3, <2>9 DEF Flows, PacedOf, AwaitedOf
    <2> QED BY <1>1, <2>3, <2>4, <2>5, <2>6, <2>7, <2>8, <2>10 DEF Good, Sound, Flows, None
  <1> QED BY <1>1, <1>2, <1>3 DEF AppCloses, Handle, Live

\* MsgAccept keeps the invariant: only a command waits to be accepted.
LEMMA MsgAcceptKeeps ==
  ASSUME Good(d), NEW l \in Fds, NEW m \in MsgIds, MsgAccept(l, m)
  PROVE  Good(d')
  <1>1. d \in States /\ d.failed = None /\ d.msgs[l][m] # NoMsg /\ Sound(d) /\ Flows(d)
          /\ ~d.msgs[l][m].accepted
    BY DEF MsgAccept, Good, Runs, Messages
  <1>2. d.msgs[l][m].type = Command
    BY <1>1 DEF Flows, QuietOf
  <1>3. PICK v \in FullMsgs : v = d.msgs[l][m]
    BY <1>1, FullMsg, Typed
  <1> DEFINE w == [v EXCEPT !.accepted = TRUE, !.rd = TRUE]
  <1>4. /\ w \in FullMsgs /\ w.type = v.type /\ w.url = v.url /\ w.closed = v.closed
           /\ w.accepted /\ w.inq = v.inq
        /\ w.space = v.space /\ w.gone = v.gone /\ w.wr = v.wr
    BY DEF FullMsgs
  <1>5. d' = [d EXCEPT !.msgs[l][m] = w]
    <2>1. d' = [d EXCEPT !.msgs[l][m].accepted = TRUE, !.msgs[l][m].rd = TRUE]
      BY DEF MsgAccept, Handle
    <2> QED BY <1>1, <1>3, <2>1 DEF States
  <1> HIDE DEF w
  <1>6. Message(d, d', l, m, w)
    BY <1>1, <1>4, <1>5, SetMessage DEF Msgs
  <1>7. w # NoMsg
    BY <1>4, FullMsg DEF Msgs
  <1>8. SameShape(d, d')
    BY <1>1, <1>3, <1>4, <1>6, <1>7 DEF SameShape, Message
  <1>9. Sound(d') /\ d' \in States
    BY <1>1, <1>6, <1>8, ShapeKeeps DEF Message
  <1>10. QuietOf(d')
    BY <1>1, <1>2, <1>3, <1>4, <1>6, FdsAssumption DEF Flows, QuietOf, Message
  <1>11. \A fd, x \in Fds, n \in MsgIds : d.conn[fd].link = x /\ d.conn[fd].msgid = n =>
           d'.msgs[x][n] = d.msgs[x][n]
    BY <1>1, <1>2, <1>6 DEF Sound, RoutedOf, Message, Live
  <1>12. PacedOf(d') /\ AwaitedOf(d')
    BY <1>1, <1>6, <1>11 DEF Flows, PacedOf, AwaitedOf, Message
  <1> QED BY <1>1, <1>6, <1>9, <1>10, <1>12 DEF Good, Flows, Message, None

\* InAccept keeps the invariant: a new link has no messages and no website,
\* whatever had its descriptor before.
LEMMA InAcceptKeeps ==
  ASSUME Good(d), NEW l \in Fds, InAccept(l)
  PROVE  Good(d')
  <1>1. d \in States /\ d.failed = None /\ Sound(d) /\ Flows(d) /\ d.sock[l].kind = "free"
          /\ d' = [d EXCEPT !.sock[l] = LinkSocket]
    BY DEF InAccept, Good, Runs, NewFds, FreeFds, Handle
  <1>2. /\ d' \in States /\ d'.failed = None /\ d'.conn = d.conn /\ d'.site = d.site
           /\ d'.asked = d.asked /\ d'.msgs = d.msgs
        /\ d'.sock[l].kind = "link" /\ \A x \in Fds : x # l => d'.sock[x] = d.sock[x]
    BY <1>1 DEF States, LinkSocket, Socks
  <1>3. TableOf(d') /\ StagedOf(d')
    BY <1>1, <1>2 DEF Sound, TableOf, StagedOf
  <1>4. RoutedOf(d') /\ LinkedOf(d')
    BY <1>1, <1>2 DEF Sound, RoutedOf, LinkedOf, Live
  <1>5. AskedOf(d')
    BY <1>1, <1>2, Typed DEF Sound, AskedOf, CommandAt
  <1>6. SitesOf(d')
    BY <1>1, <1>2 DEF Sound, SitesOf
  <1>7. \A fd \in Fds : d.conn[fd] # NoConn => fd # l
    BY <1>1 DEF Sound, TableOf
  <1>8. QuietOf(d')
    BY <1>1, <1>2, <1>7 DEF Flows, QuietOf, Sound, StagedOf, None
  <1>9. \A fd \in Fds : (d.conn[fd].stage = "head" => fd # l)
          /\ (\A x \in Fds, m \in MsgIds : d.conn[fd].link = x /\ d.conn[fd].msgid = m =>
              fd # l)
    BY <1>1, <1>7, FdsAssumption DEF NoConn, None
  <1>10. PacedOf(d') /\ AwaitedOf(d')
    BY <1>1, <1>2, <1>9 DEF Flows, PacedOf, AwaitedOf
  <1> QED BY <1>2, <1>3, <1>4, <1>5, <1>6, <1>8, <1>10 DEF Good, Sound, Flows, None

\* ExAccept keeps the invariant: connections[newfd] is NULL.
LEMMA ExAcceptKeeps ==
  ASSUME Good(d), NEW fd \in Fds, ExAccept(fd)
  PROVE  Good(d')
  <1>1. d \in States /\ d.failed = None /\ Sound(d) /\ Flows(d) /\ d.sock[fd].kind = "free"
    BY DEF ExAccept, Good, Runs, NewFds, FreeFds
  <1>2. PICK lisn \in Fds :
          d' = zs_set_read([d EXCEPT !.sock[fd] = NewClient, !.conn[fd] = NewConn(lisn)], fd)
    BY DEF ExAccept, Listeners, Handle
  <1>3. d' = [d EXCEPT !.sock[fd] = [NewClient EXCEPT !.rd = TRUE], !.conn[fd] = NewConn(lisn)]
    BY <1>1, <1>2 DEF zs_set_read, States
  <1> DEFINE s == [NewClient EXCEPT !.rd = TRUE]
             c == NewConn(lisn)
  <1>4. s \in Socks /\ s.kind = "client" /\ s.rd /\ ~s.wr /\ ~s.busy /\ ~s.closing
    BY DEF NewClient, Socks, ClientSocks
  <1>5. c \in Conns /\ c.stage = "head" /\ c.link = NoFd /\ c.msgid = NoId /\ c.listener = lisn
          /\ c # NoConn
    BY DEF NewConn, NoConn, Conns, None
  <1> HIDE DEF s, c
  <1>6. /\ d' \in States /\ d'.failed = None /\ d'.site = d.site /\ d'.asked = d.asked
           /\ d'.msgs = d.msgs
        /\ d'.sock[fd] = s /\ d'.conn[fd] = c /\ \A x \in Fds : x # fd =>
             d'.sock[x] = d.sock[x] /\ d'.conn[x] = d.conn[x]
    BY <1>1, <1>3, <1>4, <1>5 DEF States, s, c
  <1>7. TableOf(d') /\ StagedOf(d')
    BY <1>1, <1>4, <1>5, <1>6 DEF Sound, TableOf, StagedOf, None
  <1>8. d.conn[fd] = NoConn
    BY <1>1 DEF Sound, TableOf
  <1>9. RoutedOf(d')
    BY <1>1, <1>5, <1>6, <1>8, FdsAssumption DEF Sound, RoutedOf, Live, NoConn
  <1>10. LinkedOf(d')
    BY <1>1, <1>4, <1>5, <1>6, FdsAssumption DEF Sound, LinkedOf
  <1>11. AskedOf(d')
    BY <1>1, <1>6, Typed DEF Sound, AskedOf, CommandAt
  <1>12. SitesOf(d')
    BY <1>1, <1>4, <1>6 DEF Sound, SitesOf
  <1>13. QuietOf(d')
    BY <1>1, <1>4, <1>5, <1>6 DEF Flows, QuietOf
  <1>14. PacedOf(d') /\ AwaitedOf(d')
    BY <1>1, <1>4, <1>5, <1>6, FdsAssumption DEF Flows, PacedOf, AwaitedOf
  <1> QED BY <1>6, <1>7, <1>9, <1>10, <1>11, <1>12, <1>13, <1>14 DEF Good, Sound, Flows, None

----------------------------------------------------------------------------
(* What a client sends. *)

\* cleanup_connection after changes to fd, with what it says of d.failed.
LEMMA CleanupGood ==
  ASSUME NEW e \in States, NEW g \in States, NEW fd \in Fds, Good(e), e.conn[fd] # NoConn,
         Near(e, g, fd)
  PROVE  Good(cleanup_connection(g, fd))
  <1> DEFINE f == cleanup_connection(g, fd)
  <1>1. f \in States /\ Sound(f) /\ Flows(f)
    BY CleanupKeeps DEF Good
  <1>2. Drops(g, f, fd)
    BY Cleanup DEF Near, Client
  <1> HIDE DEF f
  <1>3. f.failed = e.failed
    BY <1>2 DEF Drops, Near
  <1> QED BY <1>1, <1>3 DEF Good, f

\* A change of the client's own socket stays near.
LEMMA NearSocket ==
  ASSUME NEW e \in States, NEW g \in States, NEW h \in States, NEW fd \in Fds, Near(e, g, fd),
         NEW busy, NEW bad, NEW rd, NEW wr, NEW closing,
         Socket(g, h, fd, busy, bad, rd, wr, closing)
  PROVE  Near(e, h, fd)
  BY DEF Near, Socket

\* Sending an error page and dropping the connection keeps the invariant.
LEMMA ErrorPageGood ==
  ASSUME NEW e \in States, NEW g \in States, NEW fd \in Fds, Good(e), e.conn[fd] # NoConn,
         Near(e, g, fd)
  PROVE  Good(ErrorPage(g, fd))
  <1>1. Client(g, fd)
    BY DEF Near, Client
  <1>2. \E busy, bad, rd, wr, closing : Socket(g, zs_write(g, fd), fd, busy, bad, rd, wr,
                                               closing)
    BY <1>1, Flagged
  <1>3. zs_write(g, fd) \in States
    BY <1>2 DEF Socket
  <1>4. Near(e, zs_write(g, fd), fd)
    BY <1>2, <1>3, NearSocket
  <1> QED BY <1>3, <1>4, CleanupGood DEF ErrorPage

\* A client whose socket is read, with the read interest cleared: it is not
\* closing and has a connection.
LEMMA ReadCleared ==
  ASSUME Good(d), NEW fd \in Fds, fd \in Clients(d), d.sock[fd].rd
  PROVE  /\ d \in States /\ Sound(d) /\ Flows(d) /\ d.conn[fd] # NoConn /\ ~d.sock[fd].closing
         /\ Socket(d, zs_clr_read(d, fd), fd, d.sock[fd].busy, d.sock[fd].bad, FALSE,
                   d.sock[fd].wr, FALSE)
         /\ Near(d, zs_clr_read(d, fd), fd)
  <1>1. d \in States /\ Sound(d) /\ Flows(d) /\ d.sock[fd].kind = "client"
    BY DEF Good, Clients
  <1>2. ~d.sock[fd].closing
    BY <1>1 DEF Flows, QuietOf
  <1>3. d.conn[fd] # NoConn
    BY <1>1, <1>2 DEF Sound, TableOf
  <1>4. d.sock[fd].closing = FALSE
    <2>1. d.sock[fd] \in ClientSocks
      BY <1>1, Typed, SockKinds
    <2>2. d.sock[fd].closing \in BOOLEAN
      BY <2>1 DEF ClientSocks
    <2> QED BY <1>2, <2>2
  <1>5. Socket(d, zs_clr_read(d, fd), fd, d.sock[fd].busy, d.sock[fd].bad, FALSE, d.sock[fd].wr,
               FALSE)
    BY <1>1, <1>4, Flagged DEF Client
  <1>6. Near(d, zs_clr_read(d, fd), fd)
    <2> DEFINE g == zs_clr_read(d, fd)
    <2> HIDE DEF g
    <2>1. Socket(d, g, fd, d.sock[fd].busy, d.sock[fd].bad, FALSE, d.sock[fd].wr, FALSE)
      BY <1>5 DEF g
    <2>2. Near(d, g, fd)
      BY <1>3, <2>1 DEF Near, Socket
    <2> QED BY <2>2 DEF g
  <1> QED BY <1>1, <1>2, <1>3, <1>5, <1>6

\* ExReadEnd keeps the invariant.
LEMMA ExReadEndKeeps ==
  ASSUME Good(d), NEW fd \in Fds, ExReadEnd(fd)
  PROVE  Good(d')
  <1> DEFINE g == zs_clr_read(d, fd)
  <1>1. fd \in Clients(d) /\ d.sock[fd].rd /\ d' = exread(g, fd, End)
    BY DEF ExReadEnd, Handle
  <1>2. exread(g, fd, End) = cleanup_connection(g, fd)
    BY DEF exread, End
  <1>3. d \in States /\ g \in States /\ d.conn[fd] # NoConn /\ Near(d, g, fd)
    BY <1>1, ReadCleared DEF Socket
  <1> HIDE DEF g
  <1> QED BY <1>1, <1>2, <1>3, CleanupGood

\* f is g with a part of a request written to the message m of fd.
Writes(g, f, fd, l, m, in) ==
  /\ f \in States /\ f.site = g.site /\ f.asked = g.asked /\ f.failed = g.failed
  /\ \A x \in Fds : x # fd => f.conn[x] = g.conn[x] /\ f.sock[x] = g.sock[x]
  /\ f.conn[fd].stage = (IF in.more THEN "body" ELSE "done")
  /\ f.conn[fd].link = g.conn[fd].link /\ f.conn[fd].msgid = g.conn[fd].msgid
     /\ f.conn[fd].listener = g.conn[fd].listener
  /\ f.sock[fd].kind = "client" /\ f.sock[fd].busy = g.sock[fd].busy
     /\ f.sock[fd].wr = g.sock[fd].wr
  /\ f.sock[fd].closing = g.sock[fd].closing
  /\ in.more => f.sock[fd].rd = g.sock[fd].rd
  /\ ~in.more => f.sock[fd].rd
  /\ \A x \in Fds, n \in MsgIds : x # l \/ n # m => f.msgs[x][n] = g.msgs[x][n]
  /\ Differ(g.msgs[l][m], f.msgs[l][m], {"space", "wr"})
  /\ f.msgs[l][m].space = in.space
  /\ in.more => f.msgs[l][m].wr

\* What a client can send.
LEMMA InputKinds ==
  ASSUME NEW in \in Inputs
  PROVE  /\ in.what \in {"incomplete", "malformed", "badlength", "request"}
            /\ in.more \in BOOLEAN /\ in.space \in BOOLEAN
         /\ in.what \in {"badlength", "request"} => in.url \in Urls
  BY DEF Inputs

\* Writing a part of a request changes the connection, its socket and its
\* message only.
LEMMA Written ==
  ASSUME NEW g \in States, NEW fd \in Fds, Client(g, fd), NEW l \in Fds, NEW m \in MsgIds,
         g.msgs[l][m] # NoMsg, NEW in \in Inputs
  PROVE  Writes(g, RequestWritten(g, fd, l, m, in), fd, l, m, in)
  <1>1. in.more \in BOOLEAN /\ in.space \in BOOLEAN
    BY InputKinds
  <1>2. PICK v \in FullMsgs : v = g.msgs[l][m]
    BY FullMsg, Typed
  <1>3. PICK c \in Conns : c = g.conn[fd]
    BY Typed
  <1>4. PICK s \in ClientSocks : s = g.sock[fd]
    BY SockKinds, Typed DEF Client
  <1>5. /\ g.sock \in [Fds -> Socks] /\ g.conn \in [Fds -> Conns]
           /\ g.msgs \in [Fds -> [MsgIds -> Msgs]]
    BY DEF States
  <1>6. CASE in.more
    <2> DEFINE w == [v EXCEPT !.space = in.space, !.wr = TRUE]
               b == [c EXCEPT !.stage = "body"]
               f == [g EXCEPT !.msgs[l][m] = w, !.conn[fd] = b]
    <2>1. w \in Msgs /\ Differ(v, w, {"space", "wr"}) /\ w.space = in.space /\ w.wr
      BY <1>1 DEF FullMsgs, Differ, Msgs
    <2>2. b \in Conns /\ b.stage = "body" /\ b.link = c.link /\ b.msgid = c.msgid
            /\ b.listener = c.listener
      BY DEF Conns
    <2>3. RequestWritten(g, fd, l, m, in) = f
      BY <1>2, <1>3, <1>5, <1>6 DEF RequestWritten, States
    <2> HIDE DEF w, b
    <2>4. /\ f \in States /\ f.site = g.site /\ f.asked = g.asked /\ f.failed = g.failed
             /\ f.sock = g.sock
          /\ f.conn = [g.conn EXCEPT ![fd] = b]
             /\ f.msgs = [g.msgs EXCEPT ![l] = [g.msgs[l] EXCEPT ![m] = w]]
      BY <1>5, <2>1, <2>2 DEF States
    <2> HIDE DEF f
    <2>5. /\ \A x \in Fds : x # fd => f.conn[x] = g.conn[x] /\ f.sock[x] = g.sock[x]
          /\ f.conn[fd] = b /\ f.msgs[l][m] = w
          /\ \A x \in Fds, n \in MsgIds : x # l \/ n # m => f.msgs[x][n] = g.msgs[x][n]
      BY <1>5, <2>4
    <2>6. Writes(g, f, fd, l, m, in)
      BY <1>2, <1>3, <1>6, <2>1, <2>2, <2>4, <2>5 DEF Writes, Client
    <2> QED BY <2>3, <2>6
  <1>7. CASE ~in.more
    <2> DEFINE w == [v EXCEPT !.space = in.space]
               b == [c EXCEPT !.stage = "done"]
               t == [s EXCEPT !.rd = TRUE]
               f == [g EXCEPT !.msgs[l][m] = w, !.conn[fd] = b, !.sock[fd] = t]
    <2>1. w \in Msgs /\ Differ(v, w, {"space", "wr"}) /\ w.space = in.space
      BY <1>1 DEF FullMsgs, Differ, Msgs
    <2>2. b \in Conns /\ b.stage = "done" /\ b.link = c.link /\ b.msgid = c.msgid
            /\ b.listener = c.listener
      BY DEF Conns
    <2>3. t \in Socks /\ t.kind = "client" /\ t.busy = s.busy /\ t.wr = s.wr
            /\ t.closing = s.closing /\ t.rd
      BY DEF ClientSocks, Socks
    <2>4. RequestWritten(g, fd, l, m, in) = f
      BY <1>2, <1>3, <1>4, <1>5, <1>7 DEF RequestWritten, zs_set_read, States
    <2> HIDE DEF w, b, t
    <2>5. /\ f \in States /\ f.site = g.site /\ f.asked = g.asked /\ f.failed = g.failed
             /\ f.sock = [g.sock EXCEPT ![fd] = t]
          /\ f.conn = [g.conn EXCEPT ![fd] = b]
             /\ f.msgs = [g.msgs EXCEPT ![l] = [g.msgs[l] EXCEPT ![m] = w]]
      BY <1>5, <2>1, <2>2, <2>3 DEF States
    <2> HIDE DEF f
    <2>6. /\ \A x \in Fds : x # fd => f.conn[x] = g.conn[x] /\ f.sock[x] = g.sock[x]
          /\ f.conn[fd] = b /\ f.msgs[l][m] = w /\ f.sock[fd] = t
          /\ \A x \in Fds, n \in MsgIds : x # l \/ n # m => f.msgs[x][n] = g.msgs[x][n]
      BY <1>5, <2>5
    <2>7. Writes(g, f, fd, l, m, in)
      BY <1>2, <1>3, <1>4, <1>7, <2>1, <2>2, <2>3, <2>5, <2>6 DEF Writes, Client
    <2> QED BY <2>4, <2>7
  <1> QED BY <1>1, <1>6, <1>7

\* A request past its header has a link and a msgid.
LEMMA MsgFacts ==
  ASSUME NEW e \in States, Good(e), NEW fd \in Fds, e.conn[fd].stage \in {"body", "done"}
  PROVE  \E l \in Fds, m \in MsgIds : e.conn[fd].link = l /\ e.conn[fd].msgid = m
  BY DEF Good, Sound, StagedOf

\* Handling a part of a body keeps the invariant.
LEMMA BodyGood ==
  ASSUME Good(d), d.failed = None, NEW fd \in Fds, fd \in Clients(d), d.sock[fd].rd,
         d.conn[fd].stage = "body", NEW in \in Inputs
  PROVE  Good(Body(zs_clr_read(d, fd), fd, in))
  <1> DEFINE g == zs_clr_read(d, fd)
  <1>1. /\ d \in States /\ g \in States /\ d.conn[fd] # NoConn /\ Near(d, g, fd)
           /\ ~d.sock[fd].closing /\ Sound(d)
        /\ Socket(d, g, fd, d.sock[fd].busy, d.sock[fd].bad, FALSE, d.sock[fd].wr, FALSE)
    BY ReadCleared DEF Socket
  <1> HIDE DEF g
  <1>2. PICK l \in Fds, m \in MsgIds : d.conn[fd].link = l /\ d.conn[fd].msgid = m
    BY <1>1, MsgFacts
  <1>3. g.conn[fd].link = l /\ g.conn[fd].msgid = m /\ g.msgs = d.msgs
    BY <1>1, <1>2 DEF Socket
  <1>4. Good(ErrorPage(g, fd))
    BY <1>1, ErrorPageGood
  <1> DEFINE f == RequestWritten(g, fd, l, m, in)
  <1>5. Owns(d, fd, l, m)
    BY <1>1, <1>2, Owned
  <1>6. Writes(g, f, fd, l, m, in)
    BY <1>1, <1>3, <1>5, Written DEF Client, Socket, Owns
  <1>7. Body(g, fd, in) = ErrorPage(g, fd) \/ Body(g, fd, in) = f
    BY <1>3 DEF Body
  <1> HIDE DEF f
  <1>8. /\ d.msgs[l][m].rd => ~d.sock[fd].busy
        /\ d.sock[fd].wr \/ d.msgs[l][m].rd
        /\ d.msgs[l][m].inq <= NBuff
    BY <1>1, <1>2, Flow
  <1>9. f.msgs[l][m] # NoMsg /\ f \in States
    BY <1>6, FullMsg DEF Writes, Differ, Msgs
  <1>10. Tunes(d, f, fd, l, m)
    <2>1. /\ f.failed = d.failed /\ f.site = d.site /\ f.asked = d.asked
          /\ \A x \in Fds \ {fd} : f.sock[x] = d.sock[x] /\ f.conn[x] = d.conn[x]
          /\ \A x \in Fds, n \in MsgIds : x # l \/ n # m => f.msgs[x][n] = d.msgs[x][n]
      BY <1>1, <1>6 DEF Socket, Writes
    <2>2. /\ f.sock[fd].kind = "client" /\ f.sock[fd].closing = FALSE
             /\ f.sock[fd].busy = d.sock[fd].busy /\ f.sock[fd].wr = d.sock[fd].wr
          /\ in.more => ~f.sock[fd].rd
      BY <1>1, <1>6 DEF Socket, Writes
    <2>3. /\ f.conn[fd].stage \in {"body", "done"} /\ (f.conn[fd].stage = "body" => in.more)
          /\ f.conn[fd].link = l /\ f.conn[fd].msgid = m
             /\ f.conn[fd].listener = d.conn[fd].listener
      BY <1>1, <1>2, <1>6 DEF Socket, Writes
    <2>4. /\ f.msgs[l][m].type = d.msgs[l][m].type /\ f.msgs[l][m].closed = d.msgs[l][m].closed
          /\ f.msgs[l][m].accepted = d.msgs[l][m].accepted
             /\ f.msgs[l][m].inq = d.msgs[l][m].inq
          /\ f.msgs[l][m].rd = d.msgs[l][m].rd /\ (in.more => f.msgs[l][m].wr)
      BY <1>3, <1>6 DEF Writes, Differ
    <2>5. d.sock[fd].closing = FALSE
      BY <1>1, Typed, SockKinds DEF Clients, ClientSocks
    <2> QED BY <1>8, <1>9, <2>1, <2>2, <2>3, <2>4, <2>5 DEF Tunes
  <1>11. Good(f)
    BY <1>1, <1>2, <1>9, <1>10, TuneKeeps
  <1> QED BY <1>4, <1>7, <1>11 DEF g

\* ExWriteReady keeps the invariant: the socket is idle when its message is
\* read again.
LEMMA ExWriteReadyKeeps ==
  ASSUME Good(d), NEW fd \in Fds, ExWriteReady(fd)
  PROVE  Good(d')
  <1>1. d \in States /\ d.failed = None /\ Sound(d) /\ Flows(d) /\ d.sock[fd].kind = "client"
          /\ d.sock[fd].wr /\ ~d.sock[fd].busy
    BY DEF ExWriteReady, Good, Runs, Clients
  <1>2. ~d.sock[fd].closing
    BY <1>1 DEF Flows, QuietOf
  <1>3. d.conn[fd] # NoConn
    BY <1>1, <1>2 DEF Sound, TableOf
  <1>4. d.conn[fd].stage \in {"body", "done"}
    BY <1>1, <1>3, Typed DEF Flows, QuietOf, Sound, StagedOf
  <1>5. PICK l \in Fds, m \in MsgIds : d.conn[fd].link = l /\ d.conn[fd].msgid = m
    BY <1>1, <1>4, MsgFacts
  <1> DEFINE g == zs_clr_write(d, fd)
  <1>6. Socket(d, g, fd, d.sock[fd].busy, d.sock[fd].bad, d.sock[fd].rd, FALSE,
               d.sock[fd].closing)
    BY <1>1, Flagged DEF Client
  <1>7. d' = [g EXCEPT !.msgs[l][m].rd = TRUE]
    BY <1>3, <1>5 DEF ExWriteReady, Handle
  <1> HIDE DEF g
  <1>8. Owns(d, fd, l, m)
    BY <1>1, <1>5, Owned
  <1>9. g \in States /\ g.msgs = d.msgs /\ g.msgs[l][m] # NoMsg
    BY <1>6, <1>8 DEF Socket, Owns
  <1>10. PICK v \in FullMsgs : v = d.msgs[l][m]
    BY <1>1, <1>9, FullMsg, Typed
  <1> DEFINE w == [v EXCEPT !.rd = TRUE]
  <1>11. Differ(v, w, {"rd"}) /\ w.rd
    BY FlagMessage
  <1>12. Message(g, d', l, m, w)
    BY <1>7, <1>9, <1>10, FlagsMessage
  <1>13. w # NoMsg
    BY <1>11, FullMsg DEF Differ, Msgs
  <1> HIDE DEF w
  <1>14. /\ v.inq <= NBuff
         /\ d.conn[fd].stage = "body" /\ d.sock[fd].rd => v.space \/ v.gone
         /\ d.conn[fd].stage = "body" => d.sock[fd].rd \/ v.wr
    BY <1>1, <1>5, <1>10, Flow
  <1>15. Tunes(d, d', fd, l, m)
    <2>1. /\ d' \in States /\ d'.failed = d.failed /\ d'.site = d.site /\ d'.asked = d.asked
             /\ d'.conn = d.conn
          /\ \A x \in Fds \ {fd} : d'.sock[x] = d.sock[x]
          /\ \A x \in Fds, n \in MsgIds : x # l \/ n # m => d'.msgs[x][n] = d.msgs[x][n]
          /\ d'.msgs[l][m] = w
          /\ d'.sock[fd].kind = "client" /\ d'.sock[fd].closing = d.sock[fd].closing
             /\ d'.sock[fd].rd = d.sock[fd].rd /\ d'.sock[fd].busy = d.sock[fd].busy
      BY <1>6, <1>12 DEF Socket, Message
    <2> QED BY <1>1, <1>4, <1>5, <1>10, <1>11, <1>13, <1>14, <2>1 DEF Tunes, Differ
  <1>16. d' \in States
    BY <1>12 DEF Message
  <1> QED BY <1>1, <1>5, <1>15, <1>16, TuneKeeps

\* MsgWriteReady keeps the invariant: the message has room when its client
\* is read again.
LEMMA MsgWriteReadyKeeps ==
  ASSUME Good(d), NEW l \in Fds, NEW m \in MsgIds, MsgWriteReady(l, m)
  PROVE  Good(d')
  <1>1. d \in States /\ d.failed = None /\ Sound(d) /\ Flows(d) /\ d.msgs[l][m] # NoMsg
          /\ d.msgs[l][m].wr /\ (d.msgs[l][m].space \/ d.msgs[l][m].gone)
    BY DEF MsgWriteReady, Good, Runs, Messages
  <1>2. Live(d, l, m)
    BY <1>1 DEF Flows, QuietOf, Live
  <1>3. PICK fd \in Fds : d.msgs[l][m].type = fd /\ d.conn[fd].link = l /\ d.conn[fd].msgid = m
    BY <1>1, <1>2, Owner
  <1> DEFINE g == [d EXCEPT !.msgs[l][m].wr = FALSE]
  <1>4. d' = zs_set_read(g, fd)
    BY <1>3 DEF MsgWriteReady, Handle
  <1>5. PICK v \in FullMsgs : v = d.msgs[l][m]
    BY <1>1, FullMsg, Typed
  <1> DEFINE w == [v EXCEPT !.wr = FALSE]
  <1>6. Differ(v, w, {"wr"})
    BY FlagMessage
  <1>7. g = [d EXCEPT !.msgs[l][m] = w]
    BY <1>5
  <1> HIDE DEF w, g
  <1>8. Message(d, g, l, m, w) /\ w # NoMsg
    BY <1>1, <1>6, <1>7, SetMessage, FullMsg DEF Differ, Msgs
  <1>9. Owns(d, fd, l, m)
    BY <1>1, <1>3, Owned
  <1>10. Socket(g, d', fd, g.sock[fd].busy, g.sock[fd].bad, TRUE, g.sock[fd].wr,
                g.sock[fd].closing)
    BY <1>4, <1>8, <1>9, Flagged DEF Message, Client, Owns
  <1>11. /\ v.inq <= NBuff
         /\ v.rd => ~d.sock[fd].busy
         /\ d.sock[fd].wr \/ v.rd
    BY <1>1, <1>3, <1>5, Flow
  <1>12. Tunes(d, d', fd, l, m)
    <2>1. /\ d' \in States /\ d'.failed = d.failed /\ d'.site = d.site /\ d'.asked = d.asked
             /\ d'.conn = d.conn
          /\ \A x \in Fds \ {fd} : d'.sock[x] = d.sock[x]
          /\ \A x \in Fds, n \in MsgIds : x # l \/ n # m => d'.msgs[x][n] = d.msgs[x][n]
          /\ d'.msgs[l][m] = w
          /\ d'.sock[fd].kind = "client" /\ d'.sock[fd].closing = d.sock[fd].closing
             /\ d'.sock[fd].rd /\ d'.sock[fd].busy = d.sock[fd].busy
          /\ d'.sock[fd].wr = d.sock[fd].wr
      BY <1>8, <1>10 DEF Socket, Message
    <2>2. d.conn[fd].stage \in {"body", "done"}
      BY <1>9 DEF Owns
    <2> QED BY <1>1, <1>3, <1>5, <1>6, <1>8, <1>11, <2>1, <2>2 DEF Tunes, Differ
  <1>13. d' \in States
    BY <1>10 DEF Socket
  <1> QED BY <1>1, <1>3, <1>12, <1>13, TuneKeeps

\* WriteDone keeps the invariant, also when the close that waited for the
\* write follows.
LEMMA WriteDoneKeeps ==
  ASSUME Good(d), NEW fd \in Fds, WriteDone(fd)
  PROVE  Good(d')
  <1>1. d \in States /\ d.failed = None /\ Sound(d) /\ Flows(d) /\ d.sock[fd].kind = "client"
    BY DEF WriteDone, Good, Runs, Clients
  <1>2. PICK s \in ClientSocks : s = d.sock[fd]
    BY <1>1, SockKinds, Typed
  <1>3. PICK bad \in BOOLEAN : d' = [d EXCEPT !.sock[fd] = IF s.closing THEN Free
                                     ELSE [s EXCEPT !.busy = FALSE, !.bad = bad]]
    BY <1>2 DEF WriteDone, Handle
  <1>4. CASE s.closing
    <2>1. /\ d' \in States /\ d'.failed = None /\ d'.conn = d.conn /\ d'.site = d.site
             /\ d'.asked = d.asked /\ d'.msgs = d.msgs
          /\ d'.sock[fd].kind = "free" /\ \A x \in Fds : x # fd => d'.sock[x] = d.sock[x]
      BY <1>1, <1>3, <1>4 DEF States, Free, Socks
    <2>2. d.conn[fd] = NoConn
      BY <1>1, <1>2, <1>4 DEF Sound, TableOf
    <2>3. TableOf(d') /\ StagedOf(d')
      BY <1>1, <2>1, <2>2 DEF Sound, TableOf, StagedOf
    <2>4. RoutedOf(d') /\ LinkedOf(d')
      BY <1>1, <2>1 DEF Sound, RoutedOf, LinkedOf, Live
    <2>5. AskedOf(d')
      BY <1>1, <2>1, Typed DEF Sound, AskedOf, CommandAt
    <2>6. SitesOf(d')
      BY <1>1, <2>1 DEF Sound, SitesOf
    <2>7. \A x \in Fds : (d.conn[x].stage = "head" => x # fd)
            /\ (\A l \in Fds, m \in MsgIds : d.conn[x].link = l /\ d.conn[x].msgid = m =>
                x # fd)
      BY <2>2, FdsAssumption DEF NoConn, None
    <2>8. QuietOf(d')
      BY <1>1, <2>1, <2>7 DEF Flows, QuietOf
    <2>9. PacedOf(d') /\ AwaitedOf(d')
      BY <1>1, <2>1, <2>7 DEF Flows, PacedOf, AwaitedOf
    <2> QED BY <2>1, <2>3, <2>4, <2>5, <2>6, <2>8, <2>9 DEF Good, Sound, Flows, None
  <1>5. CASE ~s.closing
    <2> DEFINE t == [s EXCEPT !.busy = FALSE, !.bad = bad]
    <2>1. t \in ClientSocks /\ ~t.busy /\ t.rd = s.rd /\ t.wr = s.wr /\ t.closing = s.closing
      BY DEF ClientSocks
    <2>2. d' = [d EXCEPT !.sock[fd] = t]
      BY <1>3, <1>5
    <2> HIDE DEF t
    <2>3. Socket(d, d', fd, t.busy, t.bad, t.rd, t.wr, t.closing)
      BY <1>1, <2>1, <2>2, SetSocket
    <2>4. SameShape(d, d') /\ d' \in States
      BY <1>1, <1>2, <2>1, <2>3 DEF SameShape, Socket
    <2>5. Sound(d')
      BY <1>1, <2>4, ShapeKeeps
    <2>6. /\ d'.failed = None /\ d'.conn = d.conn /\ d'.msgs = d.msgs
          /\ d'.sock[fd].kind = "client" /\ ~d'.sock[fd].closing /\ ~d'.sock[fd].busy
          /\ d'.sock[fd].rd = d.sock[fd].rd /\ d'.sock[fd].wr = d.sock[fd].wr
          /\ \A x \in Fds : x # fd => d'.sock[x] = d.sock[x]
      BY <1>1, <1>2, <1>5, <2>1, <2>3 DEF Socket
    <2>7. QuietOf(d')
      BY <1>1, <2>6 DEF Flows, QuietOf
    <2>8. PacedOf(d') /\ AwaitedOf(d')
      BY <1>1, <2>6 DEF Flows, PacedOf, AwaitedOf
    <2> QED BY <2>4, <2>5, <2>6, <2>7, <2>8 DEF Good, Flows, None
  <1> QED BY <1>4, <1>5

----------------------------------------------------------------------------
(* What an application sends. *)

\* A live message whose fields changed is still near its connection.
LEMMA NearMessage ==
  ASSUME NEW e \in States, NEW g \in States, Sound(e), NEW fd \in Fds, NEW l \in Fds,
         NEW m \in MsgIds, e.conn[fd].link = l, e.conn[fd].msgid = m, NEW w,
         Message(e, g, l, m, w)
  PROVE  Near(e, g, fd)
  <1>1. Owns(e, fd, l, m)
    BY Owned
  <1> QED BY <1>1 DEF Near, Message, Owns

\* The end of a response drops the connection it answers.
LEMMA MsgEndKeeps ==
  ASSUME Good(d), NEW l \in Fds, NEW m \in MsgIds, d.failed = None, Live(d, l, m),
         d' = cleanup_connection([d EXCEPT !.msgs[l][m].rd = FALSE], d.msgs[l][m].type)
  PROVE  Good(d')
  <1>1. d \in States /\ Sound(d) /\ d.msgs[l][m] # NoMsg
    BY DEF Good, Live
  <1>2. PICK fd \in Fds : d.msgs[l][m].type = fd /\ d.conn[fd].link = l /\ d.conn[fd].msgid = m
    BY <1>1, Owner
  <1> DEFINE g == [d EXCEPT !.msgs[l][m].rd = FALSE]
  <1>3. Message(d, g, l, m, [d.msgs[l][m] EXCEPT !.rd = FALSE])
    BY <1>1, FlagsMessage
  <1>4. d' = cleanup_connection(g, fd)
    BY <1>2
  <1> HIDE DEF g
  <1>5. g \in States
    BY <1>3 DEF Message
  <1>6. Near(d, g, fd)
    BY <1>1, <1>2, <1>3, <1>5, NearMessage
  <1>7. d.conn[fd] # NoConn
    BY <1>1, <1>2, Owned DEF Owns
  <1> QED BY <1>1, <1>4, <1>5, <1>6, <1>7, CleanupGood

\* The packets taken from a message whose event is handled.
LEMMA Taken ==
  ASSUME NEW e \in States, NEW l \in Fds, NEW m \in MsgIds, e.msgs[l][m] # NoMsg,
         NEW k \in 1 .. e.msgs[l][m].inq
  PROVE  LET g == [[e EXCEPT !.msgs[l][m].rd = FALSE] EXCEPT !.msgs[l][m].inq = @ - k]
         IN  \E w \in FullMsgs : /\ Message(e, g, l, m, w)
                                    /\ Differ(e.msgs[l][m], w, {"rd", "inq"})
                                /\ ~w.rd /\ w.inq <= e.msgs[l][m].inq
  <1> DEFINE g == [[e EXCEPT !.msgs[l][m].rd = FALSE] EXCEPT !.msgs[l][m].inq = @ - k]
  <1>1. PICK v \in FullMsgs : v = e.msgs[l][m]
    BY FullMsg, Typed
  <1> DEFINE u == [v EXCEPT !.rd = FALSE]
             w == [u EXCEPT !.inq = u.inq - k]
             h == [e EXCEPT !.msgs[l][m] = u]
  <1>2. Differ(v, u, {"rd"}) /\ ~u.rd
    BY FlagMessage
  <1>3. g = [h EXCEPT !.msgs[l][m].inq = @ - k]
    BY <1>1
  <1> HIDE DEF g, u, h
  <1>4. u.inq = v.inq /\ u.inq \in Nat /\ u.inq - k \in Nat /\ u.inq - k <= u.inq
          /\ u \in FullMsgs
    BY <1>1, <1>2 DEF FullMsgs, Differ
  <1>5. Differ(u, w, {"inq"}) /\ w.inq = u.inq - k
    BY <1>4, FlagMessage
  <1>6. Message(e, h, l, m, u)
    BY <1>2, SetMessage DEF Differ, Msgs, h
  <1>7. g = [h EXCEPT !.msgs[l][m] = w]
    BY <1>3, <1>6 DEF Message
  <1> HIDE DEF w
  <1>8. Message(h, g, l, m, w)
    BY <1>5, <1>6, <1>7, SetMessage DEF Differ, Msgs, Message
  <1>9. Differ(v, w, {"rd", "inq"}) /\ ~w.rd /\ w.inq <= v.inq /\ w \in FullMsgs
    BY <1>2, <1>4, <1>5 DEF Differ
  <1>10. Message(e, g, l, m, w)
    BY <1>6, <1>8 DEF Message
  <1> QED BY <1>1, <1>9, <1>10 DEF g

\* Passing on a part of a response keeps the invariant.
LEMMA ResponseKeeps ==
  ASSUME Good(d), NEW l \in Fds, NEW m \in MsgIds, d.failed = None, NEW fd \in Fds,
         d.conn[fd].link = l, d.conn[fd].msgid = m, NEW g, NEW w, Message(d, g, l, m, w),
         Differ(d.msgs[l][m], w, {"rd", "inq"}), ~w.rd, w.inq <= NBuff, d' = Response(g, fd)
  PROVE  Good(d')
  <1>1. d \in States /\ Sound(d) /\ g \in States
    BY DEF Good, Message
  <1>2. d.msgs[l][m].type = fd /\ d.conn[fd].link = l /\ d.conn[fd].msgid = m
    BY <1>1, Owned DEF Owns
  <1>3. PICK v \in FullMsgs : v = d.msgs[l][m]
    BY DEF Differ
  <1>4. Differ(v, w, {"rd", "inq"}) /\ ~w.rd /\ w.inq <= NBuff
    BY <1>3
  <1>5. Message(d, g, l, m, w) /\ w # NoMsg
    BY FullMsg DEF Differ, Msgs
  <1>6. g \in States /\ Near(d, g, fd)
    BY <1>1, <1>2, <1>5, NearMessage DEF Message
  <1>7. Owns(d, fd, l, m)
    BY <1>1, <1>2, Owned
  <1> DEFINE a == zs_set_write(g, fd)
  <1>8. Socket(g, a, fd, g.sock[fd].busy, g.sock[fd].bad, g.sock[fd].rd, TRUE,
               g.sock[fd].closing)
    BY <1>6, Flagged DEF Near, Client
  <1>9. CASE WriteRefused(g, fd)
    <2>1. d' = cleanup_connection(a, fd)
      BY <1>9 DEF Response
    <2> HIDE DEF a
    <2>2. a \in States
      BY <1>8 DEF Socket
    <2>3. Near(d, a, fd)
      BY <1>1, <1>6, <1>8, <2>2, NearSocket
    <2>4. d.conn[fd] # NoConn
      BY <1>7 DEF Owns
    <2> QED BY <1>1, <2>1, <2>2, <2>3, <2>4, CleanupGood
  <1>10. CASE ~WriteRefused(g, fd)
    <2>1. d' = zs_write(a, fd)
      BY <1>10 DEF Response
    <2> HIDE DEF a
    <2>2. a \in States /\ Client(a, fd)
      BY <1>8 DEF Socket, Client
    <2>3. Socket(a, d', fd, a.sock[fd].busy \/ ~a.sock[fd].bad, a.sock[fd].bad, a.sock[fd].rd,
                 a.sock[fd].wr, a.sock[fd].closing)
      BY <2>1, <2>2, Flagged
    <2>4. /\ v.inq <= NBuff
          /\ d.conn[fd].stage = "body" /\ d.sock[fd].rd => v.space \/ v.gone
          /\ d.conn[fd].stage = "body" => d.sock[fd].rd \/ v.wr
      BY <1>1, <1>2, <1>3, Flow
    <2>5. Tunes(d, d', fd, l, m)
      <3>1. /\ a.failed = d.failed /\ a.site = d.site /\ a.asked = d.asked /\ a.conn = d.conn
               /\ a.msgs = g.msgs
            /\ \A x \in Fds \ {fd} : a.sock[x] = d.sock[x]
            /\ a.sock[fd].wr = TRUE /\ a.sock[fd].closing = d.sock[fd].closing
               /\ a.sock[fd].rd = d.sock[fd].rd
        BY <1>5, <1>8 DEF Socket, Message
      <3>2. /\ d' \in States /\ d'.failed = d.failed /\ d'.site = d.site /\ d'.asked = d.asked
               /\ d'.conn = d.conn
            /\ \A x \in Fds \ {fd} : d'.sock[x] = d.sock[x]
            /\ \A x \in Fds, n \in MsgIds : x # l \/ n # m => d'.msgs[x][n] = d.msgs[x][n]
            /\ d'.msgs[l][m] = w
            /\ d'.sock[fd].kind = "client" /\ d'.sock[fd].closing = d.sock[fd].closing
               /\ d'.sock[fd].rd = d.sock[fd].rd
            /\ d'.sock[fd].wr = TRUE
        <4>1. /\ d' \in States /\ d'.failed = a.failed /\ d'.site = a.site /\ d'.asked = a.asked
                 /\ d'.conn = a.conn /\ d'.msgs = a.msgs
              /\ d'.sock[fd].kind = "client" /\ d'.sock[fd].closing = a.sock[fd].closing
                 /\ d'.sock[fd].rd = a.sock[fd].rd
              /\ d'.sock[fd].wr = a.sock[fd].wr
              /\ \A x \in Fds \ {fd} : d'.sock[x] = a.sock[x]
          BY <2>3 DEF Socket
        <4>2. g.msgs[l][m] = w /\ \A x \in Fds, n \in MsgIds : x # l \/ n # m =>
                g.msgs[x][n] = d.msgs[x][n]
          BY <1>5 DEF Message
        <4> QED BY <3>1, <4>1, <4>2
      <3>3. d.conn[fd].stage \in {"body", "done"}
        BY <1>7 DEF Owns
      <3> QED BY <1>2, <1>3, <1>4, <1>5, <2>4, <3>2, <3>3 DEF Tunes, Differ
    <2>6. d' \in States
      BY <2>3 DEF Socket
    <2> QED BY <1>1, <1>2, <2>5, <2>6, TuneKeeps
  <1> QED BY <1>9, <1>10

----------------------------------------------------------------------------
(* Registration of websites, and links that break. *)

\* The websites that have the listening socket z open.
Hosted(e, z) == {x \in Fds : e.site[x].listener = z}

\* f is e with the website url of l registered on the listening socket z.
Starts(e, f, l, url, z) ==
  /\ f \in States /\ f.conn = e.conn /\ f.asked = e.asked /\ f.msgs = e.msgs
     /\ f.failed = e.failed
  /\ f.site[l].url = url /\ f.site[l].listener = z
  /\ \A x \in Fds : x # l => f.site[x] = e.site[x]
  /\ \A x \in Fds : x # z => f.sock[x] = e.sock[x]
  /\ f.sock[z].kind = "listen"
  /\ \/ e.sock[z].kind = "free" /\ f.sock[z].n_open = 1
     \/ e.sock[z].kind = "listen" /\ f.sock[z].n_open = e.sock[z].n_open + 1

\* Registering a website that nobody has keeps the invariant: one more
\* website is counted.
LEMMA StartKeeps ==
  ASSUME NEW e \in States, Good(e), NEW f \in States, NEW l \in Fds, NEW url \in Urls,
         NEW z \in Fds, e.site[l] = NoSite, l \in e.asked,
         \A m \in MsgIds : ~CommandAt(e, l, m), \A x \in Fds : e.site[x].url # url,
         Starts(e, f, l, url, z)
  PROVE  Good(f)
  <1>1. Sound(e) /\ Flows(e)
    BY DEF Good
  <1>2. e.sock[l].kind = "link" /\ l # z
    BY <1>1 DEF Sound, AskedOf, Starts
  <1>3. f.site[l] # NoSite
    BY UrlsAssumption DEF Starts, NoSite
  <1>4. \A x \in Fds : /\ x # z => f.sock[x] = e.sock[x]
                       /\ e.sock[z].kind # "client" /\ f.sock[z].kind # "client"
                          /\ f.sock[z].kind # "link" /\ e.sock[z].kind # "link"
    BY DEF Starts
  <1>5. TableOf(f) /\ StagedOf(f)
    BY <1>1, <1>4 DEF Sound, TableOf, StagedOf, Starts
  <1>6. RoutedOf(f)
    BY <1>1 DEF Sound, RoutedOf, Live, Starts
  <1>7. LinkedOf(f)
    <2>1. \A x \in Fds, m \in MsgIds : f.msgs[x][m] # NoMsg =>
            f.sock[x].kind = "link" /\ (f.msgs[x][m].closed <=> f.msgs[x][m].type = NoFd)
      BY <1>1, <1>4 DEF Sound, LinkedOf, Starts
    <2>2. \A fd \in Fds : f.conn[fd].link \in Fds => f.site[f.conn[fd].link] # NoSite
      BY <1>1, <1>3 DEF Sound, LinkedOf, Starts
    <2> QED BY <2>1, <2>2 DEF LinkedOf
  <1>8. AskedOf(f)
    BY <1>1, <1>2, <1>4, Typed DEF Sound, AskedOf, CommandAt, Starts
  <1>9. \A x \in Fds : f.site[x] # NoSite =>
          x = l \/ (x # l /\ f.site[x] = e.site[x] /\ e.site[x] # NoSite)
    BY DEF Starts
  <1>10. \A x \in Fds : f.site[x] # NoSite => f.site[x].url \in Urls /\ f.sock[x].kind = "link"
                                    /\ f.site[x].listener \in Fds
                                       /\ f.sock[f.site[x].listener].kind = "listen"
    BY <1>1, <1>2, <1>4, <1>9 DEF Sound, SitesOf, Starts
  <1>11. \A x, y \in Fds : f.site[x] # NoSite /\ f.site[x].url = f.site[y].url => x = y
    BY <1>1, <1>9 DEF Sound, SitesOf, Starts
  <1>12. ASSUME NEW y \in Fds, f.sock[y].kind = "listen"
         PROVE  f.sock[y].n_open = Cardinality(Hosted(f, y))
    <2>1. CASE y # z
      <3>1. Hosted(f, y) = Hosted(e, y)
        <4>1. \A x \in Fds : f.site[x].listener = y <=> e.site[x].listener = y
          BY <2>1, FdsAssumption DEF Starts, NoSite
        <4> QED BY <4>1 DEF Hosted
      <3>2. f.sock[y] = e.sock[y]
        BY <2>1 DEF Starts
      <3> QED BY <1>1, <1>12, <3>1, <3>2 DEF Sound, SitesOf, Hosted
    <2>2. CASE y = z
      <3>1. Hosted(f, z) = Hosted(e, z) \cup {l} /\ l \notin Hosted(e, z)
        <4>1. \A x \in Fds : f.site[x].listener = z <=> e.site[x].listener = z \/ x = l
          BY FdsAssumption DEF Starts, NoSite
        <4>2. e.site[l].listener # z
          BY FdsAssumption DEF NoSite
        <4> QED BY <4>1, <4>2 DEF Hosted
      <3>2. IsFiniteSet(Hosted(e, z))
        BY FdsAssumption, FS_Subset DEF Hosted
      <3>3. Cardinality(Hosted(f, z)) = Cardinality(Hosted(e, z)) + 1
        BY <3>1, <3>2, FS_AddElement
      <3>4. CASE e.sock[z].kind = "free"
        <4>1. Hosted(e, z) = {}
          <5>1. \A x \in Fds : e.site[x].listener = z => e.site[x] # NoSite
            BY FdsAssumption DEF NoSite
          <5>2. \A x \in Fds : e.site[x].listener # z
            BY <1>1, <3>4, <5>1 DEF Sound, SitesOf
          <5> QED BY <5>2 DEF Hosted
        <4>2. Cardinality(Hosted(e, z)) = 0
          BY <4>1, FS_EmptySet
        <4> QED BY <2>2, <3>3, <3>4, <4>2 DEF Starts
      <3>5. CASE e.sock[z].kind = "listen"
        <4>1. e.sock[z].n_open = Cardinality(Hosted(e, z))
          BY <1>1, <3>5 DEF Sound, SitesOf, Hosted
        <4> QED BY <2>2, <3>3, <3>5, <4>1 DEF Starts
      <3> QED BY <3>4, <3>5 DEF Starts
    <2> QED BY <2>1, <2>2
  <1>13. SitesOf(f)
    BY <1>10, <1>11, <1>12 DEF SitesOf, Hosted
  <1>14. \A x \in Fds : e.conn[x] # NoConn => x # z
    BY <1>1, <1>4 DEF Sound, TableOf
  <1>15. \A x \in Fds : (e.conn[x].stage = "head" => x # z)
           /\ (\A k \in Fds, m \in MsgIds : e.conn[x].link = k /\ e.conn[x].msgid = m => x # z)
    BY <1>14, FdsAssumption DEF NoConn, None
  <1>16. QuietOf(f)
    BY <1>1, <1>4, <1>15 DEF Flows, QuietOf, Starts
  <1>17. PacedOf(f)
    BY <1>1, <1>4, <1>15 DEF Flows, PacedOf, Starts
  <1>18. ASSUME f.failed = None PROVE AwaitedOf(f)
    BY <1>1, <1>4, <1>15, <1>18 DEF Flows, AwaitedOf, Starts
  <1> QED BY <1>5, <1>6, <1>7, <1>8, <1>13, <1>16, <1>17, <1>18 DEF Good, Sound, Flows, Starts

\* f is e without the link l: its website, its messages and the connections
\* that used it are gone, and its listening socket has one website less.
Unlinks(e, f, l) ==
  /\ f \in States /\ f.failed = e.failed
  /\ \A x \in Fds : x \in f.asked <=> x \in e.asked /\ x # l
  /\ f.site[l] = NoSite /\ f.sock[l].kind = "free"
  /\ \A x \in Fds : x # l => f.site[x] = e.site[x]
  /\ \A x \in Fds, m \in MsgIds : f.msgs[x][m] = IF x = l THEN NoMsg ELSE e.msgs[x][m]
  /\ \A x \in Fds : IF e.conn[x].link = l
                    THEN /\ f.conn[x] = NoConn /\ f.sock[x].kind \in {"free", "client"}
                         /\ f.sock[x].kind = "client" => f.sock[x].closing /\ f.sock[x].busy
                            /\ ~f.sock[x].rd /\ ~f.sock[x].wr
                    ELSE /\ f.conn[x] = e.conn[x]
                         /\ x # l /\ x # e.site[l].listener => f.sock[x] = e.sock[x]
  /\ \A z \in Fds : z = e.site[l].listener =>
       IF e.sock[z].n_open > 1 THEN f.sock[z].kind = "listen"
           /\ f.sock[z].n_open = e.sock[z].n_open - 1
       ELSE f.sock[z].kind = "free"

\* Removing a link keeps the invariant: the descriptors it frees are
\* referred to by nobody.
LEMMA UnlinkKeeps ==
  ASSUME NEW e \in States, Good(e), NEW f \in States, NEW l \in Fds, e.sock[l].kind = "link",
         Unlinks(e, f, l)
  PROVE  Good(f)
  <1>1. Sound(e) /\ Flows(e)
    BY DEF Good
  <1>2. \A x \in Fds : e.conn[x].link = l =>
          e.sock[x].kind = "client" /\ x # l /\ x # e.site[l].listener
    <2>1. \A x \in Fds : e.conn[x].link = l => e.conn[x] # NoConn
      BY FdsAssumption DEF NoConn
    <2>2. \A x \in Fds : e.conn[x].link = l => e.sock[x].kind = "client" /\ x # l
      BY <1>1, <2>1 DEF Sound, TableOf
    <2> QED BY <1>1, <2>2, FdsAssumption DEF Sound, SitesOf, NoSite
  <1>3. \A z \in Fds : z = e.site[l].listener =>
          e.sock[z].kind = "listen" /\ e.site[l] # NoSite /\ z # l
    BY <1>1, FdsAssumption DEF Sound, SitesOf, NoSite
  <1>4. TableOf(f)
    BY <1>1, <1>2, <1>3 DEF Sound, TableOf, Unlinks
  <1>5. StagedOf(f)
    BY <1>1 DEF Sound, StagedOf, Unlinks, NoConn, None
  <1>6. RoutedOf(f)
    <2>1. ASSUME NEW x \in Fds, NEW k \in Fds, NEW m \in MsgIds
          PROVE  f.conn[x].link = k /\ f.conn[x].msgid = m <=> Live(f, k, m)
              /\ f.msgs[k][m].type = x
      <3>1. e.conn[x].link = k /\ e.conn[x].msgid = m <=> Live(e, k, m) /\ e.msgs[k][m].type = x
        BY <1>1 DEF Sound, RoutedOf
      <3>2. CASE k = l
        BY <3>2, FdsAssumption DEF Unlinks, Live, NoConn
      <3>3. CASE k # l
        BY <3>1, <3>3, FdsAssumption DEF Unlinks, Live, NoConn
      <3> QED BY <3>2, <3>3
    <2> QED BY <2>1 DEF RoutedOf
  <1>7. \A x \in Fds : e.sock[x].kind = "link" /\ x # l => f.sock[x] = e.sock[x]
    BY <1>2, <1>3 DEF Unlinks
  <1>8. LinkedOf(f)
    <2>1. \A x \in Fds, m \in MsgIds : f.msgs[x][m] # NoMsg =>
            x # l /\ f.msgs[x][m] = e.msgs[x][m]
      BY DEF Unlinks
    <2>2. \A x \in Fds, m \in MsgIds : f.msgs[x][m] # NoMsg =>
            f.sock[x].kind = "link" /\ (f.msgs[x][m].closed <=> f.msgs[x][m].type = NoFd)
      BY <1>1, <1>7, <2>1 DEF Sound, LinkedOf
    <2>3. ASSUME NEW x \in Fds, f.conn[x].link \in Fds PROVE f.site[f.conn[x].link] # NoSite
      <3>1. f.conn[x] = e.conn[x] /\ e.conn[x].link # l
        BY <2>3, FdsAssumption DEF Unlinks, NoConn
      <3> QED BY <1>1, <2>3, <3>1 DEF Sound, LinkedOf, Unlinks
    <2> QED BY <2>2, <2>3 DEF LinkedOf
  <1>9. AskedOf(f)
    BY <1>1, <1>7, Typed DEF Sound, AskedOf, CommandAt, Unlinks
  <1>10. ASSUME NEW y \in Fds, f.sock[y].kind = "listen"
         PROVE  f.sock[y].n_open = Cardinality(Hosted(f, y))
    <2>1. CASE y # e.site[l].listener
      <3>1. Hosted(f, y) = Hosted(e, y)
        <4>1. \A x \in Fds : f.site[x].listener = y <=> e.site[x].listener = y
          BY <2>1, FdsAssumption DEF Unlinks, NoSite
        <4> QED BY <4>1 DEF Hosted
      <3>2. f.sock[y] = e.sock[y]
        BY <1>10, <2>1 DEF Unlinks
      <3> QED BY <1>1, <1>10, <3>1, <3>2 DEF Sound, SitesOf, Hosted
    <2>2. CASE y = e.site[l].listener
      <3>1. Hosted(f, y) = Hosted(e, y) \ {l} /\ l \in Hosted(e, y)
        <4>1. f.site[l].listener = NoFd /\ y # NoFd /\ \A x \in Fds : x # l =>
                f.site[x] = e.site[x]
          BY FdsAssumption DEF Unlinks, NoSite
        <4>2. \A x \in Fds : f.site[x].listener = y <=> e.site[x].listener = y /\ x # l
          BY <4>1
        <4> QED BY <2>2, <4>2 DEF Hosted
      <3>2. IsFiniteSet(Hosted(e, y))
        BY FdsAssumption, FS_Subset DEF Hosted
      <3>3. Cardinality(Hosted(f, y)) = Cardinality(Hosted(e, y)) - 1
        BY <3>1, <3>2, FS_RemoveElement
      <3>4. e.sock[y].n_open = Cardinality(Hosted(e, y))
        BY <1>1, <1>3, <2>2 DEF Sound, SitesOf, Hosted
      <3> QED BY <1>10, <2>2, <3>3, <3>4 DEF Unlinks
    <2> QED BY <2>1, <2>2
  <1>11. ASSUME NEW x \in Fds, f.site[x] # NoSite
         PROVE  f.site[x].url \in Urls /\ f.sock[x].kind = "link" /\ f.site[x].listener \in Fds
             /\ f.sock[f.site[x].listener].kind = "listen"
    <2>1. x # l /\ f.site[x] = e.site[x]
      BY <1>11 DEF Unlinks
    <2>2. PICK z \in Fds : z = e.site[x].listener
      BY <1>1, <1>11, <2>1 DEF Sound, SitesOf
    <2>3. e.site[x].url \in Urls /\ e.sock[x].kind = "link" /\ e.sock[z].kind = "listen"
      BY <1>1, <1>11, <2>1, <2>2 DEF Sound, SitesOf
    <2>4. f.sock[z].kind = "listen"
      <3>1. CASE z # e.site[l].listener
        BY <1>2, <2>3, <3>1 DEF Unlinks
      <3>2. CASE z = e.site[l].listener
        <4>1. IsFiniteSet(Hosted(e, z)) /\ x \in Hosted(e, z) /\ l \in Hosted(e, z)
          BY FdsAssumption, FS_Subset, <2>2, <3>2 DEF Hosted
        <4>2. Cardinality(Hosted(e, z) \ {l}) = Cardinality(Hosted(e, z)) - 1
                /\ IsFiniteSet(Hosted(e, z) \ {l})
          BY <4>1, FS_RemoveElement
        <4>3. Cardinality(Hosted(e, z) \ {l}) # 0
          BY <2>1, <4>1, <4>2, FS_EmptySet
        <4>4. Cardinality(Hosted(e, z)) \in Nat /\ Cardinality(Hosted(e, z) \ {l}) \in Nat
          BY <4>1, <4>2, FS_CardinalityType
        <4>5. e.sock[z].n_open = Cardinality(Hosted(e, z))
          BY <1>1, <2>3 DEF Sound, SitesOf, Hosted
        <4>6. e.sock[z].n_open > 1
          BY <4>2, <4>3, <4>4, <4>5
        <4> QED BY <3>2, <4>6 DEF Unlinks
      <3> QED BY <3>1, <3>2
    <2> QED BY <1>7, <2>1, <2>2, <2>3, <2>4
  <1>12. \A x, y \in Fds : f.site[x] # NoSite /\ f.site[x].url = f.site[y].url => x = y
    BY <1>1, UrlsAssumption DEF Sound, SitesOf, Unlinks, NoSite
  <1>13. SitesOf(f)
    BY <1>10, <1>11, <1>12 DEF SitesOf, Hosted
  <1>14. \A x \in Fds : e.conn[x] # NoConn /\ e.conn[x].link # l =>
           f.conn[x] = e.conn[x] /\ f.sock[x] = e.sock[x]
    BY <1>1, <1>3 DEF Sound, TableOf, Unlinks
  <1>15. \A x \in Fds : /\ f.conn[x].stage = "head" => e.conn[x] # NoConn /\ e.conn[x].link # l
                        /\ \A k \in Fds, m \in MsgIds : f.conn[x].link = k
                           /\ f.conn[x].msgid = m => e.conn[x] # NoConn /\ e.conn[x].link # l
    BY FdsAssumption DEF Unlinks, NoConn, None
  <1>16. QuietOf(f)
    <2>1. \A x \in Fds : f.sock[x].kind = "client" /\ f.sock[x].closing =>
            f.sock[x].busy /\ ~f.sock[x].rd /\ ~f.sock[x].wr
      BY <1>1, <1>3 DEF Flows, QuietOf, Unlinks
    <2>2. \A x \in Fds : f.conn[x].stage = "head" => ~f.sock[x].wr
      BY <1>1, <1>14, <1>15 DEF Flows, QuietOf
    <2>3. \A x \in Fds, m \in MsgIds : f.msgs[x][m] # NoMsg => f.msgs[x][m] = e.msgs[x][m]
      BY DEF Unlinks
    <2> QED BY <1>1, <2>1, <2>2, <2>3 DEF Flows, QuietOf
  <1>17. \A x, k \in Fds, m \in MsgIds : f.conn[x].link = k /\ f.conn[x].msgid = m =>
           f.conn[x] = e.conn[x] /\ f.sock[x] = e.sock[x] /\ f.msgs[k][m] = e.msgs[k][m]
    <2>1. \A x, k \in Fds, m \in MsgIds : f.conn[x].link = k /\ f.conn[x].msgid = m =>
            f.conn[x] = e.conn[x] /\ f.sock[x] = e.sock[x] /\ k # l
      BY <1>14, <1>15
    <2> QED BY <2>1 DEF Unlinks
  <1>18. PacedOf(f)
    BY <1>1, <1>17 DEF Flows, PacedOf
  <1>19. ASSUME f.failed = None PROVE AwaitedOf(f)
    <2>1. AwaitedOf(e)
      BY <1>1, <1>19 DEF Flows, Unlinks
    <2>2. \A x \in Fds : f.conn[x].stage = "head" => f.sock[x].rd
      BY <1>14, <1>15, <2>1 DEF AwaitedOf
    <2> QED BY <1>17, <2>1, <2>2 DEF AwaitedOf
  <1> QED BY <1>4, <1>5, <1>6, <1>8, <1>9, <1>13, <1>16, <1>18, <1>19 DEF Good, Sound, Flows,
              Unlinks

\* Closing the link of an application without a website unlinks it.
LEMMA CloseLinkUnlinks ==
  ASSUME NEW e \in States, Good(e), NEW l \in Fds, e.sock[l].kind = "link", e.site[l] = NoSite
  PROVE  CloseLink(e, l) \in States /\ Unlinks(e, CloseLink(e, l), l)
  <1> DEFINE none == [m \in MsgIds |-> NoMsg]
             f == [e EXCEPT !.msgs[l] = none, !.sock[l] = Free, !.asked = e.asked \ {l}]
  <1>1. Sound(e)
    BY DEF Good
  <1>2. /\ CloseLink(e, l) = f
        /\ none \in [MsgIds -> Msgs] /\ Free \in Socks /\ Free.kind = "free"
    BY DEF CloseLink, Msgs, Socks, Free
  <1>3. /\ e.sock \in [Fds -> Socks] /\ e.msgs \in [Fds -> [MsgIds -> Msgs]]
           /\ e.asked \subseteq Fds
    BY DEF States
  <1> HIDE DEF none
  <1>4. /\ f \in States /\ f.failed = e.failed /\ f.site = e.site /\ f.conn = e.conn
        /\ f.asked = e.asked \ {l} /\ f.sock = [e.sock EXCEPT ![l] = Free]
           /\ f.msgs = [e.msgs EXCEPT ![l] = none]
    BY <1>2, <1>3 DEF States
  <1> HIDE DEF f
  <1>5. /\ \A x \in Fds : f.sock[x] = IF x = l THEN Free ELSE e.sock[x]
        /\ \A x \in Fds, m \in MsgIds : f.msgs[x][m] = IF x = l THEN NoMsg ELSE e.msgs[x][m]
    BY <1>3, <1>4 DEF none
  <1>6. \A x \in Fds : e.conn[x].link # l /\ x # e.site[l].listener
    BY <1>1, FdsAssumption DEF Sound, LinkedOf, NoSite
  <1>7. Unlinks(e, f, l)
    BY <1>2, <1>4, <1>5, <1>6 DEF Unlinks
  <1> QED BY <1>2, <1>4, <1>7

\* remove_website unlinks the application.
LEMMA RemoveUnlinks ==
  ASSUME NEW e \in States, Good(e), NEW l \in Fds, e.sock[l].kind = "link", e.site[l] # NoSite
  PROVE  remove_website(e, l) \in States /\ Unlinks(e, remove_website(e, l), l)
  <1>1. Sound(e)
    BY DEF Good
  <1>2. PICK z \in Fds : z = e.site[l].listener
    BY <1>1 DEF Sound, SitesOf
  <1>3. e.sock[z].kind = "listen" /\ z # l
    BY <1>1, <1>2 DEF Sound, SitesOf
  <1> DEFINE mine == {fd \in Fds : e.conn[fd].link = l}
             none == [m \in MsgIds |-> NoMsg]
             socks == [fd \in Fds |-> IF fd \in mine THEN ClosedClient(e.sock[fd])
                       ELSE e.sock[fd]]
             conns == [fd \in Fds |-> IF fd \in mine THEN NoConn ELSE e.conn[fd]]
             t == ClosedListener(e.sock[z])
             cleaned == [e EXCEPT !.sock = socks, !.conn = conns]
             unlinked == [cleaned EXCEPT !.msgs[l] = none, !.sock[l] = Free, !.asked = @ \ {l}]
             f == [unlinked EXCEPT !.sock[z] = t, !.site[l] = NoSite]
  <1>4. /\ e.sock \in [Fds -> Socks] /\ e.msgs \in [Fds -> [MsgIds -> Msgs]]
           /\ e.asked \subseteq Fds
        /\ e.conn \in [Fds -> Conns] /\ e.site \in [Fds -> Sites]
    BY DEF States
  <1>5. \A x \in Fds : x \in mine => e.sock[x] \in ClientSocks /\ x # l /\ x # z
    <2>1. \A x \in Fds : e.conn[x].link = l => e.conn[x] # NoConn
      BY FdsAssumption DEF NoConn
    <2>2. \A x \in Fds : e.conn[x].link = l => e.sock[x].kind = "client"
      BY <1>1, <2>1 DEF Sound, TableOf
    <2> QED BY <1>3, <2>2, SockKinds, Typed
  <1>6. \A x \in Fds : x \in mine =>
          /\ ClosedClient(e.sock[x]) \in Socks /\ ClosedClient(e.sock[x]).kind \in {"free",
             "client"}
          /\ ClosedClient(e.sock[x]).kind = "client" =>
               /\ ClosedClient(e.sock[x]).closing /\ ClosedClient(e.sock[x]).busy
               /\ ~ClosedClient(e.sock[x]).rd /\ ~ClosedClient(e.sock[x]).wr
    BY <1>5, ClosedSocket DEF Socks, Free
  <1>7. /\ t \in Socks
        /\ IF e.sock[z].n_open > 1 THEN t.kind = "listen" /\ t.n_open = e.sock[z].n_open - 1
           ELSE t.kind = "free"
    <2>1. PICK s \in ListenSocks : s = e.sock[z]
      BY <1>3, SockKinds, Typed
    <2> QED BY <2>1 DEF ClosedListener, ListenSocks, Socks, Free
  <1>8. remove_website(e, l) = f
    <2>1. cleaned.sock = socks /\ unlinked.sock = [socks EXCEPT ![l] = Free]
            /\ unlinked.sock[z] = e.sock[z]
      BY <1>2, <1>3, <1>4, <1>5 DEF States
    <2> QED BY <1>2, <2>1 DEF remove_website, CloseLink
  <1>9. none \in [MsgIds -> Msgs] /\ Free \in Socks /\ Free.kind = "free" /\ NoConn \in Conns
          /\ NoSite \in Sites
    BY DEF Msgs, Socks, Free, NoConn, Conns, NoSite, Sites
  <1>10. socks \in [Fds -> Socks] /\ conns \in [Fds -> Conns]
    BY <1>4, <1>6, <1>9
  <1>11. \A x \in Fds : IF e.conn[x].link = l THEN socks[x] = ClosedClient(e.sock[x])
           /\ conns[x] = NoConn ELSE socks[x] = e.sock[x] /\ conns[x] = e.conn[x]
    OBVIOUS
  <1> HIDE DEF none, socks, conns, t, mine
  <1>12. /\ f \in States /\ f.failed = e.failed /\ f.conn = conns /\ f.asked = e.asked \ {l}
         /\ f.msgs = [e.msgs EXCEPT ![l] = none] /\ f.site = [e.site EXCEPT ![l] = NoSite]
         /\ f.sock = [[socks EXCEPT ![l] = Free] EXCEPT ![z] = t]
    BY <1>4, <1>7, <1>9, <1>10 DEF States
  <1> HIDE DEF f
  <1>13. /\ \A x \in Fds : f.sock[x] = IF x = z THEN t ELSE IF x = l THEN Free ELSE socks[x]
         /\ \A x \in Fds, m \in MsgIds : f.msgs[x][m] = IF x = l THEN NoMsg ELSE e.msgs[x][m]
         /\ \A x \in Fds : f.site[x] = IF x = l THEN NoSite ELSE e.site[x]
    BY <1>4, <1>10, <1>12 DEF none
  <1>14. ASSUME NEW x \in Fds
         PROVE  IF e.conn[x].link = l
                    THEN /\ f.conn[x] = NoConn /\ f.sock[x].kind \in {"free", "client"}
                         /\ f.sock[x].kind = "client" => f.sock[x].closing /\ f.sock[x].busy
                            /\ ~f.sock[x].rd /\ ~f.sock[x].wr
                    ELSE /\ f.conn[x] = e.conn[x]
                         /\ x # l /\ x # e.site[l].listener => f.sock[x] = e.sock[x]
    <2>1. CASE e.conn[x].link = l
      <3>1. x \in mine
        BY <2>1 DEF mine
      <3>2. f.conn[x] = NoConn /\ f.sock[x] = ClosedClient(e.sock[x])
        BY <1>5, <1>11, <1>12, <1>13, <2>1, <3>1
      <3> QED BY <1>6, <2>1, <3>1, <3>2
    <2>2. CASE e.conn[x].link # l
      BY <1>2, <1>11, <1>12, <1>13, <2>2
    <2> QED BY <2>1, <2>2
  <1>15. Unlinks(e, f, l)
    <2>1. /\ f.site[l] = NoSite /\ f.sock[l].kind = "free"
          /\ \A x \in Fds : x \in f.asked <=> x \in e.asked /\ x # l
          /\ \A x \in Fds : x # l => f.site[x] = e.site[x]
      BY <1>3, <1>9, <1>12, <1>13
    <2>2. \A y \in Fds : y = e.site[l].listener =>
            IF e.sock[y].n_open > 1 THEN f.sock[y].kind = "listen"
                /\ f.sock[y].n_open = e.sock[y].n_open - 1
            ELSE f.sock[y].kind = "free"
      BY <1>2, <1>7, <1>13
    <2> QED BY <1>12, <1>13, <1>14, <2>1, <2>2 DEF Unlinks
  <1> QED BY <1>8, <1>12, <1>15

\* LinkFails keeps the invariant.
LEMMA LinkFailsKeeps ==
  ASSUME Good(d), NEW l \in Fds, LinkFails(l)
  PROVE  Good(d')
  <1>1. d \in States /\ d.sock[l].kind = "link"
    BY DEF Good, LinkFails, Links
  <1>2. CASE d.site[l] = NoSite
    <2>1. d' = CloseLink(d, l)
      BY <1>2 DEF LinkFails, Handle
    <2> QED BY <1>1, <1>2, <2>1, CloseLinkUnlinks, UnlinkKeeps
  <1>3. CASE d.site[l] # NoSite
    <2>1. d' = remove_website(d, l)
      BY <1>3 DEF LinkFails, Handle
    <2> QED BY <1>1, <1>3, <2>1, RemoveUnlinks, UnlinkKeeps
  <1> QED BY <1>2, <1>3

\* get_avail_msgid returns a msgid that is free.
LEMMA AvailIdFree ==
  ASSUME NEW e, NEW l, FreeIds(e, l) # {}
  PROVE  AvailId(e, l) \in FreeIds(e, l)
  <1>1. FreeIds(e, l) \in SUBSET Nat
    BY MsgIdsAssumption DEF FreeIds
  <1>2. \E m \in FreeIds(e, l) : \A n \in FreeIds(e, l) : m <= n
    BY <1>1, Least
  <1> QED BY <1>2 DEF AvailId

\* Answering a command closes its message; the link has none left.
LEMMA AnswerKeeps ==
  ASSUME NEW e \in States, Good(e), e.failed = None, NEW f \in States, NEW l \in Fds,
         NEW m \in MsgIds, CommandAt(e, l, m), NEW w, Message(e, f, l, m, w), ClosedOf(w)
  PROVE  Good(f) /\ f.site[l] = NoSite /\ l \in f.asked /\ \A n \in MsgIds : ~CommandAt(f, l, n)
  <1>1. Sound(e) /\ Flows(e) /\ e.msgs[l][m] # NoMsg /\ e.msgs[l][m].type = Command
    BY DEF Good, CommandAt
  <1>2. /\ f.failed = None /\ f.conn = e.conn /\ f.site = e.site /\ f.asked = e.asked
           /\ f.sock = e.sock
        /\ f.msgs[l][m] = w /\ \A x \in Fds, n \in MsgIds : x # l \/ n # m =>
             f.msgs[x][n] = e.msgs[x][n]
    BY DEF Message
  <1>3. TableOf(f) /\ StagedOf(f) /\ SitesOf(f)
    BY <1>1, <1>2 DEF Sound, TableOf, StagedOf, SitesOf
  <1>4. ~Live(e, l, m) /\ ~Live(f, l, m) /\ \A x \in Fds, n \in MsgIds : x # l \/ n # m =>
          (Live(f, x, n) <=> Live(e, x, n))
    BY <1>1, <1>2 DEF Live, ClosedOf
  <1>5. RoutedOf(f)
    BY <1>1, <1>2, <1>4 DEF Sound, RoutedOf
  <1>6. LinkedOf(f)
    BY <1>1, <1>2 DEF Sound, LinkedOf, ClosedOf
  <1>7. \A x \in Fds, n \in MsgIds : CommandAt(f, x, n) =>
          CommandAt(e, x, n) /\ (x # l \/ n # m)
    BY <1>2, FdsAssumption DEF CommandAt, ClosedOf
  <1>8. AskedOf(f)
    BY <1>1, <1>2, <1>7 DEF Sound, AskedOf
  <1>9. QuietOf(f)
    BY <1>1, <1>2, FdsAssumption, NBuffAssumption DEF Flows, QuietOf, ClosedOf
  <1>10. \A fd, x \in Fds, n \in MsgIds : e.conn[fd].link = x /\ e.conn[fd].msgid = n =>
           f.msgs[x][n] = e.msgs[x][n]
    BY <1>1, <1>2, <1>4 DEF Sound, RoutedOf
  <1>11. PacedOf(f) /\ AwaitedOf(f)
    BY <1>1, <1>2, <1>10 DEF Flows, PacedOf, AwaitedOf
  <1>12. f.site[l] = NoSite /\ l \in f.asked /\ \A n \in MsgIds : ~CommandAt(f, l, n)
    BY <1>1, <1>2, <1>7 DEF Sound, AskedOf
  <1> QED BY <1>2, <1>3, <1>5, <1>6, <1>8, <1>9, <1>11, <1>12 DEF Good, Sound, Flows, None

\* command_handler keeps the invariant, whether it registers the website or
\* refuses it.
LEMMA CommandKeeps ==
  ASSUME Good(d), d.failed = None, NEW l \in Fds, NEW m \in MsgIds, CommandAt(d, l, m), NEW g,
         NEW v, Message(d, g, l, m, v), Differ(d.msgs[l][m], v, {"rd", "inq"}),
         NEW new \in NewFds(d) \cup {NoFd}
  PROVE  Good(command_handler(g, l, m, new))
  <1>1. d \in States /\ g \in States /\ v.url \in Urls /\ ~v.gone /\ g.msgs[l][m] = v
          /\ v \in FullMsgs
    BY DEF Good, Message, Flows, QuietOf, CommandAt, Differ
  <1> DEFINE w == ClosedMsg(v)
             h == [g EXCEPT !.msgs[l][m] = w]
             url == v.url
             site == [url |-> url, listener |-> IF Listeners(g) = {} THEN new
                      ELSE CHOOSE fd \in Listeners(g) : TRUE]
             z == IF Listeners(g) = {} THEN new ELSE CHOOSE fd \in Listeners(g) : TRUE
             t == IF z = new THEN NewListener ELSE [g.sock[z] EXCEPT !.n_open = @ + 1]
             f == [h EXCEPT !.sock[z] = t, !.site[l] = [url |-> url, listener |-> z]]
  <1>2. w \in Msgs /\ ClosedOf(w)
    BY <1>1, FdsAssumption DEF ClosedMsg, NewMsg, Msgs, FullMsgs, ClosedOf
  <1> HIDE DEF w
  <1>3. Message(g, h, l, m, w)
    BY <1>1, <1>2, SetMessage
  <1> HIDE DEF h
  <1>4. Message(d, h, l, m, w) /\ h \in States
    BY <1>3 DEF Message
  <1>5. /\ Good(h) /\ h.site[l] = NoSite /\ l \in h.asked /\ \A n \in MsgIds :
           ~CommandAt(h, l, n)
    BY <1>1, <1>2, <1>4, AnswerKeeps
  <1>6. h.sock = g.sock /\ h.site = g.site /\ g.sock = d.sock
    BY <1>3 DEF Message
  <1>7. CASE website_get_by_full_url(g, url) # {} \/ (Listeners(g) = {} /\ new = NoFd)
    <2>1. start_website(g, l, url, new) = g
      BY <1>7 DEF start_website
    <2>2. command_handler(g, l, m, new) = h
      BY <1>1, <2>1 DEF command_handler, h, w
    <2> QED BY <1>5, <2>2
  <1>8. CASE ~(website_get_by_full_url(g, url) # {} \/ (Listeners(g) = {} /\ new = NoFd))
    <2>1. start_website(g, l, url, new) = [g EXCEPT !.sock[z] = t,
                                           !.site[l] = [url |-> url, listener |-> z]]
      BY <1>8 DEF start_website
    <2>2. \A x \in Fds : h.site[x].url # url
      BY <1>6, <1>8 DEF website_get_by_full_url
    <2>3. /\ z \in Fds
          /\ \/ z = new /\ g.sock[z].kind = "free"
             \/ z # new /\ g.sock[z].kind = "listen"
      <3>1. CASE Listeners(g) = {}
        BY <1>6, <1>8, <3>1 DEF NewFds, FreeFds
      <3>2. CASE Listeners(g) # {}
        <4>1. z \in Listeners(g)
          BY <3>2
        <4> QED BY <1>6, <4>1, FdsAssumption DEF NewFds, FreeFds, Listeners
      <3> QED BY <3>1, <3>2
    <2> HIDE DEF z
    <2>4. /\ t \in Socks /\ t.kind = "listen"
          /\ \/ g.sock[z].kind = "free" /\ t.n_open = 1
             \/ g.sock[z].kind = "listen" /\ t.n_open = g.sock[z].n_open + 1
      <3>1. CASE z = new /\ g.sock[z].kind = "free"
        BY <3>1 DEF NewListener, Socks, ListenSocks
      <3>2. CASE z # new /\ g.sock[z].kind = "listen"
        <4>1. PICK s \in ListenSocks : s = g.sock[z]
          BY <1>1, <2>3, <3>2, SockKinds, Typed
        <4>2. t = [s EXCEPT !.n_open = s.n_open + 1]
          BY <3>2, <4>1
        <4>3. [s EXCEPT !.n_open = s.n_open + 1] \in ListenSocks
                /\ [s EXCEPT !.n_open = s.n_open + 1].n_open = s.n_open + 1
          BY DEF ListenSocks
        <4> QED BY <3>2, <4>1, <4>2, <4>3 DEF Socks, ListenSocks
      <3> QED BY <2>3, <3>1, <3>2
    <2> HIDE DEF t
    <2>5. command_handler(g, l, m, new) = f
      BY <1>1, <2>1 DEF command_handler, h, w, States
    <2>6. [url |-> url, listener |-> z] \in Sites
      BY <1>1, <2>3 DEF Sites
    <2>7. /\ h.sock \in [Fds -> Socks] /\ h.site \in [Fds -> Sites]
      BY <1>4 DEF States
    <2>8. /\ f \in States /\ f.conn = h.conn /\ f.asked = h.asked /\ f.msgs = h.msgs
             /\ f.failed = h.failed
          /\ f.sock = [h.sock EXCEPT ![z] = t]
             /\ f.site = [h.site EXCEPT ![l] = [url |-> url, listener |-> z]]
      BY <1>4, <2>3, <2>4, <2>6, <2>7 DEF States
    <2> HIDE DEF f
    <2>9. Starts(h, f, l, url, z)
      BY <1>6, <2>3, <2>4, <2>7, <2>8 DEF Starts
    <2>10. Good(f)
      BY <1>1, <1>4, <1>5, <2>2, <2>3, <2>8, <2>9, StartKeeps
    <2> QED BY <2>5, <2>10
  <1> QED BY <1>7, <1>8

\* MsgRead keeps the invariant, for the end of a response, a command and a
\* part of a response.
LEMMA MsgReadKeeps ==
  ASSUME Good(d), NEW l \in Fds, NEW m \in MsgIds, MsgRead(l, m)
  PROVE  Good(d')
  <1> DEFINE g(k) == [[d EXCEPT !.msgs[l][m].rd = FALSE] EXCEPT !.msgs[l][m].inq = @ - k]
  <1>1. d \in States /\ d.failed = None /\ Sound(d) /\ Flows(d) /\ d.msgs[l][m] # NoMsg
          /\ d.msgs[l][m].rd
    BY DEF MsgRead, Good, Runs, Messages
  <1>2. ~d.msgs[l][m].closed /\ d.msgs[l][m].inq <= NBuff
    BY <1>1 DEF Flows, QuietOf
  <1>3. CASE /\ d.msgs[l][m].gone
             /\ d' = IF d.msgs[l][m].type = Command
                     THEN Fail([d EXCEPT !.msgs[l][m].rd = FALSE], "no connection")
                     ELSE cleanup_connection([d EXCEPT !.msgs[l][m].rd = FALSE],
                                             d.msgs[l][m].type)
    <2>1. d.msgs[l][m].type # Command
      BY <1>1, <1>3 DEF Flows, QuietOf
    <2>2. d' = cleanup_connection([d EXCEPT !.msgs[l][m].rd = FALSE], d.msgs[l][m].type)
      BY <1>3, <2>1
    <2>3. Live(d, l, m)
      BY <1>1, <1>2, <2>1 DEF Live
    <2> QED BY <1>1, <2>2, <2>3, MsgEndKeeps
  <1>4. CASE d.msgs[l][m].type = Command /\ \E k \in 1 .. d.msgs[l][m].inq,
          new \in NewFds(d) \cup {NoFd} : d' = command_handler(g(k), l, m, new)
    <2>1. PICK k \in 1 .. d.msgs[l][m].inq, new \in NewFds(d) \cup {NoFd} :
            d' = command_handler(g(k), l, m, new)
      BY <1>4
    <2>2. PICK w \in FullMsgs : Message(d, g(k), l, m, w)
            /\ Differ(d.msgs[l][m], w, {"rd", "inq"})
      BY <1>1, Taken
    <2>3. CommandAt(d, l, m)
      BY <1>1, <1>4 DEF CommandAt
    <2> HIDE DEF g
    <2> QED BY <1>1, <2>1, <2>2, <2>3, CommandKeeps
  <1>5. CASE d.msgs[l][m].type # Command /\ \E k \in 1 .. d.msgs[l][m].inq :
          d' = Response(g(k), d.msgs[l][m].type)
    <2>1. PICK k \in 1 .. d.msgs[l][m].inq : d' = Response(g(k), d.msgs[l][m].type)
      BY <1>5
    <2>2. PICK w \in FullMsgs : Message(d, g(k), l, m, w)
            /\ Differ(d.msgs[l][m], w, {"rd", "inq"}) /\ ~w.rd /\ w.inq <= d.msgs[l][m].inq
      BY <1>1, Taken
    <2>3. Live(d, l, m)
      BY <1>1, <1>2, <1>5 DEF Live
    <2>4. w.inq <= NBuff
      BY <1>2, <2>2, NBuffAssumption DEF FullMsgs, Differ
    <2>5. PICK fd \in Fds : d.msgs[l][m].type = fd /\ d.conn[fd].link = l
            /\ d.conn[fd].msgid = m
      BY <1>1, <2>3, Owner
    <2> HIDE DEF g
    <2>6. d' = Response(g(k), fd)
      BY <2>1, <2>5
    <2> QED BY <1>1, <2>2, <2>4, <2>5, <2>6, ResponseKeeps
  <1> QED BY <1>3, <1>4, <1>5 DEF MsgRead, Handle

----------------------------------------------------------------------------
(* Routing a request. *)

\* f is e with the request of fd, complete or not, routed to the new message
\* m of the link l.
Routes(e, f, fd, l, m) ==
  /\ f \in States /\ f.site = e.site /\ f.asked = e.asked /\ f.failed = e.failed
  /\ e.msgs[l][m] = NoMsg /\ e.sock[l].kind = "link" /\ e.site[l] # NoSite
  /\ \A x \in Fds : x # fd => f.conn[x] = e.conn[x] /\ f.sock[x] = e.sock[x]
  /\ f.conn[fd].stage \in {"body", "done"} /\ f.conn[fd].link = l /\ f.conn[fd].msgid = m
     /\ f.conn[fd].listener \in Fds
  /\ f.sock[fd].kind = "client" /\ ~f.sock[fd].closing /\ f.sock[fd].wr
  /\ \A x \in Fds, n \in MsgIds : x # l \/ n # m => f.msgs[x][n] = e.msgs[x][n]
  /\ f.msgs[l][m] # NoMsg /\ f.msgs[l][m].type = fd /\ ~f.msgs[l][m].closed
     /\ f.msgs[l][m].accepted
  /\ f.msgs[l][m].inq = 0 /\ ~f.msgs[l][m].rd
  /\ f.conn[fd].stage = "body" => ~f.sock[fd].rd /\ f.msgs[l][m].wr

\* Routing a request to a free msgid keeps the invariant: no connection
\* refers to a message that is NULL.
LEMMA RouteKeeps ==
  ASSUME NEW e \in States, Good(e), NEW f \in States, NEW fd \in Fds, NEW l \in Fds,
         NEW m \in MsgIds, e.conn[fd].stage = "head", Routes(e, f, fd, l, m)
  PROVE  Good(f)
  <1>1. Sound(e) /\ Flows(e)
    BY DEF Good
  <1>2. /\ e.conn[fd] # NoConn /\ e.conn[fd].link = NoFd /\ e.conn[fd].msgid = NoId
        /\ e.sock[fd].kind = "client" /\ fd # l /\ f.conn[fd] # NoConn
    <2>1. e.conn[fd] # NoConn /\ e.conn[fd].link = NoFd /\ e.conn[fd].msgid = NoId
            /\ f.conn[fd] # NoConn
      BY <1>1 DEF Sound, StagedOf, NoConn, None, Routes
    <2> QED BY <1>1, <2>1 DEF Sound, TableOf, Routes
  <1>3. TableOf(f)
    BY <1>1, <1>2 DEF Sound, TableOf, Routes
  <1>4. StagedOf(f)
    BY <1>1, <1>2 DEF Sound, StagedOf, Routes, None
  <1>5. \A x \in Fds, n \in MsgIds : x # l \/ n # m => (Live(f, x, n) <=> Live(e, x, n))
    BY DEF Live, Routes
  <1>6. ~Live(e, l, m) /\ Live(f, l, m)
    BY FdsAssumption DEF Live, Routes
  <1>7. \A x, k \in Fds, n \in MsgIds : e.conn[x].link = k /\ e.conn[x].msgid = n =>
          x # fd /\ (k # l \/ n # m)
    BY <1>1, <1>2, <1>6, FdsAssumption DEF Sound, RoutedOf
  <1>8. RoutedOf(f)
    <2>1. ASSUME NEW x \in Fds, NEW k \in Fds, NEW n \in MsgIds
          PROVE  f.conn[x].link = k /\ f.conn[x].msgid = n <=> Live(f, k, n)
              /\ f.msgs[k][n].type = x
      <3>1. e.conn[x].link = k /\ e.conn[x].msgid = n <=> Live(e, k, n) /\ e.msgs[k][n].type = x
        BY <1>1 DEF Sound, RoutedOf
      <3>2. CASE k = l /\ n = m
        BY <1>6, <1>7, <3>2 DEF Routes
      <3>3. CASE k # l \/ n # m
        <4>1. CASE x = fd
          BY <1>2, <1>5, <3>1, <3>3, <4>1, FdsAssumption DEF Routes
        <4>2. CASE x # fd
          BY <1>5, <3>1, <3>3, <4>2 DEF Routes
        <4> QED BY <4>1, <4>2
      <3> QED BY <3>2, <3>3
    <2> QED BY <2>1 DEF RoutedOf
  <1>9. \A x \in Fds : (e.sock[x].kind \in {"link", "listen"}
                        \/ f.sock[x].kind \in {"link", "listen"}) => f.sock[x] = e.sock[x]
    BY <1>2 DEF Routes
  <1>10. LinkedOf(f)
    <2>1. \A x \in Fds, n \in MsgIds : f.msgs[x][n] # NoMsg =>
            f.sock[x].kind = "link" /\ (f.msgs[x][n].closed <=> f.msgs[x][n].type = NoFd)
      BY <1>1, <1>9, FdsAssumption DEF Sound, LinkedOf, Routes
    <2>2. \A x \in Fds : f.conn[x].link \in Fds => f.site[f.conn[x].link] # NoSite
      BY <1>1 DEF Sound, LinkedOf, Routes
    <2> QED BY <2>1, <2>2 DEF LinkedOf
  <1>11. \A x \in Fds, n \in MsgIds : CommandAt(f, x, n) => CommandAt(e, x, n)
    BY FdsAssumption DEF CommandAt, Routes
  <1>12. AskedOf(f)
    BY <1>1, <1>9, <1>11, Typed DEF Sound, AskedOf, Routes
  <1>13. SitesOf(f)
    <2>1. f.site = e.site
      BY DEF Routes
    <2> QED BY <1>1, <1>9, <2>1 DEF Sound, SitesOf
  <1>14. QuietOf(f)
    <2>1. \A x \in Fds : f.sock[x].kind = "client" /\ f.sock[x].closing =>
            f.sock[x].busy /\ ~f.sock[x].rd /\ ~f.sock[x].wr
      BY <1>1 DEF Flows, QuietOf, Routes
    <2>2. \A x \in Fds : f.conn[x].stage = "head" => ~f.sock[x].wr
      BY <1>1 DEF Flows, QuietOf, Routes
    <2>3. ASSUME NEW x \in Fds, NEW n \in MsgIds, f.msgs[x][n] # NoMsg
          PROVE  /\ f.msgs[x][n].inq <= NBuff
                 /\ f.msgs[x][n].closed => f.msgs[x][n].accepted /\ f.msgs[x][n].space
                    /\ ~f.msgs[x][n].rd /\ ~f.msgs[x][n].wr
                 /\ f.msgs[x][n].type = Command => f.msgs[x][n].url \in Urls
                    /\ f.msgs[x][n].space /\ ~f.msgs[x][n].gone /\ ~f.msgs[x][n].wr
                 /\ ~f.msgs[x][n].accepted => f.msgs[x][n].type = Command
      <3>1. CASE x = l /\ n = m
        BY <3>1, FdsAssumption, NBuffAssumption DEF Routes
      <3>2. CASE x # l \/ n # m
        <4>1. f.msgs[x][n] = e.msgs[x][n]
          BY <3>2 DEF Routes
        <4> QED BY <1>1, <2>3, <4>1 DEF Flows, QuietOf
      <3> QED BY <3>1, <3>2
    <2> QED BY <2>1, <2>2, <2>3 DEF QuietOf
  <1>15. ASSUME NEW x \in Fds, x # fd, NEW k \in Fds, NEW n \in MsgIds, f.conn[x].link = k,
           f.conn[x].msgid = n
         PROVE  f.conn[x] = e.conn[x] /\ f.sock[x] = e.sock[x] /\ f.msgs[k][n] = e.msgs[k][n]
    BY <1>7, <1>15 DEF Routes
  <1>16. PacedOf(f)
    <2>1. ASSUME NEW x \in Fds, NEW k \in Fds, NEW n \in MsgIds, f.conn[x].link = k,
            f.conn[x].msgid = n
          PROVE  /\ f.msgs[k][n].rd => ~f.sock[x].busy
                 /\ f.conn[x].stage = "body" /\ f.sock[x].rd =>
                      f.msgs[k][n].space \/ f.msgs[k][n].gone
      <3>1. CASE x = fd
        BY <2>1, <3>1 DEF Routes
      <3>2. CASE x # fd
        <4>1. f.conn[x] = e.conn[x] /\ f.sock[x] = e.sock[x] /\ f.msgs[k][n] = e.msgs[k][n]
          BY <1>15, <2>1, <3>2
        <4> QED BY <1>1, <2>1, <4>1 DEF Flows, PacedOf
      <3> QED BY <3>1, <3>2
    <2> QED BY <2>1 DEF PacedOf
  <1>17. ASSUME f.failed = None PROVE AwaitedOf(f)
    <2>1. AwaitedOf(e)
      BY <1>1, <1>17 DEF Flows, Routes
    <2>2. \A x \in Fds : f.conn[x].stage = "head" => f.sock[x].rd
      BY <2>1 DEF AwaitedOf, Routes
    <2>3. ASSUME NEW x \in Fds, NEW k \in Fds, NEW n \in MsgIds, f.conn[x].link = k,
            f.conn[x].msgid = n
          PROVE  /\ f.conn[x].stage = "body" => f.sock[x].rd \/ f.msgs[k][n].wr
                 /\ f.sock[x].wr \/ f.msgs[k][n].rd
      <3>1. CASE x = fd
        BY <2>3, <3>1 DEF Routes
      <3>2. CASE x # fd
        <4>1. f.conn[x] = e.conn[x] /\ f.sock[x] = e.sock[x] /\ f.msgs[k][n] = e.msgs[k][n]
          BY <1>15, <2>3, <3>2
        <4> QED BY <2>1, <2>3, <4>1 DEF AwaitedOf
      <3> QED BY <3>1, <3>2
    <2> QED BY <2>2, <2>3 DEF AwaitedOf
  <1> QED BY <1>3, <1>4, <1>8, <1>10, <1>12, <1>13, <1>14, <1>16, <1>17 DEF Good, Sound, Flows,
              Routes

\* Reading a header keeps the invariant: the request is routed, refused with
\* an error page, or ends the process on a missing listening socket.
LEMMA RouteGood ==
  ASSUME Good(d), d.failed = None, NEW fd \in Fds, fd \in Clients(d), d.sock[fd].rd,
         d.conn[fd].stage = "head", NEW in \in Inputs, in.what \in {"badlength", "request"},
         IdsLeft
  PROVE  Good(Route(zs_clr_read(d, fd), fd, in))
  <1> DEFINE g == zs_clr_read(d, fd)
  <1>1. /\ d \in States /\ g \in States /\ d.conn[fd] # NoConn /\ Near(d, g, fd)
           /\ ~d.sock[fd].closing /\ Sound(d) /\ Flows(d)
        /\ Socket(d, g, fd, d.sock[fd].busy, d.sock[fd].bad, FALSE, d.sock[fd].wr, FALSE)
    BY ReadCleared DEF Socket
  <1> HIDE DEF g
  <1>2. /\ g.conn = d.conn /\ g.site = d.site /\ g.asked = d.asked /\ g.msgs = d.msgs
           /\ g.failed = d.failed
        /\ \A x \in Fds : x # fd => g.sock[x] = d.sock[x]
        /\ g.sock[fd].kind = "client" /\ ~g.sock[fd].rd /\ ~g.sock[fd].closing
        /\ d.conn[fd].link = NoFd /\ d.conn[fd].msgid = NoId /\ d.conn[fd].listener \in Fds
    BY <1>1 DEF Socket, Sound, StagedOf
  <1> DEFINE lisn == g.conn[fd].listener
             found == IF g.sock[lisn].kind = "listen"
                      THEN website_get_by_full_url(g, in.url)
                      ELSE {}
             l == CHOOSE x \in found : TRUE
             m == AvailId(g, l)
             opened == [g EXCEPT !.conn[fd].link = l, !.conn[fd].msgid = m,
                        !.msgs[l][m] = NewMsg(fd, NoUrl)]
             linked == [g EXCEPT !.conn[fd].link = l]
             armed == zs_set_write(opened, fd)
             f == RequestWritten(armed, fd, l, m, in)
  <1>3. \/ g.sock[lisn].kind = "free" /\ Route(g, fd, in) = Fail(g, "no listening socket")
        \/ Route(g, fd, in) = ErrorPage(g, fd)
        \/ found # {} /\ Route(g, fd, in) = ErrorPage(linked, fd)
        \/ found # {} /\ Route(g, fd, in) = ErrorPage(armed, fd)
        \/ found # {} /\ Route(g, fd, in) = f
    BY DEF Route
  <1>4. Good(Fail(g, "no listening socket"))
    <2> DEFINE h == Fail(g, "no listening socket")
    <2>1. h \in States /\ h.failed = "no listening socket" /\ h.sock = g.sock /\ h.conn = g.conn
            /\ h.site = g.site /\ h.asked = g.asked /\ h.msgs = g.msgs
      BY <1>1 DEF Fail, States
    <2> HIDE DEF h
    <2>2. SameShape(d, h)
      <3>1. \A x \in Fds : /\ h.sock[x].kind = d.sock[x].kind
                           /\ h.sock[x].kind = "client" => h.sock[x].closing = d.sock[x].closing
                           /\ h.sock[x].kind = "listen" => h.sock[x].n_open = d.sock[x].n_open
        <4>1. d.sock[fd].kind = "client" /\ d.sock[fd].closing = FALSE
          BY <1>1, Typed, SockKinds DEF Clients, ClientSocks
        <4>2. g.sock[fd].kind = "client" /\ g.sock[fd].closing = FALSE
          BY <1>1 DEF Socket
        <4>3. \A x \in Fds : x # fd => g.sock[x] = d.sock[x]
          BY <1>1 DEF Socket
        <4> QED BY <2>1, <4>1, <4>2, <4>3
      <3> QED BY <1>2, <2>1, <3>1 DEF SameShape
    <2>3. Sound(h)
      BY <1>1, <2>1, <2>2, ShapeKeeps
    <2>4. /\ h.conn = d.conn /\ h.msgs = d.msgs /\ \A x \in Fds : x # fd =>
               h.sock[x] = d.sock[x]
          /\ h.sock[fd].kind = "client" /\ ~h.sock[fd].closing /\ h.sock[fd].wr = d.sock[fd].wr
             /\ h.sock[fd].busy = d.sock[fd].busy /\ ~h.sock[fd].rd
      BY <1>1, <1>2, <2>1 DEF Socket
    <2>5. QuietOf(h)
      BY <1>1, <2>4 DEF Flows, QuietOf
    <2>6. PacedOf(h)
      BY <1>1, <2>4 DEF Flows, PacedOf
    <2> QED BY <2>1, <2>3, <2>5, <2>6 DEF Good, Flows, None, h
  <1>5. Good(ErrorPage(g, fd))
    BY <1>1, ErrorPageGood
  <1>6. ASSUME found # {}
        PROVE  /\ l \in Fds /\ m \in MsgIds /\ d.msgs[l][m] = NoMsg /\ d.sock[l].kind = "link"
                  /\ d.site[l] # NoSite /\ l # fd
    <2>1. l \in found
      BY <1>6
    <2> HIDE DEF l
    <2>2. l \in Fds /\ d.site[l].url = in.url
      BY <1>2, <2>1 DEF website_get_by_full_url
    <2>3. d.site[l] # NoSite
      BY <2>2, InputKinds, UrlsAssumption DEF NoSite
    <2>4. d.sock[l].kind = "link" /\ l # fd
      BY <1>1, <2>2, <2>3 DEF Sound, SitesOf, Clients
    <2>5. FreeIds(g, l) # {}
      BY <1>2, <2>2, <2>4 DEF IdsLeft, Links, FreeIds, Messages
    <2>6. m \in FreeIds(g, l)
      BY <2>5, AvailIdFree
    <2>7. m \in MsgIds /\ d.msgs[l][m] = NoMsg
      BY <1>2, <2>6 DEF FreeIds, Messages
    <2> QED BY <2>2, <2>3, <2>4, <2>7
  <1> HIDE DEF found, l, m
  <1>7. PICK c \in Conns : c = g.conn[fd]
    BY <1>1, Typed
  <1>8. ASSUME found # {}
        PROVE  Good(ErrorPage(linked, fd))
    <2> DEFINE b == [c EXCEPT !.link = l]
    <2>1. b \in Conns /\ b.stage = "head" /\ b.msgid = NoId
      BY <1>2, <1>6, <1>7, <1>8 DEF Conns
    <2>2. linked = [g EXCEPT !.conn[fd] = b]
      BY <1>7
    <2> HIDE DEF b
    <2>3. /\ linked \in States /\ linked.sock = g.sock /\ linked.site = g.site
             /\ linked.asked = g.asked /\ linked.msgs = g.msgs /\ linked.failed = g.failed
          /\ linked.conn[fd] = b /\ \A x \in Fds : x # fd => linked.conn[x] = g.conn[x]
      BY <1>1, <2>1, <2>2 DEF States
    <2>4. b # NoConn
      BY <2>1 DEF NoConn, None
    <2> HIDE DEF linked
    <2>5. Near(d, linked, fd)
      BY <1>2, <2>1, <2>3, <2>4, MsgIdsAssumption DEF Near, NoId
    <2> QED BY <1>1, <2>3, <2>5, ErrorPageGood
  <1>9. ASSUME found # {}
        PROVE  Good(ErrorPage(armed, fd)) /\ Good(f)
    <2> DEFINE b == [c EXCEPT !.link = l, !.msgid = m]
               v == NewMsg(fd, NoUrl)
               new == [g EXCEPT !.conn[fd] = b, !.msgs[l][m] = v]
    <2>1. l \in Fds /\ m \in MsgIds /\ d.msgs[l][m] = NoMsg /\ d.sock[l].kind = "link"
            /\ d.site[l] # NoSite /\ l # fd
      BY <1>6, <1>9
    <2>2. b \in Conns /\ b.stage = "head" /\ b.link = l /\ b.msgid = m
            /\ b.listener = c.listener
      BY <1>2, <1>7, <2>1 DEF Conns
    <2>3. v \in FullMsgs /\ v.type = fd /\ v.accepted /\ v.inq = 0 /\ ~v.closed /\ ~v.rd
      BY FdsAssumption DEF NewMsg, FullMsgs
    <2>4. v \in Msgs /\ v # NoMsg
      BY <2>3, FullMsg DEF Msgs
    <2>5. opened = new
      BY <1>1, <1>7 DEF States
    <2> HIDE DEF b, v
    <2>6. /\ g.conn \in [Fds -> Conns] /\ g.msgs \in [Fds -> [MsgIds -> Msgs]]
      BY <1>1 DEF States
    <2> HIDE DEF opened
    <2>7. /\ opened \in States /\ opened.sock = g.sock /\ opened.site = g.site
             /\ opened.asked = g.asked /\ opened.failed = g.failed
          /\ opened.conn = [g.conn EXCEPT ![fd] = b]
             /\ opened.msgs = [g.msgs EXCEPT ![l] = [g.msgs[l] EXCEPT ![m] = v]]
      <3>1. /\ new \in States /\ new.sock = g.sock /\ new.site = g.site /\ new.asked = g.asked
               /\ new.failed = g.failed
            /\ new.conn = [g.conn EXCEPT ![fd] = b]
               /\ new.msgs = [g.msgs EXCEPT ![l] = [g.msgs[l] EXCEPT ![m] = v]]
        BY <1>1, <2>1, <2>2, <2>4, <2>6 DEF States
      <3> QED BY <2>5, <3>1
    <2>8. /\ opened.conn[fd] = b /\ \A x \in Fds : x # fd => opened.conn[x] = g.conn[x]
          /\ opened.msgs[l][m] = v /\ \A x \in Fds, n \in MsgIds : x # l \/ n # m =>
               opened.msgs[x][n] = g.msgs[x][n]
      BY <2>1, <2>6, <2>7
    <2>9. b # NoConn
      BY <2>2 DEF NoConn, None
    <2>10. Near(d, opened, fd)
      <3>1. \A k \in Fds, n \in MsgIds : ~(d.conn[fd].link = k /\ d.conn[fd].msgid = n)
        BY <1>2, FdsAssumption
      <3> QED BY <1>2, <2>1, <2>2, <2>7, <2>8, <2>9, <3>1 DEF Near
    <2>11. Socket(opened, armed, fd, opened.sock[fd].busy, opened.sock[fd].bad,
                  opened.sock[fd].rd, TRUE, opened.sock[fd].closing)
      BY <1>2, <2>7, Flagged DEF Client
    <2> HIDE DEF armed
    <2>12. armed \in States
      BY <2>11 DEF Socket
    <2>13. Near(d, armed, fd)
      BY <1>1, <2>7, <2>10, <2>11, <2>12, NearSocket
    <2>14. Good(ErrorPage(armed, fd))
      BY <1>1, <2>12, <2>13, ErrorPageGood
    <2>15. /\ armed.site = d.site /\ armed.asked = d.asked /\ armed.failed = d.failed
              /\ armed.msgs = opened.msgs /\ armed.conn = opened.conn
           /\ \A x \in Fds : x # fd => armed.sock[x] = d.sock[x]
           /\ armed.sock[fd].kind = "client" /\ ~armed.sock[fd].rd /\ ~armed.sock[fd].closing
              /\ armed.sock[fd].wr = TRUE
      BY <1>2, <2>7, <2>11 DEF Socket
    <2>16. armed.msgs[l][m] = v /\ armed.conn[fd] = b
      BY <2>8, <2>15
    <2>17. Writes(armed, f, fd, l, m, in)
      BY <2>1, <2>4, <2>12, <2>15, <2>16, Written DEF Client
    <2> HIDE DEF f
    <2>18. f \in States /\ f.msgs[l][m] # NoMsg
      BY <2>17, FullMsg DEF Writes, Differ, Msgs
    <2>19. Routes(d, f, fd, l, m)
      <3>1. /\ f.site = d.site /\ f.asked = d.asked /\ f.failed = d.failed
            /\ \A x \in Fds : x # fd => f.conn[x] = d.conn[x] /\ f.sock[x] = d.sock[x]
        BY <1>2, <2>8, <2>15, <2>17 DEF Writes
      <3>2. /\ f.conn[fd].stage \in {"body", "done"} /\ (f.conn[fd].stage = "body" => in.more)
            /\ f.conn[fd].link = l /\ f.conn[fd].msgid = m /\ f.conn[fd].listener \in Fds
        BY <1>2, <1>7, <2>2, <2>16, <2>17 DEF Writes
      <3>3. f.sock[fd].kind = "client" /\ ~f.sock[fd].closing /\ f.sock[fd].wr
              /\ (in.more => ~f.sock[fd].rd)
        BY <2>15, <2>17 DEF Writes
      <3>4. \A x \in Fds, n \in MsgIds : x # l \/ n # m => f.msgs[x][n] = d.msgs[x][n]
        BY <1>2, <2>8, <2>15, <2>17 DEF Writes
      <3>5. /\ f.msgs[l][m].type = fd /\ ~f.msgs[l][m].closed /\ f.msgs[l][m].accepted
            /\ f.msgs[l][m].inq = 0 /\ ~f.msgs[l][m].rd /\ (in.more => f.msgs[l][m].wr)
        BY <2>3, <2>16, <2>17 DEF Writes, Differ
      <3> QED BY <2>1, <2>18, <3>1, <3>2, <3>3, <3>4, <3>5 DEF Routes
    <2>20. Good(f)
      BY <1>1, <2>1, <2>18, <2>19, RouteKeeps
    <2> QED BY <2>14, <2>20
  <1> QED BY <1>3, <1>4, <1>5, <1>8, <1>9 DEF g

\* ExReadData keeps the invariant, in every stage of the request.
LEMMA ExReadDataKeeps ==
  ASSUME Good(d), NEW fd \in Fds, NEW in \in Inputs, IdsLeft, ExReadData(fd, in)
  PROVE  Good(d')
  <1> DEFINE g == zs_clr_read(d, fd)
  <1>1. d.failed = None /\ fd \in Clients(d) /\ d.sock[fd].rd /\ d' = exread(g, fd, in)
    BY DEF ExReadData, Runs
  <1>2. /\ d \in States /\ g \in States /\ d.conn[fd] # NoConn /\ Near(d, g, fd)
           /\ ~d.sock[fd].closing /\ Sound(d)
        /\ Socket(d, g, fd, d.sock[fd].busy, d.sock[fd].bad, FALSE, d.sock[fd].wr, FALSE)
    BY <1>1, ReadCleared DEF Socket
  <1>3. d.conn[fd].stage \in {"head", "body", "done"} /\ g.conn = d.conn
    BY <1>2, Typed DEF Sound, StagedOf, Socket
  <1>4. in.what \in {"incomplete", "malformed", "badlength", "request"}
    BY InputKinds
  <1>5. CASE d.conn[fd].stage = "done"
    <2>1. d' = g
      BY <1>1, <1>3, <1>4, <1>5 DEF exread
    <2>2. PICK l \in Fds, m \in MsgIds : d.conn[fd].link = l /\ d.conn[fd].msgid = m
      BY <1>2, <1>5, MsgFacts
    <2>3. Owns(d, fd, l, m)
      BY <1>2, <2>2, Owned
    <2>4. /\ d.msgs[l][m].rd => ~d.sock[fd].busy
          /\ d.sock[fd].wr \/ d.msgs[l][m].rd
          /\ d.msgs[l][m].inq <= NBuff
      BY <1>1, <1>2, <2>2, Flow
    <2>5. d.sock[fd].closing = FALSE
      BY <1>1, <1>2, Typed, SockKinds DEF Clients, ClientSocks
    <2> HIDE DEF g
    <2>6. Tunes(d, g, fd, l, m)
      BY <1>2, <1>5, <2>2, <2>3, <2>4, <2>5 DEF Tunes, Socket, Owns
    <2> QED BY <1>2, <2>1, <2>2, <2>6, TuneKeeps
  <1>6. CASE d.conn[fd].stage = "body"
    <2>1. d' = Body(g, fd, in)
      BY <1>1, <1>3, <1>4, <1>6 DEF exread
    <2> QED BY <1>1, <1>6, <2>1, BodyGood
  <1>7. CASE d.conn[fd].stage = "head" /\ in.what = "incomplete"
    <2>1. d' = zs_set_read(g, fd)
      BY <1>1, <1>3, <1>7 DEF exread
    <2> HIDE DEF g
    <2>2. Socket(g, d', fd, g.sock[fd].busy, g.sock[fd].bad, TRUE, g.sock[fd].wr,
                 g.sock[fd].closing)
      <3>1. g \in States /\ Client(g, fd)
        BY <1>2 DEF Client, Socket
      <3> QED BY <2>1, <3>1, Flagged
    <2>3. d.sock[fd].closing = FALSE /\ d.sock[fd].rd = TRUE /\ d.sock[fd].kind = "client"
      BY <1>1, <1>2, Typed, SockKinds DEF Clients, ClientSocks
    <2>4. /\ d' \in States /\ d'.conn = d.conn /\ d'.site = d.site /\ d'.asked = d.asked
             /\ d'.msgs = d.msgs /\ d'.failed = d.failed
          /\ \A x \in Fds : x # fd => d'.sock[x] = d.sock[x]
          /\ d'.sock[fd].kind = "client" /\ d'.sock[fd].busy = d.sock[fd].busy
             /\ d'.sock[fd].rd = d.sock[fd].rd
          /\ d'.sock[fd].wr = d.sock[fd].wr /\ d'.sock[fd].closing = d.sock[fd].closing
      BY <1>2, <2>2, <2>3 DEF Socket
    <2>5. SameShape(d, d')
      BY <2>3, <2>4 DEF SameShape
    <2>6. Sound(d') /\ Flows(d)
      BY <1>2, <2>4, <2>5, ShapeKeeps DEF Good
    <2>7. QuietOf(d')
      BY <2>3, <2>4, <2>6 DEF Flows, QuietOf
    <2>8. PacedOf(d')
      BY <2>3, <2>4, <2>6 DEF Flows, PacedOf
    <2>9. AwaitedOf(d')
      <3>1. AwaitedOf(d)
        BY <1>1, <2>6 DEF Flows
      <3>2. \A x \in Fds : d'.sock[x].rd = d.sock[x].rd /\ d'.sock[x].wr = d.sock[x].wr
        BY <2>4
      <3> QED BY <2>4, <3>1, <3>2 DEF AwaitedOf
    <2> QED BY <1>1, <2>4, <2>6, <2>7, <2>8, <2>9 DEF Good, Flows, None
  <1>8. CASE d.conn[fd].stage = "head" /\ in.what = "malformed"
    <2>1. d' = ErrorPage(g, fd)
      BY <1>1, <1>3, <1>8 DEF exread
    <2> QED BY <1>2, <2>1, ErrorPageGood
  <1>9. CASE d.conn[fd].stage = "head" /\ in.what \in {"badlength", "request"}
    <2>1. d' = Route(g, fd, in)
      BY <1>1, <1>3, <1>9 DEF exread
    <2> QED BY <1>1, <1>9, <2>1, RouteGood
  <1> QED BY <1>3, <1>4, <1>5, <1>6, <1>7, <1>8, <1>9

\* AppStarts keeps the invariant.
LEMMA AppStartsKeeps ==
  ASSUME Good(d), NEW l \in Fds, NEW url \in Urls, AppStarts(l, url)
  PROVE  Good(d')
  <1> DEFINE m == AvailId(d, l)
             v == [NewMsg(Command, url) EXCEPT !.inq = 1]
             f == [d EXCEPT !.asked = d.asked \cup {l}, !.msgs[l][m] = v]
  <1>1. d \in States /\ d.failed = None /\ Sound(d) /\ Flows(d) /\ d.sock[l].kind = "link"
          /\ l \notin d.asked /\ FreeIds(d, l) # {}
    BY DEF AppStarts, Good, Runs, Links
  <1>2. d' = f
    BY DEF AppStarts, Handle
  <1>3. m \in MsgIds /\ d.msgs[l][m] = NoMsg
    BY <1>1, AvailIdFree DEF FreeIds, Messages
  <1>4. /\ v \in FullMsgs /\ v.type = Command /\ v.url = url /\ v.space /\ v.inq = 1 /\ ~v.gone
           /\ ~v.closed /\ ~v.wr
    BY DEF NewMsg, FullMsgs
  <1>5. v \in Msgs /\ v # NoMsg
    BY <1>4, FullMsg DEF Msgs
  <1>6. d.msgs \in [Fds -> [MsgIds -> Msgs]] /\ d.asked \subseteq Fds
    BY <1>1 DEF States
  <1> HIDE DEF m, v
  <1>7. /\ f \in States /\ f.failed = d.failed /\ f.site = d.site /\ f.conn = d.conn
           /\ f.sock = d.sock
        /\ f.asked = d.asked \cup {l}
           /\ f.msgs = [d.msgs EXCEPT ![l] = [d.msgs[l] EXCEPT ![m] = v]]
    BY <1>1, <1>3, <1>5, <1>6 DEF States
  <1> HIDE DEF f
  <1>8. f.msgs[l][m] = v /\ \A x \in Fds, n \in MsgIds : x # l \/ n # m =>
          f.msgs[x][n] = d.msgs[x][n]
    BY <1>3, <1>6, <1>7
  <1>9. TableOf(f) /\ StagedOf(f) /\ SitesOf(f)
    BY <1>1, <1>7 DEF Sound, TableOf, StagedOf, SitesOf
  <1>10. ~Live(d, l, m) /\ ~Live(f, l, m) /\ \A x \in Fds, n \in MsgIds : x # l \/ n # m =>
           (Live(f, x, n) <=> Live(d, x, n))
    BY <1>3, <1>4, <1>8 DEF Live
  <1>11. RoutedOf(f)
    BY <1>1, <1>7, <1>8, <1>10 DEF Sound, RoutedOf
  <1>12. LinkedOf(f)
    BY <1>1, <1>4, <1>7, <1>8, FdsAssumption DEF Sound, LinkedOf
  <1>13. \A x \in Fds, n \in MsgIds : CommandAt(f, x, n) =>
           CommandAt(d, x, n) \/ (x = l /\ n = m)
    BY <1>8 DEF CommandAt
  <1>14. d.site[l] = NoSite /\ \A n \in MsgIds : ~CommandAt(d, l, n)
    BY <1>1 DEF Sound, AskedOf
  <1>15. AskedOf(f)
    BY <1>1, <1>7, <1>13, <1>14 DEF Sound, AskedOf
  <1>16. QuietOf(f)
    BY <1>1, <1>4, <1>7, <1>8, NBuffAssumption DEF Flows, QuietOf
  <1>17. \A fd, x \in Fds, n \in MsgIds : d.conn[fd].link = x /\ d.conn[fd].msgid = n =>
           f.msgs[x][n] = d.msgs[x][n]
    BY <1>1, <1>8, <1>10 DEF Sound, RoutedOf
  <1>18. PacedOf(f) /\ AwaitedOf(f)
    BY <1>1, <1>7, <1>17 DEF Flows, PacedOf, AwaitedOf
  <1> QED BY <1>1, <1>2, <1>7, <1>9, <1>11, <1>12, <1>15, <1>16, <1>18 DEF Good, Sound, Flows,
              None

----------------------------------------------------------------------------
(* The invariant holds. *)

\* The daemon starts in a good state.
LEMMA InitGood == Good(Empty)
  <1>1. NoConn \in Conns /\ NoConn.stage = None /\ NoConn.link = NoFd /\ NoConn.msgid = NoId
    BY DEF NoConn, Conns
  <1>2. NoSite \in Sites /\ NoSite.url = NoUrl /\ NoSite.listener = NoFd
    BY DEF NoSite, Sites
  <1>3. Free \in Socks /\ Free.kind = "free" /\ NoMsg \in Msgs
    BY DEF Free, Socks, Msgs
  <1>4. /\ Empty \in States /\ Empty.failed = None /\ Empty.asked = {}
        /\ \A fd \in Fds : Empty.sock[fd] = Free /\ Empty.conn[fd] = NoConn
           /\ Empty.site[fd] = NoSite
        /\ \A fd \in Fds, m \in MsgIds : Empty.msgs[fd][m] = NoMsg
    BY <1>1, <1>2, <1>3 DEF Empty, States
  <1>5. TableOf(Empty) /\ StagedOf(Empty)
    BY <1>1, <1>3, <1>4 DEF TableOf, StagedOf, None
  <1>6. RoutedOf(Empty) /\ LinkedOf(Empty)
    BY <1>1, <1>4, FdsAssumption DEF RoutedOf, LinkedOf, Live
  <1>7. AskedOf(Empty) /\ SitesOf(Empty)
    BY <1>3, <1>4 DEF AskedOf, CommandAt, SitesOf
  <1>8. QuietOf(Empty)
    BY <1>1, <1>3, <1>4 DEF QuietOf, None
  <1>9. PacedOf(Empty) /\ AwaitedOf(Empty)
    BY <1>1, <1>4, FdsAssumption DEF PacedOf, AwaitedOf, None
  <1> QED BY <1>4, <1>5, <1>6, <1>7, <1>8, <1>9 DEF Good, Sound, Flows, None

\* The inductive invariant of the proxy.
IInv == Good(d) /\ deaf \subseteq Fds

\* Every step keeps the invariant.
LEMMA NextKeeps == IInv /\ [Next]_vars => IInv'
  <1> SUFFICES ASSUME IInv, [Next]_vars PROVE IInv'
    OBVIOUS
  <1>1. Good(d) /\ deaf \subseteq Fds
    BY DEF IInv
  <1>2. CASE UNCHANGED vars
    BY <1>1, <1>2 DEF vars, IInv
  <1>3. ASSUME NEW fd \in Fds, InAccept(fd) PROVE IInv'
    <2>1. Good(d')
      BY <1>1, <1>3, InAcceptKeeps
    <2> QED BY <1>1, <1>3, <2>1 DEF IInv, InAccept, Handle
  <1>4. ASSUME NEW fd \in Fds, ExAccept(fd) PROVE IInv'
    <2>1. Good(d')
      BY <1>1, <1>4, ExAcceptKeeps
    <2> QED BY <1>1, <1>4, <2>1 DEF IInv, ExAccept, Handle
  <1>5. ASSUME NEW fd \in Fds, LinkFails(fd) PROVE IInv'
    <2>1. Good(d')
      BY <1>1, <1>5, LinkFailsKeeps
    <2> QED BY <1>1, <1>5, <2>1 DEF IInv, LinkFails, Handle
  <1>6. ASSUME NEW fd \in Fds, FdHandlers(fd) PROVE IInv'
    <2>1. ASSUME IdsLeft, NEW in \in Inputs, ExReadData(fd, in) PROVE IInv'
      <3>1. Good(d')
        BY <1>1, <2>1, ExReadDataKeeps
      <3> QED BY <1>1, <2>1, <3>1 DEF IInv, ExReadData
    <2>2. CASE ExReadEnd(fd)
      <3>1. Good(d')
        BY <1>1, <2>2, ExReadEndKeeps
      <3> QED BY <1>1, <2>2, <3>1 DEF IInv, ExReadEnd, Handle
    <2>3. CASE ExWriteReady(fd)
      <3>1. Good(d')
        BY <1>1, <2>3, ExWriteReadyKeeps
      <3> QED BY <1>1, <2>3, <3>1 DEF IInv, ExWriteReady, Handle
    <2>4. CASE WriteDone(fd)
      <3>1. Good(d')
        BY <1>1, <2>4, WriteDoneKeeps
      <3> QED BY <1>1, <2>4, <3>1 DEF IInv, WriteDone, Handle
    <2> QED BY <1>6, <2>1, <2>2, <2>3, <2>4 DEF FdHandlers
  <1>7. ASSUME NEW fd \in Fds, NEW url \in Urls, AppStarts(fd, url) PROVE IInv'
    <2>1. Good(d')
      BY <1>1, <1>7, AppStartsKeeps
    <2> QED BY <1>1, <1>7, <2>1 DEF IInv, AppStarts, Handle
  <1>8. ASSUME NEW l \in Fds, NEW m \in MsgIds, MsgHandlers(l, m) PROVE IInv'
    <2>1. CASE MsgAccept(l, m)
      <3>1. Good(d')
        BY <1>1, <2>1, MsgAcceptKeeps
      <3> QED BY <1>1, <2>1, <3>1 DEF IInv, MsgAccept, Handle
    <2>2. CASE MsgRead(l, m)
      <3>1. Good(d')
        BY <1>1, <2>2, MsgReadKeeps
      <3> QED BY <1>1, <2>2, <3>1 DEF IInv, MsgRead, Handle
    <2>3. CASE MsgWriteReady(l, m)
      <3>1. Good(d')
        BY <1>1, <2>3, MsgWriteReadyKeeps
      <3> QED BY <1>1, <2>3, <3>1 DEF IInv, MsgWriteReady, Handle
    <2> QED BY <1>8, <2>1, <2>2, <2>3 DEF MsgHandlers
  <1>9. ASSUME NEW l \in Fds, NEW m \in MsgIds, AppReplies(l, m) PROVE IInv'
    <2>1. Good(d')
      BY <1>1, <1>9, AppRepliesKeeps
    <2> QED BY <1>1, <1>9, <2>1 DEF IInv, AppReplies, Handle
  <1>10. ASSUME NEW l \in Fds, NEW m \in MsgIds, AppAcknowledges(l, m) PROVE IInv'
    <2>1. Good(d')
      BY <1>1, <1>10, AppAcknowledgesKeeps
    <2> QED BY <1>1, <1>10, <2>1 DEF IInv, AppAcknowledges, Handle
  <1>11. ASSUME NEW l \in Fds, NEW m \in MsgIds, AppCloses(l, m) PROVE IInv'
    <2>1. Good(d')
      BY <1>1, <1>11, AppClosesKeeps
    <2> QED BY <1>1, <1>11, <2>1 DEF IInv, AppCloses, Handle
  <1> QED BY <1>2, <1>3, <1>4, <1>5, <1>6, <1>7, <1>8, <1>9, <1>10, <1>11 DEF Next

\* The inductive invariant holds of every state the daemon reaches.
THEOREM ProxyInvariant == Spec => []IInv
  <1>1. Init => IInv
    BY InitGood DEF Init, IInv
  <1> QED BY <1>1, NextKeeps, PTL DEF Spec

----------------------------------------------------------------------------
(* What the invariant implies. *)

\* The parts of the invariant.
LEMMA GoodFacts ==
  ASSUME IInv
  PROVE  d \in States /\ d.failed # "no connection" /\ Sound(d) /\ Flows(d)
      /\ deaf \subseteq Fds
  BY DEF IInv, Good

\* RoutedOf and StagedOf say more than Routed.
LEMMA IsRouted == IInv => Routed
  <1> SUFFICES ASSUME IInv PROVE Routed
    OBVIOUS
  <1>1. d \in States /\ Sound(d)
    BY GoodFacts
  <1>2. ASSUME NEW fd \in Fds, d.conn[fd].msgid # NoId
        PROVE  Active(d.conn[fd].link, d.conn[fd].msgid)
            /\ d.msgs[d.conn[fd].link][d.conn[fd].msgid].type = fd
    <2>1. d.conn[fd].stage \in {"body", "done"}
      BY <1>1, <1>2, Typed DEF Sound, StagedOf, NoConn
    <2>2. PICK l \in Fds, m \in MsgIds : d.conn[fd].link = l /\ d.conn[fd].msgid = m
      BY <1>1, <2>1 DEF Sound, StagedOf
    <2>3. Live(d, l, m) /\ d.msgs[l][m].type = fd
      BY <1>1, <2>2 DEF Sound, RoutedOf
    <2> QED BY <2>2, <2>3 DEF Live, Active, Messages
  <1>3. ASSUME NEW l \in Fds, NEW m \in MsgIds, Active(l, m)
        PROVE  d.conn[d.msgs[l][m].type].link = l /\ d.conn[d.msgs[l][m].type].msgid = m
    <2>1. Live(d, l, m)
      BY <1>3 DEF Active, Live, Messages
    <2>2. PICK fd \in Fds : d.msgs[l][m].type = fd /\ d.conn[fd].link = l
            /\ d.conn[fd].msgid = m
      BY <1>1, <2>1, Owner
    <2> QED BY <2>2
  <1> QED BY <1>2, <1>3 DEF Routed

\* PacedOf says more than Paced: what is read is live.
LEMMA IsPaced == IInv => Paced
  <1> SUFFICES ASSUME IInv PROVE Paced
    OBVIOUS
  <1>1. d \in States /\ Sound(d) /\ Flows(d)
    BY GoodFacts
  <1>2. ASSUME NEW l \in Fds, NEW m \in MsgIds, m \in Messages(d, l), d.msgs[l][m].rd,
          d.msgs[l][m].type # Command
        PROVE  ~d.sock[d.msgs[l][m].type].busy
    <2>1. Live(d, l, m)
      BY <1>1, <1>2 DEF Live, Messages, Flows, QuietOf
    <2>2. PICK fd \in Fds : d.msgs[l][m].type = fd /\ d.conn[fd].link = l
            /\ d.conn[fd].msgid = m
      BY <1>1, <2>1, Owner
    <2> QED BY <1>1, <1>2, <2>2 DEF Flows, PacedOf
  <1>3. ASSUME NEW fd \in Fds, d.conn[fd].stage = "body", d.sock[fd].rd
        PROVE  LET msg == d.msgs[d.conn[fd].link][d.conn[fd].msgid] IN msg.space \/ msg.gone
    <2>1. PICK l \in Fds, m \in MsgIds : d.conn[fd].link = l /\ d.conn[fd].msgid = m
      BY <1>1, <1>3 DEF Sound, StagedOf
    <2>2. d.msgs[l][m].space \/ d.msgs[l][m].gone
      BY <1>1, <1>3, <2>1 DEF Flows, PacedOf
    <2> QED BY <2>1, <2>2
  <1> QED BY <1>2, <1>3 DEF Paced

\* AwaitedOf says more than Continued.
LEMMA IsContinued == IInv => Continued
  <1> SUFFICES ASSUME IInv, Runs, NEW fd \in Fds
               PROVE  /\ d.conn[fd].stage = "head" => d.sock[fd].rd
                      /\ d.conn[fd].stage = "body" =>
                           d.sock[fd].rd \/ d.msgs[d.conn[fd].link][d.conn[fd].msgid].wr
                      /\ d.conn[fd].stage \in {"body", "done"} =>
                           d.sock[fd].wr \/ d.msgs[d.conn[fd].link][d.conn[fd].msgid].rd
    BY DEF Continued
  <1>1. d \in States /\ Sound(d) /\ AwaitedOf(d)
    BY GoodFacts DEF Runs, Flows
  <1>2. d.conn[fd].stage = "head" => d.sock[fd].rd
    BY <1>1 DEF AwaitedOf
  <1>3. ASSUME d.conn[fd].stage \in {"body", "done"}
        PROVE  /\ d.conn[fd].stage = "body" =>
                    d.sock[fd].rd \/ d.msgs[d.conn[fd].link][d.conn[fd].msgid].wr
               /\ d.sock[fd].wr \/ d.msgs[d.conn[fd].link][d.conn[fd].msgid].rd
    <2>1. PICK l \in Fds, m \in MsgIds : d.conn[fd].link = l /\ d.conn[fd].msgid = m
      BY <1>1, <1>3 DEF Sound, StagedOf
    <2>2. (d.conn[fd].stage = "body" => d.sock[fd].rd \/ d.msgs[l][m].wr)
            /\ (d.sock[fd].wr \/ d.msgs[l][m].rd)
      BY <1>1, <1>3, <2>1 DEF AwaitedOf
    <2> QED BY <2>1, <2>2
  <1> QED BY <1>2, <1>3

\* SitesOf says more than Registered.
LEMMA IsRegistered == IInv => Registered
  BY GoodFacts DEF Sound, SitesOf, Registered, Links, Listeners

\* TableOf says more than TableSound.
LEMMA IsTableSound == IInv => TableSound
  BY GoodFacts DEF Sound, TableOf, TableSound

\* The invariant has the types; n_open is bounded because it counts
\* websites.
LEMMA IsTypeOK == IInv => TypeOK
  <1> SUFFICES ASSUME IInv PROVE TypeOK
    OBVIOUS
  <1>1. d \in States /\ Sound(d) /\ Flows(d) /\ deaf \subseteq Fds
    BY GoodFacts
  <1>2. ASSUME NEW fd \in Fds
        PROVE  /\ d.sock[fd].kind \in {"free", "link", "listen", "client"}
               /\ d.conn[fd].stage \in {None, "head", "body", "done"}
               /\ d.conn[fd].listener \in Fds \cup {NoFd} /\ d.conn[fd].link \in Fds \cup {NoFd}
               /\ d.conn[fd].msgid \in MsgIds \cup {NoId}
               /\ d.site[fd].url \in Urls \cup {NoUrl}
                  /\ d.site[fd].listener \in Fds \cup {NoFd}
    BY <1>1, Typed DEF Sites
  <1>3. ASSUME NEW fd \in Fds, fd \in Listeners(d)
        PROVE  d.sock[fd].n_open \in 1 .. Cardinality(Fds)
    <2>1. d.sock[fd].n_open \in Nat \ {0}
      BY <1>1, <1>3, Typed, SockKinds DEF Listeners, ListenSocks
    <2>2. d.sock[fd].n_open = Cardinality(Hosted(d, fd))
      BY <1>1, <1>3 DEF Listeners, Sound, SitesOf, Hosted
    <2>3. Hosted(d, fd) \subseteq Fds
      BY DEF Hosted
    <2>4. Cardinality(Hosted(d, fd)) <= Cardinality(Fds) /\ Cardinality(Fds) \in Nat
      BY <2>3, FdsAssumption, FS_Subset, FS_CardinalityType
    <2> QED BY <2>1, <2>2, <2>4
  <1>4. ASSUME NEW fd \in Fds, NEW m \in Messages(d, fd)
        PROVE  /\ d.msgs[fd][m].inq \in 0 .. NBuff
               /\ d.msgs[fd][m].type \in Fds \cup {Command} \/ d.msgs[fd][m].closed
    <2>1. m \in MsgIds /\ d.msgs[fd][m] # NoMsg
      BY DEF Messages
    <2>2. d.msgs[fd][m].inq \in Nat
      BY <1>1, <2>1, FullMsg, Typed DEF FullMsgs
    <2>3. d.msgs[fd][m].inq <= NBuff
      BY <1>1, <2>1 DEF Flows, QuietOf
    <2>4. d.msgs[fd][m].type \in Fds \cup {Command} \/ d.msgs[fd][m].closed
      BY <1>1, <2>1, Typed DEF Sound, LinkedOf
    <2> QED BY <2>2, <2>3, <2>4, NBuffAssumption
  <1>5. d.failed \in {None, "no connection", "no listening socket"}
    BY <1>1 DEF States
  <1> QED BY <1>1, <1>2, <1>3, <1>4, <1>5 DEF TypeOK

\* For any number of clients, websites and msgids: a message the daemon
\* answers and the connection it answers refer to each other, through every
\* order of closes, reuse of descriptors and msgids, and broken links.
THEOREM ProxyRouted == Spec => []Routed
  BY ProxyInvariant, IsRouted, PTL

\* No handler ever finds connections[fd] = NULL, and assert( !connections[ newfd ] )
\* of exsock_event_hdlr holds.
THEOREM ProxyTable == Spec => []TableSound
  BY ProxyInvariant, IsTableSound, PTL

\* cleanup_connection is never reached because a client or a website is slow:
\* neither is sent more than it can take.
THEOREM ProxyPaced == Spec => []Paced
  BY ProxyInvariant, IsPaced, PTL

\* While the daemon runs, every connection waits for an event that some handler
\* asked for.
THEOREM ProxyContinued == Spec => []Continued
  BY ProxyInvariant, IsContinued, PTL

\* The listening socket is open once for every registered website, and no url
\* is registered twice.
THEOREM ProxyRegistered == Spec => []Registered
  BY ProxyInvariant, IsRegistered, PTL

\* The fields of sockets, connections, messages and websites keep their types
\* and bounds.
THEOREM ProxyType == Spec => []TypeOK
  BY ProxyInvariant, IsTypeOK, PTL
=============================================================================
