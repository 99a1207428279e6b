------------------------------- MODULE Proxy -------------------------------
(***************************************************************************)
(* The daemon of Zimrd between its clients and the web applications.  One  *)
(* action per event handler of zimrd/main.c, one per thing a client or an  *)
(* application does; the order in which the select loop reaches the        *)
(* sockets and messages that are ready is left open.                       *)
(***************************************************************************)
EXTENDS Zimrd

VARIABLES
  d,      \* the daemon
  deaf    \* history: clients that sent more than their request

vars == <<d, deaf>>

Init == d = Empty /\ deaf = {}

Runs == d.failed = None

\* A handler leaves result; a descriptor that is no connection is not deaf.
Handle(result) ==
  /\ d' = result
  /\ deaf' = {fd \in deaf : result.conn[fd] # NoConn}
----------------------------------------------------------------------------
(* The handlers of the daemon. *)

\* insock_event_hdlr, ZS_EVT_ACCEPT_READY.
InAccept(l) ==
  /\ Runs
  /\ l \in NewFds(d)
  /\ Handle([d EXCEPT !.sock[l] = LinkSocket])

\* exsock_event_hdlr.
ExAccept(fd) ==
  /\ Runs
  /\ fd \in NewFds(d)
  /\ \E lisn \in Listeners(d) :
       Handle(zs_set_read([d EXCEPT !.sock[fd] = NewClient, !.conn[fd] = NewConn(lisn)], fd))

\* The client sent part of a request, or bytes after its end.
ExReadData(fd, in) ==
  /\ Runs
  /\ fd \in Clients(d)
  /\ d.sock[fd].rd
  /\ d' = exread(zs_clr_read(d, fd), fd, in)
  /\ deaf' = {x \in deaf \cup (IF d.conn[fd].stage = "done" THEN {fd} ELSE {}) : d'.conn[x] # NoConn}

\* The client closed its end.
ExReadEnd(fd) ==
  /\ Runs
  /\ fd \in Clients(d)
  /\ d.sock[fd].rd
  /\ Handle(exread(zs_clr_read(d, fd), fd, End))

ExWriteReady(fd) ==
  LET c == d.conn[fd]
      cleared == zs_clr_write(d, fd)
  IN  /\ Runs
      /\ fd \in Clients(d)
      /\ d.sock[fd].wr /\ ~d.sock[fd].busy
      /\ Handle(IF c = NoConn THEN Fail(cleared, "no connection")
                ELSE [cleared EXCEPT !.msgs[c.link][c.msgid].rd = TRUE])

\* msg_event_handler, MSG_EVT_ACCEPT_READY.
MsgAccept(l, m) ==
  /\ Runs
  /\ m \in Messages(d, l)
  /\ ~d.msgs[l][m].accepted
  /\ Handle([d EXCEPT !.msgs[l][m].accepted = TRUE, !.msgs[l][m].rd = TRUE])

\* MSG_EVT_READ_READY: a command, or the next part of a response, which may
\* fill the buffer with several packets.
MsgRead(l, m) ==
  LET msg == d.msgs[l][m]
      fd == msg.type
      cleared == [d EXCEPT !.msgs[l][m].rd = FALSE]
      Taken(k) == [cleared EXCEPT !.msgs[l][m].inq = @ - k]
  IN  /\ Runs
      /\ m \in Messages(d, l)
      /\ msg.rd
      /\ \/ /\ msg.inq = 0 /\ msg.gone
            /\ Handle(IF fd = Command THEN Fail(cleared, "no connection") ELSE cleanup_connection(cleared, fd))
         \/ /\ fd = Command
            /\ \E k \in 1 .. msg.inq, new \in NewFds(d) \cup {NoFd} : Handle(command_handler(Taken(k), l, m, new))
         \/ /\ fd # Command
            /\ \E k \in 1 .. msg.inq : Handle(Response(Taken(k), fd))

MsgWriteReady(l, m) ==
  LET msg == d.msgs[l][m]
  IN  /\ Runs
      /\ m \in Messages(d, l)
      /\ msg.wr /\ (msg.space \/ msg.gone)
      /\ Handle(zs_set_read([d EXCEPT !.msgs[l][m].wr = FALSE], msg.type))

\* MSG_SWITCH_EVT_IO_ERROR: the link broke, or the application ended.  A link
\* without a website has no message of a client, so the search of the code for
\* connections to clean up finds none and is left out.  The descriptor of the
\* link is free at once; that zs_close waits for a write underway is in ZLoop
\* and App.
LinkFails(l) ==
  /\ Runs
  /\ l \in Links(d)
  /\ Handle(IF d.site[l] # NoSite THEN remove_website(d, l) ELSE CloseLink(d, l))
----------------------------------------------------------------------------
\* zs_writer: the write is done, or failed; a close that waited for it follows.
WriteDone(fd) ==
  /\ Runs
  /\ fd \in Clients(d)
  /\ d.sock[fd].busy
  /\ \E bad \in BOOLEAN :
       Handle([d EXCEPT !.sock[fd] = IF @.closing THEN Free ELSE [@ EXCEPT !.busy = FALSE, !.bad = bad]])
----------------------------------------------------------------------------
(* The web applications: what arrives on a link. *)

AppStarts(l, url) ==
  /\ Runs
  /\ l \in Links(d) \ d.asked
  /\ FreeIds(d, l) # {}
  /\ Handle([d EXCEPT !.asked = @ \cup {l},
                      !.msgs[l][AvailId(d, l)] = [NewMsg(Command, url) EXCEPT !.inq = 1]])

AppReplies(l, m) ==
  /\ Runs
  /\ m \in Messages(d, l)
  /\ d.msgs[l][m].type # Command /\ ~d.msgs[l][m].gone /\ ~d.msgs[l][m].closed
  /\ d.msgs[l][m].inq < NBuff
  /\ Handle([d EXCEPT !.msgs[l][m].inq = @ + 1])

AppAcknowledges(l, m) ==
  /\ Runs
  /\ m \in Messages(d, l)
  /\ ~d.msgs[l][m].space /\ ~d.msgs[l][m].gone
  /\ Handle([d EXCEPT !.msgs[l][m].space = TRUE])

\* The application closes a message, or answers the daemon's close.
AppCloses(l, m) ==
  /\ Runs
  /\ m \in Messages(d, l)
  /\ \/ d.msgs[l][m].closed /\ Handle([d EXCEPT !.msgs[l][m] = NoMsg])
     \/ /\ d.msgs[l][m].type # Command /\ ~d.msgs[l][m].gone /\ ~d.msgs[l][m].closed
        /\ Handle([d EXCEPT !.msgs[l][m].gone = TRUE])
----------------------------------------------------------------------------
\* Routing needs a free msgid on every link (MsgIds stands for FD_SETSIZE - 1
\* of them).
IdsLeft == \A l \in Links(d) : FreeIds(d, l) # {}

FdHandlers(fd) ==
  \/ /\ IdsLeft
     /\ \E in \in Inputs : ExReadData(fd, in)
  \/ ExReadEnd(fd) \/ ExWriteReady(fd) \/ WriteDone(fd)

MsgHandlers(l, m) == MsgAccept(l, m) \/ MsgRead(l, m) \/ MsgWriteReady(l, m)

Next ==
  \/ \E fd \in Fds :
       \/ InAccept(fd) \/ ExAccept(fd) \/ LinkFails(fd)
       \/ FdHandlers(fd)
       \/ \E url \in Urls : AppStarts(fd, url)
  \/ \E l \in Fds, m \in MsgIds :
       MsgHandlers(l, m) \/ AppReplies(l, m) \/ AppAcknowledges(l, m) \/ AppCloses(l, m)

Spec == Init /\ [][Next]_vars
----------------------------------------------------------------------------
(* Properties. *)

\* Every socket, connection and message has the fields of its kind; a
\* connection refers to descriptors and to a msgid.
TypeOK ==
  /\ \A fd \in Fds :
       /\ d.sock[fd].kind \in {"free", "link", "listen", "client"}
       /\ fd \in Listeners(d) => d.sock[fd].n_open \in 1 .. Cardinality(Fds)
       /\ d.conn[fd].stage \in {None, "head", "body", "done"}
       /\ d.conn[fd].listener \in Fds \cup {NoFd} /\ d.conn[fd].link \in Fds \cup {NoFd}
       /\ d.conn[fd].msgid \in MsgIds \cup {NoId}
       /\ d.site[fd].url \in Urls \cup {NoUrl} /\ d.site[fd].listener \in Fds \cup {NoFd}
       /\ \A m \in Messages(d, fd) :
            /\ d.msgs[fd][m].inq \in 0 .. NBuff
            /\ d.msgs[fd][m].type \in Fds \cup {Command} \/ d.msgs[fd][m].closed
  /\ deaf \subseteq Fds
  /\ d.failed \in {None, "no connection", "no listening socket"}

Active(l, m) == m \in Messages(d, l) /\ ~d.msgs[l][m].closed /\ d.msgs[l][m].type # Command

\* The messages the daemon still answers and the connections they answer are
\* in step: through closing and reuse of descriptors, msgids and links, no
\* response can reach a client it was not meant for, and no message outlives
\* its connection.
Routed ==
  /\ \A fd \in Fds : d.conn[fd].msgid # NoId =>
       LET c == d.conn[fd] IN Active(c.link, c.msgid) /\ d.msgs[c.link][c.msgid].type = fd
  /\ \A l \in Fds, m \in MsgIds : Active(l, m) =>
       LET c == d.conn[d.msgs[l][m].type] IN c.link = l /\ c.msgid = m

\* The connection table and the sockets agree, so that no handler finds
\* connections[fd] = NULL: assert( !connections[ newfd ] ) holds in
\* exsock_event_hdlr, and a socket that closes in the background has no entry.
TableSound ==
  /\ d.failed # "no connection"
  /\ \A fd \in Fds : d.conn[fd] # NoConn <=> (d.sock[fd].kind = "client" /\ ~d.sock[fd].closing)

\* Neither side is sent more than it can take: a part of a response is read
\* from its message only when the client's socket can take it, and a part of a
\* body from its client only when the message can.  So no connection is dropped
\* because its client reads slowly or its website is slow.
Paced ==
  /\ \A l \in Fds, m \in MsgIds :
       m \in Messages(d, l) /\ d.msgs[l][m].rd /\ d.msgs[l][m].type # Command =>
         ~d.sock[d.msgs[l][m].type].busy
  /\ \A fd \in Fds : d.conn[fd].stage = "body" /\ d.sock[fd].rd =>
       LET msg == d.msgs[d.conn[fd].link][d.conn[fd].msgid] IN msg.space \/ msg.gone

\* Every connection waits for an event that is asked for: its client, while
\* the request is incomplete, or the space in the message, and the message or
\* the client's socket for the response.
Continued ==
  Runs => \A fd \in Fds : LET c == d.conn[fd] IN
    /\ c.stage = "head" => d.sock[fd].rd
    /\ c.stage = "body" => d.sock[fd].rd \/ d.msgs[c.link][c.msgid].wr
    /\ c.stage \in {"body", "done"} => d.sock[fd].wr \/ d.msgs[c.link][c.msgid].rd

\* "must make sure to keep sockfd in read mode to detect a connection close":
\* true of every complete request, unless its client sent more bytes after it,
\* which exread reads and ignores without asking for the next event.
ReadMode == \A fd \in Fds : d.conn[fd].stage = "done" => d.sock[fd].rd \/ fd \in deaf

\* The listening socket is open exactly once for every registered website, and
\* no website is registered twice, whatever the order of registrations,
\* refusals and broken links.
Registered ==
  /\ \A l1, l2 \in Fds : d.site[l1] # NoSite /\ d.site[l1].url = d.site[l2].url => l1 = l2
  /\ \A l \in Fds : d.site[l] # NoSite =>
       l \in Links(d) /\ d.site[l].listener \in Listeners(d)
  /\ \A lisn \in Listeners(d) :
       d.sock[lisn].n_open = Cardinality({l \in Fds : d.site[l].listener = lisn})

\* "make proxy kill website connections when website dies" (TODO, done): no
\* connection outlives the listening socket it was accepted on.
ListenerAlive ==
  \A fd \in Fds : d.conn[fd] # NoConn => d.sock[d.conn[fd].listener].kind = "listen"
=============================================================================
