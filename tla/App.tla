-------------------------------- MODULE App --------------------------------
(***************************************************************************)
(* A web application process, LibZimr in its select loop, and the proxy    *)
(* daemon at the other end of its link, which registers the website, sends *)
(* it requests, reads the responses and gives up clients.                  *)
(*                                                                         *)
(* The link has no frames of its own: a frame one switch writes is read by *)
(* the other in the same step.  Frames still cross, in the two switches'   *)
(* queues.  MsgLink has the link in full.                                  *)
(***************************************************************************)
EXTENDS LibZimr

CONSTANTS
  MaxEvents,     \* bound: packets of all the requests, links lost, daemons
                 \* restarted and websites disabled
  MaxOpen,       \* bound: messages its switch has at a time when it sends a request
  MaxWrites      \* bound: packets of a response that the program writes bit by bit,
                 \* not counting those that are refused

VARIABLES
  w,         \* the website and its process
  dw,        \* the daemon's switch for the link
  dlink,     \* whether the daemon has that link
  up,        \* whether the daemon runs
  reply,     \* the daemon's answer to the registration on this link
  lingers,   \* the daemon has the website registered for a link the website gave up
  events     \* the events so far that MaxEvents bounds

vars == <<w, dw, dlink, up, reply, lingers, events>>

Init ==
  /\ w = NewWebsite
  /\ dw = EmptySwitch
  /\ dlink = FALSE /\ up = FALSE
  /\ reply = None /\ lingers = FALSE
  /\ events = 0

Running == w.failed = None
Linked == HasLink(w) /\ dlink

\* What the daemon has after the website left this link and perhaps made
\* another one: it may not yet have noticed the end of the old one.
Relink(w2, connects) ==
  /\ w' = w2
  /\ dlink' = (HasLink(w2) /\ connects)
  /\ dw' = EmptySwitch
  /\ reply' = None
  /\ lingers' = (lingers \/ (dlink /\ reply = "OK"))
----------------------------------------------------------------------------
(* The select loop of the application. *)

Step(w2) ==
  /\ w' = w2
  /\ UNCHANGED <<dw, dlink, up, reply, lingers, events>>

Accept(m) ==
  /\ Running /\ HasLink(w)
  /\ m \in w.sw.active_hash /\ Exists(w.sw, m)
  /\ ~Has(w.sw, m, "CONNECTED")
  /\ Step(AcceptReady(w, m))

ReadyToRead(m) ==
  /\ m \in w.sw.active_read /\ m \in w.sw.active_hash
  /\ Running /\ HasLink(w)
  /\ Has(w.sw, m, "PACKET_AVAIL_TO_READ") \/ Has(w.sw, m, "DISCONNECTED")

\* The outcome is that of the website's handler, which has a choice only when there
\* is a request to read; for the others one value stands.
Receive(m, outcome) ==
  /\ ReadyToRead(m)
  /\ ~(IsCommand(w.sw.msgs[m].conv) /\ reply = "FAIL")
  /\ \/ outcome.act = "bad"
     \/ ~IsCommand(w.sw.msgs[m].conv) /\ Has(w.sw, m, "PACKET_AVAIL_TO_READ")
  /\ Step(ReadReady(w, m, reply, outcome, FALSE))

\* The registration is refused.  msg_switch_select goes on with the memory of
\* the destroyed switch: the process may end, or may not.
Refusal(m, crash, writing) ==
  LET r == ReadReady(w, m, reply, [act |-> "bad"], writing)
  IN  /\ reply = "FAIL" /\ ReadyToRead(m) /\ IsCommand(w.sw.msgs[m].conv)
      /\ Relink(IF crash THEN Dies(r, "freed switch") ELSE r, FALSE)
      /\ UNCHANGED <<up, events>>

Writable(m) ==
  /\ m \in w.sw.active_write /\ m \in w.sw.active_hash
  /\ Running /\ HasLink(w)
  /\ Has(w.sw, m, "SPACE_AVAIL_FOR_WRIT") \/ Has(w.sw, m, "DISCONNECTED")
  /\ Step(WriteReady(w, m))

\* zfd_select finds the file readable.
FileHandler(h) == Running /\ Step(zimr_file_handler(w, h.msg))

WantsEnable == Running /\ ~HasLink(w) /\ w.status = "WANT_ENABLE"

\* A pass of zimr_start tries a website that is to be enabled again.
Retry(connects) ==
  /\ WantsEnable
  /\ connects => up
  /\ Relink(zimr_website_enable(w, connects), connects)
  /\ UNCHANGED <<up, events>>

LinkLost == Running /\ HasLink(w) /\ ~dlink

\* The link fails, or the daemon closed it.
LinkFails(connects, writing) ==
  /\ LinkLost
  /\ connects => up
  /\ Relink(IoError(w, connects, writing), connects)
  /\ UNCHANGED <<up, events>>

\* zfd_select calls zs_writer for the last time.
LinkClosed(fd) == Running /\ Step(FinishClose(w, fd))
----------------------------------------------------------------------------
(* The program: it enables and disables its website, and answers, bit by   *)
(* bit or at once, a connection that its handler kept.                      *)

Enable(connects) ==
  /\ Running /\ w.status = "DISABLED"
  /\ connects => up
  /\ Relink(zimr_website_enable(w, connects), connects)
  /\ UNCHANGED <<up, events>>

Disable(writing) ==
  /\ Running /\ w.status # "DISABLED"
  /\ events < MaxEvents
  /\ events' = events + 1
  /\ Relink(zimr_website_disable(w, writing), FALSE)
  /\ UNCHANGED up

Kept(m) ==
  /\ Running /\ w.connections[m] # NoConn
  /\ w.connections[m].created /\ w.connections[m].fd = NoFd

KeptWrite(m) ==
  /\ Kept(m)
  /\ w.sw.msgs[m].n_writ < MaxWrites \/ Full(w.sw, m)
  /\ Step(zimr_connection_write(w, m, 0))

KeptEnd(m) == Kept(m) /\ Step(cleanup_connection(w, m))
----------------------------------------------------------------------------
(* The link and the daemon. *)

SwitchWrite ==
  /\ Running /\ Linked /\ HasAvailWrits(w.sw)
  /\ w' = WithSwitch(w, msg_switch_write(w.sw))
  /\ dw' = IF WriteFails(w.sw) THEN dw ELSE msg_switch_read(dw, NextToken(w.sw))
  /\ UNCHANGED <<dlink, up, reply, lingers, events>>

SwitchRead ==
  /\ Running /\ Linked /\ HasAvailWrits(dw)
  /\ dw' = msg_switch_write(dw)
  /\ w' = IF WriteFails(dw) THEN w ELSE WithSwitch(w, msg_switch_read(w.sw, NextToken(dw)))
  /\ UNCHANGED <<dlink, up, reply, lingers, events>>

Daemon(dw2) ==
  /\ dw' = dw2
  /\ UNCHANGED <<w, dlink, up, lingers>>

\* The daemon accepts the registration, starts the website and answers; a
\* website that it has already is refused.
Unregistered(m) ==
  /\ dlink /\ Exists(dw, m)
  /\ IsCommand(dw.msgs[m].conv) /\ ~Has(dw, m, "CONNECTED")
  /\ ~Has(dw, m, "DISCONNECTED")

Register(m) ==
  LET accepted == msg_accept(dw, m)
  IN  /\ Unregistered(m)
      /\ reply' = IF lingers THEN "FAIL" ELSE "OK"
      /\ Daemon(msg_close(msg_write(msg_read(accepted, m, 1), m, 0), m))
      /\ UNCHANGED events

Holds(m) ==
  /\ dlink /\ Exists(dw, m)
  /\ ~IsCommand(dw.msgs[m].conv) /\ ~Has(dw, m, "CLOSED")

Request(size) ==
  LET m == msg_get_avail_msgid(dw)
  IN  /\ dlink /\ reply = "OK" /\ events < MaxEvents
      /\ Cardinality({n \in MsgIds : Exists(dw, n)}) < MaxOpen
      /\ events' = events + 1
      /\ Daemon(msg_flush(msg_write(msg_open(dw, <<events, size>>), m, 0), m))
      /\ UNCHANGED reply

RequestMore(m) ==
  /\ Holds(m) /\ ~Refused(dw, m)
  /\ events < MaxEvents
  /\ events' = events + 1
  /\ Daemon(msg_flush(msg_write(dw, m, 0), m))
  /\ UNCHANGED reply

ReadResponse(m) ==
  /\ Holds(m) /\ Has(dw, m, "PACKET_AVAIL_TO_READ")
  /\ Daemon(msg_read(dw, m, 1))
  /\ UNCHANGED <<reply, events>>

\* The client is gone, or the response is over.
GiveUp(m) == Holds(m) /\ Daemon(msg_close(dw, m)) /\ UNCHANGED <<reply, events>>

DaemonStarts ==
  /\ ~up
  /\ up' = TRUE
  /\ UNCHANGED <<w, dw, dlink, reply, lingers, events>>

\* The daemon ends, or drops this link.
DaemonBreaks(stays) ==
  /\ up /\ events < MaxEvents /\ (stays => dlink)
  /\ events' = events + 1
  /\ up' = stays
  /\ dlink' = FALSE /\ dw' = EmptySwitch /\ reply' = None /\ lingers' = (lingers /\ stays)
  /\ UNCHANGED w

\* A frame the daemon's switch asserts against.
DaemonFails ==
  /\ dw.failed # None
  /\ up' = FALSE
  /\ dlink' = FALSE /\ dw' = EmptySwitch /\ reply' = None /\ lingers' = FALSE
  /\ UNCHANGED <<w, events>>

\* The application's end of the link failed and the daemon's did not.
HalfBreak(connects, writing) ==
  /\ Running /\ Linked
  /\ events < MaxEvents /\ events' = events + 1
  /\ Relink(IoError(w, connects, writing), connects)
  /\ UNCHANGED up

NoticeOld ==
  /\ lingers /\ lingers' = FALSE
  /\ UNCHANGED <<w, dw, dlink, up, reply, events>>

ReadEvent(m) ==
  \/ \E o \in Outcomes : Receive(m, o)
  \/ \E crash, writing \in BOOLEAN : Refusal(m, crash, writing)

Next ==
  \/ \E m \in MsgIds :
       \/ Accept(m) \/ Writable(m) \/ ReadEvent(m)
       \/ KeptWrite(m) \/ KeptEnd(m)
       \/ Register(m) \/ RequestMore(m) \/ ReadResponse(m) \/ GiveUp(m)
  \/ \E h \in w.zfd : FileHandler(h)
  \/ \E fd \in w.closing : LinkClosed(fd)
  \/ \E c \in BOOLEAN : Retry(c) \/ Enable(c) \/ DaemonBreaks(c) \/ Disable(c)
  \/ \E c, writing \in BOOLEAN : LinkFails(c, writing) \/ HalfBreak(c, writing)
  \/ \E size \in 1 .. 2 : Request(size)
  \/ SwitchWrite \/ SwitchRead \/ DaemonStarts \/ DaemonFails \/ NoticeOld

\* The select loops of both programs come round again: frames go, what is ready is
\* read, a lost link is noticed, a closed link is written to the end, and a website
\* that is to be enabled is tried in every pass of zimr_start, with success or
\* without.  Nothing obliges the program, the clients, a daemon that is to start or
\* a connect() to succeed.  Each conjunct is weak fairness of its action, with the
\* condition that enables it written out.
Fairness ==
  /\ []<>~(WantsEnable /\ FreeFds(w) # {}) \/ []<><<\E c \in BOOLEAN : Retry(c)>>_vars
  /\ []<>~LinkLost \/ []<><<\E c, writing \in BOOLEAN : LinkFails(c, writing)>>_vars
  /\ []<>~(Running /\ w.closing # {}) \/ []<><<\E fd \in w.closing : LinkClosed(fd)>>_vars
  /\ []<>~(Running /\ Linked /\ HasAvailWrits(w.sw)) \/ []<><<SwitchWrite>>_vars
  /\ []<>~(Running /\ Linked /\ HasAvailWrits(dw)) \/ []<><<SwitchRead>>_vars
  /\ []<>~lingers \/ []<><<NoticeOld>>_vars
  /\ []<>(dw.failed = None) \/ []<><<DaemonFails>>_vars
  /\ []<>~(\E m \in MsgIds : Unregistered(m)) \/ []<><<\E m \in MsgIds : Register(m)>>_vars
  /\ []<>~(\E m \in MsgIds : ReadyToRead(m)) \/ []<><<\E m \in MsgIds : ReadEvent(m)>>_vars

Spec == Init /\ [][Next]_vars /\ Fairness
----------------------------------------------------------------------------
(* Properties. *)

Conns == {m \in MsgIds : w.connections[m] # NoConn}
Msg(m) == w.sw.msgs[m]

\* The website, its connections and its descriptors are well formed.
TypeOK ==
  /\ w.status \in {"DISABLED", "WANT_ENABLE", "ENABLING", "ENABLED"}
  /\ HasLink(w) <=> w.status \in {"ENABLING", "ENABLED"}
  /\ w.opened \subseteq Descriptors /\ w.sockfd \in Descriptors \cup {NoFd}
  /\ w.zfd \subseteq [fd: Descriptors, msg: MsgIds]
  /\ w.sw.selectable \subseteq MsgIds
  /\ w.sw.active_read \cup w.sw.active_write \subseteq w.sw.active_hash
  /\ \A m \in Conns :
       /\ w.connections[m].fd \in Descriptors \cup {NoFd}
       /\ w.connections[m].left \in 0 .. Max(FileSizes)
       /\ w.connections[m].received \in 1 .. w.connections[m].size
  /\ dlink => HasLink(w)

\* connections[] has an entry exactly for the requests that were begun and not
\* closed: no handler finds NULL where it expects a connection, and no entry
\* is left for the next message of the same id.
TableSound ==
  /\ w.failed # "NULL connection"
  /\ Running => \A m \in MsgIds :
       m \in Conns <=>
         /\ HasLink(w) /\ Exists(w.sw, m)
         /\ ~IsCommand(Msg(m).conv)
         /\ Has(w.sw, m, "CONNECTED") /\ ~Has(w.sw, m, "CLOSED")
         /\ Msg(m).n_read > Len(Msg(m).read_queue)

FilesOf(m) == {w.connections[m].fd} \ {NoFd}

\* A file that is being sent is either watched by select() or waits for
\* MSG_EVT_WRITE_READY, never both and never neither; every descriptor is
\* closed with its connection or its link, except those of the responses that
\* find the client's copy current (304) and of the connects that failed.
FilesOwned ==
  /\ w.opened = w.leaked \cup w.closing \cup ({w.sockfd} \ {NoFd}) \cup UNION {FilesOf(m) : m \in Conns}
  /\ w.leaked \cap w.closing = {} /\ w.sockfd \notin w.leaked \cup w.closing
  /\ \A m \in Conns : \A fd \in FilesOf(m) :
       /\ fd \notin w.leaked \cup w.closing \cup {w.sockfd}
       /\ \A n \in Conns \ {m} : fd \notin FilesOf(n)
       /\ (m \in w.sw.active_write) # ([fd |-> fd, msg |-> m] \in w.zfd)
  /\ \A h \in w.zfd : h.msg \in Conns /\ h.fd \in FilesOf(h.msg)

\* No part of a response is refused for lack of room, unless it is written by
\* calls that do not look at their result: a directory listing or an error page,
\* in pieces, and what a program gives to zimr_connection_write.
NotCut == w.cut \subseteq {"pieces", "write"}

\* While n_selectable is not zero zimr_start repeats msg_switch_select and
\* never comes to zfd_select: every message it counts has an event that will
\* be reported and that its handler acts on.
NoSpin ==
  \A m \in w.sw.selectable :
    /\ Exists(w.sw, m) /\ m \in w.sw.active_hash /\ Ready(w.sw, m)
    /\ m \in w.sw.active_write => m \in Conns /\ FilesOf(m) # {}

\* A website that is to be enabled, at first or after its link or its daemon was
\* lost, is enabled in the end or learns that it is refused, unless the daemon goes
\* or every descriptor is leaked: zimr_start tries again, and no answer is missed
\* on the way.  A failed connect leaks a descriptor, so the tries are not without end.
RegistersAgain ==
  w.status \in {"WANT_ENABLE", "ENABLING"} ~>
    (w.status \in {"ENABLED", "DISABLED"} \/ ~Running \/ ~up \/ w.leaked = Descriptors)
=============================================================================
