------------------------------- MODULE Zimrd -------------------------------
(***************************************************************************)
(* zimrd/main.c: the daemon that accepts the clients of all websites on    *)
(* one external port and forwards each request, as a message, over the     *)
(* link of the web application that registered the website.                *)
(*                                                                         *)
(* The functions of main.c are operators from the daemon's state d to the  *)
(* state they leave.  What they use is here by what it promises: sockets   *)
(* by ZLoop (a write is busy until it is done, a close waits for it),      *)
(* messages by MsgLink.  The web applications and the clients are the      *)
(* environment.  Descriptors are reused: a client may get the number of a  *)
(* listening socket or of a link that was closed.                          *)
(*                                                                         *)
(* Dereferencing a connection or a socket that is not there ends the       *)
(* process: d.failed names it.                                             *)
(***************************************************************************)
EXTENDS Naturals, FiniteSets

CONSTANTS
  Fds,       \* descriptors the daemon can get
  NoFd,      \* -1
  MsgIds,    \* msgids of one link
  Urls,      \* the websites there can be
  NoUrl,
  Command,   \* msg type ZM_CMD_WS_START
  NBuff      \* MSG_N_BUFF_PACKETS_ALLOWED

ASSUME FdsAssumption ==
  /\ Fds \subseteq Nat /\ IsFiniteSet(Fds)
  /\ NoFd \notin Fds /\ Command \notin Fds /\ Command # NoFd
ASSUME UrlsAssumption == NoUrl \notin Urls
ASSUME MsgIdsAssumption == MsgIds \subseteq Nat \ {0}
ASSUME NBuffAssumption == NBuff \in Nat \ {0}

NoId == 0
None == "none"

(* Sockets: busy is that a write is not done, bad that it failed; rd and   *)
(* wr are the program's interest.                                          *)
Free == [kind |-> "free"]
LinkSocket == [kind |-> "link"]
NewListener == [kind |-> "listen", n_open |-> 1]
NewClient == [kind |-> "client", busy |-> FALSE, bad |-> FALSE,
              rd |-> FALSE, wr |-> FALSE, closing |-> FALSE]

\* connections[fd] = NULL, and the connection of a new client.  The stage is
\* what postlen and website_sockfd say: the header is incomplete, more of the
\* body is to come, the request is complete.
NoConn == [stage |-> None, listener |-> NoFd, link |-> NoFd, msgid |-> NoId]
NewConn(listener) == [NoConn EXCEPT !.stage = "head", !.listener = listener]

\* msgs[msgid] = NULL, and a new message.  inq counts the packets to read,
\* gone is DISCONNECTED.
NoMsg == [type |-> NoFd]
NewMsg(type, url) ==
  [type |-> type, url |-> url, accepted |-> type # Command, inq |-> 0, space |-> TRUE,
   gone |-> FALSE, closed |-> FALSE, rd |-> FALSE, wr |-> FALSE]

NoSite == [url |-> NoUrl, listener |-> NoFd]

Empty ==
  [sock |-> [fd \in Fds |-> Free], conn |-> [fd \in Fds |-> NoConn],
   site |-> [fd \in Fds |-> NoSite], asked |-> {},
   msgs |-> [fd \in Fds |-> [m \in MsgIds |-> NoMsg]], failed |-> None]

FreeFds(d) == {fd \in Fds : d.sock[fd].kind = "free"}
\* accept() and socket() return the lowest descriptor that is free.
NewFds(d) == {fd \in FreeFds(d) : \A x \in FreeFds(d) : fd <= x}
Listeners(d) == {fd \in Fds : d.sock[fd].kind = "listen"}
Links(d) == {fd \in Fds : d.sock[fd].kind = "link"}
Clients(d) == {fd \in Fds : d.sock[fd].kind = "client"}
Messages(d, l) == {m \in MsgIds : d.msgs[l][m] # NoMsg}
FreeIds(d, l) == MsgIds \ Messages(d, l)
AvailId(d, l) == CHOOSE m \in FreeIds(d, l) : \A n \in FreeIds(d, l) : m <= n

Fail(d, what) == [d EXCEPT !.failed = what]
----------------------------------------------------------------------------
(* zsocket.c and msg_switch.c as main.c sees them. *)

zs_set_read(d, fd) == [d EXCEPT !.sock[fd].rd = TRUE]
zs_clr_read(d, fd) == [d EXCEPT !.sock[fd].rd = FALSE]
zs_set_write(d, fd) == [d EXCEPT !.sock[fd].wr = TRUE]
zs_clr_write(d, fd) == [d EXCEPT !.sock[fd].wr = FALSE]

\* zs_write returns -1: not WRITABLE, or the last write failed.
WriteRefused(d, fd) == d.sock[fd].busy \/ d.sock[fd].bad
zs_write(d, fd) == IF WriteRefused(d, fd) THEN d ELSE [d EXCEPT !.sock[fd].busy = TRUE]

\* A client's socket after zs_close, and a listening socket.
ClosedClient(s) == IF s.busy THEN [s EXCEPT !.rd = FALSE, !.wr = FALSE, !.closing = TRUE] ELSE Free
ClosedListener(s) == IF s.n_open > 1 THEN [s EXCEPT !.n_open = @ - 1] ELSE Free

\* msg_close: freed at once when disconnected, else when the other end answers,
\* and no event of it is reported until then, nor is its type looked at.
ClosedMsg(m) == IF m.gone THEN NoMsg ELSE [NewMsg(NoFd, NoUrl) EXCEPT !.closed = TRUE]
----------------------------------------------------------------------------
(* Connections and websites. *)

\* Mutant: the table keeps the entry of the closed connection.
cleanup_connection_dangling(d, fd) ==
  LET c == d.conn[fd]
  IN  [d EXCEPT !.sock[fd] = ClosedClient(@),
                !.msgs = IF c.link = NoFd \/ c.msgid = NoId THEN @
                         ELSE [@ EXCEPT ![c.link][c.msgid] = ClosedMsg(@)]]

cleanup_connection(d, fd) ==
  LET c == d.conn[fd]
      hasMsg == c.link # NoFd /\ c.msgid # NoId /\ d.msgs[c.link][c.msgid] # NoMsg
      closed == IF hasMsg THEN [d EXCEPT !.msgs[c.link][c.msgid] = ClosedMsg(@)] ELSE d
  IN  IF c = NoConn THEN Fail(d, "no connection")
      ELSE [closed EXCEPT !.sock[fd] = ClosedClient(@), !.conn[fd] = NoConn]

\* msg_switch_destroy and zs_close on a link: its messages go with it.
CloseLink(d, l) ==
  [d EXCEPT !.msgs[l] = [m \in MsgIds |-> NoMsg], !.sock[l] = Free, !.asked = @ \ {l}]

\* Mutant: the connections of the website stay.
remove_website_keeping_connections(d, l) ==
  LET lisn == d.site[l].listener
      closed == CloseLink(d, l)
  IN  [closed EXCEPT !.sock[lisn] = ClosedListener(@), !.site[l] = NoSite]

\* Mutant: the listening socket is not closed.
remove_website_listening(d, l) ==
  LET mine == {fd \in Fds : d.conn[fd].link = l}
      cleaned == [d EXCEPT
                    !.sock = [fd \in Fds |-> IF fd \in mine THEN ClosedClient(@[fd]) ELSE @[fd]],
                    !.conn = [fd \in Fds |-> IF fd \in mine THEN NoConn ELSE @[fd]]]
  IN  [CloseLink(cleaned, l) EXCEPT !.site[l] = NoSite]

remove_website(d, l) ==
  LET lisn == d.site[l].listener
      mine == {fd \in Fds : d.conn[fd].link = l}
      cleaned == [d EXCEPT
                    !.sock = [fd \in Fds |-> IF fd \in mine THEN ClosedClient(@[fd]) ELSE @[fd]],
                    !.conn = [fd \in Fds |-> IF fd \in mine THEN NoConn ELSE @[fd]]]
  IN  [CloseLink(cleaned, l) EXCEPT !.sock[lisn] = ClosedListener(@), !.site[l] = NoSite]

website_get_by_full_url(d, url) == {l \in Fds : d.site[l].url = url}

\* zsocket() finds the listening socket that is open, or opens one at the
\* descriptor new; NoFd when it cannot.
start_website(d, l, url, new) ==
  IF website_get_by_full_url(d, url) # {} \/ (Listeners(d) = {} /\ new = NoFd) THEN d
  ELSE LET lisn == IF Listeners(d) = {} THEN new ELSE CHOOSE fd \in Listeners(d) : TRUE
           opened == IF lisn = new THEN NewListener ELSE [d.sock[lisn] EXCEPT !.n_open = @ + 1]
       IN  [d EXCEPT !.sock[lisn] = opened, !.site[l] = [url |-> url, listener |-> lisn]]

\* ZM_CMD_WS_START: the answer is written and the message closed.
command_handler(d, l, m, new) ==
  LET started == start_website(d, l, d.msgs[l][m].url, new)
  IN  [started EXCEPT !.msgs[l][m] = ClosedMsg(@)]

\* Mutant: the next part is read before the client's socket took this one.
Response_eager(d, fd) ==
  IF WriteRefused(d, fd) THEN cleanup_connection(d, fd)
  ELSE [zs_write(d, fd) EXCEPT !.msgs[d.conn[fd].link][d.conn[fd].msgid].rd = TRUE]

\* Part of a response goes to the client, which is dropped when it cannot.
Response(d, fd) ==
  LET armed == zs_set_write(d, fd)
  IN  IF WriteRefused(d, fd) THEN cleanup_connection(armed, fd) ELSE zs_write(armed, fd)
----------------------------------------------------------------------------
(* exread: what the client sent. *)

\* What a read finds: the end, an incomplete header, one that is too long or
\* malformed, a request with a malformed length, or (part of) a request.
\* more: the body is not complete; space: the message takes more after it.
End == [what |-> "eof", url |-> NoUrl, more |-> FALSE, space |-> TRUE]
Inputs ==
  [what: {"incomplete", "malformed"}, url: {NoUrl}, more: {FALSE}, space: {TRUE}]
    \cup [what: {"badlength"}, url: Urls, more: {FALSE}, space: {TRUE}]
    \cup [what: {"request"}, url: Urls, more: BOOLEAN, space: BOOLEAN]

ErrorPage(d, fd) == cleanup_connection(zs_write(d, fd), fd)

\* Mutant: the rest of the body is not waited for.
RequestWrittenDeaf(d, fd, l, m, in) ==
  LET written == [d EXCEPT !.msgs[l][m].space = in.space]
  IN  IF in.more
      THEN [written EXCEPT !.conn[fd].stage = "body"]
      ELSE zs_set_read([written EXCEPT !.conn[fd].stage = "done"], fd)

\* The end of exread: the request is complete, or the rest is awaited.
RequestWritten(d, fd, l, m, in) ==
  LET written == [d EXCEPT !.msgs[l][m].space = in.space]
  IN  IF in.more
      THEN [written EXCEPT !.conn[fd].stage = "body", !.msgs[l][m].wr = TRUE]
      ELSE zs_set_read([written EXCEPT !.conn[fd].stage = "done"], fd)

\* The header is complete: find the website, open a message for the client.
\* The address of the connection's listening socket is part of the search: when
\* its descriptor is another socket by now, no website of it can be found.  A
\* Content-Length that is malformed is met only after the message is open.
Route(d, fd, in) ==
  LET lisn == d.conn[fd].listener
      found == IF d.sock[lisn].kind = "listen" THEN website_get_by_full_url(d, in.url) ELSE {}
      l == CHOOSE x \in found : TRUE
      m == AvailId(d, l)
      opened == [d EXCEPT !.conn[fd].link = l, !.conn[fd].msgid = m,
                          !.msgs[l][m] = NewMsg(fd, NoUrl)]
  IN  IF d.sock[lisn].kind = "free" THEN Fail(d, "no listening socket")
      ELSE IF found = {} THEN ErrorPage(d, fd)
      ELSE IF d.site[l].listener # lisn THEN ErrorPage([d EXCEPT !.conn[fd].link = l], fd)
      ELSE IF in.what = "badlength" THEN ErrorPage(zs_set_write(opened, fd), fd)
      ELSE RequestWritten(zs_set_write(opened, fd), fd, l, m, in)

\* More of the body: msg_write fails when the website is done with the message.
Body(d, fd, in) ==
  LET c == d.conn[fd]
      m == d.msgs[c.link][c.msgid]
  IN  IF d.site[c.link] = NoSite \/ m.gone \/ ~m.space
      THEN ErrorPage(d, fd)
      ELSE RequestWritten(d, fd, c.link, c.msgid, in)

exread(d, fd, in) ==
  LET stage == d.conn[fd].stage
  IN  CASE in.what = "eof" -> cleanup_connection(d, fd)
        [] in.what # "eof" /\ stage = "done" -> d
        [] in.what # "eof" /\ stage = "body" -> Body(d, fd, in)
        [] in.what = "incomplete" /\ stage = "head" -> zs_set_read(d, fd)
        [] in.what = "malformed" /\ stage = "head" -> ErrorPage(d, fd)
        [] in.what \in {"badlength", "request"} /\ stage = "head" -> Route(d, fd, in)
=============================================================================
