------------------------------ MODULE LibZimr ------------------------------
(***************************************************************************)
(* lib/zimr.c: the library a web application runs on.  Every C function    *)
(* that changes the state of its website is an operator from the website w *)
(* (and its arguments) to the website it leaves; App adds the select loop, *)
(* the program and the proxy daemon.                                       *)
(*                                                                         *)
(* One website.  A request is counted in packets, a file in chunks, each   *)
(* what zimr_file_handler reads until a packet is complete, a response in  *)
(* the packets its writes complete.  The type of a message, and the length its first   *)
(* packet announces, are its conv: <<type, length>>.                       *)
(***************************************************************************)
EXTENDS MsgSwitch, FiniteSetsExt

CONSTANTS
  Descriptors, \* the process's, for its files and its link
  FileSizes,   \* the sizes of the files, in chunks
  Responses    \* the responses a handler may send whole

ZM_CMD_WS_START == <<-1, 0>>
ZM_CMD_WS_STOP == <<-2, 0>>
IsCommand(conv) == conv[1] < 0

NoFd == 0
NoConn == [null |-> TRUE]          \* connections[msgid] = NULL

\* conn_data_t: the packets received of the size announced, whether its
\* connection_t was made, and fileread_data.
NewConn(size) ==
  [null |-> FALSE, received |-> 0, size |-> size, created |-> FALSE, fd |-> NoFd, left |-> 0]

\* website_t and its website_data_t, the process's descriptors and its end.
\* opened are the descriptors in use, closing those of links that zs_close
\* closes when what zsocket.c is writing is written.  leaked is history: the
\* descriptors that nothing will close, of a response that sent no file and of
\* a connect that failed.  cut is history: the responses of which msg_write
\* refused a part.
NewWebsite ==
  [status |-> "DISABLED", sockfd |-> NoFd, sw |-> EmptySwitch,
   connections |-> [m \in MsgIds |-> NoConn],
   zfd |-> {}, opened |-> {}, closing |-> {}, leaked |-> {}, cut |-> {}, failed |-> None]

\* The website has a link to the daemon.
HasLink(w) == w.sockfd # NoFd

\* The descriptor that open() and socket() return is the lowest that is free.
FreeFds(w) == Descriptors \ w.opened
NextFd(w) == Min(FreeFds(w))

Dies(w, why) == [w EXCEPT !.failed = IF @ = None THEN why ELSE @]

\* The switch of the website after a call; its assertions end the process.
WithSwitch(w, sw) == IF sw.failed = None THEN [w EXCEPT !.sw = sw] ELSE Dies([w EXCEPT !.sw = sw], sw.failed)
----------------------------------------------------------------------------
(* Writing. *)

\* msg_write refuses: the message is closed, disconnected or full.
Refused(sw, m) ==
  \/ Has(sw, m, "CLOSED") \/ Has(sw, m, "DISCONNECTED") \/ ~Has(sw, m, "SPACE_AVAIL_FOR_WRIT")

Full(sw, m) == Refused(sw, m) /\ ~Has(sw, m, "CLOSED") /\ ~Has(sw, m, "DISCONNECTED")

Write(sw, m, k) == IF Refused(sw, m) THEN sw ELSE msg_write(sw, m, k)

\* The msg_writes of one response, whose results are not looked at; response
\* is its kind and the packets that each of them completes.
WriteAll(w, m, response) ==
  LET Step(s, k) == Write(s, m, k)
      steps == [i \in 0 .. Len(response.writes) |-> FoldLeft(Step, w.sw, SubSeq(response.writes, 1, i))]
      cut == \E i \in 0 .. (Len(response.writes) - 1) : Full(steps[i], m)
  IN  [WithSwitch(w, steps[Len(response.writes)]) EXCEPT
         !.cut = IF cut THEN @ \cup {response.kind} ELSE @]
----------------------------------------------------------------------------
(* Ending a connection. *)

\* Mutant: the file stays in the sets of select().
cleanup_fileread_still_watched(w, m) ==
  LET fd == w.connections[m].fd
  IN  [w EXCEPT !.opened = @ \ {fd}, !.connections[m].fd = NoFd]

cleanup_fileread(w, m) ==
  LET fd == w.connections[m].fd
  IN  [w EXCEPT !.zfd = {h \in @ : h.fd # fd},
                !.opened = @ \ {fd},
                !.connections[m].fd = NoFd]

\* msg_close answers EBADMSG to a message that is closed or does not exist.
Close(sw, m) == IF ~Exists(sw, m) \/ Has(sw, m, "CLOSED") THEN sw ELSE msg_close(sw, m)

\* Mutant: the connection stays in connections[].
cleanup_connection_keeping(w, m) ==
  LET closed == WithSwitch(w, Close(w.sw, m))
  IN  IF w.connections[m] = NoConn
      THEN Dies(closed, "NULL connection")
      ELSE cleanup_fileread(closed, m)

cleanup_connection(w, m) ==
  LET closed == WithSwitch(w, Close(w.sw, m))
  IN  IF w.connections[m] = NoConn
      THEN Dies(closed, "NULL connection")
      ELSE [cleanup_fileread(closed, m) EXCEPT !.connections[m] = NoConn]
----------------------------------------------------------------------------
(* Responses. *)

\* zimr_connection_send, _send_error, _send_redirect and _send_dir.
Respond(w, m, response) == cleanup_connection(WriteAll(w, m, response), m)

\* The result of msg_write is not looked at.
zimr_connection_write(w, m, k) ==
  [WithSwitch(w, msg_flush(Write(w.sw, m, k), m)) EXCEPT
     !.cut = IF Full(w.sw, m) THEN @ \cup {"write"} ELSE @]

\* zimr_connection_default_page_handler for a file of n chunks, which the
\* headers of the request may already answer (304): the descriptor is not
\* closed then.  A file that cannot be opened is answered with 404.
SendFile(w, m, n, not_modified) ==
  LET fd == NextFd(w)
      opened == [w EXCEPT !.opened = @ \cup {fd}]
      headers == [kind |-> "headers", writes |-> <<0>>]
      begun == WriteAll(opened, m, headers)
  IN  IF FreeFds(w) = {} THEN Respond(w, m, headers)
      ELSE IF not_modified THEN [Respond(opened, m, headers) EXCEPT !.leaked = @ \cup {fd}]
      ELSE WithSwitch([begun EXCEPT !.connections[m].fd = fd, !.connections[m].left = n],
                      msg_set_write(begun.sw, m))

\* Mutant: the next chunk is read without waiting for MSG_EVT_WRITE_READY.
zimr_file_handler_not_waiting(w, m) ==
  LET conn == w.connections[m]
      ready == WithSwitch(w, msg_set_write(w.sw, m))
      written == [WithSwitch(ready, Write(ready.sw, m, 1)) EXCEPT !.connections[m].left = @ - 1]
  IN  IF w.connections[m] = NoConn THEN Dies(w, "NULL connection")
      ELSE IF conn.left > 0 /\ ~Refused(ready.sw, m) THEN written
      ELSE [cleanup_connection(ready, m) EXCEPT
              !.cut = IF conn.left > 0 /\ Full(ready.sw, m) THEN @ \cup {"file"} ELSE @]

\* One chunk of the file: read and written, or the end of the connection.
zimr_file_handler(w, m) ==
  LET conn == w.connections[m]
      unwatched == [w EXCEPT !.zfd = {h \in @ : h.fd # conn.fd}]
      ready == WithSwitch(unwatched, msg_set_write(w.sw, m))
      written == [WithSwitch(ready, Write(ready.sw, m, 1)) EXCEPT !.connections[m].left = @ - 1]
  IN  IF w.connections[m] = NoConn THEN Dies(w, "NULL connection")
      ELSE IF conn.left > 0 /\ ~Refused(ready.sw, m) THEN written
      ELSE [cleanup_connection(ready, m) EXCEPT
              !.cut = IF conn.left > 0 /\ Full(ready.sw, m) THEN @ \cup {"file"} ELSE @]
----------------------------------------------------------------------------
(* Requests. *)

\* What the website's handler does with a connection: answer it at once, send
\* a file, or keep it.  bad is a request that connection_create rejects.
Outcomes ==
  {[act |-> a] : a \in {"bad", "hold", "not_modified"}}
    \cup {[act |-> "file", chunks |-> n] : n \in FileSizes}
    \cup {[act |-> "send", response |-> r] : r \in Responses}

Handle(w, m, outcome) ==
  LET created == [w EXCEPT !.connections[m].created = TRUE]
  IN  CASE outcome.act = "bad" -> cleanup_connection(w, m)
        [] outcome.act = "hold" -> created
        [] outcome.act = "not_modified" -> SendFile(created, m, 0, TRUE)
        [] outcome.act = "file" -> SendFile(created, m, outcome.chunks, FALSE)
        [] outcome.act = "send" -> Respond(created, m, outcome.response)

\* zimr_connection_handler with the n packets just read, and the cleanup that
\* follows when it answers false: more was sent than announced.
zimr_connection_handler(w, m, n, outcome) ==
  LET conn == IF w.connections[m] = NoConn THEN NewConn(w.sw.msgs[m].conv[2]) ELSE w.connections[m]
      got == [w EXCEPT !.connections[m] = [conn EXCEPT !.received = @ + n]]
  IN  IF conn.received >= conn.size
      THEN cleanup_connection([w EXCEPT !.connections[m] = conn], m)
      ELSE IF conn.received + n > conn.size THEN cleanup_connection(got, m)
      ELSE IF conn.received + n < conn.size THEN got
      ELSE Handle(got, m, outcome)
----------------------------------------------------------------------------
(* Registration with the proxy daemon. *)

CleanupAll(w) ==
  FoldSet(LAMBDA m, s : cleanup_connection(s, m), w, {m \in MsgIds : w.connections[m] # NoConn})

\* The stop command is queued, and destroyed with the switch.  (A message
\* closed after the link failed is freed at once, which shows no more.)
Stop(w) ==
  IF w.status # "ENABLED" THEN w
  ELSE LET m == msg_get_avail_msgid(w.sw)
           s == msg_open(w.sw, ZM_CMD_WS_STOP)
       IN  WithSwitch(w, IF s.failed # None THEN s ELSE msg_close(msg_write(s, m, 0), m))

\* writing: zsocket.c is writing to the link, and closes it when that is done.
zimr_website_disable(w, writing) ==
  IF ~HasLink(w) THEN [w EXCEPT !.status = "DISABLED"]
  ELSE [Stop(CleanupAll(w)) EXCEPT
          !.status = "DISABLED", !.sockfd = NoFd, !.sw = EmptySwitch,
          !.opened = IF writing THEN @ ELSE @ \ {w.sockfd},
          !.closing = IF writing THEN @ \cup {w.sockfd} ELSE @]

\* The write that a closed link waited for is over.
FinishClose(w, fd) == [w EXCEPT !.opened = @ \ {fd}, !.closing = @ \ {fd}]

\* The switch of a new link, with the registration command in it.
Registering ==
  LET s == [EmptySwitch EXCEPT !.selecting = TRUE]
      m == msg_get_avail_msgid(s)
  IN  msg_set_read(msg_flush(msg_write(msg_open(s, ZM_CMD_WS_START), m, 0), m), m)

\* Mutant: the status is set before the connection is known.
zimr_website_enable_too_early(w, connects) ==
  LET fd == NextFd(w)
      trying == [w EXCEPT !.status = "ENABLING"]
  IN  IF w.status \notin {"WANT_ENABLE", "DISABLED"} THEN w
      ELSE IF FreeFds(w) = {} THEN trying
      ELSE IF connects
      THEN [trying EXCEPT !.opened = @ \cup {fd}, !.sockfd = fd, !.sw = Registering]
      ELSE [trying EXCEPT !.opened = @ \cup {fd}, !.leaked = @ \cup {fd}]

\* Without a free descriptor socket() fails; when connect() fails zs_new does
\* not close the one it has.
zimr_website_enable(w, connects) ==
  LET fd == NextFd(w)
      trying == [w EXCEPT !.status = "WANT_ENABLE"]
  IN  IF w.status \notin {"WANT_ENABLE", "DISABLED"} THEN w
      ELSE IF FreeFds(w) = {} THEN trying
      ELSE IF connects
      THEN [trying EXCEPT !.status = "ENABLING", !.opened = @ \cup {fd}, !.sockfd = fd, !.sw = Registering]
      ELSE [trying EXCEPT !.opened = @ \cup {fd}, !.leaked = @ \cup {fd}]

\* A refusal destroys the switch that msg_switch_select is in the middle of.
command_response_handler(w, m, reply, writing) ==
  IF w.sw.msgs[m].conv # ZM_CMD_WS_START THEN WithSwitch(w, Close(w.sw, m))
  ELSE IF reply = "OK" THEN WithSwitch([w EXCEPT !.status = "ENABLED"], Close(w.sw, m))
  ELSE zimr_website_disable(w, writing)
----------------------------------------------------------------------------
(* msg_event_handler. *)

AcceptReady(w, m) ==
  LET s == msg_accept(w.sw, m)
  IN  WithSwitch(w, IF Exists(s, m) THEN msg_set_read(s, m) ELSE s)

\* msg_read takes all the packets that are queued; none is the end of file.
ReadReady(w, m, reply, outcome, writing) ==
  LET n == Len(w.sw.msgs[m].read_queue)
      r == WithSwitch(w, msg_read(w.sw, m, n))
  IN  IF ~Has(w.sw, m, "PACKET_AVAIL_TO_READ") THEN cleanup_connection(w, m)
      ELSE IF IsCommand(w.sw.msgs[m].conv) THEN command_response_handler(r, m, reply, writing)
      ELSE zimr_connection_handler(r, m, n, outcome)

WriteReady(w, m) ==
  IF w.connections[m] = NoConn THEN Dies(w, "NULL connection")
  ELSE IF w.connections[m].fd = NoFd THEN w
  ELSE [WithSwitch(w, msg_clr_write(w.sw, m)) EXCEPT
          !.zfd = @ \cup {[fd |-> w.connections[m].fd, msg |-> m]}]

\* MSG_SWITCH_EVT_IO_ERROR: the website is enabled again at once.
IoError(w, connects, writing) == zimr_website_enable(zimr_website_disable(w, writing), connects)
=============================================================================
