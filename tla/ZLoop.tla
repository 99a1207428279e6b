------------------------------- MODULE ZLoop -------------------------------
(***************************************************************************)
(* A process that runs on zsocket.c: the select loop of zfildes.c calls    *)
(* the background handlers, zs_select the program's, and the program calls *)
(* zsocket.c from them.  A program calls with any descriptor it holds, one *)
(* that zsocket or zs_accept returned and that it has not closed.          *)
(*                                                                         *)
(* One process, one thread: every action is one handler or one call, and   *)
(* the order in which select() and the two passes reach the sockets is     *)
(* left open (FdHash has the passes).                                      *)
(***************************************************************************)
EXTENDS ZSocket

CONSTANT MaxOpen   \* bound: zsocket calls for one listening socket

VARIABLES
  st,      \* the state of zsocket.c and zfildes.c
  held,    \* the CONNECT sockets the program may call with
  lost,    \* history: offered by a listening socket that was closed
  exited   \* zfd_select returned 0 and main leaves its loop, or an assertion failed

vars == <<st, held, lost, exited>>

Init ==
  /\ st = Empty
  /\ held = {}
  /\ lost = {}
  /\ exited = FALSE

Free == {fd \in Fds : ~IsOpen(st, fd)}
OpenListeners == {fd \in Fds : st.zsockets[fd].type = "LISTEN"}
OpenConnects == {fd \in Fds : st.zsockets[fd].type = "CONNECT"}

\* What the calls on a socket can come to.
ReadOutcomes(ssl) == {"done", "eof", "error", "want_read"} \cup (IF ssl THEN {"want_write"} ELSE {})
WriteOutcomes(ssl) == {"done", "part", "error", "want_write"} \cup (IF ssl THEN {"want_read", "eof"} ELSE {})

Results(fd) ==
  LET ssl == st.zsockets[fd].ssl
  IN  [read: ReadOutcomes(ssl), write: WriteOutcomes(ssl)]

----------------------------------------------------------------------------
(* The select loop. *)

\* A descriptor that was closed is still in the sets given to select().
BadWatch == \E fd \in st.zfd_read \cup st.zfd_write : ~IsOpen(st, fd)

\* select() fails with EBADF.
SelectFails ==
  /\ ~exited
  /\ BadWatch
  /\ exited' = TRUE
  /\ UNCHANGED <<st, held, lost>>

Ready(fd, watched) == ~exited /\ ~BadWatch /\ fd \in watched

FdAccept(fd) ==
  /\ Ready(fd, st.zfd_read)
  /\ st.zsockets[fd].type = "LISTEN"
  /\ \E new \in Free \cup {NoFd} : st' = zs_internal_accept(st, fd, new)
  /\ UNCHANGED <<held, lost, exited>>

FdRead(fd, r) ==
  /\ Ready(fd, st.zfd_read)
  /\ st.zsockets[fd].type = "CONNECT"
  /\ st' = zs_internal_read(st, fd, r)
  /\ UNCHANGED <<held, lost, exited>>

\* zfd_select calls the write handler of every socket in active_write_fd_set,
\* whether select() reported it or not.
FdWrite(fd, r) ==
  /\ Ready(fd, st.zfd_write)
  /\ st.zsockets[fd].type = "CONNECT"
  /\ st' = zs_internal_write(st, fd, r)
  /\ UNCHANGED <<held, lost, exited>>

\* The assertion of zs_internal_write fails: the write watch is that of a TLS
\* connection that was closed, and the descriptor is a listening socket now.
FdWriteListener(fd) ==
  /\ Ready(fd, st.zfd_write)
  /\ st.zsockets[fd].type = "LISTEN"
  /\ exited' = TRUE
  /\ UNCHANGED <<st, held, lost>>
----------------------------------------------------------------------------
(* The program's calls. *)

Call(result) ==
  /\ ~exited
  /\ st' = result
  /\ UNCHANGED exited

\* zsocket and the zs_set_read that follows it.
OpenListener(fd, ssl) ==
  /\ fd \in Free
  /\ Call(zs_set_read(Listen(st, fd, ssl), fd))
  /\ UNCHANGED <<held, lost>>

ReopenListener(fd) ==
  /\ fd \in OpenListeners
  /\ st.zsockets[fd].n_open < MaxOpen
  /\ Call(zs_set_read(ListenAgain(st, fd), fd))
  /\ UNCHANGED <<held, lost>>

OpenConnect(fd, ssl, r) ==
  /\ fd \in Free
  /\ r \in ReadOutcomes(ssl)
  /\ Call(ConnectTo(st, fd, ssl, r))
  /\ held' = held \cup {fd}
  /\ UNCHANGED lost

\* ZS_EVT_ACCEPT_READY.
AcceptCall(fd) ==
  /\ fd \in OpenListeners \cap st.active_read
  /\ "READABLE" \in Status(st, fd)
  /\ Call(zs_accept(st, fd))
  /\ held' = held \cup {st.zsockets[fd].accepted_fd}
  /\ UNCHANGED lost

CloseListener(fd) ==
  /\ fd \in OpenListeners
  /\ Call(zs_close(st, fd))
  /\ lost' = IF IsOpen(st', fd) THEN lost ELSE lost \cup ({st.zsockets[fd].accepted_fd} \ {NoFd})
  /\ UNCHANGED held

Interest(fd) ==
  /\ fd \in held
  /\ \/ Call(zs_set_read(st, fd)) \/ Call(zs_clr_read(st, fd))
     \/ Call(zs_set_write(st, fd)) \/ Call(zs_clr_write(st, fd))
  /\ UNCHANGED <<held, lost>>

ReadCall(fd, all, r) ==
  /\ fd \in held
  /\ "READABLE" \in Status(st, fd)
  /\ Call(zs_read(st, fd, all, r))
  /\ UNCHANGED <<held, lost>>

WriteCall(fd) ==
  /\ fd \in held
  /\ "WRITABLE" \in Status(st, fd)
  /\ EarlyWrites \/ "ACCEPTING" \notin Status(st, fd)
  /\ Call(zs_write(st, fd))
  /\ UNCHANGED <<held, lost>>

CloseCall(fd) ==
  /\ fd \in held
  /\ Call(zs_close(st, fd))
  /\ held' = held \ {fd}
  /\ UNCHANGED lost

Next ==
  \/ SelectFails
  \/ \E fd \in Fds :
       \/ FdAccept(fd) \/ FdWriteListener(fd)
       \/ \E r \in Results(fd) : FdRead(fd, r) \/ FdWrite(fd, r)
       \/ ReopenListener(fd) \/ AcceptCall(fd) \/ CloseListener(fd)
       \/ Interest(fd) \/ WriteCall(fd) \/ CloseCall(fd)
       \/ \E ssl \in ListenModes : OpenListener(fd, ssl)
       \/ \E ssl \in ConnectModes, r \in Outcomes : OpenConnect(fd, ssl, r)
       \/ \E all \in BOOLEAN, r \in ReadOutcomes(st.zsockets[fd].ssl) : ReadCall(fd, all, r)

Spec == Init /\ [][Next]_vars

\* zs_writer, or zs_reader, is called for fd, and its call comes to something.
Progress == [read: {"done", "eof", "error"}, write: {"done", "error"}]
WriterRuns(fd) ==
  \E r \in Progress :
    \/ "WANT_WRITE_FROM_WRITE" \in Status(st, fd) /\ FdWrite(fd, r)
    \/ "WANT_READ_FROM_WRITE" \in Status(st, fd) /\ FdRead(fd, r)
ReaderRuns(fd) ==
  \E r \in Progress :
    \/ "WANT_READ_FROM_READ" \in Status(st, fd) /\ FdRead(fd, r)
    \/ "WANT_WRITE_FROM_READ" \in Status(st, fd) /\ FdWrite(fd, r)

\* The loop comes back to select() and calls the handlers of a watched socket
\* again and again; neither the kernel nor the peer makes it wait for ever.
FairSpec ==
  /\ Spec
  /\ WF_vars(SelectFails)
  /\ \A fd \in Fds : SF_vars(WriterRuns(fd)) /\ SF_vars(ReaderRuns(fd))
----------------------------------------------------------------------------
(* Properties. *)

\* The state is well formed; a socket that is connecting, connected or
\* listening is never two of these.
TypeOK ==
  /\ st \in States
  /\ held \in SUBSET Fds /\ lost \in SUBSET Fds
  /\ exited \in BOOLEAN
  /\ \A fd \in OpenConnects : ("CONNECTED" \in Status(st, fd)) # ("CONNECTING" \in Status(st, fd))

RSelectable(s) == {fd \in s.active_read : "READABLE" \in Status(s, fd)}
WSelectable(s) == {fd \in s.active_write : "WRITABLE" \in Status(s, fd)}

\* n_selectable counts the events that zs_select would report.  Too low, and
\* the program blocks in select() with an event to report; too high, and it
\* never blocks again.
SelectableCounted ==
  st.n_selectable = Cardinality(RSelectable(st)) + Cardinality(WSelectable(st))

\* Every descriptor of active_hash has a socket: zs_select would otherwise
\* repeat its continue for ever.
ActiveExists == \A fd \in st.active_read \cup st.active_write : IsOpen(st, fd)

\* select() watches exactly what the sockets' states call for: no path through
\* the handlers forgets to call zs_update_fd_state, or calls it too early.  The
\* write watch of a listening socket is the exception: zs_update_fd_state leaves
\* it as zs_close left it (WriterConnected).
WatchCurrent ==
  \A fd \in Fds : IsOpen(st, fd) =>
    /\ fd \in st.zfd_read <=> WantsRead(st, fd)
    /\ st.zsockets[fd].type = "CONNECT" => (fd \in st.zfd_write <=> WantsWrite(st, fd))

\* zs_reader never finds unread data, a failure or the end of file in the
\* buffer it is about to fill: no want of it is left on a READABLE socket.
ReadBufferFree ==
  \A fd \in OpenConnects :
    /\ st.zsockets[fd].used # 0 => "READABLE" \in Status(st, fd)
    /\ "READABLE" \in Status(st, fd) =>
         /\ Status(st, fd) \cap {"READING", "WANT_READ_FROM_READ", "WANT_WRITE_FROM_READ"} = {}
         /\ st.zsockets[fd].used = 0 => "EOF" \in Status(st, fd)

\* A write that zs_write accepted is pending until it is done: the buffer is
\* kept exactly while the socket is WRITING, select() is asked for what the
\* write waits for, and a zs_close that came meanwhile is not forgotten.
WritePending ==
  \A fd \in OpenConnects :
    /\ st.zsockets[fd].buffer <=> "WRITING" \in Status(st, fd)
    /\ "WRITING" \in Status(st, fd) =>
         /\ "WRITABLE" \notin Status(st, fd)
         /\ Status(st, fd) \cap {"WANT_WRITE_FROM_WRITE", "WANT_READ_FROM_WRITE"} # {}
    /\ "CLOSED" \in Status(st, fd) => "WRITING" \in Status(st, fd)

\* Every connection is the program's, is offered to it by the listening socket
\* that accepted it, is closing, or was dropped with its listening socket.
Accounted ==
  /\ held \subseteq OpenConnects
  /\ \A fd \in OpenConnects :
       \/ fd \in held /\ "CLOSED" \notin Status(st, fd)
       \/ fd \notin held /\ "CLOSED" \in Status(st, fd)
       \/ fd \notin held /\ \E l \in OpenListeners :
            st.zsockets[l].accepted_fd = fd /\ "READABLE" \in Status(st, l)
       \/ fd \notin held /\ fd \in lost

\* What zsocket.c does in the background ends: data that zs_write took is
\* written or fails, after a zs_close too, and a read that was begun returns.
BackgroundEnds ==
  \A fd \in Fds :
    /\ ("WRITING" \in Status(st, fd)) ~> (exited \/ "WRITING" \notin Status(st, fd))
    /\ ("READING" \in Status(st, fd)) ~> (exited \/ "READING" \notin Status(st, fd))

\* zs_internal_write is called for connections only, as it asserts.
WriterConnected == \A fd \in Fds : Ready(fd, st.zfd_write) => st.zsockets[fd].type = "CONNECT"

\* select() is never given a descriptor that was closed: zfildes.c calls any
\* failure that is not an interruption "an unanticipated error".
SelectAnticipated == ~BadWatch
=============================================================================
