------------------------------ MODULE ZSocket ------------------------------
(***************************************************************************)
(* zsocket.c over zfildes.c: the sockets of one process.  zsocket does the *)
(* reading, writing, accepting and TLS handshakes in the background, when  *)
(* the select() of zfildes.c says so, and tells the program through        *)
(* zs_select which sockets are readable or writable.                       *)
(*                                                                         *)
(* Every function of zsocket.c that changes state is an operator from the  *)
(* process's state st to the state it leaves; the actions below apply them *)
(* as the program's event handlers and as zfd_select do, in any order.     *)
(* The bytes are abstracted: read.used is 0, 1 (unread data) or -1 (the    *)
(* read failed).  The outcome of a system call or of an OpenSSL call is a  *)
(* parameter r, chosen by the environment.                                 *)
(***************************************************************************)
EXTENDS Integers, FiniteSets

CONSTANTS
  Fds,          \* the descriptors the kernel hands out
  ListenModes,  \* the ssl argument of zsocket() for listening sockets,
  ConnectModes, \* and for outgoing connections
  EarlyWrites   \* whether a program may write before the TLS handshake ended

ASSUME FdsAssumption == IsFiniteSet(Fds) /\ Fds \subseteq Nat
ASSUME ModesAssumption == ListenModes \subseteq BOOLEAN /\ ConnectModes \subseteq BOOLEAN
ASSUME EarlyWritesAssumption == EarlyWrites \in BOOLEAN

NoFd == -1

WantRead == {"WANT_READ_FROM_READ", "WANT_READ_FROM_WRITE", "WANT_READ_FROM_CONNECT"}
WantWrite == {"WANT_WRITE_FROM_READ", "WANT_WRITE_FROM_WRITE", "WANT_WRITE_FROM_CONNECT"}
Flags == WantRead \cup WantWrite \cup
         {"CONNECTED", "READABLE", "WRITABLE", "ACCEPTING", "CONNECTING", "READING",
          "WRITING", "EOF", "CLOSED"}

\* What a read, write, accept or connect call can come to; "part" is a short
\* write, EAGAIN is the want of the call's own direction.
Outcomes == {"done", "part", "eof", "error", "want_read", "want_write"}

Socket ==
  [type: {"NULL", "LISTEN", "CONNECT"}, ssl: BOOLEAN, status: SUBSET Flags, used: -1 .. 1,
   buffer: BOOLEAN, read_errno: BOOLEAN, write_errno: BOOLEAN, n_open: Nat,
   accepted_fd: Fds \cup {NoFd}, parent_fd: Fds \cup {NoFd}]

\* zsockets[fd] = NULL.
Null ==
  [type |-> "NULL", ssl |-> FALSE, status |-> {}, used |-> 0, buffer |-> FALSE,
   read_errno |-> FALSE, write_errno |-> FALSE, n_open |-> 0, accepted_fd |-> NoFd, parent_fd |-> NoFd]

States ==
  [zsockets: [Fds -> Socket], active_read: SUBSET Fds, active_write: SUBSET Fds,
   zfd_read: SUBSET Fds, zfd_write: SUBSET Fds, n_selectable: Int]

\* After zs_init.
Empty ==
  [zsockets |-> [fd \in Fds |-> Null], active_read |-> {}, active_write |-> {},
   zfd_read |-> {}, zfd_write |-> {}, n_selectable |-> 0]

Status(st, fd) == st.zsockets[fd].status
IsOpen(st, fd) == st.zsockets[fd].type # "NULL"

\* FL_SET and FL_CLR on flags that n_selectable does not depend on.
Flag(st, fd, set, clr) == [st EXCEPT !.zsockets[fd].status = (@ \ clr) \cup set]

\* FL_SET and FL_CLR of READABLE and WRITABLE, with the n_selectable count
\* that goes with each of them.
MakeReadable(st, fd) ==
  [st EXCEPT
     !.zsockets[fd].status = @ \cup {"READABLE"},
     !.n_selectable = IF fd \in st.active_read /\ "READABLE" \notin Status(st, fd) THEN @ + 1 ELSE @]

MakeWritable(st, fd) ==
  [st EXCEPT
     !.zsockets[fd].status = @ \cup {"WRITABLE"},
     !.n_selectable = IF fd \in st.active_write /\ "WRITABLE" \notin Status(st, fd) THEN @ + 1 ELSE @]

DropReadable(st, fd) ==
  [st EXCEPT
     !.zsockets[fd].status = @ \ {"READABLE"},
     !.n_selectable = IF fd \in st.active_read /\ "READABLE" \in Status(st, fd) THEN @ - 1 ELSE @]

DropWritable(st, fd) ==
  [st EXCEPT
     !.zsockets[fd].status = @ \ {"WRITABLE"},
     !.n_selectable = IF fd \in st.active_write /\ "WRITABLE" \in Status(st, fd) THEN @ - 1 ELSE @]
----------------------------------------------------------------------------
(* What select() watches, and what the program asked to hear of. *)

WantsWrite(st, fd) ==
  /\ st.zsockets[fd].type = "CONNECT"
  /\ \/ fd \in st.active_write /\ Status(st, fd) \cap {"WRITING", "WRITABLE"} = {}
     \/ Status(st, fd) \cap WantWrite # {}

\* Mutant: a socket that is READABLE already is watched again.
WantsReadWhileReadable(st, fd) ==
  LET busy == IF st.zsockets[fd].type = "CONNECT" THEN "READING" ELSE "ACCEPTING"
  IN  \/ fd \in st.active_read /\ busy \notin Status(st, fd)
      \/ st.zsockets[fd].type = "CONNECT" /\ Status(st, fd) \cap WantRead # {}

WantsRead(st, fd) ==
  LET busy == IF st.zsockets[fd].type = "CONNECT" THEN "READING" ELSE "ACCEPTING"
  IN  \/ fd \in st.active_read /\ Status(st, fd) \cap {busy, "READABLE"} = {}
      \/ st.zsockets[fd].type = "CONNECT" /\ Status(st, fd) \cap WantRead # {}

\* zfd_set or zfd_clr for each direction.  The write watch of a listening socket
\* is not looked at: one that the descriptor was left with by FullClose stays.
zs_update_fd_state(st, fd) ==
  [st EXCEPT
     !.zfd_write = IF WantsWrite(st, fd) THEN @ \cup {fd}
                   ELSE IF st.zsockets[fd].type = "CONNECT" THEN @ \ {fd}
                   ELSE @,
     !.zfd_read = IF WantsRead(st, fd) THEN @ \cup {fd} ELSE @ \ {fd}]

zs_set_read(st, fd) ==
  zs_update_fd_state(
    [st EXCEPT
       !.n_selectable = IF fd \notin st.active_read /\ "READABLE" \in Status(st, fd) THEN @ + 1 ELSE @,
       !.active_read = @ \cup {fd}], fd)

\* Mutant: the event of a READABLE socket stays counted.
zs_clr_read_uncounted(st, fd) == zs_update_fd_state([st EXCEPT !.active_read = @ \ {fd}], fd)

zs_clr_read(st, fd) ==
  zs_update_fd_state(
    [st EXCEPT
       !.n_selectable = IF fd \in st.active_read /\ "READABLE" \in Status(st, fd) THEN @ - 1 ELSE @,
       !.active_read = @ \ {fd}], fd)

zs_set_write(st, fd) ==
  zs_update_fd_state(
    [st EXCEPT
       !.n_selectable = IF fd \notin st.active_write /\ "WRITABLE" \in Status(st, fd) THEN @ + 1 ELSE @,
       !.active_write = @ \cup {fd}], fd)

zs_clr_write(st, fd) ==
  zs_update_fd_state(
    [st EXCEPT
       !.n_selectable = IF fd \in st.active_write /\ "WRITABLE" \in Status(st, fd) THEN @ - 1 ELSE @,
       !.active_write = @ \ {fd}], fd)
----------------------------------------------------------------------------
(* Closing. *)

\* Mutant: the program's interest in writing outlives the socket.
FullCloseKeepingWrite(st, fd) ==
  LET unwatched == [st EXCEPT !.zfd_read = @ \ {fd}, !.zfd_write = @ \ {fd}]
  IN  [zs_clr_read(unwatched, fd) EXCEPT !.zsockets[fd] = Null]

\* zs_close of a socket that is not WRITING and has no other opener.  The two
\* zfd_clr come first: zs_clr_read and zs_clr_write may set again what a
\* pending TLS call still wants.
FullClose(st, fd) ==
  LET unwatched == [st EXCEPT !.zfd_read = @ \ {fd}, !.zfd_write = @ \ {fd}]
  IN  [zs_clr_write(zs_clr_read(unwatched, fd), fd) EXCEPT !.zsockets[fd] = Null]

zs_close(st, fd) ==
  LET z == st.zsockets[fd]
  IN  IF z.type = "LISTEN" /\ z.n_open > 1
      THEN [st EXCEPT !.zsockets[fd].n_open = @ - 1]
      ELSE IF z.type = "CONNECT" /\ "WRITING" \in z.status
      THEN Flag(zs_clr_write(zs_clr_read(st, fd), fd), fd, {"CLOSED"}, {})
      ELSE FullClose(st, fd)
----------------------------------------------------------------------------
(* The background work: accepting, connecting, writing, reading. *)

\* Mutant: the call that began the handshake is not asked for again.
HandshakeOverAndForgotten(st, fd) == Flag(st, fd, {}, {"ACCEPTING"})

\* The TLS handshake that zs_reader and zs_writer continue has ended, well or
\* not: the call that was waiting for it is asked for again.
HandshakeOver(st, fd) ==
  LET again == IF "READING" \in Status(st, fd) THEN {"WANT_READ_FROM_READ"}
               ELSE IF "WRITING" \in Status(st, fd) THEN {"WANT_WRITE_FROM_WRITE"}
               ELSE {}
  IN  Flag(st, fd, again, {"ACCEPTING"})

Handshaking(st, fd) == st.zsockets[fd].ssl /\ "ACCEPTING" \in Status(st, fd)

zs_connecter(st, fd, r) ==
  LET broken == st.zsockets[fd].ssl /\ r = "error"
      failed == [st EXCEPT !.zsockets[fd].read_errno = @ \/ broken,
                           !.zsockets[fd].write_errno = @ \/ broken]
  IN  IF st.zsockets[fd].ssl /\ r = "want_read" THEN Flag(st, fd, {"WANT_READ_FROM_CONNECT"}, {})
      ELSE IF st.zsockets[fd].ssl /\ r = "want_write" THEN Flag(st, fd, {"WANT_WRITE_FROM_CONNECT"}, {})
      ELSE Flag(MakeWritable(failed, fd), fd, {"CONNECTED"}, {"CONNECTING"})

\* Mutant: after a short write the rest is not asked for.
zs_writer_short(st, fd, r) ==
  LET written == Flag(MakeWritable([st EXCEPT !.zsockets[fd].buffer = FALSE], fd), fd,
                      {}, {"WRITING"})
  IN  IF r = "want_read" THEN Flag(st, fd, {"WANT_READ_FROM_WRITE"}, {})
      ELSE IF r = "want_write" THEN Flag(st, fd, {"WANT_WRITE_FROM_WRITE"}, {})
      ELSE IF Handshaking(st, fd) THEN HandshakeOver(st, fd)
      ELSE IF r = "part" THEN st
      ELSE IF "CLOSED" \in Status(st, fd) THEN zs_close(written, fd)
      ELSE written

zs_writer(st, fd, r) ==
  LET failed == [st EXCEPT !.zsockets[fd].write_errno = @ \/ r = "error"]
      written == Flag(MakeWritable([failed EXCEPT !.zsockets[fd].buffer = FALSE], fd), fd,
                      {}, {"WRITING"})
  IN  IF r = "want_read" THEN Flag(st, fd, {"WANT_READ_FROM_WRITE"}, {})
      ELSE IF r = "want_write" THEN Flag(st, fd, {"WANT_WRITE_FROM_WRITE"}, {})
      ELSE IF Handshaking(st, fd) THEN HandshakeOver(failed, fd)
      ELSE IF r = "part" THEN Flag(st, fd, {"WANT_WRITE_FROM_WRITE"}, {})
      ELSE IF "CLOSED" \in Status(st, fd) THEN zs_close(written, fd)
      ELSE written

zs_reader(st, fd, r) ==
  LET failed == [st EXCEPT !.zsockets[fd].read_errno = @ \/ r = "error"]
      got == [failed EXCEPT !.zsockets[fd].used = IF r = "done" THEN 1 ELSE IF r = "error" THEN -1 ELSE @]
  IN  IF r = "want_read" THEN Flag(st, fd, {"WANT_READ_FROM_READ"}, {})
      ELSE IF r = "want_write" THEN Flag(st, fd, {"WANT_WRITE_FROM_READ"}, {})
      ELSE IF Handshaking(st, fd) THEN HandshakeOver(failed, fd)
      ELSE Flag(MakeReadable(got, fd), fd, IF r = "eof" THEN {"EOF"} ELSE {}, {"READING"})

\* The child of an accept is connected; a TLS child begins its handshake with
\* its first read or write.
zs_accepter(st, fd) ==
  LET parent == st.zsockets[fd].parent_fd
      told == Flag(MakeReadable(st, parent), parent, {}, {"ACCEPTING"})
      ready == Flag(MakeWritable(told, fd), fd,
                    {"CONNECTED"} \cup (IF st.zsockets[fd].ssl THEN {"ACCEPTING"} ELSE {}), {})
  IN  zs_update_fd_state(ready, parent)

\* zs_type_init for a CONNECT socket.
NewConnect(st, fd, ssl, parent) ==
  [st EXCEPT !.zsockets[fd] = [Null EXCEPT !.type = "CONNECT", !.ssl = ssl, !.parent_fd = parent]]

\* accept() gave the descriptor new; NoFd when it failed.
zs_internal_accept(st, fd, new) ==
  IF new = NoFd
  THEN zs_update_fd_state([Flag(st, fd, {}, {"ACCEPTING"}) EXCEPT !.zsockets[fd].accepted_fd = NoFd], fd)
  ELSE LET child == NewConnect(Flag(st, fd, {"ACCEPTING"}, {}), new, st.zsockets[fd].ssl, fd)
           offered == [child EXCEPT !.zsockets[fd].accepted_fd = new]
       IN  zs_update_fd_state(zs_update_fd_state(zs_accepter(offered, new), new), fd)

\* Mutant: WANT_WRITE_FROM_READ survives the call it asked for.
WriteThenReadWanting(st, fd, r) ==
  LET wrote == IF "WANT_WRITE_FROM_WRITE" \in Status(st, fd)
               THEN zs_writer(Flag(st, fd, {}, {"WANT_WRITE_FROM_WRITE"}), fd, r.write)
               ELSE st
  IN  IF IsOpen(wrote, fd) /\ "WANT_WRITE_FROM_READ" \in Status(wrote, fd)
      THEN zs_reader(wrote, fd, r.read)
      ELSE wrote

\* r.write and r.read are the outcomes of the calls zs_writer and zs_reader make.
WriteThenRead(st, fd, r) ==
  LET wrote == IF "WANT_WRITE_FROM_WRITE" \in Status(st, fd)
               THEN zs_writer(Flag(st, fd, {}, {"WANT_WRITE_FROM_WRITE"}), fd, r.write)
               ELSE st
  IN  IF IsOpen(wrote, fd) /\ "WANT_WRITE_FROM_READ" \in Status(wrote, fd)
      THEN zs_reader(Flag(wrote, fd, {}, {"WANT_WRITE_FROM_READ"}), fd, r.read)
      ELSE wrote

ReadThenWrite(st, fd, r) ==
  LET begun == IF Status(st, fd) \cap {"WANT_READ_FROM_READ", "WANT_READ_FROM_WRITE"} = {}
               THEN Flag(st, fd, {"READING", "WANT_READ_FROM_READ"}, {})
               ELSE st
      got == IF "WANT_READ_FROM_READ" \in Status(begun, fd)
             THEN zs_reader(Flag(begun, fd, {}, {"WANT_READ_FROM_READ"}), fd, r.read)
             ELSE begun
  IN  IF "WANT_READ_FROM_WRITE" \in Status(got, fd)
      THEN zs_writer(Flag(got, fd, {}, {"WANT_READ_FROM_WRITE"}), fd, r.write)
      ELSE got

UpdateIfOpen(st, fd) == IF IsOpen(st, fd) THEN zs_update_fd_state(st, fd) ELSE st

\* A CONNECT socket is CONNECTED or CONNECTING (TypeOK of ZLoop): the branch of
\* zs_internal_write and zs_internal_read that calls zs_accepter is not taken.
zs_internal_write(st, fd, r) ==
  UpdateIfOpen(
    IF "CONNECTED" \in Status(st, fd) THEN WriteThenRead(st, fd, r)
    ELSE zs_connecter(Flag(st, fd, {}, {"WANT_WRITE_FROM_CONNECT"}), fd, r.write), fd)

zs_internal_read(st, fd, r) ==
  UpdateIfOpen(
    IF "CONNECTED" \in Status(st, fd) THEN ReadThenWrite(st, fd, r)
    ELSE zs_connecter(Flag(st, fd, {}, {"WANT_READ_FROM_CONNECT"}), fd, r.read), fd)
----------------------------------------------------------------------------
(* The functions a program calls. *)

\* zsocket() for a listening socket that is open already, and for a new one.
ListenAgain(st, fd) == [st EXCEPT !.zsockets[fd].n_open = @ + 1]
Listen(st, fd, ssl) ==
  [st EXCEPT !.zsockets[fd] = [Null EXCEPT !.type = "LISTEN", !.ssl = ssl, !.n_open = 1]]

\* zsocket() for an outgoing connection.
ConnectTo(st, fd, ssl, r) ==
  zs_update_fd_state(
    zs_connecter(Flag(NewConnect(st, fd, ssl, NoFd), fd, {"CONNECTING"}, {}), fd, r), fd)

zs_accept(st, fd) ==
  [zs_update_fd_state(DropReadable(st, fd), fd) EXCEPT !.zsockets[fd].accepted_fd = NoFd]

\* The read-ahead: zs_reader once more, with what it wants forgotten.
ReadAhead(st, fd, r) ==
  LET kept == Status(st, fd) \cap {"WANT_READ_FROM_READ", "WANT_WRITE_FROM_READ"}
  IN  Flag(zs_reader(st, fd, r), fd, kept, {"WANT_READ_FROM_READ", "WANT_WRITE_FROM_READ"})

\* A read of a readable socket.  Takes all the unread data (all) or a part of it; the end of file and an
\* error are read again by every call.
zs_read(st, fd, all, r) ==
  IF st.zsockets[fd].used = 1 /\ ~all THEN st
  ELSE LET takes == st.zsockets[fd].used = 1 /\ ~st.zsockets[fd].read_errno
           taken == [st EXCEPT !.zsockets[fd].used = IF takes THEN 0 ELSE @]
       IN  IF taken.zsockets[fd].used # 0 \/ "EOF" \in Status(st, fd) THEN taken
           ELSE zs_update_fd_state(ReadAhead(DropReadable(taken, fd), fd, r), fd)

\* Mutant: zs_update_fd_state is not called.
zs_write_unwatched(st, fd) ==
  Flag([DropWritable(st, fd) EXCEPT !.zsockets[fd].buffer = TRUE], fd,
       {"WRITING", "WANT_WRITE_FROM_WRITE"}, {})

zs_write(st, fd) ==
  LET s == DropWritable(st, fd)
  IN  zs_update_fd_state(
        IF st.zsockets[fd].write_errno THEN [s EXCEPT !.zsockets[fd].write_errno = FALSE]
        ELSE Flag([s EXCEPT !.zsockets[fd].buffer = TRUE], fd,
                  {"WRITING", "WANT_WRITE_FROM_WRITE"}, {}), fd)
=============================================================================
