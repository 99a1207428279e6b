# Verification of zimr

zimr serves websites from processes of their own. A daemon, `zimrd`, accepts
the HTTP and HTTPS clients of all websites; each website is a web application
process linked with `libzimr`, which connects to the daemon, registers its URL
and then receives the requests for it and returns the responses over that one
connection, its *link*. All programs are single-threaded and driven by one
`select()` loop; what is hard in them is the order of events: what a handler
finds has changed since the event it waits for was asked for, descriptors and
message ids are reused at once, everything that closes does so in several
steps, and either end may go at any time.

## The system: inventory

Line numbers are those of `src/src/`.

**fd_hash** (`fd_hash.c`). State: a table indexed by descriptor with two
pointers per entry, head and tail. Operations: `fd_hash_add`, `fd_hash_remove`,
`fd_hash_head`, `fd_hash_next`. Used by the three dispatch loops
(`zfd_select`, `zs_select`, `msg_switch_select`), whose handlers change the list
during the pass. Correct when the pointers always link exactly what was added and
not removed, and when a pass misses nothing.

**zfildes** (`zfildes.c`). State: the read and write sets for `select()`, one
handler per descriptor and direction. Operations: `zfd_set`, `zfd_clr`,
`zfd_select`. Correct when only open descriptors are in the sets.

**zsocket** (`zsocket.c`). State per socket: a set of flags (connecting,
accepting, reading, writing, readable, writable, closed, eight *wants*), one read
and one write buffer; globally the sets of descriptors the program wants events
for and the counter `n_selectable`. Operations: `zsocket`, `zs_accept`,
`zs_read`, `zs_write`, `zs_close`, `zs_set_/clr_read/write`, `zs_select`, and the
background handlers `zs_internal_*` called by `zfd_select`, which call
`zs_accepter`, `zs_connecter`, `zs_reader`, `zs_writer`. Hard: TLS, where a read
may have to wait for writing and the reverse and any call may have to finish the
handshake first; the counter, adjusted at fourteen places; closing while a write
is pending. Correct when the counter, the select sets and the buffers always
agree with the flags, and what was begun ends.

**msg_switch** (`msg_switch.c`). State per link: the messages by `msgid`, the
map `imsgid_map` from the ids the other end chose, the queues of messages with
packets to write and of responses. State per message: status flags, the queues
of packets to write and to read, the packet begun. Operations: `msg_open`,
`msg_accept`, `msg_write`, `msg_flush`, `msg_read`, `msg_close`, and the
background `msg_switch_read`, `msg_switch_write`. Hard: one packet per message
is unacknowledged at a time and the acknowledgement is withheld while the reader
is full; both ends may close at once; an id is reused as soon as one end has
freed it. Correct when packets arrive in order, at their message, within the
buffers, and when what is closed is freed at both ends.

**zimrd** (`zimrd/main.c`) with **website** (`website.c`). State: the table
`connections[]` of clients, the list of websites with their link and listening
socket. Operations: the handlers `insock_event_hdlr`, `exsock_event_hdlr`,
`msg_event_handler`, and what they call: `exread`, `command_handler`,
`start_website`, `remove_website`, `cleanup_connection`. Hard: three tables that
refer to each other by reused numbers; four kinds of events that every
connection alternates between. Correct when the tables are in step, no
connection waits for an event nobody asked for, and the shared listening socket
is open exactly while it is needed.

**libzimr** (`lib/zimr.c`). State: per website a status (disabled, wanting,
enabling, enabled), the link, the table of connections by `msgid` with the file
being sent, the public directories and the modules; globally the loaded modules.
Operations: enable, disable, the message handler, the request and response
functions, loading and reloading of modules. Hard: a connection may end in its
handler, later in the page's code, by a disconnect or by the loss of the link;
the file reader has two events to wait for in turn; a refusal destroys the
switch whose pass is underway. Correct when the table has exactly the requests
begun and not closed, every descriptor has one owner, no part of a response is
dropped, and the website registers again after any loss of the daemon.

**simclist** (`simclist.c`). Third-party, but all tables of both programs are its
lists. State: a doubly linked list with two sentinels, a pointer to the middle
element and a stack of spare entries. Correct when every position gives what was
put there, whichever of head, middle and tail the search starts from.

**daemon** (`daemon.c`, with `main` of `zimrd/main.c`). State: the lock file, the
port. Operations: start, stop, restart, with and without force, daemon mode and
lock file. Hard: several `zimrd` at once, killed anywhere, with no lock on the lock
file. Correct when `stop` finds the daemon that serves and `restart` does not
compete with the old one.

**zimr command line** (`zimr/main.c`, `zcnf.c`, `general.c`). State: the state file, from
application to process id and whether it is stopped; the processes of the
applications. Operations: add, start, stop, restart, remove and status, for one
application or all of them. Hard: read, wait and write back without a lock; a
child that signals once; processes that do not end in time. Correct when no
process is doubled or forgotten, and every command ends.

**The data of a request** (`connection.c`, `headers.c`, `params.c`, `cookies.c`,
`urldecoder.c`, and `python/`, through which a page uses them). State, per request: the
parameters, the cookies with their times and whether they changed, the headers of the
response. Operations: parsing the request, assigning and deleting, writing the
headers. Hard: separators that are escaped, missing or doubled; a deleted cookie whose
entry stays. Correct when a page reads what the request said or what it set last, and
the browser has the same after the response.

**Others**: the configuration files (`zcnf.c`, `userdir.c`), the command
line's syntax (`cli.c`), plug-ins (`modules/`),
string helpers and logging, a vendored hash (`md5.c`), manual test programs
(`test/`). They are not modelled; `PROJECT.json` has the reasons.

How they interact: `zfd_select` calls `zsocket.c`'s handlers; those set flags;
`zs_select` calls the handler of the program or, on a link, of `msg_switch.c`;
`msg_switch_select` calls the program's message handler. The program calls down
from its handlers. Concurrent are the two ends of a link, the clients, the `zimrd`
processes among each other, and the `zimr` processes with the applications they
start; the last two share files and signals only.

## Modules

| module | what it is |
| --- | --- |
| `FdLists` | operators on lists of descriptors |
| `FdListPass` | abstract specification: a list in order of insertion, and passes over it |
| `FdHash` | `fd_hash.c` and the passes; implements `FdListPass` |
| `FdHashProofs` | the theorems about `FdHash` |
| `ZSocket` | the functions of `zsocket.c`, as operators on its state |
| `ZLoop` | one process on `ZSocket`: the select loop and every legal call of the program |
| `ZLoopProofs` | the theorems about `ZLoop` |
| `MsgSwitch` | the functions of `msg_switch.c`, as operators on one switch |
| `MsgLink` | two switches over one TCP connection, and the programs behind them |
| `MsgSwitchProofs` | lemmas about `MsgSwitch`: every operation keeps one switch consistent |
| `MsgLinkProofs` | the theorems about `MsgLink`: what the two ends know of each other |
| `MsgOrderProofs` | the theorem that packets arrive in order |
| `Zimrd` | the functions of `zimrd/main.c`, as operators on the daemon's state |
| `Proxy`, `MCProxy` | the daemon between its clients and the applications; symmetry for TLC |
| `ProxyProofs` | the theorems about `Proxy` |
| `LibZimr` | the functions of `lib/zimr.c` around one website, as operators on its state; uses `MsgSwitch` |
| `App`, `MCApp` | an application process on `LibZimr` and the daemon at the other end of its link; two kinds of responses |
| `Simclist` | the list operations of `simclist.c` that zimr calls |
| `Website` | `website.c` on `Simclist`: the table of websites and its lookups |
| `Tables` | the tables of `zimrd` and of an application: websites, modules, public directories |
| `RequestData` | `params.c`, `cookies.c`, `headers.c` and `url_decode`, as operators on texts and lists |
| `Page` | the code of a page at work on one request, on `RequestData` |
| `MCTables` | `Tables` and `Page` for TLC |
| `Commands`, `MCCommands` | the `zimr` commands, the state file and the applications' processes |
| `CommandsProofs` | the theorems about `Commands` |
| `DaemonLock`, `MCDaemonLock` | `zimrd` processes, the lock file and the port |
| `DaemonLockProofs` | the theorems about `DaemonLock` |

Definitions have the name of the function they translate. `PROJECT.json` maps
each of them to its lines. Alternative definitions marked *Mutant* are plausible
bugs of the definition that follows them; each property fails when the mutant
recorded for it takes the definition's place.

**FdHash.** A pointer is the index of the entry it points to. `fd_hash_add` and
`fd_hash_remove` are actions that may happen between any two steps of a pass
(`StartPass`, `StepPass`), for any descriptor, as handlers do. `order`, `owed`
and `cut` are history: the list as it should be, what the pass must still visit,
and whether the pass lost its place because its current entry was removed (the
code then stops early, and the next pass catches up).

**ZSocket / ZLoop.** The state `st` has the sockets with their flags, the
program's interest, the select sets and `n_selectable`. Every system call's
outcome (done, part, end of file, error, want read, want write) is an input of
the operator and chosen freely by `ZLoop`. `Fd...` actions are the background
handlers, `...Call` actions the program's. Data is abstracted to how much of the
buffers is used. `zs_update_fd_state` changes the write watch of connections only, so
what `zs_close` leaves behind for a descriptor stays when a listening socket gets it
(`FdWriteListener`: the assertion of `zs_internal_write` ends the process). Not
distinguished: addresses (so `zs_get_by_info`'s search), causes of errors.

**MsgSwitch / MsgLink.** A packet is a token with a sequence number and the
conversation it belongs to (history that tells a message from the next one with
its id); a response is `OK` or `DISCON`. `chan` is what is in the socket buffers
in each direction, in order, as TCP has it. `Break` and `Eof` are the loss of
the connection, which each end notices by itself; `Connect` is the next one.
The byte framing is left out (tokens arrive whole). In `MsgLink` the programs act
whenever their call is legal, which allows every order the event bookkeeping
allows; the bookkeeping itself (`selectable`, the active sets, what
`msg_switch_select` reports) is part of `MsgSwitch` and is exercised by `App`.
`msg_close` reads the status of a message once more after it freed it
(`msg_switch.c:541`, `548`); nothing is allocated in between and what `free` writes into the
block comes before that field, so the outcome modelled is the status it had: no packet to read.

**Zimrd / Proxy.** `d` has the sockets by kind, `connections[]`, the website of
each link and the messages of each link. Below it, sockets and messages are taken
by what `ZLoop` and `MsgLink` are about: a write is busy until done, a close waits for
it, a message is freed at once when the other end has disconnected and after its
answer otherwise. A descriptor that opens is the lowest free one, as POSIX has
it. A request is whether its header is complete, malformed, for which website,
with a malformed length, and whether more of its body is to come. A NULL that
would be dereferenced is recorded in `d.failed` and ends the process. When a link
fails, its descriptor is free at once; that `zs_close` waits for a write underway is in
`ZLoop` and `App`. The search for connections of a link without a website
(`zimrd/main.c:400`) is left out: such a link has no message of a client. URLs do
not overlap and all websites share one port; `Tables` has the urls.

**LibZimr / App.** `w` has the website's status, link, switch and `connections[]`,
the descriptors that are open and those `select()` watches. Files and links take
their descriptors from one set. A link that is closed while it is written to keeps its
descriptor until `zs_writer` is done (`closing`, `LinkClosed`). A failed `connect()` leaves its
descriptor open for ever (`zsocket.c:202`), as does a file found current (`leaked`); with none
free, `socket()` and `open()` fail. A request is counted
in packets, a file in chunks of one packet, and a response is the list of what each
`msg_write` of it completes. The handler of the website is free: it rejects the
request, answers at once, sends a file, or keeps the connection and answers later. The daemon's
switch `dw` is the same `MsgSwitch`; a frame that one end writes the other reads in
the same step, since `MsgLink` has the frames in flight. `lingers` says that the
daemon has not yet noticed the end of the website's previous link and so refuses
it. What happens after a refusal in a pass over a destroyed switch is undefined:
the process goes on or ends. The stop command is queued and dies with the switch
(`lib/zimr.c:571`).

**Simclist / Website / Tables.** A list entry is a number, a pointer likewise; the
memory a list can have is part of it, so that reuse of spare and freed entries is
seen. `list_findpos` takes the same of its four ways as the code. A url is the
sequence of its parts: host or `*`, port, and the characters of the path, on which `strchr`,
`strncmp` and `startswith` act as on the text; a website at `/a` thus serves `/ab` too. `expected` is what the callers asked the tables to
hold. `prog` chooses between `zimrd`, which registers and removes, and an
application, which makes and destroys websites, sets public directories, loads and
reloads modules, whose `dlopen` and `modzimr_init` may fail.

**RequestData / Page.** A text is the sequence of its symbols: characters, separators,
escapes. An escape is three bytes where a length is tested (`Bytes`) and is decoded by a table
to a character or, for control characters and what is not hexadecimal, to nothing. A time has a day and an hour; the expiry of a cookie is printed with
the hour of a 12-hour clock (`strftime`, `cookies.c:145`), of which `HalfDay` is the dial, and a
browser reads it as an hour of the day. The zone is taken to be one browsers know. The parameters are in a list of `Simclist`, cookies and headers in arrays.
`connection_create` parses query, form and cookies; then the page assigns and deletes
as the Python bindings let it, time passes (a deletion dates the cookie `Year`
seconds back), and `zimr_connection_send_headers` ends it. Whether the type of the body is
recognised as a form's is free: `headers_get_header_attr` returns a buffer of its own
frame. `expected` is what the page asked for, with parameters split by a
definition that does not scan (`Pairs`); `browser` is what a browser makes of the
`Set-Cookie` header. A page and the tables share no variable, so `MCTables` has the page
begin only while the application's tables are untouched.

**Commands.** A `zimr` process is its command line, the state it loaded and its
place in `application_function`, cut where it waits or where another process
can see the difference: loading, the signal, the end of the wait, `fork`, the installation
of the `SIGCHLD` handler, waking up, truncating and writing the file. `Background`
and `Ends` are the application's. `alone` is history: whether commands have
overlapped or been interrupted so far.

**DaemonLock.** A `zimrd` process is its options and its place in `main`,
`daemon_init`, `daemon_detach`, `createlockfile` and the exit handler; any of them
may be killed at any place. `readlockfile` may find a number that is no zimrd's:
its buffer is not initialised and not terminated.

## What is checked

| run | bounds | states | shows |
| --- | --- | --- | --- |
| `FdHash` | 4 descriptors | 1,718 | the list is linked, passes are complete, the abstract list is implemented |
| `link_reuse` | 1 msgid, 2 messages one after the other, 3 packets, bursts, 2 frames in the socket, 1 lost connection | 354,603 | flow control, acknowledgement and order across the reuse of the id |
| `link_cross` | 2 msgids, both ends open one message | 826,647 | colliding ids of the two ends are told apart |
| `link_live` | 1 message, 2 packets | 6,604 | closing ends at both ends, packets are acknowledged |
| `sockets` | 2 descriptors, plain and TLS listening sockets, a plain outgoing connection, a listening socket opened twice | 71,570 | counter, select sets, buffers and ownership stay consistent |
| `sockets_live` | 2 descriptors, TLS listening socket | 1,904 | reads and writes in the background end |
| `proxy` | 4 descriptors, 2 websites, 2 msgids per link, 1 unread packet | 732,232 | the daemon's tables stay in step, nothing is forgotten or overrun |
| `app` | 3 msgids, 2 descriptors, files of 0 and 3 chunks, 2 writes of a page by itself, 2 events (request packets, lost links, daemons lost, websites disabled) | 363,310 | the application's tables, descriptors, responses and event counter stay consistent; it registers again |
| `cli` | 2 applications, 2 `zimr` processes at a time, 2 application processes, 4 commands | 432,673 | no process doubled or forgotten, none replaced before it is gone, commands end |
| `lock` | 4 `zimrd` processes, symmetric | 1,790,611 | the lock file is the serving daemon's; a restart waits |
| `tables` | 4 websites of 4 urls in `zimrd`; 2 websites, 2 modules, 2 public directories in an application; 2 spare entries; or a page of 3 calls on 9 requests, 2 cookies, expiry at any hour of a day of 4 hours, 2 moments | 213,530 | lists hold what was put in; the most specific website is found; no unloaded module is held; a page's parameters, cookies and headers are those it was given and set |

Why the bounds are enough. The list's cases are the empty list, the only
element, first, last and inner ones: four descriptors have them all with one to
spare. On a link, one msgid makes every second message a reuse; the
buffer limit is the real `MSG_N_BUFF_PACKETS_ALLOWED = 2` and three packets
exceed it; with a window of one packet two frames in flight let a response and a
packet overtake nothing but queue behind each other. Two descriptors are a
listening socket with an accepted client, or two connections; sockets do not
otherwise influence each other except through the counter. Four descriptors for
the daemon are a listening socket, a link and two clients, or two links and a
client, with every number reused by every other kind. An application with two
descriptors has a link and a file, a link that closes and the next one, or one lost, and a second
file fails to open; a first try to connect may fail and the next succeed, or both fail; a file of three chunks exceeds the
buffers of a message (2) by one, and so does the third write of a page; a third msgid lets a command and a request be open
while the next begins; two events are a request and a loss, a request of two packets,
or a loss and another. Two commands at a time are what overlaps, four
are enough to add, start and stop an application while another command
works on the same file. Of four `zimrd`, one serves, one stops it, one replaces it
and one more interferes. A list of four elements has a position in each quarter that
`list_findpos` tells apart, and two more entries than a list keeps spare. Three calls of a page are a cookie set, deleted and
set again, with the moment in which it expires and the one after; the hours have morning, noon,
afternoon and midnight. Parameter names go up to the limit in bytes and beyond, with and without escapes. Deadlock is not checked
where a run may stop: after the bounded opens, or when the process has ended.

The properties, by module (the comment at each definition says more):

- `FdHash`: `Linked`, `PassComplete`, `Refinement`.
- `MsgLink`: `FlowControl`, `StopAndWait`, `InOrder`, `WritingIsPending`,
  `Addressed`, `ImsgidMap`; liveness `ClosedIsFreed`, `WaitEnds`,
  `CloseReachesPeer`.
- `ZLoop`: `SelectableCounted`, `ActiveExists`, `WatchCurrent`,
  `ReadBufferFree`, `WritePending`, `Accounted`; liveness `BackgroundEnds`.
- `Proxy`: `Routed`, `TableSound`, `Paced`, `Continued`, `Registered`.
- `App`: `TableSound`, `FilesOwned`, `NotCut`, `NoSpin`; liveness `RegistersAgain`.
- `Tables`: `ListsHold`, `FindsMostSpecific`, `ModulesLive`.
- `Page`: `ParamsAgree`, `ResponseAgrees`.
- `Commands`: `OneProcess`, `StoppedFirst`; liveness `CommandEnds`.
- `DaemonLock`: `LockSound`, `RestartAfterStop`.

Some of them state an exception the code has:

- `ClosedIsFreed`: a message that was closed with packets still to send when the
  other end's disconnect arrived: `msg_recv_resp` (`msg_switch.c:300`) answers and
  nobody is left to free it.
- `FlowControl` and `StopAndWait`: the messages that took an acknowledgement of an
  earlier message, the subject of the finding below.
- `Accounted`: a connection that a listening socket offered when it was closed.
- `FilesOwned`: the descriptor of a file whose copy the client already has (304) is
  never closed (`lib/zimr.c:1026`), nor is that of a failed `connect()`.
- `WatchCurrent`: the write watch of a listening socket (`WriterConnected`, see Findings).
- `NotCut`: directory listings and error pages are written in pieces without a look
  at the result of `msg_write`, and so is what a page writes by itself with
  `zimr_connection_write` (`lib/zimr.c:732`).
- `RegistersAgain`: every failed `connect()` costs a descriptor (`zsocket.c:202`); a website
  that is tried while the daemon is down until none is left never registers again. And a refusal disables the website for good, also the refusal of a
  website whose old link the daemon has not yet noticed as dead.
- `OneProcess`: only while no two commands overlap and none is interrupted: nothing
  locks the state file.
- `CommandEnds`: a child's one signal that arrives between `fork` and `signal`
  (`zimr/main.c:239`) is lost, and the wait has no end.
- `FindsMostSpecific`: a colon in the path of a request without a port is taken for the
  port's (`website.c:111`).
- `ModulesLive`: the configuration names a module once for each website (of a
  module named twice one pointer would stay), and there are at most the ten websites
  the arrays of `zimr_reload_module` have room for.
- `ParamsAgree`: an incomplete escape at the end of a text: `url_decode`
  (`urldecoder.c:299`) appends what precedes it a second time.
- `ResponseAgrees`: two cookies changed in one response are written one behind the other with
  nothing between (`cookies.c:137`), which no browser can read; a cookie that is set
  without a time in the very second of its expiry keeps that time (`<` at
  `cookies.c:113`, `>` at line 121) and is lost; a cookie that expires after noon or at
  midnight reaches the browser with an hour that is half a day off (`%I` without AM or PM, `cookies.c:145`)
  and may be deleted at once.
- `ListsHold`: `list_repOk`'s assertion about the middle of an empty list is false
  after the last element went (it is the head sentinel); nothing reads it there.

**Fairness.** `MsgLink`: weak fairness of each end's reading, writing, accepting
and noticing the end of the connection, since the loops return to `select()`,
which reports a ready socket again; weak fairness of a program's reading what
arrived and closing at end of file, which both programs' read handlers do.
Nothing obliges a program to write or to close first. `ZLoop`: strong fairness of a
handler call that comes to something, because a descriptor is watched on and off
as flags change and the peer may make any single call wait; a peer that
stalls for ever is thereby excluded, as is a kernel that always reports "want".
`App`: weak fairness of the steps of the two select loops that registration is made
of, and of the writing that ends a closing link; a website that is to be enabled is tried again
in every pass while a descriptor is free, but nothing obliges a `connect()` to succeed. Its conjuncts have the enabling
conditions written out, because TLC is too slow at `ENABLED` of these actions.
Neither the program nor a client is obliged to anything, nor is a daemon to start. `Commands`: weak fairness of
each `zimr` process, which the system runs, and of a starting application's way to
the background, which it takes once its websites are enabled, unless it ends before;
the user and the applications are obliged to nothing else.

## Findings

`link_stale_ack` refutes `ResponseExpected`: the id of a message is free as soon as
the disconnect that answers is queued, while acknowledgements are still underway.
One of them reaches the next message with that id and fails
`assert( ... WAITING_FOR_RESP )` (`msg_switch.c:318`).

Five more statements of the source are definitions of the modules that TLC refutes
when they are given to it as invariants:

- `PacketExpected` (`MsgLink`, with `LateFlush = TRUE`): `msg_flush` sends on a
  disconnected message; the peer has freed it and fails `assert( ... msgid < 0 )`
  (`msg_switch.c:830`).
- `PendingExists` (`MsgLink`): a disconnect that finds unread packets leaves the
  message in `pending_msgs` (`msg_switch.c:309`); freed later, it is popped and fails
  the assertion at line 182.
- `SelectAnticipated` (`ZLoop`): closing a TLS socket during a read leaves its
  descriptor watched (`zsocket.c:848`); `select()` fails and the main loop ends.
- `WriterConnected` (`ZLoop`, with the bounds of `sockets_live`): `zs_close` takes a descriptor out of
  the select sets and then calls `zs_clr_read` and `zs_clr_write`, which put a TLS client whose
  read waits for writing back into the write set. When a listening socket is opened with that
  descriptor before the next `select()`, nothing removes the watch, since `zs_update_fd_state` touches only
  the read watch of a listening socket (lines 618-623), and `assert( zs->type == ZSOCK_CONNECT )`
  (line 515) fails.
- `ListenerAlive` (`Proxy`): `remove_website` leaves clients whose request is not
  routed yet; their request dereferences the closed listening socket
  (`zimrd/main.c:552`).

`ReadMode` (`Proxy`) holds and says from which clients the daemon reads; it excepts a
client that sent bytes after its request, from which it never reads again.
With `EarlyWrites = TRUE` (a program that writes to
a TLS client before reading from it) `WritePending` fails at `zsocket.c:439`, and
with an outgoing TLS connection `ReadBufferFree` fails. The programs do neither: clients are
read first, and the only outgoing connection is opened without TLS
(`lib/zimr.c:533`). In `zimr_website_insert_pubdir` the comparison of a negative
position with the unsigned size makes the clamp to 0 dead code; `Position` of `Tables`
has what the code does.

## What is proved

`FdHashProofs`, for every set `Fds` of natural numbers (`FdsAssumption`, which
any table satisfies):

- `TypeCorrect`: `Spec => []TypeOK`.
- `LinkedCorrect`: `Spec => []Linked`.
- `PassesComplete`: `Spec => []PassComplete`.
- `ImplementsList`: `Spec => Refinement`.

The inductive invariant of the first two is `IInv == TypeOK /\ Linked`. `Linked`
says of every position of `order` what the neighbours' pointers are and of every
entry outside it that its pointers are NULL; that second half is what makes the
code's membership test (`InListIffListed`) right, and it is why `fd_hash_remove`
must clear the entry. `AddLinked` and `RemoveLinked` follow the pointer
updates case by case, with lemmas on removing one position of a sequence of
distinct elements (`WithoutType`, `WithoutElems`). `PassesComplete` needs the
stronger `OwedAhead`: while the pass has its place, what it owes a visit is at
later positions than its current entry; additions go to the tail and removals
keep the order of the rest (`StillAhead`). The refinement follows
from `NextIsListNext`: the next pointer of a listed entry is the next element.

`DaemonLockProofs`, for any set of processes that does not contain the five marks
the file, the port and `readlockfile` have in place of a process
(`PidsAssumption`), and any options (`OptionsAssumption`):

- `LockSoundCorrect`: `Spec => []LockSound`.
- `RestartAfterStopCorrect`: `Spec => []RestartAfterStop`.

The inductive invariant `IInv` adds to the two properties the types (`ProcType`) and
three facts. `PortHeld`: a process between `listen` and its end has the port. Without
it `LockSound` is not inductive, since a second process could write or remove the
file: the port is the lock of the lock file, because it is had first and let go
last. `NamesServed`: what the lock file and the target of a stop name has served,
so that what is found gone stays gone, and a restart never waits for itself.
`WaitsForOne`: who waits has found an id. `NextIInv` has one step per action, and
under it one per conjunct.

`ProxyProofs`, for any finite set of descriptors, any websites, any msgids above 0 and
any buffer size (`FdsAssumption`, `UrlsAssumption`, `MsgIdsAssumption`, `NBuffAssumption`;
a process has at most `FD_SETSIZE` descriptors, and the count of the openings of a
listening socket is a cardinality):

- `ProxyRouted`, `ProxyTable`, `ProxyPaced`, `ProxyContinued`, `ProxyRegistered`: the five
  invariants that the run `proxy` checks.
- `ProxyType`: `Spec => []TypeOK`.

None of the five is inductive: they hold together. The invariant `IInv` has nine
parts, each of them a predicate of a state so that it can be stated between two calls of
one handler. `TableOf`: `connections[]` has an entry exactly for the clients that are not
closing. `StagedOf`: what a connection refers to in each stage of its request. `RoutedOf`: a
connection refers to a message exactly when that message is live and has the
connection's descriptor as its type; an equivalence, because `cleanup_connection` is
reached from the client's side and from the message's. `LinkedOf`, `AskedOf`: a link has
messages, one command at most, and a website only after it. `SitesOf`: the registered
websites, and the count of each listening socket. `QuietOf`, `PacedOf`, `AwaitedOf`: who is
written to, what fits, and which event each connection waits for. Each of the
handlers of `zimrd/main.c` is first reduced to a relation between the state
before and the state after it (a connection is dropped, tuned, routed, an application is
unlinked, ...), and each relation is shown once to keep the invariant. TLC checked `IInv`
on the instance of the run `proxy` (732 232 states) before it was proved.

`CommandsProofs`, for any applications (one at least, `AppsAssumption`: with none there is
no command on one), requests and bounds, any number of `zimr` processes at once:

- `StopsFirst`: `Spec => []StoppedFirst`.
- `RunsOnce`: `Spec => []OneProcess`.

`IInv == Base /\ Single`. `Base` holds whatever the commands do to each other: pids are not
used twice, a child's parent is a `zimr` process that runs, what a state names was started,
and a command past `application_kill` finds the process gone; `StoppedFirst` is
part of it. `Single` is about commands that do not overlap: at most one `zimr`
process runs, and the state file, or that process while it is between `fork` and
`zcnf_state_save`, names every process that runs. It must say what the process is about to
write at each of its places, since the file is empty between truncating and writing.
TLC checked `IInv` on the instance of the run `cli` (432 673 states).

`ZLoopProofs`, for any finite set of descriptors and any `MaxOpen`:

- `CountRight`, `ActiveOpen`, `WatchRight`, `ConnectionsAccounted`: `SelectableCounted`,
  `ActiveExists`, `WatchCurrent` and `Accounted`, for any TLS modes and any program.
  `WatchCurrent` is about reading on every open socket and about writing on connections.
- `ReadBuffers`, `WritesPending`: `ReadBufferFree` and `WritePending`, for `Plain` programs:
  those that do not write before a TLS handshake has ended and open no TLS
  connection. Without this they are false (see Findings), and the programs of the repository
  are plain.
- `ZLoopType`: `Spec => []TypeOK`.

The invariant `IInv` is `Counted` (the counter), `Local` of every descriptor and `Owned`.
`Local` says what one socket must be like: a connection is connected or connecting, and
for plain programs `Tidy` (only a read under way wants something, and one
thing; the write buffer, `WRITING` and the wants of the write go together; no data unread
while a read is under way); a listening socket is `READABLE` exactly while it has an
accepted descriptor; the select sets are what the flags ask for (`Watched`, for
writing on connections only). `Owned` says to
whom a connection belongs; that no two listening sockets offer the same one is
what keeps an accepted descriptor out of two hands. Every operator of
`ZSocket` is shown to change one socket as a function of that socket does (`Turns`), with the
counter following by the lemma `CountOne` on the cardinality of a set; an accept
changes two (`Pair`). Handlers compose such changes and end with
`zs_update_fd_state` (`Served`), and `ServedKeeps` shows once that this keeps
the invariant. TLC checked `IInv` on the instance of the run `sockets` (71 570 states), with
`EarlyWrites = TRUE` (123 410) and with outgoing TLS connections on one descriptor (1 684).

`MsgLinkProofs` and `MsgOrderProofs`, for any number of msgids and any buffer size
(`MaxMsgIdAssumption`, `NBuffAssumption`), two ends of which any may open messages
(`EndsAssumption`), any number of messages, packets, frames in the sockets and lost
connections (of the bounds only `MaxBurst` is needed as a number, `BoundsAssumption`):

- `ImsgidMapInvariant`, `WritingIsPendingInvariant`: `ImsgidMap` and `WritingIsPending`,
  whatever the programs do.
- `AddressedInvariant`, `FlowControlInvariant`, `StopAndWaitInvariant`, `InOrderInvariant`:
  `Addressed`, `FlowControl`, `StopAndWait` and `InOrder`, for programs that do not flush a
  message already disconnected (`~LateFlush`). With such a flush they are false: the packet
  carries an id that is another message's by now (`PacketExpected`, see Findings). The link
  runs have `LateFlush = FALSE` too.
- `LocalInvariant`, `LinkInvariant`, `OrderInvariant`: the inductive invariants.

There are three layers, each of which needs the one before. `Loc` (`MsgSwitchProofs`) is about
one switch: `imsgid_map` and the messages' `imsgid` agree, a message is in `pending_msgs` once
exactly while it is `WRITING`, and its flags say what its queues hold (`Sound`). Every
operation of `msg_switch.c` is reduced to a change of one message and of the two queues
(`Turns`), and is shown to keep `Loc`.

`LinkInv` says what the ends know of each other, conversation by conversation. `View` is what an
end has of a conversation, as a set of aspects (it is there, it waits for an
acknowledgement, it owes one, it has sent `DISCON`, ...), and `Pair` relates the views of
the two ends to the frames between them: a packet is waited for, an
acknowledgement answers one, `DISCON` is the last frame of an end, a packet for which there is no
message is the first one of its conversation. `StopAndWait` and `FlowControl` are not inductive
without it, since what makes a second packet wrong is an acknowledgement that is
underway; and the reuse of ids makes it necessary to say that frames of a later message come
after all frames of the earlier one. A frame is at its message (`Addressed`)
because of that order. Every handler is a sequence of few kinds of changes of the views
(quiet, acknowledge, send, receive, end, ...), for each of which it is shown once that
`Pair` survives, from the opener's side and from the other end's. `misled` stands in
the invariant as it does in the properties: what is claimed of acknowledgements excepts
the messages that took another one's.

`OrderInv` adds the counts. At each end `Numb`: `writ_queue` and the packet
begun are numbered without a gap up to the last one written, `read_queue` up to the last
one received, and a message with unread packets says so to the program; `Shut`: a closed
message keeps none. Between the ends `Flow`: the packets of a conversation in the socket are,
in order, those from the last one the reader has received to the last one the
writer has handed over; and if the reader has no message yet, the first is number 1.
That a message which is freed leaves nothing behind, so that the next packet of the
conversation is not taken for its first, is where `LinkInv` is needed again (`GoneOver`).

The loops of `msg_write`, `msg_read` and of dropping a queue are written with `Repeat` in
`MsgSwitch`, a recursive function over the passes. What they leave is proved by induction in
the form the provers have: a set of natural numbers that is not empty has a least element
(`Least`, from `WFMin` and `NatLessThanWellFounded`), hence `Induct` and, for a loop that takes `Z[i]`
to `Z[i + 1]` in each pass, `Iterate`. TLC checked the parts of `LinkInv` on the instances of the
link runs before they were proved.

Only model-checked:

- liveness (`BackgroundEnds`, `CommandEnds`, `ClosedIsFreed` and the other temporal properties), which
  is outside of what TLAPS proves;
- `App`, `Tables` and `Page`, for which no proof has been written: `App` needs the invariants
  of its switches and of the tables above them together; the properties of `Tables` and
  `Page` are about what loops over lists, urls and texts compute, each of which needs an
  induction of its own.

## Not modelled

Byte framing of the link; addresses in `zsocket.c` (`zs_get_by_info`'s search); the lengths of bodies and
the parsing of request lines, header lines and multipart bodies (where the test for
`multipart/form-data`, `connection.c:214`, reads the type of the last part, so that such
forms give no parameters); a NUL byte in a body; the stored length of a parameter's value, which
`params_set_param` leaves as it was when it replaces the value (`params.c:159`); in
`lib/zimr.c` the search for the file of a request, ignored paths, default pages and
page handlers (`zimr_website_insert_default_page` frees an entry that it leaves in its
list) and the request log; the configuration files; sorting in `simclist.c`, which
directory listings and the status of all applications use; the syntax of the command line; plug-ins and
the rest of the Python bindings. The composition of `App` with `Proxy`, each of which has the other as a
free environment.

## Plan

1. Model further: `MsgFraming`, the byte stream cut at any place; the search for the file of
   a request with default pages and page handlers; an abstract message pipe (two queues,
   closing) that `MsgLink` without reuse of ids implements.
2. Prove: `TableSound` and `FilesOwned` of `App`, by one step per handler as in `ProxyProofs`, on
   the lemmas of `MsgSwitchProofs`; `ModulesLive` of `Tables`.
