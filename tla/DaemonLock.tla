----------------------------- MODULE DaemonLock -----------------------------
(***************************************************************************)
(* zimrd/main.c and daemon.c: starting, stopping and restarting the proxy  *)
(* daemon, its lock file and the port that it listens on.                  *)
(*                                                                         *)
(* A zimrd process that daemonizes has two ids, its parent's and, after    *)
(* fork, its own; only the second is ever written or looked up, so the     *)
(* model has one, which is not used twice.  The configuration names one    *)
(* proxy.  The port is refused to a second process as long as the first    *)
(* has it (bind).                                                          *)
(***************************************************************************)
EXTENDS Naturals

CONSTANTS
  Pids,      \* bound: the zimrd processes
  Options    \* the options they are given: subsets of OptionNames

OptionNames == {"no-daemon", "no-lockfile", "force"}

ASSUME OptionsAssumption == Options \subseteq SUBSET OptionNames

VARIABLES
  proc,      \* the zimrd processes
  lockfile,  \* D_LOCKFILE_PATH: the process whose id it has, or one of the next
  port       \* the process that listens

vars == <<proc, lockfile, port>>

NoFile == "no file"     \* D_LOCKFILE_PATH does not exist
Empty == "empty"        \* creat, before write
Nobody == "nobody"
NoPid == "0"            \* readlockfile failed, or found no number
Other == "other"        \* a number that is no zimrd process's

ASSUME PidsAssumption == {NoFile, Empty, Nobody, NoPid, Other} \cap Pids = {}

NewProc == [pc |-> "new", cmd |-> "start", opts |-> {}, target |-> NoPid]

Init ==
  /\ proc = [p \in Pids |-> NewProc]
  /\ lockfile = NoFile
  /\ port = Nobody

At(p, pc) == proc[p].pc = pc
Goto(p, pc) == proc' = [proc EXCEPT ![p].pc = pc]
Runs(p) == proc[p].pc \notin {"new", "ended"}
Daemonizes(p) == "no-daemon" \notin proc[p].opts
Locks(p) == Daemonizes(p) /\ "no-lockfile" \notin proc[p].opts

\* readlockfile: its buffer has whatever was on the stack after the bytes
\* that were read, and before any was.
readlockfile ==
  CASE lockfile = NoFile -> {NoPid}
    [] lockfile = Empty -> {NoPid, Other}
    [] OTHER -> {lockfile, Other}

\* kill( pid, 0 ): whether some other process has the id is unknown.
MayRun(pid) == IF pid \in Pids THEN {Runs(pid)} ELSE IF pid = Other THEN BOOLEAN ELSE {FALSE}
----------------------------------------------------------------------------
(* main and daemon_stop. *)

\* zimrd [options] start | stop | restart
main(p, cmd, opts) ==
  /\ At(p, "new")
  /\ proc' = [proc EXCEPT ![p] = [NewProc EXCEPT !.cmd = cmd, !.opts = opts,
                                   !.pc = IF cmd = "start" THEN "init" ELSE "stop"]]
  /\ UNCHANGED <<lockfile, port>>

\* daemon_stop: the id is read; SIGTERM is sent.
daemon_stop(p) ==
  /\ At(p, "stop")
  /\ \E pid \in readlockfile :
       proc' = [proc EXCEPT ![p].target = pid, ![p].pc = IF pid = NoPid THEN "ended" ELSE "stopping"]
  /\ UNCHANGED <<lockfile, port>>

Stopped(p) == Goto(p, IF proc[p].cmd = "restart" THEN "init" ELSE "ended")

\* Mutant: the wait is not looked at.
stopproc_ignoring_timeout(p) ==
  /\ At(p, "stopping")
  /\ Stopped(p)
  /\ UNCHANGED <<lockfile, port>>

\* stopproc and its wait: the process is gone, or the time is over.
stopproc(p) ==
  /\ At(p, "stopping")
  /\ \E runs \in MayRun(proc[p].target) :
       IF ~runs THEN Stopped(p)
       ELSE Goto(p, IF "force" \in proc[p].opts THEN "killing" ELSE "ended")
  /\ UNCHANGED <<lockfile, port>>

\* What the kernel does of a process that ends.
Kill(p, procs) ==
  /\ proc' = [procs EXCEPT ![p].pc = "ended"]
  /\ port' = IF port = p THEN Nobody ELSE port

\* killproc: SIGKILL; no exit handler runs.  A process that is gone already is
\* a failure here.
killproc(p) ==
  LET pid == proc[p].target
  IN  /\ At(p, "killing")
      /\ UNCHANGED lockfile
      /\ IF pid = Other THEN (Stopped(p) \/ Goto(p, "ended")) /\ UNCHANGED port
         ELSE IF Runs(pid)
         THEN Kill(pid, [proc EXCEPT ![p].pc = IF proc[p].cmd = "restart" THEN "init" ELSE "ended"])
         ELSE Goto(p, "ended") /\ UNCHANGED port
----------------------------------------------------------------------------
(* Starting. *)

\* daemon_init: a lock file of a process that runs.
daemon_init(p) ==
  /\ At(p, "init")
  /\ UNCHANGED <<lockfile, port>>
  /\ IF ~Locks(p) \/ "force" \in proc[p].opts THEN Goto(p, "listen")
     ELSE \E pid \in readlockfile : \E runs \in MayRun(pid) : Goto(p, IF runs THEN "ended" ELSE "listen")

\* Mutant: the lock file is written before the port is asked for.
listen_after_lock(p) ==
  /\ At(p, "listen")
  /\ IF Locks(p) /\ lockfile # p
     THEN lockfile' = p /\ UNCHANGED <<proc, port>>
     ELSE IF port = Nobody THEN port' = p /\ Goto(p, "detach") /\ UNCHANGED lockfile
     ELSE /\ Goto(p, "ended") /\ UNCHANGED port
          /\ lockfile' = IF Locks(p) THEN NoFile ELSE lockfile

\* zsocket( ZSOCK_LISTEN ) of the proxy: without the port main fails.
listen(p) ==
  /\ At(p, "listen")
  /\ UNCHANGED lockfile
  /\ IF port = Nobody THEN port' = p /\ Goto(p, "detach") ELSE Goto(p, "ended") /\ UNCHANGED port

\* daemon_detach: the child has the port and the parent is gone.
daemon_detach(p) ==
  /\ At(p, "detach")
  /\ Goto(p, IF Locks(p) THEN "creat" ELSE "serve")
  /\ UNCHANGED <<lockfile, port>>

creat(p) ==
  /\ At(p, "creat")
  /\ lockfile' = Empty
  /\ Goto(p, "write")
  /\ UNCHANGED port

createlockfile(p) ==
  /\ At(p, "write")
  /\ lockfile' = p
  /\ Goto(p, "serve")
  /\ UNCHANGED port
----------------------------------------------------------------------------
(* Ending. *)

\* select() is interrupted, or fails: main returns and exit begins.
Quit(p) ==
  /\ At(p, "serve")
  /\ Goto(p, IF Locks(p) THEN "remove" ELSE "exit")
  /\ UNCHANGED <<lockfile, port>>

\* The exit handler.
removelockfile(p) ==
  /\ At(p, "remove")
  /\ lockfile' = NoFile
  /\ Goto(p, "exit")
  /\ UNCHANGED port

Exit(p) ==
  /\ At(p, "exit")
  /\ Kill(p, proc)
  /\ UNCHANGED lockfile

\* A signal before its handler is set, SIGKILL from elsewhere, a crash, or a
\* call of main, daemon_detach or createlockfile that fails: the exit handler
\* is not yet, or never, run.
Crash(p) ==
  /\ Runs(p)
  /\ Kill(p, proc)
  /\ UNCHANGED lockfile
----------------------------------------------------------------------------
Next ==
  \E p \in Pids :
    \/ \E cmd \in {"start", "stop", "restart"}, opts \in Options : main(p, cmd, opts)
    \/ daemon_stop(p) \/ stopproc(p) \/ killproc(p)
    \/ daemon_init(p) \/ listen(p) \/ daemon_detach(p) \/ creat(p) \/ createlockfile(p)
    \/ Quit(p) \/ removelockfile(p) \/ Exit(p) \/ Crash(p)

Spec == Init /\ [][Next]_vars
----------------------------------------------------------------------------
(* Properties. *)

\* The lock file of a daemon that serves has its id until that daemon removes
\* it, whatever other zimrd are started, forced, stopped or killed meanwhile:
\* stop finds the daemon.  Nothing locks the lock file itself; the port does,
\* because it is had before the file is written and let go after the file is
\* removed.
LockSound ==
  \A p \in Pids : Locks(p) =>
    /\ At(p, "serve") \/ At(p, "remove") => lockfile = p
    /\ At(p, "write") => lockfile = Empty

\* A restart goes on to start the new daemon only when the one that it found
\* in the lock file is gone: the two never compete for the port.
RestartAfterStop ==
  \A p \in Pids :
    /\ proc[p].cmd = "restart" /\ Runs(p) /\ proc[p].pc \notin {"stop", "stopping", "killing"}
    => proc[p].target \notin Pids \/ ~Runs(proc[p].target)
=============================================================================
