------------------------------ MODULE Commands ------------------------------
(***************************************************************************)
(* zimr/main.c and the state file of zcnf.c: the zimr commands of one user *)
(* and the processes of the web applications they start and stop.          *)
(*                                                                         *)
(* Nothing locks the state file: a command reads it, works, sometimes for  *)
(* seconds, and writes back what it read, changed.  Process ids are not    *)
(* used twice.  The file is read in one step, and written in two, because  *)
(* fopen truncates it and the emitter writes it when it is closed.         *)
(***************************************************************************)
EXTENDS Naturals, Sequences, FiniteSets, Functions

CONSTANTS
  Apps,          \* the configuration files of the web applications
  Clis,          \* the terminals commands are given at
  Requests,      \* the commands, with their options, given there
  MaxPid,        \* bound: the processes started
  MaxCommands    \* bound: the commands given

Types == {"ADD", "START", "STOP", "RESTART", "REMOVE", "STATUS"}

\* A command line: all is the form for all the user's applications.
Request ==
  [type: Types, all: BOOLEAN, force: BOOLEAN, allow_disable: BOOLEAN,
   ignore_disabled: BOOLEAN, wait_for_child: BOOLEAN]

\* What the commands for one application pass on: -force and -no-disable where
\* they are options; the flag that STOP reads is FALSE for the others.
ApplicationRequests ==
  {r \in Request :
     /\ ~r.all /\ ~r.ignore_disabled /\ r.wait_for_child
     /\ r.force => r.type \in {"STOP", "RESTART", "REMOVE"}
     /\ r.allow_disable => r.type = "STOP"}

\* What the commands for all of them do: there is no add among them, and
\* state_function parses its options for every type.  The form for all users,
\* one state file after the other, is as many of these.
StateRequests == {r \in Request : r.all /\ ~r.force /\ r.type # "ADD"}

ASSUME AppsAssumption == Apps # {}
ASSUME RequestsAssumption == Requests \subseteq ApplicationRequests \cup StateRequests

VARIABLES
  file,       \* the state file: [app -> [pid, stopped]]
  proc,       \* proc[pid]: the processes of the applications
  cli,        \* the zimr processes
  commands,   \* the number of commands given
  alone       \* history: every command so far ran to its end before the next began

vars == <<file, proc, cli, commands, alone>>

NoApps == [a \in {} |-> 0]
NoCli == [pc |-> "idle"]

Init ==
  /\ file = NoApps
  /\ proc = <<>>
  /\ cli = [c \in Clis |-> NoCli]
  /\ commands = 0
  /\ alone = TRUE

At(c, pc) == cli[c].pc = pc
Busy(c) == ~At(c, "idle")

\* kill( pid, 0 ): a process that nobody waited for still answers.
Alive(pid) == pid # 0 /\ proc[pid].state # "gone"
Runs(pid) == proc[pid].state \in {"starting", "running"}
----------------------------------------------------------------------------
(* The state file. *)

zcnf_state_load == file

zcnf_state_set_app(state, app, pid, stopped) ==
  [a \in DOMAIN state \cup {app} |->
     IF a = app THEN [pid |-> pid, stopped |-> stopped] ELSE state[a]]
----------------------------------------------------------------------------
(* Signals. *)

\* SIGCHLD to a zimr process.  The handler ends the wait for the child; before
\* it is installed the signal is ignored.
sig_from_child(clis, c) ==
  IF clis[c].handler
  THEN [clis EXCEPT ![c].wait_for_child = FALSE]
  ELSE [clis EXCEPT ![c].missed = TRUE]

\* The process ends; its parent, if it still runs, is told and never waits for it.
Ended(pid) ==
  LET c == proc[pid].parent
  IN  /\ proc' = [proc EXCEPT ![pid].state = IF c = {} THEN "gone" ELSE "zombie"]
      /\ cli' = IF c = {} THEN cli ELSE sig_from_child(cli, CHOOSE d \in c : TRUE)
----------------------------------------------------------------------------
(* A zimr process. *)

\* What is left when the process ends: init waits for its children.
Exit(c) ==
  /\ cli' = [cli EXCEPT ![c] = NoCli]
  /\ proc' = [p \in DOMAIN proc |->
                IF c \notin proc[p].parent THEN proc[p]
                ELSE [proc[p] EXCEPT !.parent = {},
                                     !.state = IF @ = "zombie" THEN "gone" ELSE @]]

Goto(c, pc) == cli' = [cli EXCEPT ![c].pc = pc] /\ UNCHANGED proc

\* application_function returns: to state_function or to the end of main.
Return(c) ==
  IF cli[c].req.all
  THEN /\ cli' = [cli EXCEPT ![c].pc = "next", ![c].pid = 0]
       /\ UNCHANGED proc
  ELSE Exit(c)

Save(c, state) ==
  /\ cli' = [cli EXCEPT ![c].pc = "save", ![c].state = state]
  /\ UNCHANGED proc

Started(req, app) ==
  [pc |-> "load", req |-> req, list |-> NoApps, todo |-> {}, app |-> app, state |-> NoApps,
   old |-> 0, pid |-> 0, wait_for_child |-> req.wait_for_child, handler |-> FALSE, missed |-> FALSE]

Given ==
  /\ commands < MaxCommands
  /\ commands' = commands + 1
  /\ alone' = (alone /\ \A c \in Clis : ~Busy(c))

\* zimr add, start, stop, restart, remove or status of one application.
Command(c, req, app) ==
  /\ ~Busy(c) /\ ~req.all /\ Given
  /\ cli' = [cli EXCEPT ![c] = Started(req, app)]
  /\ UNCHANGED <<file, proc>>

\* zimr ... all: state_function reads the list of the applications.
CommandAll(c, req) ==
  /\ ~Busy(c) /\ req.all /\ Given
  /\ cli' = [cli EXCEPT ![c] =
               [Started(req, CHOOSE a \in Apps : TRUE) EXCEPT !.pc = "next", !.list = zcnf_state_load,
                                    !.todo = DOMAIN zcnf_state_load]]
  /\ UNCHANGED <<file, proc>>

\* The applications of the list that state_function passes over.
Skips(req, entry) ==
  CASE req.type = "START" -> (req.ignore_disabled /\ entry.stopped) \/ Alive(entry.pid)
    [] req.type \in {"STOP", "RESTART"} -> entry.stopped
    [] OTHER -> FALSE

\* The next application of the list, as the list was when it was read.
state_function(c) ==
  /\ At(c, "next")
  /\ \/ cli[c].todo = {} /\ Exit(c)
     \/ \E a \in cli[c].todo :
          /\ cli' = [cli EXCEPT ![c].todo = @ \ {a}, ![c].app = a,
                                ![c].pc = IF Skips(cli[c].req, cli[c].list[a]) THEN "next" ELSE "load"]
          /\ UNCHANGED proc
  /\ UNCHANGED <<file, commands, alone>>

\* Mutant: an application that runs is started again.
Refuses_not_running(req, state, app) ==
  IF app \notin DOMAIN state THEN req.type # "ADD"
  ELSE CASE req.type = "ADD" -> TRUE
         [] req.type = "RESTART" -> state[app].stopped
         [] OTHER -> FALSE

\* application_function stops here and leaves the file as it is.
Refuses(req, state, app) ==
  IF app \notin DOMAIN state THEN req.type # "ADD"
  ELSE CASE req.type = "ADD" -> TRUE
         [] req.type = "START" -> ~state[app].stopped /\ Alive(state[app].pid)
         [] req.type = "RESTART" -> state[app].stopped
         [] OTHER -> FALSE

\* application_function up to its first wait.
application_function(c) ==
  LET req == cli[c].req
      app == cli[c].app
      state == zcnf_state_load
      loaded == [cli[c] EXCEPT !.state = state, !.old = IF app \in DOMAIN state THEN state[app].pid ELSE 0]
      Do(pc, s) == cli' = [cli EXCEPT ![c] = [loaded EXCEPT !.pc = pc, !.state = s]] /\ UNCHANGED proc
  IN  /\ At(c, "load")
      /\ UNCHANGED <<file, commands, alone>>
      /\ IF Refuses(req, state, app) THEN Return(c)
         ELSE CASE req.type = "ADD" -> Do("save", zcnf_state_set_app(state, app, 0, TRUE))
                [] req.type = "START" -> Do("exec", state)
                [] req.type = "STATUS" -> Do("save", state)
                [] OTHER -> Do("kill", state)

\* What follows when the old process is gone.
AfterKill(c) ==
  LET req == cli[c].req
      state == cli[c].state
  IN  CASE req.type = "STOP" -> Save(c, zcnf_state_set_app(state, cli[c].app, 0, req.allow_disable))
        [] req.type = "REMOVE" -> Save(c, Restrict(state, DOMAIN state \ {cli[c].app}))
        [] req.type = "RESTART" -> Goto(c, "exec")

\* application_kill: SIGKILL ends the process.  What it does of SIGTERM is its
\* own: the handler is empty, and only a select() it interrupts ends the process.
application_kill(c) ==
  LET pid == cli[c].old
  IN  /\ At(c, "kill")
      /\ UNCHANGED <<file, commands, alone>>
      /\ IF ~Alive(pid) THEN AfterKill(c)
         ELSE IF cli[c].req.force /\ Runs(pid)
         THEN LET parent == proc[pid].parent
                  waits == [cli EXCEPT ![c].pc = "dying"]
              IN  /\ proc' = [proc EXCEPT ![pid].state = IF parent = {} THEN "gone" ELSE "zombie"]
                  /\ cli' = IF parent = {} THEN waits
                            ELSE sig_from_child(waits, CHOOSE d \in parent : TRUE)
         ELSE Goto(c, "dying")

\* Mutant: a process that does not end in time counts as stopped.
stopproc_ignoring_timeout(c) ==
  /\ At(c, "dying")
  /\ AfterKill(c)
  /\ UNCHANGED <<file, commands, alone>>

\* The end of the wait for the process: gone, or the time is over (EBUSY).
stopproc(c) ==
  /\ At(c, "dying")
  /\ IF Alive(cli[c].old) THEN Return(c) ELSE AfterKill(c)
  /\ UNCHANGED <<file, commands, alone>>

\* application_exec: fork.
Fork(c) ==
  LET pid == Len(proc) + 1
      child == [app |-> cli[c].app, state |-> "starting", parent |-> {c},
                tells |-> cli[c].wait_for_child]
      forked == [cli EXCEPT ![c].pid = pid, ![c].missed = FALSE, ![c].pc = "forked"]
  IN  /\ At(c, "exec")
      /\ \/ /\ pid <= MaxPid
            /\ proc' = Append(proc, child)
            /\ cli' = IF cli[c].wait_for_child THEN forked
                      ELSE [forked EXCEPT ![c].pc = "save",
                              ![c].state = zcnf_state_set_app(@, cli[c].app, pid, FALSE)]
         \/ Return(c)                                  \* fork failed
      /\ UNCHANGED <<file, commands, alone>>

\* Mutant: the flag is set before the wait, not after it.
Install_resetting(c) ==
  /\ At(c, "forked")
  /\ cli' = [cli EXCEPT ![c].pc = "waiting", ![c].handler = TRUE, ![c].wait_for_child = TRUE]
  /\ UNCHANGED <<file, proc, commands, alone>>

\* application_exec: the handler of SIGCHLD.
Install(c) ==
  /\ At(c, "forked")
  /\ cli' = [cli EXCEPT ![c].pc = "waiting", ![c].handler = TRUE]
  /\ UNCHANGED <<file, proc, commands, alone>>

\* application_exec: while ( wait_for_child ) is over.
Woken(c) ==
  /\ At(c, "waiting") /\ ~cli[c].wait_for_child
  /\ cli' = [cli EXCEPT ![c].pc = "save", ![c].wait_for_child = TRUE, ![c].missed = FALSE,
                        ![c].state = zcnf_state_set_app(@, cli[c].app, cli[c].pid, FALSE)]
  /\ UNCHANGED <<file, proc, commands, alone>>

\* zcnf_state_save: fopen( filepath, "wb" ).
Truncate(c) ==
  /\ At(c, "save")
  /\ file' = NoApps
  /\ Goto(c, "write")
  /\ UNCHANGED <<commands, alone>>

zcnf_state_save(c) ==
  /\ At(c, "write")
  /\ file' = cli[c].state
  /\ Return(c)
  /\ UNCHANGED <<commands, alone>>

\* The user ends the command.
Interrupt(c) ==
  /\ Busy(c)
  /\ alone' = FALSE
  /\ Exit(c)
  /\ UNCHANGED <<file, commands>>
----------------------------------------------------------------------------
(* A process of an application. *)

\* The event handler goes to the background: when all the websites are enabled
\* (event_handler_verbose), or at the first event (event_handler_basic).
Background(pid) ==
  LET c == proc[pid].parent
  IN  /\ proc[pid].state = "starting"
      /\ proc' = [proc EXCEPT ![pid].state = "running"]
      /\ cli' = IF c = {} \/ ~proc[pid].tells THEN cli
                ELSE sig_from_child(cli, CHOOSE d \in c : TRUE)
      /\ UNCHANGED <<file, commands, alone>>

\* It fails, is stopped, or asks for a restart of itself, which ends it.
Ends(pid) ==
  /\ Runs(pid)
  /\ Ended(pid)
  /\ UNCHANGED <<file, commands, alone>>
----------------------------------------------------------------------------
Step(c) ==
  \/ state_function(c) \/ application_function(c)
  \/ application_kill(c) \/ stopproc(c)
  \/ Fork(c) \/ Install(c) \/ Woken(c)
  \/ Truncate(c) \/ zcnf_state_save(c)

Next ==
  \/ \E c \in Clis :
       \/ \E req \in Requests : CommandAll(c, req) \/ \E a \in Apps : Command(c, req, a)
       \/ Step(c) \/ Interrupt(c)
  \/ \E pid \in DOMAIN proc : Background(pid) \/ Ends(pid)

\* Every zimr process runs.  A process that starts finds the daemon: it comes
\* to the background or ends.
Fairness ==
  /\ \A c \in Clis : WF_vars(Step(c))
  /\ \A pid \in 1 .. MaxPid : WF_vars(pid \in DOMAIN proc /\ Background(pid))

Spec == Init /\ [][Next]_vars /\ Fairness
----------------------------------------------------------------------------
(* Properties. *)

\* The process is the one the state file names, or a command still has it in
\* hand: its child, or the state that it is about to write.
Recorded(pid) ==
  LET app == proc[pid].app
  IN  \/ app \in DOMAIN file /\ file[app].pid = pid
      \/ \E c \in Clis :
           \/ Busy(c) /\ cli[c].pid = pid
           \/ At(c, "write") /\ app \in DOMAIN cli[c].state /\ cli[c].state[app].pid = pid

\* As long as the commands are given one after the other and none is cut off,
\* an application has at most one process, and zimr knows of it: the checks
\* of start and restart, the waits of stop and remove, and the failures of
\* fork, of the wait and of the child leave no process behind.
OneProcess ==
  alone => \A p \in DOMAIN proc : Runs(p) =>
             /\ Recorded(p)
             /\ \A q \in DOMAIN proc : Runs(q) /\ proc[q].app = proc[p].app => q = p

\* A stop, restart or remove that goes on after application_kill, whatever
\* other commands do meanwhile, finds the process that it stops gone.
StoppedFirst ==
  \A c \in Clis :
    /\ Busy(c) /\ cli[c].pc \in {"exec", "forked", "waiting", "save", "write"}
    /\ cli[c].req.type \in {"STOP", "RESTART", "REMOVE"}
    => ~Alive(cli[c].old)

\* Every command ends, unless the signal of the process that it started, which
\* is sent once, came before application_exec had installed its handler.
CommandEnds ==
  \A c \in Clis : Busy(c) ~> (~Busy(c) \/ cli[c].missed)
=============================================================================
