--------------------------- MODULE CommandsProofs ---------------------------
(*************************************************************************)
(* Commands, for any number of applications, terminals, commands and     *)
(* processes: StoppedFirst whatever the commands do to each other, and   *)
(* OneProcess while they run one after the other. The bounds MaxPid and  *)
(* MaxCommands play no part in the proof, nor does fairness.             *)
(*************************************************************************)
EXTENDS Commands, TLAPS

----------------------------------------------------------------------------
(* The inductive invariant. *)

\* What the state file says of an application.
Entries == [pid: Nat, stopped: BOOLEAN]

\* The contents of a state file, as it is written or as a command has read
\* it.
Files == UNION {[S -> Entries] : S \in SUBSET Apps}

\* A process of an application; parent is the zimr process that waits for
\* it, if it still runs.
Procs == [app: Apps, state: {"starting", "running", "zombie", "gone"}, parent: SUBSET Clis,
          tells: BOOLEAN]

\* Where a zimr process can be.
Pcs == {"next", "load", "kill", "dying", "exec", "forked", "waiting", "save", "write"}

\* A zimr process that runs.
Zimrs == [pc: Pcs, req: Requests, list: Files, todo: SUBSET Apps, app: Apps, state: Files,
          old: Nat, pid: Nat, wait_for_child: BOOLEAN, handler: BOOLEAN, missed: BOOLEAN]

\* The pids of a state are those of processes that were started, and an
\* application that is disabled has none.
Counted(s, P) == \A a \in DOMAIN s : s[a].pid <= Len(P) /\ (s[a].stopped => s[a].pid = 0)

\* kill( pid, 0 ) fails.
Gone(P, pid) == pid = 0 \/ P[pid].state = "gone"

\* A zimr process knows only processes that were started, works on the list
\* it read, kills only for the commands that stop, and past application_kill
\* finds the old process gone.
Fits(r, P) ==
  /\ r.old <= Len(P) /\ r.pid <= Len(P)
  /\ Counted(r.list, P) /\ Counted(r.state, P)
  /\ r.todo \subseteq DOMAIN r.list
  /\ r.pc \in {"kill", "dying"} => r.req.type \in {"STOP", "RESTART", "REMOVE"}
  /\ r.pc \in {"exec", "forked", "waiting", "save", "write"}
     /\ r.req.type \in {"STOP", "RESTART", "REMOVE"} => Gone(P, r.old)

\* What holds whatever the commands do to each other: pids are not used
\* twice, and a child's parent is a zimr process that runs.
Base ==
  /\ file \in Files /\ Counted(file, proc)
  /\ proc \in Seq(Procs) /\ cli \in [Clis -> Zimrs \cup {NoCli}]
  /\ \A c \in Clis : Busy(c) => Fits(cli[c], proc)
  /\ \A p \in DOMAIN proc, c \in Clis : c \in proc[p].parent => Busy(c)

\* The process p of P runs.
RunsIn(P, p) == P[p].state \in {"starting", "running"}

\* The state s names the process p of P.
Has(s, P, p) == P[p].app \in DOMAIN s /\ s[P[p].app].pid = p

\* The state s names every process of P that runs; so there is one for each
\* application.
Booked(s, P) == \A p \in DOMAIN P : RunsIn(P, p) => Has(s, P, p)

\* What one zimr process alone knows: the file names every process that runs
\* until it has forked; then the file or its pid does, and what it is about
\* to write.
Holds(r, f, P) ==
  /\ r.pc \in {"next", "load", "kill", "dying", "exec"} => Booked(f, P)
  /\ r.pc \in {"kill", "dying", "exec", "forked", "waiting"} =>
       r.state = f /\ r.app \in DOMAIN f
  /\ r.pc \in {"kill", "dying"} => r.old = f[r.app].pid
  /\ r.pc = "exec" => \A p \in DOMAIN P : RunsIn(P, p) => P[p].app # r.app
  /\ r.pc \in {"forked", "waiting"} => \A p \in DOMAIN P : RunsIn(P, p) =>
       IF P[p].app = r.app THEN p = r.pid ELSE Has(f, P, p)
  /\ r.pc = "save" => \A p \in DOMAIN P : RunsIn(P, p) => p = r.pid \/ Has(f, P, p)
  /\ r.pc \in {"save", "write"} => Booked(r.state, P)

\* While no command was given before the last one ended, at most one zimr
\* process runs, and the file or that process names all that runs.
Single ==
  alone =>
    /\ \A c1, c2 \in Clis : Busy(c1) /\ Busy(c2) => c1 = c2
    /\ (\A c \in Clis : ~Busy(c)) => Booked(file, proc)
    /\ \A c \in Clis : Busy(c) => Holds(cli[c], file, proc)

\* The invariant that every step keeps.
IInv == Base /\ Single

----------------------------------------------------------------------------
(* The state file. *)

\* What a state is made of.
LEMMA FilesFacts ==
  ASSUME NEW s \in Files
  PROVE  /\ DOMAIN s \subseteq Apps /\ s \in [DOMAIN s -> Entries]
         /\ \A a \in DOMAIN s : s[a] \in Entries /\ s[a].pid \in Nat /\ s[a].stopped \in BOOLEAN
  <1>1. DOMAIN s \subseteq Apps /\ s \in [DOMAIN s -> Entries]
    BY DEF Files
  <1> QED BY <1>1 DEF Entries

\* A function from applications to entries is a state.
LEMMA IsFile ==
  ASSUME NEW D \in SUBSET Apps, NEW s \in [D -> Entries]
  PROVE  s \in Files
  BY DEF Files

\* t is the state s after the entry of app was set, with the process pid.
SetIn(s, t, app, pid, P) ==
  /\ t \in Files /\ Counted(t, P) /\ DOMAIN t = DOMAIN s \cup {app} /\ t[app].pid = pid
  /\ \A a \in DOMAIN s : a # app => t[a] = s[a]

\* To set one entry of a state leaves the others, and a state as a state
\* must be.
LEMMA SetApp ==
  ASSUME NEW s \in Files, NEW app \in Apps, NEW pid \in Nat, NEW e \in Entries,
         NEW P \in Seq(Procs), NEW t, Counted(s, P), pid <= Len(P), e.pid = pid,
         e.stopped => pid = 0, t = [a \in DOMAIN s \cup {app} |-> IF a = app THEN e ELSE s[a]]
  PROVE  SetIn(s, t, app, pid, P)
  <1>1. DOMAIN s \subseteq Apps /\ \A a \in DOMAIN s : s[a] \in Entries
    BY FilesFacts
  <1>2. t \in [DOMAIN s \cup {app} -> Entries] /\ DOMAIN s \cup {app} \in SUBSET Apps
    BY <1>1
  <1>3. /\ DOMAIN t = DOMAIN s \cup {app} /\ t[app] = e
        /\ \A a \in DOMAIN s : a # app => t[a] = s[a]
    OBVIOUS
  <1>4. Counted(t, P)
    BY <1>3 DEF Counted
  <1>5. t \in Files
    BY <1>2, IsFile
  <1> QED BY <1>3, <1>4, <1>5 DEF SetIn

\* zcnf_state_set_app for an application that is disabled: no process.
LEMMA SetDisabled ==
  ASSUME NEW s \in Files, NEW app \in Apps, NEW P \in Seq(Procs), Counted(s, P)
  PROVE  SetIn(s, zcnf_state_set_app(s, app, 0, TRUE), app, 0, P)
  <1>1. PICK e \in Entries : e = [pid |-> 0, stopped |-> TRUE]
    BY DEF Entries
  <1>2. 0 <= Len(P)
    OBVIOUS
  <1>3. e.pid = 0 /\ (e.stopped => 0 = 0) /\ 0 \in Nat
    BY <1>1
  <1>4. zcnf_state_set_app(s, app, 0, TRUE) = [a \in DOMAIN s \cup {app} |-> IF a = app THEN e
                                               ELSE s[a]]
    BY <1>1 DEF zcnf_state_set_app
  <1> QED BY <1>2, <1>3, <1>4, SetApp

\* zcnf_state_set_app for an application with the process pid, or none.
LEMMA SetEnabled ==
  ASSUME NEW s \in Files, NEW app \in Apps, NEW pid \in Nat, NEW P \in Seq(Procs),
         Counted(s, P), pid <= Len(P)
  PROVE  SetIn(s, zcnf_state_set_app(s, app, pid, FALSE), app, pid, P)
  <1>1. PICK e \in Entries : e = [pid |-> pid, stopped |-> FALSE]
    BY DEF Entries
  <1>2. e.pid = pid /\ (e.stopped => pid = 0)
    BY <1>1
  <1>3. zcnf_state_set_app(s, app, pid, FALSE) = [a \in DOMAIN s \cup {app} |-> IF a = app
                                                  THEN e ELSE s[a]]
    BY <1>1 DEF zcnf_state_set_app
  <1> QED BY <1>2, <1>3, SetApp

\* REMOVE takes one entry out of the state.
LEMMA Removed ==
  ASSUME NEW s \in Files, NEW app \in Apps, NEW P \in Seq(Procs), Counted(s, P)
  PROVE  LET t == Restrict(s, DOMAIN s \ {app}) IN
         /\ t \in Files /\ Counted(t, P) /\ DOMAIN t = DOMAIN s \ {app}
         /\ \A a \in DOMAIN t : t[a] = s[a]
  <1> DEFINE t == Restrict(s, DOMAIN s \ {app})
  <1>1. DOMAIN s \subseteq Apps /\ \A a \in DOMAIN s : s[a] \in Entries
    BY FilesFacts
  <1>2. t = [a \in DOMAIN s \ {app} |-> s[a]]
    BY DEF Restrict
  <1> HIDE DEF t
  <1>3. t \in [DOMAIN s \ {app} -> Entries] /\ DOMAIN s \ {app} \in SUBSET Apps
    BY <1>1, <1>2
  <1>4. DOMAIN t = DOMAIN s \ {app} /\ \A a \in DOMAIN t : t[a] = s[a]
    BY <1>2
  <1>5. Counted(t, P)
    BY <1>4 DEF Counted
  <1>6. t \in Files
    BY <1>3, IsFile
  <1> QED BY <1>4, <1>5, <1>6 DEF t

\* The truncated file is a state.
LEMMA Empties ==
  ASSUME NEW P
  PROVE  NoApps \in Files /\ Counted(NoApps, P) /\ DOMAIN NoApps = {}
  <1>1. NoApps \in [{} -> Entries] /\ DOMAIN NoApps = {}
    BY DEF NoApps
  <1>2. NoApps \in Files
    BY <1>1, IsFile
  <1> QED BY <1>1, <1>2 DEF Counted

----------------------------------------------------------------------------
(* What a step leaves of the invariant. *)

\* A zimr process runs, or there is none.
LEMMA CliFacts ==
  ASSUME Base, NEW c \in Clis
  PROVE  /\ Busy(c) <=> cli[c] \in Zimrs
         /\ ~Busy(c) <=> cli[c] = NoCli
         /\ Busy(c) <=> cli[c] # NoCli
  <1>1. cli[c] \in Zimrs \cup {NoCli}
    BY DEF Base
  <1>2. \A r \in Zimrs : r.pc # "idle" /\ r # NoCli
    BY DEF Zimrs, Pcs, NoCli
  <1>3. NoCli.pc = "idle"
    BY DEF NoCli
  <1> QED BY <1>1, <1>2, <1>3 DEF Busy, At

\* The processes of Q are those of P and later ones, and what is gone stays
\* gone.
Grows(P, Q) ==
  /\ Q \in Seq(Procs) /\ Len(P) <= Len(Q)
  /\ \A p \in 1 .. Len(P) : P[p].state = "gone" => Q[p].state = "gone"

\* A state stays what it was when processes are started or end.
LEMMA CountedGrows ==
  ASSUME NEW P \in Seq(Procs), NEW Q \in Seq(Procs), Grows(P, Q), NEW s \in Files,
         Counted(s, P)
  PROVE  Counted(s, Q)
  <1>1. Len(P) \in Nat /\ Len(Q) \in Nat /\ Len(P) <= Len(Q)
    BY DEF Grows
  <1>2. \A a \in DOMAIN s : s[a].pid \in Nat
    BY FilesFacts
  <1> QED BY <1>1, <1>2 DEF Counted

\* So does what a zimr process knows.
LEMMA FitsGrows ==
  ASSUME NEW P \in Seq(Procs), NEW Q \in Seq(Procs), Grows(P, Q), NEW r \in Zimrs, Fits(r, P)
  PROVE  Fits(r, Q)
  <1>1. Len(P) \in Nat /\ Len(Q) \in Nat /\ Len(P) <= Len(Q)
    BY DEF Grows
  <1>2. r.old \in Nat /\ r.pid \in Nat /\ r.list \in Files /\ r.state \in Files
    BY DEF Zimrs
  <1>3. Counted(r.list, Q) /\ Counted(r.state, Q)
    BY <1>2, CountedGrows DEF Fits
  <1>4. Gone(P, r.old) /\ r.old <= Len(P) => Gone(Q, r.old)
    BY <1>1, <1>2 DEF Grows, Gone
  <1> QED BY <1>1, <1>2, <1>3, <1>4 DEF Fits

\* A step of one zimr process keeps what holds of all of them.
LEMMA MoveKeeps ==
  ASSUME Base, NEW c \in Clis, NEW s \in Zimrs, Grows(proc, proc'), Fits(s, proc'),
         file' \in Files, Counted(file', proc'), cli' = [cli EXCEPT ![c] = s],
         \A p \in DOMAIN proc', x \in Clis : x \in proc'[p].parent => x = c \/ Busy(x)
  PROVE  Base'
  <1>1. proc \in Seq(Procs) /\ proc' \in Seq(Procs) /\ cli \in [Clis -> Zimrs \cup {NoCli}]
    BY DEF Base, Grows
  <1>2. /\ cli' \in [Clis -> Zimrs \cup {NoCli}] /\ cli'[c] = s /\ \A x \in Clis : x # c =>
             cli'[x] = cli[x]
    BY <1>1
  <1>3. s.pc # "idle"
    BY DEF Zimrs, Pcs
  <1>4. \A x \in Clis : Busy(x)' <=> x = c \/ Busy(x)
    BY <1>2, <1>3 DEF Busy, At
  <1>5. ASSUME NEW x \in Clis, Busy(x)' PROVE Fits(cli'[x], proc')
    <2>1. CASE x = c
      BY <1>2, <2>1
    <2>2. CASE x # c
      <3>1. cli[x] \in Zimrs /\ Fits(cli[x], proc)
        BY <1>4, <1>5, <2>2, CliFacts DEF Base
      <3> QED BY <1>1, <1>2, <2>2, <3>1, FitsGrows
    <2> QED BY <2>1, <2>2
  <1> QED BY <1>1, <1>2, <1>4, <1>5 DEF Base

\* The same processes, of which none runs that did not run before.
Fewer(P, Q) ==
  /\ DOMAIN Q = DOMAIN P
  /\ \A p \in DOMAIN P : Q[p].app = P[p].app /\ (RunsIn(Q, p) => RunsIn(P, p))

\* The zimr processes r and s differ only in what the wait for the child
\* reads.
SameWork(r, s) ==
  /\ r \in Zimrs /\ s \in Zimrs
  /\ s.pc = r.pc /\ s.req = r.req /\ s.list = r.list /\ s.todo = r.todo
  /\ s.app = r.app /\ s.state = r.state /\ s.old = r.old /\ s.pid = r.pid

\* A state that names every process that runs still does when some end.
LEMMA BookedFewer ==
  ASSUME NEW P \in Seq(Procs), NEW Q \in Seq(Procs), Fewer(P, Q), NEW s, Booked(s, P)
  PROVE  Booked(s, Q)
  BY DEF Booked, Fewer, Has

\* What a zimr process alone knows stays true when processes end and when it
\* is signalled.
LEMMA HoldsFewer ==
  ASSUME NEW P \in Seq(Procs), NEW Q \in Seq(Procs), Fewer(P, Q), NEW r, NEW s,
         r = s \/ SameWork(r, s), NEW f, Holds(r, f, P)
  PROVE  Holds(s, f, Q)
  <1>1. /\ s.pc = r.pc /\ s.app = r.app /\ s.state = r.state /\ s.old = r.old /\ s.pid = r.pid
    BY DEF SameWork
  <1>2. \A t : Booked(t, P) => Booked(t, Q)
    BY BookedFewer
  <1>3. \A p \in DOMAIN Q : p \in DOMAIN P /\ Q[p].app = P[p].app
          /\ (RunsIn(Q, p) => RunsIn(P, p)) /\ (Has(f, P, p) => Has(f, Q, p))
    BY DEF Fewer, Has
  <1> QED BY <1>1, <1>2, <1>3 DEF Holds

\* The exit of a zimr process: its children are init's, and those that ended
\* are gone.
LEMMA Leaves ==
  ASSUME Base, NEW c \in Clis, Exit(c)
  PROVE  /\ Grows(proc, proc') /\ Fewer(proc, proc') /\ proc' \in Seq(Procs)
         /\ \A p \in DOMAIN proc', x \in Clis : x \in proc'[p].parent => x # c /\ Busy(x)
         /\ cli' \in [Clis -> Zimrs \cup {NoCli}]
         /\ cli'[c] = NoCli /\ \A x \in Clis : x # c => cli'[x] = cli[x]
  <1>1. proc \in Seq(Procs) /\ cli \in [Clis -> Zimrs \cup {NoCli}]
          /\ DOMAIN proc = 1 .. Len(proc)
    BY DEF Base
  <1>2. proc' = [p \in DOMAIN proc |->
                IF c \notin proc[p].parent THEN proc[p]
                ELSE [proc[p] EXCEPT !.parent = {}, !.state = IF proc[p].state = "zombie"
                      THEN "gone" ELSE proc[p].state]]
    BY DEF Exit
  <1>3. ASSUME NEW p \in DOMAIN proc
        PROVE  /\ proc'[p] \in Procs /\ proc'[p].app = proc[p].app
               /\ proc'[p].parent \subseteq proc[p].parent /\ c \notin proc'[p].parent
               /\ proc[p].state = "gone" => proc'[p].state = "gone"
               /\ RunsIn(proc', p) => RunsIn(proc, p)
    <2>1. PICK q \in Procs : q = proc[p]
      BY <1>1
    <2>2. CASE c \notin q.parent
      <3>1. proc'[p] = q
        BY <1>2, <2>1, <2>2
      <3> QED BY <2>1, <2>2, <3>1 DEF RunsIn
    <2>3. CASE c \in q.parent
      <3> DEFINE v == IF q.state = "zombie" THEN "gone" ELSE q.state
                 t == [q EXCEPT !.parent = {}, !.state = v]
      <3>1. proc'[p] = t
        BY <1>2, <2>1, <2>3
      <3>2. v \in {"starting", "running", "zombie", "gone"} /\ (q.state = "gone" => v = "gone")
              /\ (v \in {"starting", "running"} => q.state = v)
        BY DEF Procs
      <3> HIDE DEF v
      <3>3. t \in Procs /\ t.app = q.app /\ t.parent = {} /\ t.state = v
        BY <3>2 DEF Procs
      <3> HIDE DEF t
      <3> QED BY <2>1, <3>1, <3>2, <3>3 DEF RunsIn
    <2> QED BY <2>2, <2>3
  <1>4. DOMAIN proc' = 1 .. Len(proc) /\ proc' \in [1 .. Len(proc) -> Procs]
          /\ Len(proc) \in Nat
    <2>1. DOMAIN proc' = DOMAIN proc /\ proc' = [p \in DOMAIN proc |-> proc'[p]]
      BY <1>2
    <2>2. \A p \in DOMAIN proc : proc'[p] \in Procs
      BY <1>3
    <2> QED BY <1>1, <2>1, <2>2
  <1>5. proc' \in Seq(Procs) /\ Len(proc') = Len(proc)
    BY <1>4
  <1>6. Grows(proc, proc') /\ Fewer(proc, proc')
    BY <1>1, <1>3, <1>4, <1>5 DEF Grows, Fewer
  <1>7. \A p \in DOMAIN proc', x \in Clis : x \in proc'[p].parent => x # c /\ Busy(x)
    BY <1>1, <1>3, <1>4 DEF Base
  <1>8. /\ cli' \in [Clis -> Zimrs \cup {NoCli}]
        /\ cli'[c] = NoCli /\ \A x \in Clis : x # c => cli'[x] = cli[x]
    BY <1>1 DEF Exit
  <1> QED BY <1>5, <1>6, <1>7, <1>8

\* The exit keeps the invariant.
LEMMA ExitKeeps ==
  ASSUME Base, Single, NEW c \in Clis, Busy(c), Exit(c), file' \in Files, Counted(file', proc),
         alone' => alone, alone' => Booked(file', proc)
  PROVE  Base' /\ Single'
  <1>1. /\ Grows(proc, proc') /\ Fewer(proc, proc') /\ proc' \in Seq(Procs)
        /\ \A p \in DOMAIN proc', x \in Clis : x \in proc'[p].parent => x # c /\ Busy(x)
        /\ cli' \in [Clis -> Zimrs \cup {NoCli}]
        /\ cli'[c] = NoCli /\ \A x \in Clis : x # c => cli'[x] = cli[x]
    BY Leaves
  <1>2. proc \in Seq(Procs)
    BY DEF Base
  <1>3. \A x \in Clis : Busy(x)' <=> x # c /\ Busy(x)
    BY <1>1 DEF Busy, At, NoCli
  <1>4. ASSUME NEW x \in Clis, Busy(x)' PROVE Fits(cli'[x], proc')
    <2>1. cli[x] \in Zimrs /\ Fits(cli[x], proc) /\ cli'[x] = cli[x]
      BY <1>1, <1>3, <1>4, CliFacts DEF Base
    <2> QED BY <1>1, <1>2, <2>1, FitsGrows
  <1>5. Counted(file', proc')
    BY <1>1, <1>2, CountedGrows
  <1>6. Base'
    BY <1>1, <1>3, <1>4, <1>5 DEF Base
  <1>7. ASSUME alone' PROVE (\A x \in Clis : ~Busy(x)') /\ Booked(file', proc')
    <2>1. Booked(file', proc')
      BY <1>1, <1>2, <1>7, BookedFewer
    <2> QED BY <1>3, <1>7, <2>1 DEF Single
  <1>8. Single'
    BY <1>7 DEF Single
  <1> QED BY <1>6, <1>8

\* A step of the one zimr process that runs keeps Single.
LEMMA SingleMoves ==
  ASSUME Single, NEW c \in Clis, Busy(c), NEW s \in Zimrs,
         cli \in [Clis -> Zimrs \cup {NoCli}], cli' = [cli EXCEPT ![c] = s], alone' = alone,
         alone => Holds(s, file', proc')
  PROVE  Single'
  <1>1. cli'[c] = s /\ \A x \in Clis : x # c => cli'[x] = cli[x]
    OBVIOUS
  <1>2. s.pc # "idle"
    BY DEF Zimrs, Pcs
  <1>3. \A x \in Clis : Busy(x)' <=> Busy(x)
    BY <1>1, <1>2 DEF Busy, At
  <1>4. ASSUME alone PROVE \A x \in Clis : Busy(x) => x = c
    BY <1>4 DEF Single
  <1> QED BY <1>1, <1>3, <1>4 DEF Single

\* A step of one zimr process that starts and ends no process keeps the
\* invariant.
LEMMA Moves ==
  ASSUME Base, Single, NEW c \in Clis, Busy(c), NEW s \in Zimrs, cli' = [cli EXCEPT ![c] = s],
         proc' = proc, Fits(s, proc), file' \in Files, Counted(file', proc), alone' = alone,
         alone => Holds(s, file', proc)
  PROVE  Base' /\ Single'
  <1>1. Grows(proc, proc')
    BY DEF Base, Grows
  <1>2. \A p \in DOMAIN proc', x \in Clis : x \in proc'[p].parent => x = c \/ Busy(x)
    BY DEF Base
  <1>3. Base'
    BY <1>1, <1>2, MoveKeeps
  <1>4. cli \in [Clis -> Zimrs \cup {NoCli}]
    BY DEF Base
  <1>5. Single'
    BY <1>4, SingleMoves
  <1> QED BY <1>3, <1>5

\* The return from application_function keeps the invariant.
LEMMA Returns ==
  ASSUME Base, Single, NEW c \in Clis, Busy(c), Return(c), file' \in Files,
         Counted(file', proc), alone' = alone, alone => Booked(file', proc)
  PROVE  Base' /\ Single'
  <1>1. CASE ~cli[c].req.all
    BY <1>1, ExitKeeps DEF Return
  <1>2. CASE cli[c].req.all
    <2>1. PICK r \in Zimrs : r = cli[c]
      BY CliFacts
    <2>2. Fits(r, proc)
      BY <2>1 DEF Base
    <2> DEFINE s == [r EXCEPT !.pc = "next", !.pid = 0]
    <2>3. s \in Zimrs /\ s.pc = "next" /\ s.pid = 0 /\ s.old = r.old /\ s.list = r.list
            /\ s.state = r.state /\ s.todo = r.todo
      BY DEF Zimrs, Pcs
    <2>4. cli' = [cli EXCEPT ![c] = s] /\ proc' = proc
      BY <1>2, <2>1 DEF Return
    <2> HIDE DEF s
    <2>5. Fits(s, proc)
      <3>1. Len(proc) \in Nat
        BY DEF Base
      <3> QED BY <2>2, <2>3, <3>1 DEF Fits
    <2>6. alone => Holds(s, file', proc)
      BY <2>3 DEF Holds
    <2> QED BY <2>3, <2>4, <2>5, <2>6, Moves
  <1> QED BY <1>1, <1>2

----------------------------------------------------------------------------
(* The steps of a zimr process. *)

\* A new zimr process keeps the invariant: alone stays TRUE only if no other
\* runs.
LEMMA Begins ==
  ASSUME Base, Single, NEW c \in Clis, ~Busy(c), NEW s \in Zimrs, cli' = [cli EXCEPT ![c] = s],
         s.pc \in {"load", "next"}, Fits(s, proc), Given, file' = file, proc' = proc
  PROVE  Base' /\ Single'
  <1>1. Grows(proc, proc') /\ file \in Files /\ Counted(file, proc)
    BY DEF Base, Grows
  <1>2. \A p \in DOMAIN proc', x \in Clis : x \in proc'[p].parent => x = c \/ Busy(x)
    BY DEF Base
  <1>3. Base'
    BY <1>1, <1>2, MoveKeeps
  <1>4. cli'[c] = s /\ \A x \in Clis : x # c => cli'[x] = cli[x]
    BY DEF Base
  <1>5. \A x \in Clis : Busy(x)' <=> x = c \/ Busy(x)
    BY <1>4 DEF Busy, At
  <1>6. ASSUME alone' PROVE alone /\ (\A x \in Clis : ~Busy(x)) /\ Booked(file, proc)
    BY <1>6 DEF Given, Single
  <1>7. ASSUME alone' PROVE Holds(s, file', proc')
    BY <1>6, <1>7 DEF Holds
  <1>8. Single'
    BY <1>4, <1>5, <1>6, <1>7 DEF Single
  <1> QED BY <1>3, <1>8

\* A zimr process as main leaves it.
LEMMA StartedFacts ==
  ASSUME NEW req \in Requests, NEW app \in Apps
  PROVE  LET s == Started(req, app) IN
         /\ s \in Zimrs /\ s.pc = "load" /\ s.list = NoApps /\ s.todo = {} /\ s.state = NoApps
            /\ s.old = 0 /\ s.pid = 0
  <1>1. NoApps \in Files
    BY Empties
  <1>2. req.wait_for_child \in BOOLEAN
    BY RequestsAssumption DEF ApplicationRequests, StateRequests, Request
  <1> QED BY <1>1, <1>2 DEF Started, Zimrs, Pcs

\* Command keeps the invariant.
LEMMA CommandKeeps ==
  ASSUME Base, Single, NEW c \in Clis, NEW req \in Requests, NEW app \in Apps,
         Command(c, req, app)
  PROVE  Base' /\ Single'
  <1> DEFINE s == Started(req, app)
  <1>1. s \in Zimrs /\ s.pc = "load" /\ s.list = NoApps /\ s.todo = {} /\ s.state = NoApps
          /\ s.old = 0 /\ s.pid = 0
    BY StartedFacts
  <1>2. cli' = [cli EXCEPT ![c] = s] /\ ~Busy(c) /\ Given /\ file' = file /\ proc' = proc
    BY DEF Command
  <1> HIDE DEF s
  <1>3. Fits(s, proc)
    <2>1. Len(proc) \in Nat
      BY DEF Base
    <2> QED BY <1>1, <2>1, Empties DEF Fits
  <1> QED BY <1>1, <1>2, <1>3, Begins

\* CommandAll keeps the invariant.
LEMMA CommandAllKeeps ==
  ASSUME Base, Single, NEW c \in Clis, NEW req \in Requests, CommandAll(c, req)
  PROVE  Base' /\ Single'
  <1>1. PICK a \in Apps : a = CHOOSE x \in Apps : TRUE
    BY AppsAssumption
  <1>2. PICK r \in Zimrs : /\ r = Started(req, a) /\ r.state = NoApps /\ r.old = 0 /\ r.pid = 0
    BY StartedFacts
  <1>3. file \in Files /\ Counted(file, proc) /\ DOMAIN file \subseteq Apps
    BY FilesFacts DEF Base
  <1> DEFINE s == [r EXCEPT !.pc = "next", !.list = file, !.todo = DOMAIN file]
  <1>4. s \in Zimrs /\ s.pc = "next" /\ s.list = file /\ s.todo = DOMAIN file
          /\ s.state = NoApps /\ s.old = 0 /\ s.pid = 0
    BY <1>2, <1>3 DEF Zimrs, Pcs
  <1>5. cli' = [cli EXCEPT ![c] = s] /\ ~Busy(c) /\ Given /\ file' = file /\ proc' = proc
    BY <1>1, <1>2 DEF CommandAll, zcnf_state_load
  <1> HIDE DEF s
  <1>6. Fits(s, proc)
    <2>1. Len(proc) \in Nat
      BY DEF Base
    <2> QED BY <1>3, <1>4, <2>1, Empties DEF Fits
  <1> QED BY <1>4, <1>5, <1>6, Begins

\* What the invariant says of a zimr process that is about to take a step.
LEMMA Acting ==
  ASSUME Base, Single, NEW c \in Clis, NEW pc \in Pcs, At(c, pc)
  PROVE  /\ Busy(c) /\ cli[c] \in Zimrs /\ Fits(cli[c], proc)
            /\ (alone => Holds(cli[c], file, proc))
         /\ file \in Files /\ Counted(file, proc) /\ proc \in Seq(Procs) /\ Len(proc) \in Nat
            /\ DOMAIN proc = 1 .. Len(proc)
  <1>1. Busy(c)
    BY DEF Busy, At, Pcs
  <1> QED BY <1>1, CliFacts DEF Base, Single

\* state_function keeps the invariant.
LEMMA StateFunctionKeeps ==
  ASSUME Base, Single, NEW c \in Clis, state_function(c)
  PROVE  Base' /\ Single'
  <1>1. At(c, "next") /\ file' = file /\ alone' = alone
    BY DEF state_function
  <1>2. /\ Busy(c) /\ cli[c] \in Zimrs /\ Fits(cli[c], proc)
           /\ (alone => Holds(cli[c], file, proc))
        /\ file \in Files /\ Counted(file, proc)
    BY <1>1, Acting DEF Pcs
  <1>3. alone => Booked(file, proc)
    BY <1>1, <1>2 DEF Holds, At
  <1>4. CASE Exit(c)
    BY <1>1, <1>2, <1>3, <1>4, ExitKeeps
  <1>5. ASSUME NEW a \in cli[c].todo, proc' = proc,
               cli' = [cli EXCEPT ![c].todo = @ \ {a}, ![c].app = a,
                                ![c].pc = IF Skips(cli[c].req, cli[c].list[a]) THEN "next"
                                    ELSE "load"]
        PROVE  Base' /\ Single'
    <2>1. PICK r \in Zimrs : r = cli[c]
      BY <1>2
    <2>2. PICK pc \in {"next", "load"} : pc = IF Skips(cli[c].req, cli[c].list[a]) THEN "next"
            ELSE "load"
      OBVIOUS
    <2> DEFINE s == [r EXCEPT !.todo = r.todo \ {a}, !.app = a, !.pc = pc]
    <2>3. a \in Apps
      BY <1>5, <2>1 DEF Zimrs
    <2>4. s \in Zimrs /\ s.pc = pc /\ s.todo = r.todo \ {a} /\ s.list = r.list
            /\ s.state = r.state /\ s.old = r.old /\ s.pid = r.pid
      BY <2>3 DEF Zimrs, Pcs
    <2>5. cli' = [cli EXCEPT ![c] = s]
      BY <1>5, <2>1, <2>2
    <2> HIDE DEF s
    <2>6. Fits(s, proc)
      BY <1>2, <2>1, <2>2, <2>4 DEF Fits
    <2>7. alone => Holds(s, file', proc)
      BY <1>1, <1>3, <2>2, <2>4 DEF Holds
    <2> QED BY <1>1, <1>2, <1>5, <2>4, <2>5, <2>6, <2>7, Moves
  <1> QED BY <1>4, <1>5 DEF state_function

\* What application_function leaves: the state that it read, or changed, and
\* the process that state names.
Loads(r, s, pc, t) ==
  /\ s \in Zimrs /\ s.pc = pc /\ s.state = t /\ s.req = r.req /\ s.app = r.app
     /\ s.list = r.list /\ s.todo = r.todo /\ s.pid = r.pid
  /\ s.old = IF r.app \in DOMAIN file THEN file[r.app].pid ELSE 0

\* What it leaves fits the processes there are.
LEMMA LoadFits ==
  ASSUME Base, NEW r \in Zimrs, Fits(r, proc), NEW s, NEW pc, NEW t, Loads(r, s, pc, t),
         Counted(t, proc), pc \in {"save", "exec", "kill"},
         pc = "kill" <=> r.req.type \in {"STOP", "RESTART", "REMOVE"}
  PROVE  Fits(s, proc)
  <1>1. Counted(file, proc) /\ file \in Files /\ Len(proc) \in Nat
    BY DEF Base
  <1>2. s.old <= Len(proc)
    BY <1>1 DEF Loads, Counted
  <1> QED BY <1>2 DEF Fits, Loads

\* application_function keeps the invariant. A start goes on only if the
\* application is disabled, and then it has no process, or its process is
\* gone.
LEMMA ApplicationFunctionKeeps ==
  ASSUME Base, Single, NEW c \in Clis, application_function(c)
  PROVE  Base' /\ Single'
  <1>1. At(c, "load") /\ file' = file /\ alone' = alone
    BY DEF application_function
  <1>2. /\ Busy(c) /\ cli[c] \in Zimrs /\ Fits(cli[c], proc)
           /\ (alone => Holds(cli[c], file, proc))
        /\ file \in Files /\ Counted(file, proc) /\ proc \in Seq(Procs)
           /\ DOMAIN proc = 1 .. Len(proc)
    BY <1>1, Acting DEF Pcs
  <1>3. alone => Booked(file, proc)
    BY <1>1, <1>2 DEF Holds, At
  <1>4. PICK r \in Zimrs : r = cli[c]
    BY <1>2
  <1> DEFINE req == r.req
             app == r.app
             L(pc, t) == [[r EXCEPT !.state = file, !.old = IF app \in DOMAIN file
                           THEN file[app].pid ELSE 0] EXCEPT !.pc = pc, !.state = t]
  <1>5. app \in Apps /\ req \in Requests /\ req.type \in Types
    BY RequestsAssumption DEF Zimrs, ApplicationRequests, StateRequests, Request
  <1>6. ASSUME NEW pc \in {"save", "exec", "kill"}, NEW t \in Files
          PROVE Loads(r, L(pc, t), pc, t)
    <2>1. PICK old \in Nat : old = IF app \in DOMAIN file THEN file[app].pid ELSE 0
      BY <1>2, FilesFacts
    <2> DEFINE u == [r EXCEPT !.state = file, !.old = old]
               v == [u EXCEPT !.pc = pc, !.state = t]
    <2>2. u \in Zimrs /\ u.old = old /\ u.req = r.req /\ u.app = r.app /\ u.list = r.list
            /\ u.todo = r.todo /\ u.pid = r.pid
      BY <1>2 DEF Zimrs
    <2>3. L(pc, t) = v
      BY <2>1
    <2> HIDE DEF u
    <2>4. v \in Zimrs /\ v.old = u.old /\ v.pc = pc /\ v.state = t /\ v.req = u.req
            /\ v.app = u.app /\ v.list = u.list /\ v.todo = u.todo /\ v.pid = u.pid
      BY <2>2 DEF Zimrs, Pcs
    <2> QED BY <2>1, <2>2, <2>3, <2>4 DEF Loads
  <1>7. ASSUME NEW pc \in {"save", "exec", "kill"}, NEW t \in Files, Counted(t, proc),
          pc = "kill" <=> req.type \in {"STOP", "RESTART", "REMOVE"},
               cli' = [cli EXCEPT ![c] = L(pc, t)], proc' = proc, alone =>
                   \A s : Loads(r, s, pc, t) => Holds(s, file, proc)
        PROVE  Base' /\ Single'
    <2> DEFINE s == L(pc, t)
    <2>1. Loads(r, s, pc, t)
      BY <1>6
    <2>2. cli' = [cli EXCEPT ![c] = s]
      BY <1>7
    <2> HIDE DEF s
    <2>3. Fits(s, proc)
      BY <1>2, <1>4, <1>7, <2>1, LoadFits
    <2>4. s \in Zimrs
      BY <2>1 DEF Loads
    <2> QED BY <1>1, <1>2, <1>7, <2>1, <2>2, <2>3, <2>4, Moves
  <1>8. CASE Refuses(req, file, app)
    <2>1. Return(c)
      BY <1>4, <1>8 DEF application_function, zcnf_state_load
    <2> QED BY <1>1, <1>2, <1>3, <2>1, Returns
  <1>9. CASE ~Refuses(req, file, app) /\ req.type = "ADD"
    <2> DEFINE t == zcnf_state_set_app(file, app, 0, TRUE)
    <2>1. cli' = [cli EXCEPT ![c] = L("save", t)] /\ proc' = proc
      BY <1>4, <1>9 DEF application_function, zcnf_state_load
    <2>2. t \in Files /\ Counted(t, proc) /\ DOMAIN t = DOMAIN file \cup {app}
            /\ \A a \in DOMAIN file : a # app => t[a] = file[a]
      <3>1. SetIn(file, t, app, 0, proc)
        BY <1>2, <1>5, SetDisabled
      <3> HIDE DEF t
      <3> QED BY <3>1 DEF SetIn
    <2> HIDE DEF t
    <2>3. app \notin DOMAIN file
      BY <1>9 DEF Refuses
    <2>4. alone => Booked(t, proc)
      BY <1>3, <2>2, <2>3 DEF Booked, Has
    <2>5. alone => \A s : Loads(r, s, "save", t) => Holds(s, file, proc)
      BY <1>3, <2>4 DEF Loads, Holds, Booked
    <2> HIDE DEF L
    <2> QED BY <1>7, <1>9, <2>1, <2>2, <2>5
  <1>10. CASE ~Refuses(req, file, app) /\ req.type = "START"
    <2>1. cli' = [cli EXCEPT ![c] = L("exec", file)] /\ proc' = proc
      BY <1>4, <1>10 DEF application_function, zcnf_state_load
    <2>2. app \in DOMAIN file /\ (file[app].stopped \/ ~Alive(file[app].pid))
      BY <1>10 DEF Refuses
    <2>3. ASSUME alone, NEW p \in DOMAIN proc, RunsIn(proc, p) PROVE proc[p].app # app
      <3>1. proc[p].app = app => file[app].pid = p
        BY <1>3, <2>3 DEF Booked, Has
      <3>2. p # 0 /\ proc[p].state # "gone"
        BY <1>2, <2>3 DEF RunsIn
      <3>3. file[app].pid = p => ~file[app].stopped /\ Alive(file[app].pid)
        BY <1>2, <2>2, <3>2 DEF Counted, Alive
      <3> QED BY <2>2, <3>1, <3>3
    <2>4. alone => \A s : Loads(r, s, "exec", file) => Holds(s, file, proc)
      BY <1>3, <2>2, <2>3 DEF Loads, Holds
    <2> HIDE DEF L
    <2> QED BY <1>2, <1>7, <1>10, <2>1, <2>4
  <1>11. CASE ~Refuses(req, file, app) /\ req.type = "STATUS"
    <2>1. cli' = [cli EXCEPT ![c] = L("save", file)] /\ proc' = proc
      BY <1>4, <1>11 DEF application_function, zcnf_state_load
    <2>2. alone => \A s : Loads(r, s, "save", file) => Holds(s, file, proc)
      BY <1>3 DEF Loads, Holds, Booked
    <2> HIDE DEF L
    <2> QED BY <1>2, <1>7, <1>11, <2>1, <2>2
  <1>12. CASE ~Refuses(req, file, app) /\ req.type \in {"STOP", "RESTART", "REMOVE"}
    <2>1. cli' = [cli EXCEPT ![c] = L("kill", file)] /\ proc' = proc
      BY <1>4, <1>12 DEF application_function, zcnf_state_load
    <2>2. app \in DOMAIN file
      BY <1>12 DEF Refuses
    <2>3. alone => \A s : Loads(r, s, "kill", file) => Holds(s, file, proc)
      BY <1>3, <2>2 DEF Loads, Holds
    <2> HIDE DEF L
    <2> QED BY <1>2, <1>7, <1>12, <2>1, <2>3
  <1> QED BY <1>5, <1>8, <1>9, <1>10, <1>11, <1>12 DEF Types

\* What follows the kill keeps the invariant: the old process is gone, so no
\* process of the application is lost when its entry changes.
LEMMA AfterKillKeeps ==
  ASSUME Base, Single, NEW c \in Clis, At(c, "kill") \/ At(c, "dying"), ~Alive(cli[c].old),
         AfterKill(c), file' = file, alone' = alone
  PROVE  Base' /\ Single'
  <1>1. /\ Busy(c) /\ cli[c] \in Zimrs /\ Fits(cli[c], proc)
           /\ (alone => Holds(cli[c], file, proc))
        /\ file \in Files /\ Counted(file, proc) /\ proc \in Seq(Procs) /\ Len(proc) \in Nat
           /\ DOMAIN proc = 1 .. Len(proc)
    BY Acting DEF Pcs
  <1>2. PICK r \in Zimrs : r = cli[c]
    BY <1>1
  <1>3. Gone(proc, r.old) /\ Counted(r.state, proc) /\ r.state \in Files /\ r.app \in Apps
    BY <1>1, <1>2 DEF Alive, Gone, Fits, Zimrs
  <1>4. ASSUME alone
        PROVE  Booked(file, proc) /\ r.state = file /\ r.app \in DOMAIN file
            /\ \A p \in DOMAIN proc : RunsIn(proc, p) => proc[p].app # r.app
    <2>1. Booked(file, proc) /\ r.state = file /\ r.app \in DOMAIN file
            /\ r.old = file[r.app].pid
      BY <1>1, <1>2, <1>4 DEF Holds, At
    <2> QED BY <1>1, <1>3, <2>1 DEF Booked, Has, RunsIn, Gone
  <1>5. ASSUME NEW t \in Files, Counted(t, proc), Save(c, t), alone => Booked(t, proc)
        PROVE  Base' /\ Single'
    <2> DEFINE s == [r EXCEPT !.pc = "save", !.state = t]
    <2>1. s \in Zimrs /\ s.pc = "save" /\ s.state = t /\ s.req = r.req /\ s.old = r.old
            /\ s.pid = r.pid /\ s.list = r.list /\ s.todo = r.todo
      BY DEF Zimrs, Pcs
    <2>2. cli' = [cli EXCEPT ![c] = s] /\ proc' = proc
      BY <1>2, <1>5 DEF Save
    <2> HIDE DEF s
    <2>3. Fits(s, proc)
      BY <1>1, <1>2, <1>3, <1>5, <2>1 DEF Fits
    <2>4. alone => Holds(s, file', proc)
      BY <1>4, <1>5, <2>1 DEF Holds, Booked
    <2> QED BY <1>1, <2>1, <2>2, <2>3, <2>4, Moves
  <1>6. CASE r.req.type = "STOP"
    <2> DEFINE t == zcnf_state_set_app(r.state, r.app, 0, r.req.allow_disable)
    <2>1. r.req.allow_disable \in BOOLEAN
      BY RequestsAssumption DEF Zimrs, ApplicationRequests, StateRequests, Request
    <2>2. t \in Files /\ Counted(t, proc) /\ DOMAIN t = DOMAIN r.state \cup {r.app}
            /\ \A a \in DOMAIN r.state : a # r.app => t[a] = r.state[a]
      <3>1. proc \in Seq(Procs) /\ Counted(r.state, proc)
        BY <1>1, <1>3
      <3>2. CASE r.req.allow_disable = TRUE
        <4>1. t = zcnf_state_set_app(r.state, r.app, 0, TRUE)
          BY <3>2
        <4>2. SetIn(r.state, zcnf_state_set_app(r.state, r.app, 0, TRUE), r.app, 0, proc)
          BY <1>3, <3>1, SetDisabled
        <4> HIDE DEF t
        <4> QED BY <4>1, <4>2 DEF SetIn
      <3>3. CASE r.req.allow_disable = FALSE
        <4>1. t = zcnf_state_set_app(r.state, r.app, 0, FALSE)
          BY <3>3
        <4>2. 0 \in Nat /\ 0 <= Len(proc)
          BY <3>1
        <4>3. SetIn(r.state, zcnf_state_set_app(r.state, r.app, 0, FALSE), r.app, 0, proc)
          BY <1>3, <3>1, <4>2, SetEnabled
        <4> HIDE DEF t
        <4> QED BY <4>1, <4>3 DEF SetIn
      <3> QED BY <2>1, <3>2, <3>3
    <2>3. Save(c, t)
      BY <1>2, <1>6 DEF AfterKill
    <2> HIDE DEF t
    <2>4. alone => Booked(t, proc)
      BY <1>4, <2>2 DEF Booked, Has
    <2> QED BY <1>5, <2>2, <2>3, <2>4
  <1>7. CASE r.req.type = "REMOVE"
    <2> DEFINE t == Restrict(r.state, DOMAIN r.state \ {r.app})
    <2>1. t \in Files /\ Counted(t, proc) /\ DOMAIN t = DOMAIN r.state \ {r.app}
            /\ \A a \in DOMAIN t : t[a] = r.state[a]
      BY <1>1, <1>3, Removed
    <2>2. Save(c, t)
      BY <1>2, <1>7 DEF AfterKill
    <2> HIDE DEF t
    <2>3. alone => Booked(t, proc)
      BY <1>4, <2>1 DEF Booked, Has
    <2> QED BY <1>5, <2>1, <2>2, <2>3
  <1>8. CASE r.req.type = "RESTART"
    <2> DEFINE s == [r EXCEPT !.pc = "exec"]
    <2>1. s \in Zimrs /\ s.pc = "exec" /\ s.state = r.state /\ s.app = r.app /\ s.req = r.req
            /\ s.old = r.old /\ s.pid = r.pid /\ s.list = r.list /\ s.todo = r.todo
      BY DEF Zimrs, Pcs
    <2>2. cli' = [cli EXCEPT ![c] = s] /\ proc' = proc
      BY <1>2, <1>8 DEF AfterKill, Goto
    <2> HIDE DEF s
    <2>3. Fits(s, proc)
      BY <1>1, <1>2, <1>3, <2>1 DEF Fits
    <2>4. alone => Holds(s, file', proc)
      BY <1>4, <2>1 DEF Holds
    <2> QED BY <1>1, <2>1, <2>2, <2>3, <2>4, Moves
  <1>9. r.req.type \in {"STOP", "RESTART", "REMOVE"}
    BY <1>1, <1>2 DEF Fits, At
  <1> QED BY <1>6, <1>7, <1>8, <1>9

\* stopproc keeps the invariant, also when the process does not end in time.
LEMMA StopprocKeeps ==
  ASSUME Base, Single, NEW c \in Clis, stopproc(c)
  PROVE  Base' /\ Single'
  <1>1. At(c, "dying") /\ file' = file /\ alone' = alone
    BY DEF stopproc
  <1>2. CASE ~Alive(cli[c].old)
    BY <1>1, <1>2, AfterKillKeeps DEF stopproc
  <1>3. CASE Alive(cli[c].old)
    <2>1. /\ Busy(c) /\ (alone => Holds(cli[c], file, proc)) /\ file \in Files
             /\ Counted(file, proc)
      BY <1>1, Acting DEF Pcs
    <2>2. alone => Booked(file, proc)
      BY <1>1, <2>1 DEF Holds, At
    <2>3. Return(c)
      BY <1>3 DEF stopproc
    <2> QED BY <1>1, <2>1, <2>2, <2>3, Returns
  <1> QED BY <1>2, <1>3

----------------------------------------------------------------------------
(* Signals, and the processes of the applications. *)

\* SIGCHLD changes only what the wait of the zimr process reads.
LEMMA Signalled ==
  ASSUME NEW k \in [Clis -> Zimrs \cup {NoCli}], NEW x \in Clis, k[x] \in Zimrs
  PROVE  /\ sig_from_child(k, x) \in [Clis -> Zimrs \cup {NoCli}]
         /\ SameWork(k[x], sig_from_child(k, x)[x])
         /\ \A y \in Clis : y # x => sig_from_child(k, x)[y] = k[y]
  <1>1. PICK r \in Zimrs : r = k[x]
    OBVIOUS
  <1> DEFINE s == [r EXCEPT !.wait_for_child = FALSE]
             t == [r EXCEPT !.missed = TRUE]
  <1>2. SameWork(r, s) /\ SameWork(r, t)
    BY DEF SameWork, Zimrs
  <1>3. sig_from_child(k, x) = [k EXCEPT ![x] = s] \/ sig_from_child(k, x) = [k EXCEPT ![x] = t]
    BY <1>1 DEF sig_from_child
  <1> HIDE DEF s, t
  <1>4. s \in Zimrs /\ t \in Zimrs
    BY <1>2 DEF SameWork
  <1> QED BY <1>1, <1>2, <1>3, <1>4

\* The processes P with another state of p.
Becomes(P, p, v) == [P EXCEPT ![p].state = v]

\* A process that runs changes its state.
LEMMA ProcChanges ==
  ASSUME NEW P \in Seq(Procs), NEW p \in DOMAIN P, P[p].state \in {"starting", "running"},
         NEW v \in {"running", "zombie", "gone"}
  PROVE  LET Q == Becomes(P, p, v) IN
         /\ Q \in Seq(Procs) /\ Grows(P, Q) /\ Fewer(P, Q) /\ DOMAIN Q = DOMAIN P
         /\ \A x \in DOMAIN P : Q[x].parent = P[x].parent
  <1> DEFINE Q == Becomes(P, p, v)
  <1>1. DOMAIN P = 1 .. Len(P) /\ Len(P) \in Nat /\ \A x \in DOMAIN P : P[x] \in Procs
    OBVIOUS
  <1>2. PICK q \in Procs : q = P[p]
    BY <1>1
  <1> DEFINE u == [q EXCEPT !.state = v]
  <1>3. u \in Procs /\ u.state = v /\ u.app = q.app /\ u.parent = q.parent
    BY DEF Procs
  <1>4. Q = [P EXCEPT ![p] = u]
    BY <1>2 DEF Becomes
  <1> HIDE DEF u, Q
  <1>5. Q \in Seq(Procs) /\ DOMAIN Q = DOMAIN P /\ Len(Q) = Len(P)
    BY <1>3, <1>4
  <1>6. Q[p] = u /\ \A x \in DOMAIN P : x # p => Q[x] = P[x]
    BY <1>4
  <1>7. Grows(P, Q)
    BY <1>1, <1>2, <1>5, <1>6 DEF Grows
  <1>8. Fewer(P, Q)
    BY <1>2, <1>3, <1>5, <1>6 DEF Fewer, RunsIn
  <1> QED BY <1>2, <1>3, <1>5, <1>6, <1>7, <1>8 DEF Q

\* A step that ends or changes a process and signals its parent keeps the
\* invariant; k is what the zimr processes were before the signal.
LEMMA SignalKeeps ==
  ASSUME Base, Single, file' = file, alone' = alone, proc' \in Seq(Procs), Grows(proc, proc'),
         Fewer(proc, proc'), \A p \in DOMAIN proc : proc'[p].parent = proc[p].parent,
         NEW k \in [Clis -> Zimrs \cup {NoCli}], \A x \in Clis : k[x] \in Zimrs <=> Busy(x),
         \A x \in Clis : Busy(x) => Fits(k[x], proc) /\ (alone => Holds(k[x], file, proc)),
         cli' \in [Clis -> Zimrs \cup {NoCli}],
         \A x \in Clis : cli'[x] = k[x] \/ SameWork(k[x], cli'[x])
  PROVE  Base' /\ Single'
  <1>1. proc \in Seq(Procs) /\ file \in Files /\ Counted(file, proc)
          /\ DOMAIN proc' = DOMAIN proc
    BY DEF Base, Fewer
  <1>2. \A x \in Clis : Busy(x)' <=> Busy(x)
    <2>1. \A r \in Zimrs : r.pc # "idle"
      BY DEF Zimrs, Pcs
    <2>2. NoCli.pc = "idle"
      BY DEF NoCli
    <2> QED BY <2>1, <2>2 DEF SameWork, Busy, At
  <1>3. ASSUME NEW x \in Clis, Busy(x)' PROVE Fits(cli'[x], proc')
    <2>1. k[x] \in Zimrs /\ Fits(k[x], proc)
      BY <1>2, <1>3
    <2>2. Fits(k[x], proc')
      BY <1>1, <2>1, FitsGrows
    <2> QED BY <2>2 DEF SameWork, Fits
  <1>4. Counted(file', proc')
    BY <1>1, CountedGrows
  <1>5. Base'
    BY <1>1, <1>2, <1>3, <1>4 DEF Base
  <1>6. ASSUME NEW x \in Clis, Holds(k[x], file, proc) PROVE Holds(cli'[x], file', proc')
    BY <1>1, <1>6, HoldsFewer
  <1>7. Booked(file, proc) => Booked(file', proc')
    BY <1>1, BookedFewer
  <1>8. Single'
    BY <1>2, <1>6, <1>7 DEF Single
  <1> QED BY <1>5, <1>8

\* A parent that is told is a zimr process that runs.
LEMMA ParentFacts ==
  ASSUME Base, NEW p \in DOMAIN proc, proc[p].parent # {}
  PROVE  LET x == CHOOSE y \in proc[p].parent : TRUE IN x \in Clis /\ x \in proc[p].parent
      /\ cli[x] \in Zimrs
  <1> DEFINE x == CHOOSE y \in proc[p].parent : TRUE
  <1>1. x \in proc[p].parent
    OBVIOUS
  <1> HIDE DEF x
  <1>2. proc[p] \in Procs
    BY DEF Base
  <1>3. x \in Clis
    BY <1>1, <1>2 DEF Procs
  <1>4. cli[x] \in Zimrs
    BY <1>1, <1>3, CliFacts DEF Base
  <1> QED BY <1>1, <1>3, <1>4 DEF x

\* Background keeps the invariant.
LEMMA BackgroundKeeps ==
  ASSUME Base, Single, NEW pid \in DOMAIN proc, Background(pid)
  PROVE  Base' /\ Single'
  <1> DEFINE Q == Becomes(proc, pid, "running")
             x == CHOOSE y \in proc[pid].parent : TRUE
  <1>1. proc \in Seq(Procs) /\ cli \in [Clis -> Zimrs \cup {NoCli}] /\ proc' = Q
          /\ proc[pid].state = "starting" /\ file' = file /\ alone' = alone
    BY DEF Base, Background, Becomes
  <1>2. /\ Q \in Seq(Procs) /\ Grows(proc, Q) /\ Fewer(proc, Q) /\ DOMAIN Q = DOMAIN proc
        /\ \A p \in DOMAIN proc : Q[p].parent = proc[p].parent
    BY <1>1, ProcChanges
  <1> HIDE DEF Q
  <1>3. cli' = cli \/ (proc[pid].parent # {} /\ cli' = sig_from_child(cli, x))
    BY DEF Background
  <1>4. cli' \in [Clis -> Zimrs \cup {NoCli}] /\ \A y \in Clis : cli'[y] = cli[y]
          \/ SameWork(cli[y], cli'[y])
    <2>1. CASE cli' = cli
      BY <1>1, <2>1
    <2>2. CASE proc[pid].parent # {} /\ cli' = sig_from_child(cli, x)
      <3>1. x \in Clis /\ cli[x] \in Zimrs
        BY <2>2, ParentFacts
      <3> HIDE DEF x
      <3> QED BY <1>1, <2>2, <3>1, Signalled
    <2> QED BY <1>3, <2>1, <2>2
  <1>5. /\ \A y \in Clis : cli[y] \in Zimrs <=> Busy(y)
        /\ \A y \in Clis : Busy(y) => Fits(cli[y], proc) /\ (alone => Holds(cli[y], file, proc))
    BY CliFacts DEF Base, Single
  <1> QED BY <1>1, <1>2, <1>4, <1>5, SignalKeeps

\* Ends keeps the invariant.
LEMMA EndsKeeps ==
  ASSUME Base, Single, NEW pid \in DOMAIN proc, Ends(pid)
  PROVE  Base' /\ Single'
  <1>1. PICK v \in {"running", "zombie", "gone"} : v = IF proc[pid].parent = {} THEN "gone"
          ELSE "zombie"
    OBVIOUS
  <1> DEFINE Q == Becomes(proc, pid, v)
             x == CHOOSE y \in proc[pid].parent : TRUE
  <1>2. proc \in Seq(Procs) /\ cli \in [Clis -> Zimrs \cup {NoCli}] /\ proc' = Q
          /\ proc[pid].state \in {"starting", "running"} /\ file' = file /\ alone' = alone
    BY <1>1 DEF Base, Ends, Ended, Runs, Becomes
  <1>3. /\ Q \in Seq(Procs) /\ Grows(proc, Q) /\ Fewer(proc, Q) /\ DOMAIN Q = DOMAIN proc
        /\ \A p \in DOMAIN proc : Q[p].parent = proc[p].parent
    BY <1>2, ProcChanges
  <1> HIDE DEF Q
  <1>4. cli' = cli \/ (proc[pid].parent # {} /\ cli' = sig_from_child(cli, x))
    BY DEF Ends, Ended
  <1>5. cli' \in [Clis -> Zimrs \cup {NoCli}] /\ \A y \in Clis : cli'[y] = cli[y]
          \/ SameWork(cli[y], cli'[y])
    <2>1. CASE cli' = cli
      BY <1>2, <2>1
    <2>2. CASE proc[pid].parent # {} /\ cli' = sig_from_child(cli, x)
      <3>1. x \in Clis /\ cli[x] \in Zimrs
        BY <2>2, ParentFacts
      <3> HIDE DEF x
      <3> QED BY <1>2, <2>2, <3>1, Signalled
    <2> QED BY <1>4, <2>1, <2>2
  <1>6. /\ \A y \in Clis : cli[y] \in Zimrs <=> Busy(y)
        /\ \A y \in Clis : Busy(y) => Fits(cli[y], proc) /\ (alone => Holds(cli[y], file, proc))
    BY CliFacts DEF Base, Single
  <1> QED BY <1>2, <1>3, <1>5, <1>6, SignalKeeps

\* application_kill keeps the invariant, with SIGTERM and with SIGKILL.
LEMMA ApplicationKillKeeps ==
  ASSUME Base, Single, NEW c \in Clis, application_kill(c)
  PROVE  Base' /\ Single'
  <1>1. At(c, "kill") /\ file' = file /\ alone' = alone
    BY DEF application_kill
  <1>2. /\ Busy(c) /\ cli[c] \in Zimrs /\ Fits(cli[c], proc)
           /\ (alone => Holds(cli[c], file, proc))
        /\ file \in Files /\ Counted(file, proc) /\ proc \in Seq(Procs) /\ Len(proc) \in Nat
           /\ DOMAIN proc = 1 .. Len(proc)
    BY <1>1, Acting DEF Pcs
  <1>3. PICK r \in Zimrs : r = cli[c]
    BY <1>2
  <1> DEFINE s == [r EXCEPT !.pc = "dying"]
             pid == r.old
  <1>4. s \in Zimrs /\ s.pc = "dying" /\ s.state = r.state /\ s.app = r.app /\ s.req = r.req
          /\ s.old = r.old /\ s.pid = r.pid /\ s.list = r.list /\ s.todo = r.todo
    BY DEF Zimrs, Pcs
  <1>5. [cli EXCEPT ![c].pc = "dying"] = [cli EXCEPT ![c] = s]
    BY <1>3
  <1> HIDE DEF s
  <1>6. Fits(s, proc)
    BY <1>1, <1>2, <1>3, <1>4 DEF Fits, At
  <1>7. alone => Holds(s, file, proc)
    BY <1>1, <1>2, <1>3, <1>4 DEF Holds, At
  <1>8. CASE ~Alive(pid)
    BY <1>1, <1>3, <1>8, AfterKillKeeps DEF application_kill
  <1>9. CASE Alive(pid) /\ ~(r.req.force /\ Runs(pid))
    <2>1. cli' = [cli EXCEPT ![c] = s] /\ proc' = proc
      BY <1>3, <1>5, <1>9 DEF application_kill, Goto
    <2> QED BY <1>1, <1>2, <1>4, <1>6, <1>7, <2>1, Moves
  <1>10. CASE Alive(pid) /\ r.req.force /\ Runs(pid)
    <2>1. pid \in DOMAIN proc /\ proc[pid].state \in {"starting", "running"}
      <3>1. r.old \in Nat /\ r.old # 0 /\ r.old <= Len(proc)
        BY <1>2, <1>3, <1>10 DEF Fits, Alive, Zimrs
      <3> QED BY <1>2, <1>10, <3>1 DEF Runs
    <2>2. PICK v \in {"running", "zombie", "gone"} : v = IF proc[pid].parent = {} THEN "gone"
            ELSE "zombie"
      OBVIOUS
    <2> DEFINE Q == Becomes(proc, pid, v)
               x == CHOOSE y \in proc[pid].parent : TRUE
               k == [cli EXCEPT ![c] = s]
    <2>3. proc' = Q /\ cli' = IF proc[pid].parent = {} THEN k ELSE sig_from_child(k, x)
      BY <1>3, <1>5, <1>10, <2>2 DEF application_kill, Becomes
    <2> HIDE DEF pid
    <2>4. /\ Q \in Seq(Procs) /\ Grows(proc, Q) /\ Fewer(proc, Q) /\ DOMAIN Q = DOMAIN proc
          /\ \A p \in DOMAIN proc : Q[p].parent = proc[p].parent
      BY <1>2, <2>1, ProcChanges
    <2> HIDE DEF Q
    <2>5. cli \in [Clis -> Zimrs \cup {NoCli}]
      BY DEF Base
    <2>6. k \in [Clis -> Zimrs \cup {NoCli}] /\ k[c] = s /\ \A y \in Clis : y # c =>
            k[y] = cli[y]
      BY <1>4, <2>5
    <2> HIDE DEF k
    <2>7. cli' \in [Clis -> Zimrs \cup {NoCli}] /\ \A y \in Clis : cli'[y] = k[y]
            \/ SameWork(k[y], cli'[y])
      <3>1. CASE proc[pid].parent = {}
        BY <2>3, <2>6, <3>1
      <3>2. CASE proc[pid].parent # {}
        <4>1. x \in Clis /\ cli[x] \in Zimrs
          BY <2>1, <3>2, ParentFacts
        <4> HIDE DEF x
        <4>2. k[x] \in Zimrs
          BY <1>4, <2>6, <4>1
        <4> QED BY <2>3, <2>6, <3>2, <4>1, <4>2, Signalled
      <3> QED BY <3>1, <3>2
    <2>8. \A y \in Clis : k[y] \in Zimrs <=> Busy(y)
      BY <1>2, <1>4, <2>6, CliFacts
    <2>9. \A y \in Clis : Busy(y) => Fits(k[y], proc) /\ (alone => Holds(k[y], file, proc))
      BY <1>6, <1>7, <2>6 DEF Base, Single
    <2> QED BY <1>1, <2>3, <2>4, <2>6, <2>7, <2>8, <2>9, SignalKeeps
  <1> QED BY <1>8, <1>9, <1>10

----------------------------------------------------------------------------
(* Starting a process, and writing the state file. *)

\* Fork keeps the invariant: the new process is the only one of its
\* application, and the zimr process has its pid.
LEMMA ForkKeeps ==
  ASSUME Base, Single, NEW c \in Clis, Fork(c)
  PROVE  Base' /\ Single'
  <1>1. At(c, "exec") /\ file' = file /\ alone' = alone
    BY DEF Fork
  <1>2. /\ Busy(c) /\ cli[c] \in Zimrs /\ Fits(cli[c], proc)
           /\ (alone => Holds(cli[c], file, proc))
        /\ file \in Files /\ Counted(file, proc) /\ proc \in Seq(Procs) /\ Len(proc) \in Nat
           /\ DOMAIN proc = 1 .. Len(proc)
    BY <1>1, Acting DEF Pcs
  <1>3. PICK r \in Zimrs : r = cli[c]
    BY <1>2
  <1>4. /\ r.app \in Apps /\ r.state \in Files /\ r.old \in Nat /\ r.wait_for_child \in BOOLEAN
           /\ r.old <= Len(proc)
        /\ Counted(r.state, proc) /\ Counted(r.list, proc) /\ r.list \in Files
    BY <1>2, <1>3 DEF Zimrs, Fits
  <1>5. CASE Return(c)
    <2>1. alone => Booked(file, proc)
      BY <1>1, <1>2 DEF Holds, At
    <2> QED BY <1>1, <1>2, <1>5, <2>1, Returns
  <1>6. CASE ~Return(c)
    <2>1. PICK pid \in Nat : pid = Len(proc) + 1
      BY <1>2
    <2> DEFINE child == [app |-> r.app, state |-> "starting", parent |-> {c},
                         tells |-> r.wait_for_child]
               t == zcnf_state_set_app(r.state, r.app, pid, FALSE)
               s1 == [r EXCEPT !.pid = pid, !.missed = FALSE, !.pc = "forked"]
               s2 == [s1 EXCEPT !.pc = "save", !.state = t]
    <2>2. child \in Procs /\ child.app = r.app /\ child.parent = {c} /\ child.state = "starting"
      BY <1>4 DEF Procs
    <2>3. proc' = Append(proc, child)
      BY <1>3, <1>6, <2>1 DEF Fork
    <2> HIDE DEF child
    <2>4. /\ proc' \in Seq(Procs) /\ Len(proc') = pid /\ DOMAIN proc' = DOMAIN proc \cup {pid}
             /\ pid \notin DOMAIN proc
          /\ proc'[pid] = child /\ \A p \in DOMAIN proc : proc'[p] = proc[p]
      BY <1>2, <2>1, <2>2, <2>3
    <2>5. Grows(proc, proc')
      BY <1>2, <2>1, <2>4 DEF Grows
    <2>6. /\ \A p \in DOMAIN proc', x \in Clis : x \in proc'[p].parent => x = c \/ Busy(x)
      BY <2>2, <2>4 DEF Base
    <2>7. Counted(r.state, proc') /\ Counted(r.list, proc') /\ Counted(file', proc')
      BY <1>1, <1>2, <1>4, <2>4, <2>5, CountedGrows
    <2>8. t \in Files /\ Counted(t, proc') /\ DOMAIN t = DOMAIN r.state \cup {r.app}
            /\ t[r.app].pid = pid /\ \A a \in DOMAIN r.state : a # r.app => t[a] = r.state[a]
      <3>1. pid \in Nat /\ pid <= Len(proc')
        BY <2>1, <2>4
      <3>2. SetIn(r.state, t, r.app, pid, proc')
        BY <1>4, <2>4, <2>7, <3>1, SetEnabled
      <3> HIDE DEF t
      <3> QED BY <3>2 DEF SetIn
    <2>9. Gone(proc', r.old) \/ r.req.type \notin {"STOP", "RESTART", "REMOVE"}
      <3>1. Gone(proc, r.old) \/ r.req.type \notin {"STOP", "RESTART", "REMOVE"}
        BY <1>1, <1>2, <1>3 DEF Fits, At
      <3> QED BY <1>2, <1>4, <2>4, <3>1 DEF Gone
    <2>10. ASSUME alone
           PROVE  /\ r.state = file /\ r.app \in DOMAIN file
                  /\ \A p \in DOMAIN proc' : RunsIn(proc', p) =>
                       IF proc'[p].app = r.app THEN p = pid ELSE Has(file, proc', p)
      <3>1. r.state = file /\ r.app \in DOMAIN file /\ Booked(file, proc)
              /\ \A p \in DOMAIN proc : RunsIn(proc, p) => proc[p].app # r.app
        BY <1>1, <1>2, <1>3, <2>10 DEF Holds, At
      <3>2. \A p \in DOMAIN proc : (RunsIn(proc', p) <=> RunsIn(proc, p))
              /\ (Has(file, proc', p) <=> Has(file, proc, p))
        BY <2>4 DEF RunsIn, Has
      <3> QED BY <2>2, <2>4, <3>1, <3>2 DEF Booked
    <2>11. ASSUME NEW s \in Zimrs, cli' = [cli EXCEPT ![c] = s], Fits(s, proc'), alone =>
             Holds(s, file', proc') PROVE Base' /\ Single'
      <3>1. Base'
        BY <1>1, <1>2, <2>5, <2>6, <2>7, <2>11, MoveKeeps
      <3>2. cli \in [Clis -> Zimrs \cup {NoCli}]
        BY DEF Base
      <3>3. Single'
        BY <1>1, <1>2, <2>11, <3>2, SingleMoves
      <3> QED BY <3>1, <3>3
    <2> HIDE DEF t
    <2>12. s1 \in Zimrs /\ s1.pc = "forked" /\ s1.pid = pid /\ s1.state = r.state
             /\ s1.app = r.app /\ s1.req = r.req /\ s1.old = r.old /\ s1.list = r.list
                /\ s1.todo = r.todo
      BY DEF Zimrs, Pcs
    <2>13. [cli EXCEPT ![c].pid = pid, ![c].missed = FALSE,
            ![c].pc = "forked"] = [cli EXCEPT ![c] = s1]
      BY <1>3
    <2>14. CASE r.wait_for_child
      <3>1. cli' = [cli EXCEPT ![c] = s1]
        BY <1>3, <1>6, <2>1, <2>13, <2>14 DEF Fork
      <3> HIDE DEF s1
      <3>2. Fits(s1, proc')
        BY <1>2, <1>3, <1>4, <2>1, <2>4, <2>7, <2>9, <2>12 DEF Fits
      <3>3. alone => Holds(s1, file', proc')
        BY <1>1, <2>10, <2>12 DEF Holds
      <3> QED BY <2>11, <2>12, <3>1, <3>2, <3>3
    <2>15. CASE ~r.wait_for_child
      <3>1. cli' = [[cli EXCEPT ![c] = s1] EXCEPT ![c].pc = "save",
                    ![c].state = zcnf_state_set_app(@, r.app, pid, FALSE)]
        BY <1>3, <1>6, <2>1, <2>13, <2>15 DEF Fork
      <3> HIDE DEF s1
      <3>2. cli' = [cli EXCEPT ![c] = s2]
        <4>1. cli \in [Clis -> Zimrs \cup {NoCli}]
          BY DEF Base
        <4> QED BY <2>12, <3>1, <4>1 DEF t
      <3>3. s2 \in Zimrs /\ s2.pc = "save" /\ s2.state = t /\ s2.pid = pid /\ s2.req = r.req
              /\ s2.old = r.old /\ s2.list = r.list /\ s2.todo = r.todo
        BY <2>8, <2>12 DEF Zimrs, Pcs
      <3> HIDE DEF s2
      <3>4. Fits(s2, proc')
        BY <1>2, <1>3, <1>4, <2>1, <2>4, <2>7, <2>8, <2>9, <3>3 DEF Fits
      <3>5. alone => Booked(t, proc')
        BY <2>8, <2>10 DEF Booked, Has
      <3>6. alone => Holds(s2, file', proc')
        BY <1>1, <2>10, <3>3, <3>5 DEF Holds
      <3> QED BY <2>11, <3>2, <3>3, <3>4, <3>6
    <2> QED BY <2>14, <2>15
  <1> QED BY <1>5, <1>6

\* Install keeps the invariant.
LEMMA InstallKeeps ==
  ASSUME Base, Single, NEW c \in Clis, Install(c)
  PROVE  Base' /\ Single'
  <1>1. At(c, "forked") /\ file' = file /\ alone' = alone /\ proc' = proc
    BY DEF Install
  <1>2. /\ Busy(c) /\ cli[c] \in Zimrs /\ Fits(cli[c], proc)
           /\ (alone => Holds(cli[c], file, proc))
        /\ file \in Files /\ Counted(file, proc)
    BY <1>1, Acting DEF Pcs
  <1>3. PICK r \in Zimrs : r = cli[c]
    BY <1>2
  <1> DEFINE s == [r EXCEPT !.pc = "waiting", !.handler = TRUE]
  <1>4. s \in Zimrs /\ s.pc = "waiting" /\ s.state = r.state /\ s.app = r.app /\ s.req = r.req
          /\ s.old = r.old /\ s.pid = r.pid /\ s.list = r.list /\ s.todo = r.todo
    BY DEF Zimrs, Pcs
  <1>5. cli' = [cli EXCEPT ![c] = s]
    BY <1>3 DEF Install
  <1> HIDE DEF s
  <1>6. Fits(s, proc)
    BY <1>1, <1>2, <1>3, <1>4 DEF Fits, At
  <1>7. alone => Holds(s, file', proc)
    BY <1>1, <1>2, <1>3, <1>4 DEF Holds, At
  <1> QED BY <1>1, <1>2, <1>4, <1>5, <1>6, <1>7, Moves

\* Woken keeps the invariant: the pid of the child goes into the state.
LEMMA WokenKeeps ==
  ASSUME Base, Single, NEW c \in Clis, Woken(c)
  PROVE  Base' /\ Single'
  <1>1. At(c, "waiting") /\ file' = file /\ alone' = alone /\ proc' = proc
    BY DEF Woken
  <1>2. /\ Busy(c) /\ cli[c] \in Zimrs /\ Fits(cli[c], proc)
           /\ (alone => Holds(cli[c], file, proc))
        /\ file \in Files /\ Counted(file, proc) /\ proc \in Seq(Procs)
    BY <1>1, Acting DEF Pcs
  <1>3. PICK r \in Zimrs : r = cli[c]
    BY <1>2
  <1>4. r.state \in Files /\ r.app \in Apps /\ r.pid \in Nat /\ Counted(r.state, proc)
          /\ r.pid <= Len(proc)
    BY <1>2, <1>3 DEF Zimrs, Fits
  <1> DEFINE t == zcnf_state_set_app(r.state, r.app, r.pid, FALSE)
             s == [r EXCEPT !.pc = "save", !.wait_for_child = TRUE, !.missed = FALSE,
                   !.state = t]
  <1>5. t \in Files /\ Counted(t, proc) /\ DOMAIN t = DOMAIN r.state \cup {r.app}
          /\ t[r.app].pid = r.pid /\ \A a \in DOMAIN r.state : a # r.app => t[a] = r.state[a]
    <2>1. SetIn(r.state, t, r.app, r.pid, proc)
      BY <1>2, <1>4, SetEnabled
    <2> HIDE DEF t
    <2> QED BY <2>1 DEF SetIn
  <1>6. cli' = [cli EXCEPT ![c] = s]
    BY <1>3 DEF Woken
  <1> HIDE DEF t
  <1>7. s \in Zimrs /\ s.pc = "save" /\ s.state = t /\ s.req = r.req /\ s.old = r.old
          /\ s.pid = r.pid /\ s.list = r.list /\ s.todo = r.todo
    BY <1>5 DEF Zimrs, Pcs
  <1> HIDE DEF s
  <1>8. Fits(s, proc)
    BY <1>1, <1>2, <1>3, <1>5, <1>7 DEF Fits, At
  <1>9. ASSUME alone PROVE Holds(s, file', proc)
    <2>1. r.state = file /\ r.app \in DOMAIN file /\ \A p \in DOMAIN proc : RunsIn(proc, p) =>
            IF proc[p].app = r.app THEN p = r.pid ELSE Has(file, proc, p)
      BY <1>1, <1>2, <1>3, <1>9 DEF Holds, At
    <2>2. Booked(t, proc)
      BY <1>5, <2>1 DEF Booked, Has
    <2> QED BY <1>1, <1>7, <2>1, <2>2 DEF Holds
  <1> QED BY <1>1, <1>2, <1>6, <1>7, <1>8, <1>9, Moves

\* Truncate keeps the invariant: what was in the file is in the state to be
\* written.
LEMMA TruncateKeeps ==
  ASSUME Base, Single, NEW c \in Clis, Truncate(c)
  PROVE  Base' /\ Single'
  <1>1. At(c, "save") /\ file' = NoApps /\ alone' = alone /\ proc' = proc
    BY DEF Truncate, Goto
  <1>2. /\ Busy(c) /\ cli[c] \in Zimrs /\ Fits(cli[c], proc)
           /\ (alone => Holds(cli[c], file, proc))
    BY <1>1, Acting DEF Pcs
  <1>3. PICK r \in Zimrs : r = cli[c]
    BY <1>2
  <1> DEFINE s == [r EXCEPT !.pc = "write"]
  <1>4. s \in Zimrs /\ s.pc = "write" /\ s.state = r.state /\ s.req = r.req /\ s.old = r.old
          /\ s.pid = r.pid /\ s.list = r.list /\ s.todo = r.todo
    BY DEF Zimrs, Pcs
  <1>5. cli' = [cli EXCEPT ![c] = s]
    BY <1>3 DEF Truncate, Goto
  <1> HIDE DEF s
  <1>6. Fits(s, proc)
    BY <1>1, <1>2, <1>3, <1>4 DEF Fits, At
  <1>7. alone => Holds(s, file', proc)
    BY <1>1, <1>2, <1>3, <1>4 DEF Holds, At
  <1>8. file' \in Files /\ Counted(file', proc)
    BY <1>1, Empties
  <1> QED BY <1>1, <1>2, <1>4, <1>5, <1>6, <1>7, <1>8, Moves

\* zcnf_state_save keeps the invariant.
LEMMA StateSaveKeeps ==
  ASSUME Base, Single, NEW c \in Clis, zcnf_state_save(c)
  PROVE  Base' /\ Single'
  <1>1. At(c, "write") /\ file' = cli[c].state /\ alone' = alone /\ Return(c)
    BY DEF zcnf_state_save
  <1>2. /\ Busy(c) /\ cli[c] \in Zimrs /\ Fits(cli[c], proc)
           /\ (alone => Holds(cli[c], file, proc))
    BY <1>1, Acting DEF Pcs
  <1>3. file' \in Files /\ Counted(file', proc)
    BY <1>1, <1>2 DEF Zimrs, Fits
  <1>4. alone => Booked(file', proc)
    BY <1>1, <1>2 DEF Holds, At
  <1> QED BY <1>1, <1>2, <1>3, <1>4, Returns

\* Interrupt keeps the invariant: alone is FALSE after it.
LEMMA InterruptKeeps ==
  ASSUME Base, Single, NEW c \in Clis, Interrupt(c)
  PROVE  Base' /\ Single'
  <1>1. Busy(c) /\ ~alone' /\ Exit(c) /\ file' = file
    BY DEF Interrupt
  <1>2. file \in Files /\ Counted(file, proc)
    BY DEF Base
  <1> QED BY <1>1, <1>2, ExitKeeps

----------------------------------------------------------------------------
(* The theorems. *)

\* The invariant holds before the first command.
LEMMA InitIInv == Init => IInv
  <1> SUFFICES ASSUME Init PROVE IInv
    OBVIOUS
  <1>1. file = NoApps /\ proc = <<>> /\ DOMAIN proc = {} /\ cli = [c \in Clis |-> NoCli]
    BY DEF Init
  <1>2. \A c \in Clis : ~Busy(c)
    BY <1>1 DEF Busy, At, NoCli
  <1>3. Base
    BY <1>1, <1>2, Empties DEF Base
  <1>4. Single
    BY <1>1, <1>2 DEF Single, Booked
  <1> QED BY <1>3, <1>4 DEF IInv

\* Every step keeps the invariant.
LEMMA NextIInv == IInv /\ [Next]_vars => IInv'
  <1> SUFFICES ASSUME Base, Single, [Next]_vars PROVE Base' /\ Single'
    BY DEF IInv
  <1>1. CASE UNCHANGED vars
    <2>1. file' = file /\ proc' = proc /\ cli' = cli /\ alone' = alone
      BY <1>1 DEF vars
    <2>2. Base'
      BY <2>1 DEF Base, Busy, At
    <2>3. Single'
      BY <2>1 DEF Single, Busy, At
    <2> QED BY <2>2, <2>3
  <1>2. ASSUME NEW c \in Clis, Step(c) PROVE Base' /\ Single'
    BY <1>2, StateFunctionKeeps, ApplicationFunctionKeeps, ApplicationKillKeeps, StopprocKeeps,
       ForkKeeps, InstallKeeps, WokenKeeps, TruncateKeeps, StateSaveKeeps DEF Step
  <1>3. ASSUME NEW c \in Clis, NEW req \in Requests, CommandAll(c, req) PROVE Base' /\ Single'
    BY <1>3, CommandAllKeeps
  <1>4. ASSUME NEW c \in Clis, NEW req \in Requests, NEW a \in Apps, Command(c, req, a)
          PROVE Base' /\ Single'
    BY <1>4, CommandKeeps
  <1>5. ASSUME NEW c \in Clis, Interrupt(c) PROVE Base' /\ Single'
    BY <1>5, InterruptKeeps
  <1>6. ASSUME NEW pid \in DOMAIN proc, Background(pid) \/ Ends(pid) PROVE Base' /\ Single'
    BY <1>6, BackgroundKeeps, EndsKeeps
  <1> QED BY <1>1, <1>2, <1>3, <1>4, <1>5, <1>6 DEF Next

\* Fits says more than StoppedFirst.
LEMMA IsStoppedFirst == IInv => StoppedFirst
  BY DEF IInv, Base, StoppedFirst, Fits, Gone, Alive

\* Holds says more than OneProcess.
LEMMA IsOneProcess == IInv => OneProcess
  <1> SUFFICES ASSUME Base, Single, alone PROVE \A p \in DOMAIN proc : Runs(p) =>
                     /\ Recorded(p)
                     /\ \A q \in DOMAIN proc : Runs(q) /\ proc[q].app = proc[p].app => q = p
    BY DEF IInv, OneProcess
  <1>1. \A p \in DOMAIN proc : Runs(p) <=> RunsIn(proc, p)
    BY DEF Runs, RunsIn
  <1>2. CASE \A c \in Clis : ~Busy(c)
    BY <1>1, <1>2 DEF Single, Booked, Has, Recorded
  <1>3. ASSUME NEW c \in Clis, Busy(c)
        PROVE  \A p \in DOMAIN proc : Runs(p) =>
                     /\ Recorded(p)
                     /\ \A q \in DOMAIN proc : Runs(q) /\ proc[q].app = proc[p].app => q = p
    <2>1. Holds(cli[c], file, proc) /\ cli[c].pc \in Pcs
      BY <1>3, CliFacts DEF Single, Zimrs
    <2>2. CASE cli[c].pc \in {"next", "load", "kill", "dying", "exec"}
      BY <1>1, <2>1, <2>2 DEF Holds, Booked, Has, Recorded
    <2>3. CASE cli[c].pc \in {"forked", "waiting"}
      <3>1. \A p \in DOMAIN proc : RunsIn(proc, p) =>
              IF proc[p].app = cli[c].app THEN p = cli[c].pid ELSE Has(file, proc, p)
        BY <2>1, <2>3 DEF Holds
      <3> QED BY <1>1, <1>3, <3>1 DEF Has, Recorded
    <2>4. CASE cli[c].pc = "save"
      <3>1. Booked(cli[c].state, proc) /\ \A p \in DOMAIN proc : RunsIn(proc, p) =>
              p = cli[c].pid \/ Has(file, proc, p)
        BY <2>1, <2>4 DEF Holds
      <3> QED BY <1>1, <1>3, <3>1 DEF Booked, Has, Recorded
    <2>5. CASE cli[c].pc = "write"
      <3>1. Booked(cli[c].state, proc)
        BY <2>1, <2>5 DEF Holds
      <3> QED BY <1>1, <1>3, <2>5, <3>1 DEF Booked, Has, Recorded, At
    <2> QED BY <2>1, <2>2, <2>3, <2>4, <2>5 DEF Pcs
  <1> QED BY <1>2, <1>3

\* The invariant holds of every state the commands reach.
THEOREM CommandsInvariant == Spec => []IInv
  BY InitIInv, NextIInv, PTL DEF Spec

\* For any number of terminals, with their commands in any order: a stop,
\* restart or remove that goes on after application_kill finds the process
\* gone, and it stays gone.
THEOREM StopsFirst == Spec => []StoppedFirst
  BY CommandsInvariant, IsStoppedFirst, PTL

\* For any number of applications: while the commands run one after the
\* other, an application has at most one process, and zimr knows of it.
THEOREM RunsOnce == Spec => []OneProcess
  BY CommandsInvariant, IsOneProcess, PTL
=============================================================================
