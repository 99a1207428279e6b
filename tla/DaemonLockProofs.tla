-------------------------- MODULE DaemonLockProofs --------------------------
(***************************************************************************)
(* LockSound and RestartAfterStop of DaemonLock, for any number of zimrd   *)
(* processes and any options.                                              *)
(***************************************************************************)
EXTENDS DaemonLock, TLAPS

\* The stages at which a zimrd process has the port, and those at which the
\* lock file may have its id.
Holding == {"detach", "creat", "write", "serve", "remove", "exit"}
Late == {"serve", "remove", "exit", "ended"}
Stages == {"new", "stop", "stopping", "killing", "init", "listen", "ended"} \cup Holding

\* One zimrd process per id.
ProcType ==
  proc \in [Pids -> [pc: Stages, cmd: {"start", "stop", "restart"}, opts: SUBSET OptionNames,
                     target: Pids \cup {NoPid, Other}]]

\* A process that is past listen and has not ended has the port.
PortHeld == \A p \in Pids : proc[p].pc \in Holding => port = p

\* The lock file and the target of a stop name processes that once served.
NamesServed ==
  /\ lockfile \in Pids \cup {NoFile, Empty}
  /\ lockfile \in Pids => proc[lockfile].pc \in Late
  /\ \A p \in Pids : proc[p].target \in Pids => proc[proc[p].target].pc \in Late

\* A zimrd that waits for a process has one to wait for.
WaitsForOne == \A p \in Pids : proc[p].pc \in {"stopping", "killing"} => proc[p].target # NoPid

\* The invariant that each step keeps.  LockSound needs PortHeld: the port
\* decides who may write or remove the lock file.  RestartAfterStop needs
\* NamesServed: what is found gone does not come back.
IInv == ProcType /\ PortHeld /\ LockSound /\ NamesServed /\ WaitsForOne /\ RestartAfterStop

\* The zimrd that have not been started satisfy the invariant.
LEMMA InitIInv == Init => IInv
  <1> SUFFICES ASSUME Init PROVE IInv
    OBVIOUS
  <1> USE DEF Init, NewProc, At
  <1>1. ProcType
    BY DEF ProcType, Stages, Holding, OptionNames
  <1>2. PortHeld
    BY DEF PortHeld, Holding
  <1>3. LockSound
    BY DEF LockSound
  <1>4. NamesServed
    BY PidsAssumption DEF NamesServed, NoFile, NoPid, Late
  <1>5. WaitsForOne
    BY DEF WaitsForOne
  <1>6. RestartAfterStop
    BY DEF RestartAfterStop
  <1> QED
    BY <1>1, <1>2, <1>3, <1>4, <1>5, <1>6 DEF IInv

\* Each step of a zimrd process keeps the invariant.
LEMMA NextIInv == IInv /\ [Next]_vars => IInv'
  <1> SUFFICES ASSUME IInv, [Next]_vars PROVE IInv'
    OBVIOUS
  <1> USE PidsAssumption, OptionsAssumption DEF IInv, At
  <1>1. ASSUME NEW p \in Pids, NEW cmd \in {"start", "stop", "restart"}, NEW opts \in Options, main(p, cmd, opts)
        PROVE  IInv'
    <2>1. ProcType'
      BY <1>1 DEF main, NewProc, ProcType, Stages, Holding, OptionNames
    <2>2. PortHeld'
      BY <1>1 DEF main, NewProc, ProcType, PortHeld, Holding
    <2>3. LockSound'
      BY <1>1 DEF main, NewProc, ProcType, PortHeld, Holding, LockSound, Locks, Daemonizes
    <2>4. NamesServed'
      BY <1>1 DEF main, NewProc, ProcType, NamesServed, Late, Runs
    <2>5. WaitsForOne'
      BY <1>1 DEF main, NewProc, ProcType, WaitsForOne
    <2>6. RestartAfterStop'
      BY <1>1 DEF main, NewProc, ProcType, RestartAfterStop, NamesServed, WaitsForOne, Late, Runs
    <2> QED
      BY <2>1, <2>2, <2>3, <2>4, <2>5, <2>6
  <1>2. ASSUME NEW p \in Pids, daemon_stop(p)
        PROVE  IInv'
    <2>1. ProcType'
      BY <1>2 DEF daemon_stop, readlockfile, ProcType, Stages, Holding, OptionNames
    <2>2. PortHeld'
      BY <1>2 DEF daemon_stop, readlockfile, ProcType, PortHeld, Holding
    <2>3. LockSound'
      BY <1>2 DEF daemon_stop, readlockfile, ProcType, PortHeld, Holding, LockSound, Locks, Daemonizes
    <2>4. NamesServed'
      BY <1>2 DEF daemon_stop, readlockfile, ProcType, NamesServed, Late, Runs
    <2>5. WaitsForOne'
      BY <1>2 DEF daemon_stop, readlockfile, ProcType, WaitsForOne
    <2>6. RestartAfterStop'
      BY <1>2 DEF daemon_stop, readlockfile, ProcType, RestartAfterStop, NamesServed, WaitsForOne, Late, Runs
    <2> QED
      BY <2>1, <2>2, <2>3, <2>4, <2>5, <2>6
  <1>3. ASSUME NEW p \in Pids, stopproc(p)
        PROVE  IInv'
    <2>1. ProcType'
      BY <1>3 DEF stopproc, Stopped, MayRun, Goto, ProcType, Stages, Holding, OptionNames
    <2>2. PortHeld'
      BY <1>3 DEF stopproc, Stopped, MayRun, Goto, ProcType, PortHeld, Holding
    <2>3. LockSound'
      BY <1>3 DEF stopproc, Stopped, MayRun, Goto, ProcType, PortHeld, Holding, LockSound, Locks, Daemonizes
    <2>4. NamesServed'
      BY <1>3 DEF stopproc, Stopped, MayRun, Goto, ProcType, NamesServed, Late, Runs
    <2>5. WaitsForOne'
      BY <1>3 DEF stopproc, Stopped, MayRun, Goto, ProcType, WaitsForOne
    <2>6. RestartAfterStop'
      <3>1. PICK runs \in MayRun(proc[p].target) :
              IF ~runs THEN Stopped(p)
              ELSE Goto(p, IF "force" \in proc[p].opts THEN "killing" ELSE "ended")
        BY <1>3 DEF stopproc
      <3>2. CASE runs
        BY <1>3, <3>1, <3>2 DEF stopproc, Goto, ProcType, RestartAfterStop, NamesServed, Late, Runs
      <3>3. CASE ~runs
        <4>1. proc[p].target \in Pids => ~Runs(proc[p].target)
          BY <3>3 DEF MayRun
        <4>2. proc[p].target \in Pids => proc[proc[p].target].pc = "ended"
          BY <4>1 DEF Runs, NamesServed, Late
        <4> QED
          BY <1>3, <3>1, <3>3, <4>2 DEF stopproc, Stopped, Goto, ProcType, RestartAfterStop, NamesServed, Late, Runs
      <3> QED
        BY <3>2, <3>3 DEF MayRun
    <2> QED
      BY <2>1, <2>2, <2>3, <2>4, <2>5, <2>6
  <1>4. ASSUME NEW p \in Pids, killproc(p)
        PROVE  IInv'
    <2>1. ProcType'
      BY <1>4 DEF killproc, Kill, Stopped, Goto, ProcType, Stages, Holding, OptionNames
    <2>2. PortHeld'
      BY <1>4 DEF killproc, Kill, Stopped, Goto, ProcType, PortHeld, Holding
    <2>3. LockSound'
      BY <1>4 DEF killproc, Kill, Stopped, Goto, ProcType, PortHeld, Holding, LockSound, Locks, Daemonizes
    <2>4. NamesServed'
      BY <1>4 DEF killproc, Kill, Stopped, Goto, ProcType, NamesServed, Late, Runs
    <2>5. WaitsForOne'
      BY <1>4 DEF killproc, Kill, Stopped, Goto, ProcType, WaitsForOne
    <2>6. RestartAfterStop'
      BY <1>4 DEF killproc, Kill, Stopped, Goto, ProcType, RestartAfterStop, NamesServed, WaitsForOne, Late, Runs
    <2> QED
      BY <2>1, <2>2, <2>3, <2>4, <2>5, <2>6
  <1>5. ASSUME NEW p \in Pids, daemon_init(p)
        PROVE  IInv'
    <2>1. ProcType'
      BY <1>5 DEF daemon_init, Goto, ProcType, Stages, Holding, OptionNames
    <2>2. PortHeld'
      BY <1>5 DEF daemon_init, Goto, ProcType, PortHeld, Holding
    <2>3. LockSound'
      BY <1>5 DEF daemon_init, Goto, ProcType, PortHeld, Holding, LockSound, Locks, Daemonizes
    <2>4. NamesServed'
      BY <1>5 DEF daemon_init, Goto, ProcType, NamesServed, Late, Runs
    <2>5. WaitsForOne'
      BY <1>5 DEF daemon_init, Goto, ProcType, WaitsForOne
    <2>6. RestartAfterStop'
      BY <1>5 DEF daemon_init, Goto, ProcType, RestartAfterStop, NamesServed, WaitsForOne, Late, Runs
    <2> QED
      BY <2>1, <2>2, <2>3, <2>4, <2>5, <2>6
  <1>6. ASSUME NEW p \in Pids, listen(p)
        PROVE  IInv'
    <2>1. ProcType'
      BY <1>6 DEF listen, Goto, ProcType, Stages, Holding, OptionNames
    <2>2. PortHeld'
      BY <1>6 DEF listen, Goto, ProcType, PortHeld, Holding
    <2>3. LockSound'
      BY <1>6 DEF listen, Goto, ProcType, PortHeld, Holding, LockSound, Locks, Daemonizes
    <2>4. NamesServed'
      BY <1>6 DEF listen, Goto, ProcType, NamesServed, Late, Runs
    <2>5. WaitsForOne'
      BY <1>6 DEF listen, Goto, ProcType, WaitsForOne
    <2>6. RestartAfterStop'
      BY <1>6 DEF listen, Goto, ProcType, RestartAfterStop, NamesServed, WaitsForOne, Late, Runs
    <2> QED
      BY <2>1, <2>2, <2>3, <2>4, <2>5, <2>6
  <1>7. ASSUME NEW p \in Pids, daemon_detach(p)
        PROVE  IInv'
    <2>1. ProcType'
      BY <1>7 DEF daemon_detach, Goto, ProcType, Stages, Holding, OptionNames
    <2>2. PortHeld'
      BY <1>7 DEF daemon_detach, Goto, ProcType, PortHeld, Holding
    <2>3. LockSound'
      BY <1>7 DEF daemon_detach, Goto, ProcType, PortHeld, Holding, LockSound, Locks, Daemonizes
    <2>4. NamesServed'
      BY <1>7 DEF daemon_detach, Goto, ProcType, NamesServed, Late, Runs
    <2>5. WaitsForOne'
      BY <1>7 DEF daemon_detach, Goto, ProcType, WaitsForOne
    <2>6. RestartAfterStop'
      BY <1>7 DEF daemon_detach, Goto, ProcType, RestartAfterStop, NamesServed, WaitsForOne, Late, Runs
    <2> QED
      BY <2>1, <2>2, <2>3, <2>4, <2>5, <2>6
  <1>8. ASSUME NEW p \in Pids, creat(p)
        PROVE  IInv'
    <2>1. ProcType'
      BY <1>8 DEF creat, Goto, ProcType, Stages, Holding, OptionNames
    <2>2. PortHeld'
      BY <1>8 DEF creat, Goto, ProcType, PortHeld, Holding
    <2>3. LockSound'
      BY <1>8 DEF creat, Goto, ProcType, PortHeld, Holding, LockSound, Locks, Daemonizes
    <2>4. NamesServed'
      BY <1>8 DEF creat, Goto, ProcType, NamesServed, Late, Runs
    <2>5. WaitsForOne'
      BY <1>8 DEF creat, Goto, ProcType, WaitsForOne
    <2>6. RestartAfterStop'
      BY <1>8 DEF creat, Goto, ProcType, RestartAfterStop, NamesServed, WaitsForOne, Late, Runs
    <2> QED
      BY <2>1, <2>2, <2>3, <2>4, <2>5, <2>6
  <1>9. ASSUME NEW p \in Pids, createlockfile(p)
        PROVE  IInv'
    <2>1. ProcType'
      BY <1>9 DEF createlockfile, Goto, ProcType, Stages, Holding, OptionNames
    <2>2. PortHeld'
      BY <1>9 DEF createlockfile, Goto, ProcType, PortHeld, Holding
    <2>3. LockSound'
      BY <1>9 DEF createlockfile, Goto, ProcType, PortHeld, Holding, LockSound, Locks, Daemonizes
    <2>4. NamesServed'
      BY <1>9 DEF createlockfile, Goto, ProcType, NamesServed, Late, Runs
    <2>5. WaitsForOne'
      BY <1>9 DEF createlockfile, Goto, ProcType, WaitsForOne
    <2>6. RestartAfterStop'
      BY <1>9 DEF createlockfile, Goto, ProcType, RestartAfterStop, NamesServed, WaitsForOne, Late, Runs
    <2> QED
      BY <2>1, <2>2, <2>3, <2>4, <2>5, <2>6
  <1>10. ASSUME NEW p \in Pids, Quit(p)
        PROVE  IInv'
    <2>1. ProcType'
      BY <1>10 DEF Quit, Goto, ProcType, Stages, Holding, OptionNames
    <2>2. PortHeld'
      BY <1>10 DEF Quit, Goto, ProcType, PortHeld, Holding
    <2>3. LockSound'
      BY <1>10 DEF Quit, Goto, ProcType, PortHeld, Holding, LockSound, Locks, Daemonizes
    <2>4. NamesServed'
      BY <1>10 DEF Quit, Goto, ProcType, NamesServed, Late, Runs
    <2>5. WaitsForOne'
      BY <1>10 DEF Quit, Goto, ProcType, WaitsForOne
    <2>6. RestartAfterStop'
      BY <1>10 DEF Quit, Goto, ProcType, RestartAfterStop, NamesServed, WaitsForOne, Late, Runs
    <2> QED
      BY <2>1, <2>2, <2>3, <2>4, <2>5, <2>6
  <1>11. ASSUME NEW p \in Pids, removelockfile(p)
        PROVE  IInv'
    <2>1. ProcType'
      BY <1>11 DEF removelockfile, Goto, ProcType, Stages, Holding, OptionNames
    <2>2. PortHeld'
      BY <1>11 DEF removelockfile, Goto, ProcType, PortHeld, Holding
    <2>3. LockSound'
      BY <1>11 DEF removelockfile, Goto, ProcType, PortHeld, Holding, LockSound, Locks, Daemonizes
    <2>4. NamesServed'
      BY <1>11 DEF removelockfile, Goto, ProcType, NamesServed, Late, Runs
    <2>5. WaitsForOne'
      BY <1>11 DEF removelockfile, Goto, ProcType, WaitsForOne
    <2>6. RestartAfterStop'
      BY <1>11 DEF removelockfile, Goto, ProcType, RestartAfterStop, NamesServed, WaitsForOne, Late, Runs
    <2> QED
      BY <2>1, <2>2, <2>3, <2>4, <2>5, <2>6
  <1>12. ASSUME NEW p \in Pids, Exit(p)
        PROVE  IInv'
    <2>1. ProcType'
      BY <1>12 DEF Exit, Kill, ProcType, Stages, Holding, OptionNames
    <2>2. PortHeld'
      BY <1>12 DEF Exit, Kill, ProcType, PortHeld, Holding
    <2>3. LockSound'
      BY <1>12 DEF Exit, Kill, ProcType, PortHeld, Holding, LockSound, Locks, Daemonizes
    <2>4. NamesServed'
      BY <1>12 DEF Exit, Kill, ProcType, NamesServed, Late, Runs
    <2>5. WaitsForOne'
      BY <1>12 DEF Exit, Kill, ProcType, WaitsForOne
    <2>6. RestartAfterStop'
      BY <1>12 DEF Exit, Kill, ProcType, RestartAfterStop, NamesServed, WaitsForOne, Late, Runs
    <2> QED
      BY <2>1, <2>2, <2>3, <2>4, <2>5, <2>6
  <1>13. ASSUME NEW p \in Pids, Crash(p)
        PROVE  IInv'
    <2>1. ProcType'
      BY <1>13 DEF Crash, Kill, ProcType, Stages, Holding, OptionNames
    <2>2. PortHeld'
      BY <1>13 DEF Crash, Kill, ProcType, PortHeld, Holding
    <2>3. LockSound'
      BY <1>13 DEF Crash, Kill, ProcType, PortHeld, Holding, LockSound, Locks, Daemonizes
    <2>4. NamesServed'
      BY <1>13 DEF Crash, Kill, ProcType, NamesServed, Late, Runs
    <2>5. WaitsForOne'
      BY <1>13 DEF Crash, Kill, ProcType, WaitsForOne
    <2>6. RestartAfterStop'
      BY <1>13 DEF Crash, Kill, ProcType, RestartAfterStop, NamesServed, WaitsForOne, Late, Runs
    <2> QED
      BY <2>1, <2>2, <2>3, <2>4, <2>5, <2>6
  <1>14. CASE UNCHANGED vars
    BY <1>14 DEF vars, ProcType, PortHeld, LockSound, NamesServed, WaitsForOne, RestartAfterStop, Runs, Locks, Daemonizes
  <1> QED
    BY <1>1, <1>2, <1>3, <1>4, <1>5, <1>6, <1>7, <1>8, <1>9, <1>10, <1>11, <1>12, <1>13, <1>14 DEF Next

\* A serving daemon's lock file has its id, and nobody but the daemon removes it
\* (createlockfile and removelockfile of daemon.c, under the port of main).
THEOREM LockSoundCorrect == Spec => []LockSound
  <1>1. IInv => LockSound
    BY DEF IInv
  <1> QED
    BY InitIInv, NextIInv, <1>1, PTL DEF Spec

\* A restart starts the new daemon when the one it found is gone (daemon_stop
\* with stopproc and killproc, before main goes on).
THEOREM RestartAfterStopCorrect == Spec => []RestartAfterStop
  <1>1. IInv => RestartAfterStop
    BY DEF IInv
  <1> QED
    BY InitIInv, NextIInv, <1>1, PTL DEF Spec
=============================================================================
