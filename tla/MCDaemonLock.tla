---------------------------- MODULE MCDaemonLock ----------------------------
(* The zimrd processes are told apart by nothing but what they do. *)
EXTENDS DaemonLock, TLC

MCSymmetry == Permutations(Pids)
=============================================================================
