---------------------------- MODULE FdListPass ----------------------------
(***************************************************************************)
(* Abstract specification of an fd_hash_t and of the loop every user of it *)
(* runs over it: a pass starts at the head and follows the list while the  *)
(* handlers the pass calls add and remove descriptors, the current one     *)
(* included.                                                               *)
(***************************************************************************)
EXTENDS FdLists

CONSTANT Fds

VARIABLES
  list,   \* the descriptors, in order of insertion
  cur,    \* the loop variable of the pass; NoFd when no pass is running
  owed,   \* listed since the pass began and not visited by it yet
  cut     \* the pass lost its place: its current descriptor was removed

vars == <<list, cur, owed, cut>>

Init ==
  /\ list = << >>
  /\ cur = NoFd
  /\ owed = {}
  /\ cut = FALSE

Add(fd) ==
  /\ list' = ListAdd(list, fd)
  /\ UNCHANGED <<cur, owed, cut>>

Remove(fd) ==
  /\ list' = ListRemove(list, fd)
  /\ owed' = owed \ {fd}
  /\ cut' = (cut \/ (fd = cur))
  /\ UNCHANGED cur

StartPass ==
  /\ cur = NoFd
  /\ cur' = ListHead(list)
  /\ owed' = Elems(list) \ {cur'}
  /\ cut' = FALSE
  /\ UNCHANGED list

StepPass ==
  /\ cur # NoFd
  /\ cur' = ListNext(list, cur)
  /\ owed' = owed \ {cur'}
  /\ UNCHANGED <<list, cut>>

Next ==
  \/ \E fd \in Fds : Add(fd) \/ Remove(fd)
  \/ StartPass
  \/ StepPass

Spec == Init /\ [][Next]_vars
=============================================================================
