------------------------------ MODULE FdHash ------------------------------
(***************************************************************************)
(* fd_hash.c: an intrusive doubly linked list threaded through a table     *)
(* indexed by descriptor.  A pointer into the table is the index of the    *)
(* entry it points to, NULL is NoFd.  Membership is not stored: an entry   *)
(* is "in the list" when it has a neighbour or is the head.                *)
(*                                                                         *)
(* cur is the loop variable of the passes that zfd_select, zs_select and   *)
(* msg_switch_select run: between two steps of a pass the handlers it      *)
(* calls may add or remove any descriptor.                                 *)
(***************************************************************************)
EXTENDS FdLists

CONSTANT Fds      \* the indices of the table, 0 .. FD_SETSIZE - 1

ASSUME FdsAssumption == Fds \subseteq Nat

VARIABLES
  prev, next,     \* hash->table[fd].previous and .next
  head, tail,     \* hash->head, hash->tail
  cur,            \* the loop variable of a running pass
  order,          \* history: the descriptors added and not removed, in order
  owed,           \* history: what the running pass has still to visit
  cut             \* history: the running pass had its current entry removed

hash == <<prev, next, head, tail>>
vars == <<prev, next, head, tail, cur, order, owed, cut>>

Pointer == Fds \cup {NoFd}

\* fd_hash_init: the memset leaves every pointer NULL.
Init ==
  /\ prev = [fd \in Fds |-> NoFd]
  /\ next = [fd \in Fds |-> NoFd]
  /\ head = NoFd
  /\ tail = NoFd
  /\ cur = NoFd
  /\ order = << >>
  /\ owed = {}
  /\ cut = FALSE

\* Mutant: the only element of a list has no neighbours.
InListByNeighbours(fd) == next[fd] # NoFd \/ prev[fd] # NoFd

\* The test both operations begin with.
InList(fd) == next[fd] # NoFd \/ prev[fd] # NoFd \/ fd = head

LinkAtTail(fd) ==
  /\ prev' = [prev EXCEPT ![fd] = IF tail # NoFd THEN tail ELSE @]
  /\ next' = IF tail # NoFd THEN [next EXCEPT ![tail] = fd] ELSE next
  /\ tail' = fd
  /\ head' = IF head = NoFd THEN fd ELSE head

fd_hash_add(fd) ==
  /\ IF InList(fd) THEN UNCHANGED hash ELSE LinkAtTail(fd)
  /\ order' = ListAdd(order, fd)
  /\ UNCHANGED <<cur, owed, cut>>

\* Mutant: the predecessor is not linked to the successor.
UnlinkTruncating(fd) ==
  LET p == prev[fd]
      n == next[fd]
  IN  /\ next' = [x \in Fds |-> IF x \in {fd, p} THEN NoFd ELSE next[x]]
      /\ prev' = [x \in Fds |-> IF x = fd THEN NoFd ELSE IF x = n THEN p ELSE prev[x]]
      /\ head' = IF fd = head THEN n ELSE head
      /\ tail' = IF fd = tail THEN p ELSE tail

\* Mutant: the removed entry keeps its forward pointer.
UnlinkKeepingNext(fd) ==
  LET p == prev[fd]
      n == next[fd]
  IN  /\ next' = [x \in Fds |-> IF x = p THEN n ELSE next[x]]
      /\ prev' = [x \in Fds |-> IF x = fd THEN NoFd ELSE IF x = n THEN p ELSE prev[x]]
      /\ head' = IF fd = head THEN n ELSE head
      /\ tail' = IF fd = tail THEN p ELSE tail

Unlink(fd) ==
  LET p == prev[fd]
      n == next[fd]
  IN  /\ next' = [x \in Fds |-> IF x = fd THEN NoFd ELSE IF x = p THEN n ELSE next[x]]
      /\ prev' = [x \in Fds |-> IF x = fd THEN NoFd ELSE IF x = n THEN p ELSE prev[x]]
      /\ head' = IF fd = head THEN n ELSE head
      /\ tail' = IF fd = tail THEN p ELSE tail

fd_hash_remove(fd) ==
  /\ IF InList(fd) THEN Unlink(fd) ELSE UNCHANGED hash
  /\ order' = ListRemove(order, fd)
  /\ owed' = owed \ {fd}
  /\ cut' = (cut \/ (fd = cur))
  /\ UNCHANGED cur

\* Mutant: the distance to the entry after the head.
fd_hash_head_off_by_one == IF head = NoFd THEN NoFd ELSE head + 1

fd_hash_head == head
fd_hash_next(fd) == next[fd]

StartPass ==
  /\ cur = NoFd
  /\ cur' = fd_hash_head
  /\ owed' = Elems(order) \ {cur'}
  /\ cut' = FALSE
  /\ UNCHANGED <<hash, order>>

StepPass ==
  /\ cur # NoFd
  /\ cur' = fd_hash_next(cur)
  /\ owed' = owed \ {cur'}
  /\ UNCHANGED <<hash, order, cut>>

Next ==
  \/ \E fd \in Fds : fd_hash_add(fd) \/ fd_hash_remove(fd)
  \/ StartPass
  \/ StepPass

Spec == Init /\ [][Next]_vars
----------------------------------------------------------------------------
\* Every pointer of the table, and the loop variable, is NULL or points into
\* the table.
TypeOK ==
  /\ prev \in [Fds -> Pointer]
  /\ next \in [Fds -> Pointer]
  /\ head \in Pointer
  /\ tail \in Pointer
  /\ cur \in Pointer
  /\ order \in Seq(Fds)
  /\ owed \subseteq Fds
  /\ cut \in BOOLEAN

\* The list has no duplicates.
Distinct == \A i, j \in 1 .. Len(order) : order[i] = order[j] => i = j

\* The pointers left by any sequence of fd_hash_add and fd_hash_remove link
\* exactly the descriptors added and not removed, forwards and backwards, in
\* the order of insertion; entries outside the list have no pointers left, so
\* that the emptiness test of both operations recognises them.
Linked ==
  /\ Distinct
  /\ head = ListHead(order)
  /\ tail = IF Len(order) = 0 THEN NoFd ELSE order[Len(order)]
  /\ \A i \in 1 .. Len(order) :
       /\ next[order[i]] = IF i = Len(order) THEN NoFd ELSE order[i + 1]
       /\ prev[order[i]] = IF i = 1 THEN NoFd ELSE order[i - 1]
  /\ \A fd \in Fds \ Elems(order) : next[fd] = NoFd /\ prev[fd] = NoFd

\* A running pass that never had its current descriptor removed has it in the
\* list, and what the pass still owes a visit is further down the list.
OwedAhead ==
  ~cut => \/ cur = NoFd /\ owed = {}
          \/ \E k \in 1 .. Len(order) :
                /\ order[k] = cur
                /\ owed \subseteq {order[i] : i \in (k + 1) .. Len(order)}

\* A pass that never had its current descriptor removed by a handler ends
\* having visited every descriptor that was listed when it began and stayed
\* listed: removals and additions elsewhere in the list hide nothing from it.
PassComplete == cur = NoFd /\ ~cut => owed = {}

\* The linked list implements the list of FdLists, and its passes the passes
\* over that list.
Abstract == INSTANCE FdListPass WITH list <- order
Refinement == Abstract!Spec
=============================================================================
