------------------------------ MODULE Simclist ------------------------------
(***************************************************************************)
(* simclist.c, as far as zimr uses it: the doubly linked list with two     *)
(* sentinels, a pointer to its middle element and a stack of spare         *)
(* entries.  list_findpos starts from the sentinel or the middle element,  *)
(* whichever is near, so every insertion and removal has to move mid.      *)
(* zimr never starts an iterator nor lets the list copy its elements:      *)
(* iter_active and copy_data are always 0.                                 *)
(***************************************************************************)
EXTENDS Naturals, Integers, Sequences, FiniteSets

CONSTANTS
  MaxEntries,                \* bound: the entries one list can have
  SIMCLIST_MAX_SPARE_ELEMS   \* the spare entries a list keeps

ASSUME EntriesAssumption == MaxEntries \in Nat /\ SIMCLIST_MAX_SPARE_ELEMS \in Nat

NULL == -1
Head_sentinel == 0
Tail_sentinel == MaxEntries + 1
Entries == 1..MaxEntries
Nodes == {NULL, Head_sentinel, Tail_sentinel} \cup Entries

\* The memory of the entries is part of the list: heap is what is not malloc()ed.
list_init ==
  [numels |-> 0, mid |-> NULL, spareels |-> <<>>, heap |-> Entries,
   next |-> [[n \in Nodes |-> NULL] EXCEPT ![Head_sentinel] = Tail_sentinel],
   prev |-> [[n \in Nodes |-> NULL] EXCEPT ![Tail_sentinel] = Head_sentinel],
   data |-> [n \in Nodes |-> NULL]]

list_size(l) == l.numels

\* k links on from an entry.
Walk(link, from, k) ==
  LET at[i \in 0..k] == IF i = 0 THEN from ELSE link[at[i - 1]]
  IN  at[k]

\* x = ( pos + 1 ) / numels; in an empty list it is not a number or infinite and
\* the walk starts from the tail.
list_findpos(l, pos) ==
  LET n == l.numels
      middle == (n - 1) \div 2
  IN  IF pos < -1 \/ pos > n THEN NULL
      ELSE IF n > 0 /\ 4 * (pos + 1) <= n THEN Walk(l.next, Head_sentinel, pos + 1)
      ELSE IF 2 * (pos + 1) < n THEN Walk(l.prev, l.mid, middle - pos)
      ELSE IF n > 0 /\ 4 * (pos + 1) <= 3 * n THEN Walk(l.next, l.mid, pos - middle)
      ELSE Walk(l.prev, Tail_sentinel, n - pos)

list_get_at(l, pos) == LET e == list_findpos(l, pos) IN IF e = NULL THEN NULL ELSE l.data[e]

\* A new entry: the last spare one, or memory.
NewEntry(l) ==
  IF l.spareels # <<>> THEN l.spareels[Len(l.spareels)]
  ELSE CHOOSE e \in l.heap : \A f \in l.heap : e <= f

Taken(l, e) ==
  IF l.spareels # <<>> THEN [l EXCEPT !.spareels = SubSeq(@, 1, Len(@) - 1)]
  ELSE [l EXCEPT !.heap = @ \ {e}]

list_insert_at(l, data, pos) ==
  IF pos > l.numels THEN l
  ELSE LET lent == NewEntry(l)
           prec == list_findpos(l, pos - 1)
           succ == l.next[prec]
           n == l.numels + 1
           k == [Taken(l, lent) EXCEPT
                   !.numels = n,
                   !.data[lent] = data,
                   !.next = [@ EXCEPT ![prec] = lent, ![lent] = succ],
                   !.prev = [@ EXCEPT ![lent] = prec, ![succ] = lent]]
           mid == IF n = 1 THEN lent
                  ELSE IF n % 2 = 1 /\ pos >= (n - 1) \div 2 THEN k.next[l.mid]
                  ELSE IF n % 2 = 0 /\ pos <= (n - 1) \div 2 THEN k.prev[l.mid]
                  ELSE l.mid
       IN  [k EXCEPT !.mid = mid]

list_append(l, data) == list_insert_at(l, data, l.numels)

\* Mutant: mid stays when the entry is the middle one of an odd list.
MidAfterDrop_off_by_one(l, pos) ==
  IF l.numels % 2 = 1
  THEN IF pos > l.numels \div 2 THEN l.prev[l.mid] ELSE l.mid
  ELSE IF pos < l.numels \div 2 THEN l.next[l.mid] ELSE l.mid

\* mid before an entry is unlinked.  After the last one it is the head sentinel.
MidAfterDrop(l, pos) ==
  IF l.numels % 2 = 1
  THEN IF pos >= l.numels \div 2 THEN l.prev[l.mid] ELSE l.mid
  ELSE IF pos < l.numels \div 2 THEN l.next[l.mid] ELSE l.mid

\* What the entry held is never read again and is cleared here.
list_drop_elem(l, tmp, pos) ==
  LET k == [l EXCEPT !.mid = MidAfterDrop(l, pos),
                     !.next = [@ EXCEPT ![l.prev[tmp]] = l.next[tmp], ![tmp] = NULL],
                     !.prev = [@ EXCEPT ![l.next[tmp]] = l.prev[tmp], ![tmp] = NULL],
                     !.data[tmp] = NULL]
  IN  IF Len(k.spareels) < SIMCLIST_MAX_SPARE_ELEMS
      THEN [k EXCEPT !.spareels = Append(@, tmp)]
      ELSE [k EXCEPT !.heap = @ \cup {tmp}]

list_delete_at(l, pos) ==
  IF pos >= l.numels THEN l
  ELSE [list_drop_elem(l, list_findpos(l, pos), pos) EXCEPT !.numels = @ - 1]

\* The list that list_extract_at leaves; its result is list_get_at( l, pos ).
list_extract_at(l, pos) == list_delete_at(l, pos)

\* Repeated until the list is empty: while ( list_size( l ) ) list_fetch( l )
Fetched(l) ==
  LET left[i \in 0..l.numels] == IF i = 0 THEN l ELSE list_extract_at(left[i - 1], 0)
  IN  left[l.numels]

\* By reference: the first position that holds data, -1 when none does.
list_locate(l, data) ==
  LET found == {i \in 0..(l.numels - 1) : l.data[Walk(l.next, Head_sentinel, i + 1)] = data}
  IN  IF found = {} THEN -1 ELSE CHOOSE i \in found : \A j \in found : i <= j
----------------------------------------------------------------------------
(* What list_repOk asserts, but for the middle of an empty list: the code  *)
(* leaves the head sentinel there when the last element goes.              *)
list_repOk(l) ==
  /\ \A i \in 0..l.numels :
       LET e == Walk(l.next, Head_sentinel, i) IN l.prev[l.next[e]] = e
  /\ Walk(l.next, Head_sentinel, l.numels + 1) = Tail_sentinel
  /\ l.numels > 0 => l.mid = Walk(l.next, Head_sentinel, (l.numels - 1) \div 2 + 1)
  /\ Len(l.spareels) <= SIMCLIST_MAX_SPARE_ELEMS

\* The list holds the elements of s, wherever list_findpos starts from, and no
\* entry of it is spare or free.
Holds(l, s) ==
  /\ list_repOk(l)
  /\ l.numels = Len(s)
  /\ \A i \in 1..Len(s) : list_get_at(l, i - 1) = s[i]
  /\ \A i \in 1..Len(s) : list_findpos(l, i - 1) \notin l.heap \cup {l.spareels[j] : j \in DOMAIN l.spareels}
=============================================================================
