------------------------------ MODULE FdLists ------------------------------
(***************************************************************************)
(* What an fd_hash_t promises to the select loops built on it: a list of   *)
(* descriptors without duplicates, kept in the order of insertion.  The    *)
(* modules of the loops use these operators; FdHash shows that the         *)
(* intrusive doubly linked list of fd_hash.c implements them.              *)
(***************************************************************************)
EXTENDS Integers, Sequences

NoFd == -1       \* what fd_hash_head and fd_hash_next return at the end

Elems(l) == {l[i] : i \in DOMAIN l}

ListAdd(l, fd) == IF fd \in Elems(l) THEN l ELSE Append(l, fd)

IndexOf(l, fd) == CHOOSE i \in DOMAIN l : l[i] = fd

\* l without its element number k.
Without(l, k) == [i \in 1 .. (Len(l) - 1) |-> IF i < k THEN l[i] ELSE l[i + 1]]

ListRemove(l, fd) == IF fd \in Elems(l) THEN Without(l, IndexOf(l, fd)) ELSE l

ListHead(l) == IF Len(l) = 0 THEN NoFd ELSE l[1]

\* The element after fd; nothing follows the last element, nor an fd that is
\* no longer in the list.
ListNext(l, fd) ==
  IF fd \in Elems(l) /\ IndexOf(l, fd) < Len(l)
  THEN l[IndexOf(l, fd) + 1]
  ELSE NoFd
=============================================================================
