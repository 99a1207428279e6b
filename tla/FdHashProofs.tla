--------------------------- MODULE FdHashProofs ---------------------------
(***************************************************************************)
(* fd_hash.c implements its list for every table: the pointers always link *)
(* the descriptors added and not removed, and a pass that does not lose    *)
(* its place misses none of them.                                          *)
(***************************************************************************)
EXTENDS FdHash, TLAPS

IInv == TypeOK /\ Linked

(***************************************************************************)
(* Facts about the list operators.                                         *)
(***************************************************************************)

\* IndexOf finds an element that is in the list.
LEMMA IndexOfFinds ==
  ASSUME NEW S, NEW l \in Seq(S), NEW fd \in Elems(l)
  PROVE  IndexOf(l, fd) \in 1 .. Len(l) /\ l[IndexOf(l, fd)] = fd
BY DEF IndexOf, Elems

\* Without(l, k) is a sequence one shorter than l.
LEMMA WithoutType ==
  ASSUME NEW S, NEW l \in Seq(S), NEW k \in 1 .. Len(l)
  PROVE  /\ Without(l, k) \in Seq(S)
         /\ Len(Without(l, k)) = Len(l) - 1
         /\ \A i \in 1 .. (Len(l) - 1) : Without(l, k)[i] = IF i < k THEN l[i] ELSE l[i + 1]
BY DEF Without

\* The elements left in a list of distinct elements are the other elements.
LEMMA WithoutElems ==
  ASSUME NEW S, NEW l \in Seq(S), NEW k \in 1 .. Len(l),
         \A i, j \in 1 .. Len(l) : l[i] = l[j] => i = j
  PROVE  /\ Elems(Without(l, k)) = Elems(l) \ {l[k]}
         /\ \A i, j \in 1 .. (Len(l) - 1) : Without(l, k)[i] = Without(l, k)[j] => i = j
<1> DEFINE w == Without(l, k)
<1>1. /\ w \in Seq(S) /\ Len(w) = Len(l) - 1
      /\ \A i \in 1 .. (Len(l) - 1) : w[i] = IF i < k THEN l[i] ELSE l[i + 1]
  BY WithoutType
<1> HIDE DEF w
<1>2. Elems(w) \subseteq Elems(l) \ {l[k]}
  BY <1>1 DEF Elems
<1>3. ASSUME NEW e \in Elems(l) \ {l[k]} PROVE e \in Elems(w)
  <2>1. PICK i \in 1 .. Len(l) : l[i] = e
    BY DEF Elems
  <2>2. CASE i < k
    <3>1. i \in 1 .. Len(w) /\ w[i] = e
      BY <1>1, <2>1, <2>2
    <3> QED BY <3>1, <1>1 DEF Elems
  <2>3. CASE i > k
    <3>1. i - 1 \in 1 .. Len(w) /\ w[i - 1] = e
      BY <1>1, <2>1, <2>3
    <3> QED BY <3>1, <1>1 DEF Elems
  <2> QED BY <2>1, <2>2, <2>3, <1>3
<1>4. \A i, j \in 1 .. (Len(l) - 1) : w[i] = w[j] => i = j
  BY <1>1
<1> QED BY <1>2, <1>3, <1>4 DEF w

(***************************************************************************)
(* The linked list.                                                        *)
(***************************************************************************)

\* The test of fd_hash_add and fd_hash_remove recognises exactly the
\* descriptors that are in the list, the only one of a list included.
LEMMA InListIffListed ==
  ASSUME IInv, NEW fd \in Fds
  PROVE  InList(fd) <=> fd \in Elems(order)
<1> USE FdsAssumption DEF IInv, TypeOK, Pointer, NoFd
<1>1. ASSUME fd \in Elems(order) PROVE InList(fd)
  <2>1. PICK i \in 1 .. Len(order) : order[i] = fd
    BY <1>1 DEF Elems
  <2>2. CASE i < Len(order)
    <3>1. i + 1 \in 1 .. Len(order) /\ order[i + 1] \in Fds
      BY <2>2
    <3>2. next[fd] = order[i + 1]
      BY <2>1, <2>2 DEF Linked
    <3> QED BY <3>1, <3>2 DEF InList
  <2>3. CASE i = Len(order) /\ i > 1
    <3>1. i - 1 \in 1 .. Len(order) /\ order[i - 1] \in Fds
      BY <2>3
    <3>2. prev[fd] = order[i - 1]
      BY <2>1, <2>3 DEF Linked
    <3> QED BY <3>1, <3>2 DEF InList
  <2>4. CASE i = Len(order) /\ i = 1
    BY <2>1, <2>4 DEF Linked, ListHead, InList
  <2> QED BY <2>2, <2>3, <2>4
<1>2. ASSUME fd \notin Elems(order) PROVE ~InList(fd)
  <2>1. next[fd] = NoFd /\ prev[fd] = NoFd
    BY <1>2 DEF Linked
  <2>2. head # fd
    BY <1>2 DEF Linked, ListHead, Elems
  <2> QED BY <2>1, <2>2 DEF InList
<1> QED BY <1>1, <1>2

\* fd_hash_add keeps the pointers in step with the list.
LEMMA AddLinked ==
  ASSUME IInv, NEW fd \in Fds, fd_hash_add(fd)
  PROVE  IInv'
<1> USE FdsAssumption DEF IInv, TypeOK, Pointer, NoFd
<1>1. CASE InList(fd)
  <2>1. order' = order
    BY <1>1, InListIffListed DEF fd_hash_add, ListAdd
  <2> QED BY <1>1, <2>1 DEF fd_hash_add, hash, Linked, Distinct, ListHead, Elems
<1>2. CASE ~InList(fd)
  <2> DEFINE n == Len(order)
  <2>1. /\ fd \notin Elems(order) /\ LinkAtTail(fd) /\ order' = Append(order, fd)
        /\ cur' = cur /\ owed' = owed /\ cut' = cut
    BY <1>2, InListIffListed DEF fd_hash_add, ListAdd
  <2>2. /\ n \in Nat /\ order' \in Seq(Fds) /\ Len(order') = n + 1
        /\ \A i \in 1 .. n : order'[i] = order[i] /\ order[i] \in Fds /\ order[i] # fd
        /\ order'[n + 1] = fd
    BY <2>1 DEF Elems
  <2>3. TypeOK'
    BY <2>1, <2>2 DEF LinkAtTail
  <2>4. Distinct'
    <3>1. \A i, j \in 1 .. n : order[i] = order[j] => i = j
      BY DEF Linked, Distinct
    <3>2. \A i, j \in 1 .. (n + 1) : order'[i] = order'[j] => i = j
      BY <3>1, <2>2
    <3> QED BY <3>2, <2>2 DEF Distinct
  <2>5. (tail = NoFd) <=> (n = 0)
    BY <2>2 DEF Linked
  <2>6. head' = ListHead(order') /\ tail' = order'[n + 1] /\ Len(order') # 0
    BY <2>1, <2>2 DEF LinkAtTail, Linked, ListHead
  <2>7. ASSUME NEW i \in 1 .. (n + 1)
        PROVE  /\ next'[order'[i]] = IF i = n + 1 THEN NoFd ELSE order'[i + 1]
               /\ prev'[order'[i]] = IF i = 1 THEN NoFd ELSE order'[i - 1]
    <3>0. next[fd] = NoFd /\ prev[fd] = NoFd
      BY <2>1 DEF Linked
    <3>1. CASE i = n + 1
      <4>1. CASE n = 0
        BY <4>1, <3>1, <3>0, <2>1, <2>2, <2>5 DEF LinkAtTail
      <4>2. CASE n > 0
        <5>1. tail = order[n] /\ tail # NoFd /\ tail # fd
          BY <4>2, <2>2 DEF Linked
        <5> QED BY <5>1, <4>2, <3>1, <3>0, <2>1, <2>2 DEF LinkAtTail
      <4> QED BY <4>1, <4>2, <2>2
    <3>2. CASE i = n
      <4>1. tail = order[n] /\ tail # NoFd /\ tail # fd /\ n > 0
        BY <3>2, <2>2 DEF Linked
      <4>2. prev[order[n]] = IF n = 1 THEN NoFd ELSE order[n - 1]
        <5>1. n \in 1 .. Len(order)
          BY <4>1, <2>2
        <5> QED BY <5>1 DEF Linked
      <4> QED BY <4>1, <4>2, <3>2, <2>1, <2>2 DEF LinkAtTail
    <3>3. CASE i < n
      <4>1. tail = order[n] /\ tail # NoFd /\ tail # fd /\ n > 0
        BY <3>3, <2>2 DEF Linked
      <4>2. order[i] # order[n]
        BY <3>3, <2>2 DEF Linked, Distinct
      <4>3. /\ prev[order[i]] = IF i = 1 THEN NoFd ELSE order[i - 1]
            /\ next[order[i]] = order[i + 1]
        BY <3>3 DEF Linked
      <4> QED BY <4>1, <4>2, <4>3, <3>3, <2>1, <2>2 DEF LinkAtTail
    <3> QED BY <3>1, <3>2, <3>3, <2>2
  <2>8. ASSUME NEW x \in Fds \ Elems(order') PROVE next'[x] = NoFd /\ prev'[x] = NoFd
    <3>1. x # fd /\ x \notin Elems(order)
      BY <2>2 DEF Elems
    <3>2. tail # NoFd => tail \in Elems(order)
      BY <2>2, <2>5 DEF Linked, Elems
    <3> QED BY <3>1, <3>2, <2>1 DEF LinkAtTail, Linked
  <2> QED BY <2>2, <2>3, <2>4, <2>6, <2>7, <2>8 DEF Linked
<1> QED BY <1>1, <1>2

\* fd_hash_remove keeps the pointers in step with the list.
LEMMA RemoveLinked ==
  ASSUME IInv, NEW fd \in Fds, fd_hash_remove(fd)
  PROVE  IInv'
<1> USE FdsAssumption DEF IInv, TypeOK, Pointer, NoFd
<1>1. CASE ~InList(fd)
  <2>1. order' = order
    BY <1>1, InListIffListed DEF fd_hash_remove, ListRemove
  <2>2. UNCHANGED <<prev, next, head, tail, cur>> /\ owed' \subseteq Fds /\ cut' \in BOOLEAN
    BY <1>1 DEF fd_hash_remove, hash
  <2> QED BY <2>1, <2>2 DEF Linked, Distinct, ListHead, Elems
<1>2. CASE InList(fd)
  <2> DEFINE n == Len(order)
             k == IndexOf(order, fd)
  <2>1. fd \in Elems(order) /\ k \in 1 .. n /\ order[k] = fd /\ n \in Nat
    BY <1>2, InListIffListed, IndexOfFinds
  <2>2. /\ Unlink(fd) /\ order' = Without(order, k)
        /\ cur' = cur /\ owed' \subseteq Fds /\ cut' \in BOOLEAN
    BY <1>2, <2>1 DEF fd_hash_remove, ListRemove
  <2> HIDE DEF k
  <2>3. /\ order' \in Seq(Fds) /\ Len(order') = n - 1
        /\ \A i \in 1 .. (n - 1) : order'[i] = IF i < k THEN order[i] ELSE order[i + 1]
        /\ Distinct'
        /\ Elems(order') = Elems(order) \ {fd}
    <3>1. order \in Seq(Fds) /\ \A i, j \in 1 .. n : order[i] = order[j] => i = j
      BY DEF Linked, Distinct
    <3>2. /\ order' \in Seq(Fds) /\ Len(order') = n - 1
          /\ \A i \in 1 .. (n - 1) : order'[i] = IF i < k THEN order[i] ELSE order[i + 1]
      BY <2>1, <2>2, <3>1, WithoutType
    <3>3. /\ Elems(order') = Elems(order) \ {fd}
          /\ \A i, j \in 1 .. (n - 1) : order'[i] = order'[j] => i = j
      BY <2>1, <2>2, <3>1, WithoutElems
    <3> QED BY <3>2, <3>3 DEF Distinct
  <2>4. /\ \A i, j \in 1 .. n : order[i] = order[j] => i = j
        /\ \A i \in 1 .. n :
             /\ order[i] \in Fds
             /\ next[order[i]] = IF i = n THEN NoFd ELSE order[i + 1]
             /\ prev[order[i]] = IF i = 1 THEN NoFd ELSE order[i - 1]
    BY DEF Linked, Distinct
  <2>5. /\ next[fd] = IF k = n THEN NoFd ELSE order[k + 1]
        /\ prev[fd] = IF k = 1 THEN NoFd ELSE order[k - 1]
    BY <2>1, <2>4
  <2>6. TypeOK'
    BY <2>2, <2>3 DEF Unlink
  <2>7. head' = ListHead(order')
    <3>1. head = order[1] /\ (fd = head <=> k = 1)
      BY <2>1, <2>4 DEF Linked, ListHead
    <3>2. Len(order') = 0 <=> n = 1
      BY <2>1, <2>3
    <3>3. head' = IF k = 1 THEN next[fd] ELSE head
      BY <3>1, <2>2 DEF Unlink
    <3>4. CASE n = 1
      BY <3>2, <3>3, <3>4, <2>1, <2>5 DEF ListHead
    <3>5. CASE n # 1
      <4>1. 1 \in 1 .. (n - 1) /\ Len(order') # 0
        <5>1. n >= 1
          BY <2>1
        <5> QED BY <5>1, <3>5, <2>1, <2>3
      <4>2. order'[1] = IF 1 < k THEN order[1] ELSE order[2]
        BY <4>1, <2>3
      <4>3. CASE k = 1
        <5>1. next[fd] = order[2]
          BY <4>3, <3>5, <2>5
        <5> QED BY <5>1, <4>1, <4>2, <4>3, <3>3 DEF ListHead
      <4>4. CASE k # 1
        <5>1. 1 < k
          BY <4>4, <2>1
        <5> QED BY <5>1, <4>1, <4>2, <4>4, <3>1, <3>3 DEF ListHead
      <4> QED BY <4>3, <4>4
    <3> QED BY <3>4, <3>5
  <2>8. tail' = IF Len(order') = 0 THEN NoFd ELSE order'[Len(order')]
    <3>1. tail = order[n] /\ (fd = tail <=> k = n)
      BY <2>1, <2>4 DEF Linked
    <3>2. Len(order') = 0 <=> n = 1
      BY <2>1, <2>3
    <3>3. tail' = IF k = n THEN prev[fd] ELSE tail
      BY <3>1, <2>2 DEF Unlink
    <3>4. CASE n = 1
      BY <3>2, <3>3, <3>4, <2>1, <2>5
    <3>5. CASE n # 1
      <4>1. n - 1 \in 1 .. (n - 1) /\ Len(order') = n - 1 /\ n - 1 # 0
        BY <3>5, <2>1, <2>3
      <4>2. order'[n - 1] = IF n - 1 < k THEN order[n - 1] ELSE order[n]
        BY <4>1, <2>1, <2>3
      <4>3. CASE k = n
        <5>1. prev[fd] = order[n - 1] /\ n - 1 < k
          BY <4>3, <3>5, <2>1, <2>5
        <5> QED BY <5>1, <4>1, <4>2, <4>3, <3>3
      <4>4. CASE k # n
        <5>1. ~(n - 1 < k)
          BY <4>4, <2>1
        <5> QED BY <5>1, <4>1, <4>2, <4>4, <3>1, <3>3
      <4> QED BY <4>3, <4>4
    <3> QED BY <3>4, <3>5
  <2>9. ASSUME NEW i \in 1 .. (n - 1)
        PROVE  next'[order'[i]] = IF i = n - 1 THEN NoFd ELSE order'[i + 1]
    <3> DEFINE j == IF i < k THEN i ELSE i + 1
    <3>1. j \in 1 .. n /\ j # k /\ order'[i] = order[j] /\ order[j] # fd
      BY <2>1, <2>3, <2>4
    <3>2. next'[order[j]] = IF order[j] = prev[fd] THEN next[fd] ELSE next[order[j]]
      BY <3>1, <2>2, <2>4 DEF Unlink
    <3>3. order[j] = prev[fd] <=> j = k - 1
      BY <3>1, <2>1, <2>4, <2>5
    <3>4. CASE j = k - 1
      BY <3>1, <3>2, <3>3, <3>4, <2>1, <2>3, <2>5
    <3>5. CASE j # k - 1
      <4>1. next'[order'[i]] = IF j = n THEN NoFd ELSE order[j + 1]
        BY <3>1, <3>2, <3>3, <3>5, <2>4
      <4> QED BY <4>1, <3>1, <3>5, <2>1, <2>3
    <3> QED BY <3>4, <3>5
  <2>10. ASSUME NEW i \in 1 .. (n - 1)
         PROVE  prev'[order'[i]] = IF i = 1 THEN NoFd ELSE order'[i - 1]
    <3> DEFINE j == IF i < k THEN i ELSE i + 1
    <3>1. j \in 1 .. n /\ j # k /\ order'[i] = order[j] /\ order[j] # fd
      BY <2>1, <2>3, <2>4
    <3>2. prev'[order[j]] = IF order[j] = next[fd] THEN prev[fd] ELSE prev[order[j]]
      BY <3>1, <2>2, <2>4 DEF Unlink
    <3>3. order[j] = next[fd] <=> j = k + 1
      BY <3>1, <2>1, <2>4, <2>5
    <3>4. CASE j = k + 1
      BY <3>1, <3>2, <3>3, <3>4, <2>1, <2>3, <2>5
    <3>5. CASE j # k + 1
      <4>1. prev'[order'[i]] = IF j = 1 THEN NoFd ELSE order[j - 1]
        BY <3>1, <3>2, <3>3, <3>5, <2>4
      <4> QED BY <4>1, <3>1, <3>5, <2>1, <2>3
    <3> QED BY <3>4, <3>5
  <2>11. ASSUME NEW x \in Fds \ Elems(order') PROVE next'[x] = NoFd /\ prev'[x] = NoFd
    <3>1. CASE x = fd
      BY <3>1, <2>2 DEF Unlink
    <3>2. CASE x # fd
      <4>1. x \notin Elems(order)
        BY <3>2, <2>3
      <4>2. (prev[fd] # NoFd => prev[fd] \in Elems(order)) /\ (next[fd] # NoFd => next[fd] \in Elems(order))
        BY <2>1, <2>5 DEF Elems
      <4>3. next[x] = NoFd /\ prev[x] = NoFd /\ x # NoFd
        BY <4>1 DEF Linked
      <4> QED BY <4>1, <4>2, <4>3, <3>2, <2>2 DEF Unlink
    <3> QED BY <3>1, <3>2
  <2>12. \A i \in 1 .. Len(order') :
           /\ next'[order'[i]] = IF i = Len(order') THEN NoFd ELSE order'[i + 1]
           /\ prev'[order'[i]] = IF i = 1 THEN NoFd ELSE order'[i - 1]
    BY <2>3, <2>9, <2>10
  <2> QED BY <2>3, <2>6, <2>7, <2>8, <2>11, <2>12 DEF Linked
<1> QED BY <1>1, <1>2

\* A pass changes no pointer and moves its loop variable along them.
LEMMA PassLinked ==
  ASSUME IInv, StartPass \/ StepPass
  PROVE  IInv'
<1>1. UNCHANGED <<prev, next, head, tail, order>>
  BY DEF StartPass, StepPass, hash
<1>2. cur' \in Pointer /\ owed' \subseteq Fds /\ cut' \in BOOLEAN
  <2> USE DEF IInv, TypeOK
  <2>1. CASE StartPass
    <3>1. Elems(order) \subseteq Fds
      BY DEF Elems
    <3> QED BY <2>1, <3>1 DEF StartPass, fd_hash_head
  <2>2. CASE StepPass
    <3>1. cur \in Fds
      BY <2>2 DEF StepPass, Pointer
    <3> QED BY <2>2, <3>1 DEF StepPass, fd_hash_next
  <2> QED BY <2>1, <2>2
<1> QED BY <1>1, <1>2 DEF IInv, TypeOK, Linked, Distinct, ListHead, Elems

\* The invariant is inductive.
LEMMA IInvInductive == (Init => IInv) /\ (IInv /\ [Next]_vars => IInv')
<1>1. Init => IInv
  <2> SUFFICES ASSUME Init PROVE IInv
    OBVIOUS
  <2>1. TypeOK
    <3>1. order \in Seq(Fds)
      BY DEF Init
    <3> QED BY <3>1 DEF Init, TypeOK, Pointer
  <2>2. Len(order) = 0
    BY DEF Init
  <2>3. Linked
    BY <2>2 DEF Init, Linked, Distinct, ListHead
  <2> QED BY <2>1, <2>3 DEF IInv
<1>2. ASSUME IInv, [Next]_vars PROVE IInv'
  <2>1. CASE \E fd \in Fds : fd_hash_add(fd)
    BY <1>2, <2>1, AddLinked
  <2>2. CASE \E fd \in Fds : fd_hash_remove(fd)
    BY <1>2, <2>2, RemoveLinked
  <2>3. CASE StartPass \/ StepPass
    BY <1>2, <2>3, PassLinked
  <2>4. CASE UNCHANGED vars
    BY <1>2, <2>4 DEF vars, IInv, TypeOK, Linked, Distinct, ListHead, Elems
  <2> QED BY <1>2, <2>1, <2>2, <2>3, <2>4 DEF Next
<1> QED BY <1>1, <1>2

\* The pointers and the loop variable always point into the table (fd_hash.c).
THEOREM TypeCorrect == Spec => []TypeOK
<1>1. Spec => []IInv
  BY IInvInductive, PTL DEF Spec
<1>2. IInv => TypeOK
  BY DEF IInv
<1> QED BY <1>1, <1>2, PTL

\* Whatever fd_hash_add and fd_hash_remove are called with, and in whatever
\* order, the pointers link exactly the descriptors added and not removed.
THEOREM LinkedCorrect == Spec => []Linked
<1>1. Spec => []IInv
  BY IInvInductive, PTL DEF Spec
<1>2. IInv => Linked
  BY DEF IInv
<1> QED BY <1>1, <1>2, PTL

(***************************************************************************)
(* Refinement and the passes.                                              *)
(***************************************************************************)

\* fd_hash_next follows the list, and ends a pass whose descriptor is gone.
LEMMA NextIsListNext ==
  ASSUME IInv, cur # NoFd
  PROVE  fd_hash_next(cur) = ListNext(order, cur)
<1> USE DEF IInv, TypeOK
<1>1. cur \in Fds
  BY DEF Pointer
<1>2. CASE cur \in Elems(order)
  <2> DEFINE k == IndexOf(order, cur)
  <2>1. k \in 1 .. Len(order) /\ order[k] = cur /\ Len(order) \in Nat
    BY <1>2, IndexOfFinds
  <2> HIDE DEF k
  <2>2. next[cur] = IF k = Len(order) THEN NoFd ELSE order[k + 1]
    BY <2>1 DEF Linked
  <2> QED BY <1>2, <2>1, <2>2 DEF ListNext, fd_hash_next, k
<1>3. CASE cur \notin Elems(order)
  BY <1>1, <1>3 DEF Linked, ListNext, fd_hash_next
<1> QED BY <1>2, <1>3

\* The linked list of fd_hash.c implements the abstract list with its passes.
THEOREM ImplementsList == Spec => Refinement
<1>1. Spec => []IInv
  BY IInvInductive, PTL DEF Spec
<1>2. Init => Abstract!Init
  BY DEF Init, Abstract!Init, NoFd, Abstract!NoFd
<1>3. ASSUME IInv, [Next]_vars PROVE [Abstract!Next]_(Abstract!vars)
  <2> SUFFICES ASSUME Next PROVE Abstract!Next
    BY <1>3 DEF vars, Abstract!vars
  <2>1. ASSUME NEW fd \in Fds, fd_hash_add(fd) PROVE Abstract!Next
    <3>1. Abstract!Add(fd)
      BY <2>1 DEF fd_hash_add, Abstract!Add, ListAdd, Abstract!ListAdd, Elems, Abstract!Elems
    <3> QED BY <3>1 DEF Abstract!Next
  <2>2. ASSUME NEW fd \in Fds, fd_hash_remove(fd) PROVE Abstract!Next
    <3>1. Abstract!Remove(fd)
      BY <2>2 DEF fd_hash_remove, Abstract!Remove, ListRemove, Abstract!ListRemove,
         Elems, Abstract!Elems, IndexOf, Abstract!IndexOf, Without, Abstract!Without
    <3> QED BY <3>1 DEF Abstract!Next
  <2>3. ASSUME StartPass PROVE Abstract!Next
    <3>1. Abstract!StartPass
      BY <1>3, <2>3 DEF StartPass, Abstract!StartPass, fd_hash_head, IInv, Linked,
         ListHead, Abstract!ListHead, NoFd, Abstract!NoFd, Elems, Abstract!Elems
    <3> QED BY <3>1 DEF Abstract!Next
  <2>4. ASSUME StepPass PROVE Abstract!Next
    <3>1. cur' = ListNext(order, cur)
      BY <1>3, <2>4, NextIsListNext DEF StepPass
    <3>2. Abstract!StepPass
      BY <2>4, <3>1 DEF StepPass, Abstract!StepPass, ListNext, Abstract!ListNext,
         NoFd, Abstract!NoFd, Elems, Abstract!Elems, IndexOf, Abstract!IndexOf
    <3> QED BY <3>2 DEF Abstract!Next
  <2> QED BY <2>1, <2>2, <2>3, <2>4 DEF Next
<1> QED BY <1>1, <1>2, <1>3, PTL DEF Spec, Refinement, Abstract!Spec

\* A descriptor other than the removed one keeps its place relative to the
\* others: what was after order[k] in the list still is.
LEMMA StillAhead ==
  ASSUME NEW S, NEW l \in Seq(S), NEW k \in 1 .. Len(l), NEW r \in 1 .. Len(l), k # r,
         \A i, j \in 1 .. Len(l) : l[i] = l[j] => i = j
  PROVE  \E m \in 1 .. (Len(l) - 1) :
            /\ Without(l, r)[m] = l[k]
            /\ \A i \in (k + 1) .. Len(l) :
                 l[i] # l[r] => \E j \in (m + 1) .. (Len(l) - 1) : Without(l, r)[j] = l[i]
<1> DEFINE w == Without(l, r)
           m == IF k < r THEN k ELSE k - 1
<1>1. /\ w \in Seq(S) /\ Len(w) = Len(l) - 1 /\ Len(l) \in Nat
      /\ \A i \in 1 .. (Len(l) - 1) : w[i] = IF i < r THEN l[i] ELSE l[i + 1]
  BY WithoutType
<1> HIDE DEF w
<1>2. m \in 1 .. (Len(l) - 1) /\ w[m] = l[k]
  BY <1>1
<1>3. ASSUME NEW i \in (k + 1) .. Len(l), l[i] # l[r]
      PROVE  \E j \in (m + 1) .. (Len(l) - 1) : w[j] = l[i]
  <2> DEFINE j == IF i < r THEN i ELSE i - 1
  <2>1. i # r
    BY <1>3
  <2>2. j \in (m + 1) .. (Len(l) - 1) /\ w[j] = l[i]
    BY <1>1, <2>1
  <2> QED BY <2>2
<1> QED BY <1>2, <1>3 DEF w

\* What a pass owes stays ahead of it until its current descriptor is removed.
LEMMA OwedStaysAhead == IInv /\ OwedAhead /\ [Next]_vars => OwedAhead'
<1> SUFFICES ASSUME IInv, OwedAhead, [Next]_vars PROVE OwedAhead'
  OBVIOUS
<1> USE DEF IInv, TypeOK
<1>0. /\ Len(order) \in Nat
      /\ \A i, j \in 1 .. Len(order) : order[i] = order[j] => i = j
      /\ \A i \in 1 .. Len(order) : order[i] \in Fds
  BY DEF Linked, Distinct
<1>1. ASSUME NEW fd \in Fds, fd_hash_add(fd) PROVE OwedAhead'
  <2>1. /\ Len(order') >= Len(order) /\ Len(order') \in Nat
        /\ \A i \in 1 .. Len(order) : order'[i] = order[i]
        /\ cur' = cur /\ owed' = owed /\ cut' = cut
    BY <1>1 DEF fd_hash_add, ListAdd
  <2> QED BY <2>1, <1>0 DEF OwedAhead
<1>2. ASSUME NEW fd \in Fds, fd_hash_remove(fd) PROVE OwedAhead'
  <2> SUFFICES ASSUME ~cut' PROVE OwedAhead'
    BY DEF OwedAhead
  <2>1. ~cut /\ fd # cur /\ cur' = cur /\ owed' = owed \ {fd}
    BY <1>2 DEF fd_hash_remove
  <2>2. CASE cur = NoFd /\ owed = {}
    BY <2>1, <2>2 DEF OwedAhead
  <2>3. ASSUME NEW k \in 1 .. Len(order), order[k] = cur,
               owed \subseteq {order[i] : i \in (k + 1) .. Len(order)}
        PROVE  OwedAhead'
    <3>1. CASE fd \notin Elems(order)
      <4>1. order' = order
        BY <1>2, <3>1 DEF fd_hash_remove, ListRemove
      <4> QED BY <2>1, <2>3, <4>1 DEF OwedAhead
    <3>2. CASE fd \in Elems(order)
      <4> DEFINE r == IndexOf(order, fd)
      <4>1. r \in 1 .. Len(order) /\ order[r] = fd
        BY <3>2, IndexOfFinds
      <4>2. order' = Without(order, r)
        BY <1>2, <3>2 DEF fd_hash_remove, ListRemove
      <4> HIDE DEF r
      <4>3. k # r
        BY <4>1, <2>1, <2>3
      <4>4. order \in Seq(Fds) /\ k \in 1 .. Len(order)
        OBVIOUS
      <4>5. PICK m \in 1 .. (Len(order) - 1) :
              /\ Without(order, r)[m] = order[k]
              /\ \A i \in (k + 1) .. Len(order) :
                   order[i] # order[r] =>
                     \E j \in (m + 1) .. (Len(order) - 1) : Without(order, r)[j] = order[i]
        BY ONLY <4>1, <4>3, <4>4, <1>0, StillAhead
      <4>6. Len(order') = Len(order) - 1
        BY <4>1, <4>2, WithoutType
      <4>7. owed' \subseteq {order'[i] : i \in (m + 1) .. Len(order')}
        <5> SUFFICES ASSUME NEW x \in owed, x # fd
                     PROVE  \E j \in (m + 1) .. Len(order') : order'[j] = x
          BY <2>1
        <5>1. PICK i \in (k + 1) .. Len(order) : order[i] = x
          BY <2>3
        <5>2. PICK j \in (m + 1) .. (Len(order) - 1) : Without(order, r)[j] = order[i]
          BY <4>1, <4>5, <5>1
        <5> QED BY <4>2, <4>6, <5>1, <5>2
      <4>8. m \in 1 .. Len(order') /\ order'[m] = cur'
        BY <4>2, <4>5, <4>6, <2>1, <2>3
      <4> QED BY <4>7, <4>8 DEF OwedAhead
    <3> QED BY <3>1, <3>2
  <2> QED BY <2>1, <2>2, <2>3 DEF OwedAhead
<1>3. ASSUME StartPass PROVE OwedAhead'
  <2>1. order' = order /\ cur' = ListHead(order) /\ owed' = Elems(order) \ {cur'}
    BY <1>3 DEF StartPass, fd_hash_head, Linked
  <2>2. CASE Len(order) = 0
    BY <2>1, <2>2 DEF OwedAhead, ListHead, Elems
  <2>3. CASE Len(order) > 0
    <3>1. 1 \in 1 .. Len(order') /\ order'[1] = cur'
      BY <2>1, <2>3, <1>0 DEF ListHead
    <3>2. owed' \subseteq {order'[i] : i \in (1 + 1) .. Len(order')}
      BY <2>1, <3>1, <1>0 DEF Elems
    <3> QED BY <3>1, <3>2 DEF OwedAhead
  <2> QED BY <2>2, <2>3, <1>0
<1>4. ASSUME StepPass PROVE OwedAhead'
  <2> SUFFICES ASSUME ~cut' PROVE OwedAhead'
    BY DEF OwedAhead
  <2>1. order' = order /\ ~cut /\ cur # NoFd /\ cur' = next[cur] /\ owed' = owed \ {cur'}
    BY <1>4 DEF StepPass, fd_hash_next
  <2>2. PICK k \in 1 .. Len(order) : /\ order[k] = cur
                                    /\ owed \subseteq {order[i] : i \in (k + 1) .. Len(order)}
    BY <2>1 DEF OwedAhead
  <2>3. cur' = IF k = Len(order) THEN NoFd ELSE order[k + 1]
    BY <2>1, <2>2 DEF Linked
  <2>4. CASE k = Len(order)
    <3>1. owed' = {}
      BY <2>1, <2>2, <2>4, <1>0
    <3> QED BY <3>1, <2>3, <2>4 DEF OwedAhead
  <2>5. CASE k < Len(order)
    <3>1. k + 1 \in 1 .. Len(order') /\ order'[k + 1] = cur'
      BY <2>1, <2>3, <2>5, <1>0
    <3>2. owed' \subseteq {order'[i] : i \in ((k + 1) + 1) .. Len(order')}
      BY <2>1, <2>2, <3>1, <1>0
    <3> QED BY <3>1, <3>2 DEF OwedAhead
  <2> QED BY <2>4, <2>5, <1>0
<1>5. CASE UNCHANGED vars
  BY <1>5 DEF vars, OwedAhead
<1> QED BY <1>1, <1>2, <1>3, <1>4, <1>5 DEF Next

\* A pass over an fd_hash whose current descriptor no handler removes visits
\* every descriptor that was listed when it began and stayed listed.
THEOREM PassesComplete == Spec => []PassComplete
<1>1. Spec => []IInv
  BY IInvInductive, PTL DEF Spec
<1>2. Init => OwedAhead
  BY DEF Init, OwedAhead
<1>3. IInv /\ OwedAhead => PassComplete
  <2> SUFFICES ASSUME IInv, OwedAhead, cur = NoFd, ~cut PROVE owed = {}
    BY DEF PassComplete
  <2>1. \A k \in 1 .. Len(order) : order[k] # NoFd
    BY FdsAssumption DEF IInv, TypeOK, NoFd
  <2> QED BY <2>1 DEF OwedAhead
<1> QED BY <1>1, <1>2, <1>3, OwedStaysAhead, PTL DEF Spec
=============================================================================
