----------------------------- MODULE LoopProofs -----------------------------
(***************************************************************************)
(* Proofs about the main loop.  The descriptor watch, for every size of    *)
(* the tables: the arrays are exact, and they implement the set FdSet.     *)
(* The children, the kill timers and the watchdog, for every set of        *)
(* process ids, child limit and choice of times.  Then the two together.   *)
(***************************************************************************)
EXTENDS MCLoop, FiniteSetTheorems, WellFoundedInduction, TLAPS

(* The list of the descriptors found ready has no descriptor twice.        *)
ReadyDistinct ==
  \A i, j \in 1 .. Len(select_rfdidx) : select_rfdidx[i] = select_rfdidx[j] => i = j

(* The inductive invariant.                                                *)
FdInv == FdTypeOK /\ ArraysExact /\ ReadyDistinct

USE FdwatchAssumption

-----------------------------------------------------------------------------
(* Places and their ranks                                                  *)

(* The rank of a place in a set of places: it is below their number, of    *)
(* two places the lower has the lower one, and every number below theirs   *)
(* is the rank of a place.                                                 *)
LEMMA RidxLess ==
  ASSUME NEW n \in Nat, NEW S \in SUBSET (0 .. n - 1)
  PROVE  /\ IsFiniteSet(S) /\ Cardinality(S) \in Nat
         /\ \A i \in S : Ridx(S, i) \in 0 .. Cardinality(S) - 1
         /\ \A i, j \in S : i < j => Ridx(S, i) < Ridx(S, j)
<1>1. IsFiniteSet(S) /\ Cardinality(S) \in Nat
  <2>1. IsFiniteSet(0 .. n - 1)
    BY FS_Interval
  <2>2. IsFiniteSet(S)
    BY <2>1, FS_Subset
  <2>3. QED
    BY <2>2, FS_CardinalityType
<1>2. \A i \in S : IsFiniteSet({k \in S : k < i})
  BY <1>1, FS_Subset
<1>3. \A i \in S : Ridx(S, i) \in Nat
  BY <1>2, FS_CardinalityType DEF Ridx
<1>4. ASSUME NEW A \in SUBSET S, NEW B \in SUBSET S, A \subseteq B, NEW x \in B, x \notin A
      PROVE  Cardinality(A) < Cardinality(B)
  <2>1. IsFiniteSet(A) /\ IsFiniteSet(B)
    BY <1>1, FS_Subset
  <2>2. Cardinality(A) <= Cardinality(B) /\ Cardinality(A) # Cardinality(B)
    BY <1>4, <2>1, FS_Subset
  <2>3. QED
    BY <2>1, <2>2, FS_CardinalityType
<1>5. ASSUME NEW i \in S PROVE Ridx(S, i) < Cardinality(S)
  <2> {k \in S : k < i} \in SUBSET S /\ S \in SUBSET S /\ i \notin {k \in S : k < i}
    OBVIOUS
  <2> QED
    BY <1>4 DEF Ridx
<1>6. ASSUME NEW i \in S, NEW j \in S, i < j PROVE Ridx(S, i) < Ridx(S, j)
  <2>1. /\ {k \in S : k < i} \in SUBSET S /\ {k \in S : k < j} \in SUBSET S
        /\ {k \in S : k < i} \subseteq {k \in S : k < j}
        /\ i \in {k \in S : k < j} /\ i \notin {k \in S : k < i}
    <3>1. i \in Int /\ j \in Int /\ \A k \in S : k \in Int
      OBVIOUS
    <3>2. \A k \in S : k < i => k < j
      BY <1>6, <3>1
    <3>3. ~ (i < i)
      BY <3>1
    <3>4. QED
      BY <1>6, <3>2, <3>3
  <2>2. QED
    BY <1>4, <2>1 DEF Ridx
<1>7. QED
  BY <1>1, <1>3, <1>5, <1>6

LEMMA RidxOnto ==
  ASSUME NEW n \in Nat, NEW S \in SUBSET (0 .. n - 1), NEW k \in 0 .. Cardinality(S) - 1
  PROVE  \E i \in S : Ridx(S, i) = k
<1> DEFINE f == [i \in S |-> Ridx(S, i)]
           T == 0 .. Cardinality(S) - 1
<1>1. Cardinality(S) \in Nat /\ f \in [S -> T]
  BY RidxLess
<1>2. \A i, j \in S : f[i] = f[j] => i = j
  <2> SUFFICES ASSUME NEW i \in S, NEW j \in S, i # j PROVE f[i] # f[j]
    OBVIOUS
  <2>1. i < j \/ j < i
    OBVIOUS
  <2>2. /\ Ridx(S, i) \in 0 .. Cardinality(S) - 1
        /\ Ridx(S, j) \in 0 .. Cardinality(S) - 1
    BY RidxLess
  <2>3. Ridx(S, i) < Ridx(S, j) \/ Ridx(S, j) < Ridx(S, i)
    BY <2>1, RidxLess
  <2>4. QED
    BY <1>1, <2>2, <2>3
<1>3. f \in Injection(S, T)
  BY <1>1, <1>2 DEF Injection, IsInjective
<1>4. IsFiniteSet(T) /\ Cardinality(T) = Cardinality(S)
  BY <1>1, FS_Interval
<1>5. f \in Surjection(S, T)
  BY <1>3, <1>4, FS_Injection
<1>6. QED
  BY <1>5 DEF Surjection

-----------------------------------------------------------------------------
(* Adding and removing a descriptor                                        *)

LEMMA AddArrays ==
  ASSUME FdTypeOK, ArraysExact, NEW fd \in Fds, NEW c \in Clients \cup {0},
         NEW rw \in Directions, AddFd(fd, c, rw)
  PROVE  ArraysExact'
<1> USE DEF Fds
<1>1. fd \notin Filled /\ fd \notin Watching /\ nselect_fds \in 0 .. Nfiles - 1
  BY DEF AddFd, ArraysExact, Watching, FdTypeOK
<1>2. /\ nselect_fds' = nselect_fds + 1
      /\ \A i \in Fds : select_fds'[i] = IF i = nselect_fds THEN fd ELSE select_fds[i]
      /\ \A x \in Fds : select_fdidx'[x] = IF x = fd THEN nselect_fds ELSE select_fdidx[x]
      /\ \A x \in Fds : fd_rw'[x] = IF x = fd THEN rw ELSE fd_rw[x]
  BY <1>1 DEF AddFd, FdTypeOK
<1>3. \A i \in 0 .. nselect_fds - 1 :
        /\ select_fds[i] \in Fds /\ select_fds[i] # fd
        /\ select_fdidx[select_fds[i]] = i
  BY <1>1 DEF ArraysExact, IndexExact, Filled
<1>4. IndexExact'
  <2>1. ASSUME NEW i \in 0 .. nselect_fds' - 1
        PROVE  select_fds'[i] \in Fds /\ select_fdidx'[select_fds'[i]] = i
    BY <1>1, <1>2, <1>3
  <2>2. \A i \in nselect_fds' .. Nfiles - 1 : select_fds'[i] = -1
    BY <1>1, <1>2 DEF ArraysExact, IndexExact
  <2>3. ASSUME NEW x \in Fds
        PROVE  \/ select_fdidx'[x] = -1
               \/ /\ select_fdidx'[x] \in 0 .. nselect_fds' - 1
                  /\ select_fds'[select_fdidx'[x]] = x
    <3>1. CASE x = fd
      BY <1>1, <1>2, <3>1
    <3>2. CASE x # fd
      BY <1>1, <1>2, <3>2 DEF ArraysExact, IndexExact
    <3>3. QED
      BY <3>1, <3>2
  <2>4. QED
    BY <2>1, <2>2, <2>3 DEF IndexExact
<1>5. Filled' = Filled \cup {fd}
  BY <1>1, <1>2, <1>3 DEF Filled
<1>6. Watching' = Watching \cup {fd}
  BY <1>2 DEF Watching, Directions
<1>7. SetsExact'
  BY <1>2 DEF AddFd, ArraysExact, SetsExact, Directions
<1>8. MaxExact'
  BY <1>6 DEF AddFd, ArraysExact, MaxExact, FdTypeOK, Watching
<1>9. QED
  BY <1>4, <1>5, <1>6, <1>7, <1>8 DEF ArraysExact

(* The last descriptor takes the place of the one that is removed, whether *)
(* that is another one or the last itself.                                 *)
LEMMA DelArrays ==
  ASSUME FdTypeOK, ArraysExact, NEW fd \in Fds, DelFd(fd)
  PROVE  ArraysExact'
<1> USE DEF Fds
<1> DEFINE idx == select_fdidx[fd]
           last == nselect_fds - 1
<1>1. /\ idx \in 0 .. last /\ last \in 0 .. Nfiles - 1
      /\ select_fds[idx] = fd /\ select_fds[last] \in Fds
  <2>1. fd \in Filled
    BY DEF DelFd, ArraysExact, Watching
  <2>2. PICK i \in 0 .. nselect_fds - 1 : fd = select_fds[i]
    BY <2>1 DEF Filled
  <2>3. QED
    BY <2>2 DEF ArraysExact, IndexExact, FdTypeOK
<1>2. /\ nselect_fds' = last
      /\ \A i \in Fds : select_fds'[i] = IF i = last THEN -1
                                         ELSE IF i = idx THEN select_fds[last]
                                         ELSE select_fds[i]
      /\ \A x \in Fds : select_fdidx'[x] = IF x = fd THEN -1
                                           ELSE IF x = select_fds[last] THEN idx
                                           ELSE select_fdidx[x]
      /\ \A x \in Fds : fd_rw'[x] = IF x = fd THEN "none" ELSE fd_rw[x]
  BY <1>1 DEF DelFd, Moved, Renumbered, FdTypeOK
<1>3. \A i \in 0 .. last :
        select_fds[i] \in Fds /\ select_fdidx[select_fds[i]] = i
  BY DEF ArraysExact, IndexExact
<1> HIDE DEF idx, last
<1>4. IndexExact'
  <2>1. ASSUME NEW i \in 0 .. last - 1
        PROVE  select_fds'[i] \in Fds /\ select_fdidx'[select_fds'[i]] = i
    <3>1. CASE i = idx
      <4>1. select_fds'[i] = select_fds[last] /\ select_fds[last] # fd
        BY <1>1, <1>2, <1>3, <2>1, <3>1
      <4>2. QED
        BY <1>1, <1>2, <3>1, <4>1
    <3>2. CASE i # idx
      <4>1. select_fds'[i] = select_fds[i] /\ select_fds[i] \notin {fd, select_fds[last]}
        BY <1>1, <1>2, <1>3, <2>1, <3>2
      <4>2. QED
        BY <1>1, <1>2, <1>3, <2>1, <4>1
    <3>3. QED
      BY <3>1, <3>2
  <2>2. \A i \in last .. Nfiles - 1 : select_fds'[i] = -1
    <3>1. \A i \in last + 1 .. Nfiles - 1 : select_fds[i] = -1
      BY DEF ArraysExact, IndexExact, FdTypeOK, last
    <3>2. QED
      BY <1>1, <1>2, <3>1
  <2>3. ASSUME NEW x \in Fds
        PROVE  \/ select_fdidx'[x] = -1
               \/ /\ select_fdidx'[x] \in 0 .. last - 1
                  /\ select_fds'[select_fdidx'[x]] = x
    <3>1. \/ select_fdidx[x] = -1
          \/ select_fdidx[x] \in 0 .. last /\ select_fds[select_fdidx[x]] = x
      BY DEF ArraysExact, IndexExact, last
    <3>2. CASE x = fd
      BY <1>1, <1>2, <3>2
    <3>3. CASE x # fd /\ x = select_fds[last]
      <4>1. idx # last
        BY <1>1, <3>3
      <4>2. QED
        BY <1>1, <1>2, <3>3, <4>1
    <3>4. CASE x # fd /\ x # select_fds[last]
      <4>1. select_fdidx'[x] = select_fdidx[x]
        BY <1>2, <3>4
      <4>2. select_fdidx[x] # last /\ select_fdidx[x] # idx
        BY <1>1, <3>1, <3>4
      <4>3. QED
        BY <1>1, <1>2, <3>1, <4>1, <4>2
    <3>5. QED
      BY <3>2, <3>3, <3>4
  <2>4. QED
    BY <1>2, <2>1, <2>2, <2>3 DEF IndexExact
<1>5. Filled' = Filled \ {fd}
  <2>1. \A x \in Filled' : x \in Filled /\ x # fd
    BY <1>1, <1>2, <1>3 DEF Filled, last
  <2>2. ASSUME NEW x \in Filled, x # fd PROVE x \in Filled'
    <3>1. PICK i \in 0 .. last : x = select_fds[i]
      BY DEF Filled, last
    <3>2. CASE i = last
      BY <1>1, <1>2, <2>2, <3>1, <3>2 DEF Filled
    <3>3. CASE i # last
      <4>1. i \in 0 .. last - 1 /\ i # idx
        BY <1>1, <2>2, <3>1, <3>3
      <4>2. select_fds'[i] = x
        BY <1>1, <1>2, <3>1, <4>1
      <4>3. QED
        BY <1>2, <4>1, <4>2 DEF Filled
    <3>4. QED
      BY <3>2, <3>3
  <2>3. QED
    BY <2>1, <2>2
<1>6. Watching' = Watching \ {fd}
  BY <1>2 DEF Watching
<1>7. SetsExact'
  BY <1>2 DEF DelFd, ArraysExact, SetsExact
<1>8. MaxExact'
  BY <1>6 DEF DelFd, ArraysExact, MaxExact, FdTypeOK, Watching
<1>9. QED
  BY <1>4, <1>5, <1>6, <1>7, <1>8 DEF ArraysExact

-----------------------------------------------------------------------------
(* The watch                                                               *)

(* A set of descriptors has a highest one.                                 *)
LEMMA HighestFd ==
  ASSUME NEW S \in SUBSET Fds, S # {}
  PROVE  \E fd \in S : \A other \in S : other <= fd
<1> DEFINE T == {Nfiles - fd : fd \in S}
<1>1. T \subseteq Nat /\ T # {}
  <2>1. \A fd \in S : Nfiles - fd \in Nat
    BY DEF Fds
  <2>2. QED
    BY <2>1
<1>2. PICK x \in T : \A y \in T : ~ (<< y, x >> \in OpToRel(<, Nat))
  BY <1>1, NatLessThanWellFounded, WFMin
<1>3. \A y \in T : x <= y
  <2>1. \A y \in T : ~ (y < x)
    BY <1>1, <1>2 DEF OpToRel
  <2>2. QED
    BY <1>1, <2>1
<1>4. PICK fd \in S : x = Nfiles - fd
  BY <1>2
<1>5. \A other \in S : Nfiles - fd <= Nfiles - other
  BY <1>3, <1>4
<1>6. QED
  BY <1>4, <1>5 DEF Fds

(* The descriptor select() is told of is the highest that is watched, or   *)
(* higher when nothing was removed since.                                  *)
LEMMA GetMaxfdExact ==
  ASSUME FdTypeOK, ArraysExact
  PROVE  /\ GetMaxfd \in -1 .. Nfiles - 1
         /\ GetMaxfd \in Watching \cup {-1}
         /\ \A fd \in Watching : fd <= GetMaxfd
<1>1. Filled = Watching /\ Watching \in SUBSET Fds
  BY DEF ArraysExact, Watching
<1>2. CASE ~maxfd_changed
  BY <1>2 DEF GetMaxfd, FdTypeOK, ArraysExact, MaxExact
<1>3. CASE maxfd_changed /\ Filled = {}
  BY <1>1, <1>3 DEF GetMaxfd
<1>4. CASE maxfd_changed /\ Filled # {}
  <2>1. \E fd \in Filled : \A other \in Filled : other <= fd
    BY <1>1, <1>4, HighestFd
  <2>2. GetMaxfd \in Filled /\ \A other \in Filled : other <= GetMaxfd
    BY <1>4, <2>1 DEF GetMaxfd
  <2>3. QED
    BY <1>1, <2>2 DEF Fds
<1>5. QED
  BY <1>2, <1>3, <1>4 DEF FdTypeOK

(* The descriptors select() may find ready, in either direction.           *)
LEMMA IsSetExact ==
  ASSUME FdTypeOK, ArraysExact,
         NEW R \in SUBSET master_rfdset, NEW W \in SUBSET master_wfdset, NEW fd \in Fds
  PROVE  IsSet(fd, R, W) <=> fd \in R \cup W
<1>1. fd \in R => fd_rw[fd] = "read"
  BY DEF ArraysExact, SetsExact
<1>2. fd \in W => fd_rw[fd] = "write"
  BY DEF ArraysExact, SetsExact
<1>3. fd_rw[fd] \in {"read", "write", "none"}
  BY DEF FdTypeOK, Directions
<1>4. CASE fd_rw[fd] = "read"
  BY <1>2, <1>4 DEF IsSet
<1>5. CASE fd_rw[fd] = "write"
  BY <1>1, <1>5 DEF IsSet
<1>6. CASE fd_rw[fd] = "none"
  BY <1>1, <1>2, <1>6 DEF IsSet
<1>7. QED
  BY <1>3, <1>4, <1>5, <1>6

(* There are as many places whose descriptor is set as descriptors that    *)
(* are, so the loop over the places ends after the last of them.           *)
LEMMA HitsExact ==
  ASSUME FdTypeOK, ArraysExact,
         NEW R \in SUBSET master_rfdset, NEW W \in SUBSET master_wfdset
  PROVE  /\ Hits(R, W) \in SUBSET (0 .. nselect_fds - 1)
         /\ {select_fds[i] : i \in Hits(R, W)} = R \cup W
         /\ IsFiniteSet(R \cup W)
         /\ Cardinality(Hits(R, W)) = Cardinality(R \cup W)
         /\ Cardinality(R \cup W) <= Cardinality(R) + Cardinality(W)
         /\ Cardinality(R \cup W) <= Nfiles
<1> DEFINE H == Hits(R, W)
           f == [i \in H |-> select_fds[i]]
<1>1. H \in SUBSET (0 .. nselect_fds - 1)
  BY DEF Hits
<1>2. R \subseteq Watching /\ W \subseteq Watching /\ Watching \subseteq Fds
  BY DEF ArraysExact, SetsExact, Watching
<1>3. \A i \in 0 .. nselect_fds - 1 :
        select_fds[i] \in Fds /\ select_fdidx[select_fds[i]] = i
  BY DEF ArraysExact, IndexExact
<1>4. \A i \in 0 .. nselect_fds - 1 : i \in H <=> select_fds[i] \in R \cup W
  BY <1>3, IsSetExact DEF Hits
<1>5. \A fd \in R \cup W : \E i \in 0 .. nselect_fds - 1 : select_fds[i] = fd
  BY <1>2 DEF ArraysExact, Filled
<1>6. f \in Bijection(H, R \cup W)
  <2>1. f \in [H -> R \cup W]
    BY <1>1, <1>4
  <2>2. \A i, j \in H : f[i] = f[j] => i = j
    BY <1>1, <1>3
  <2>3. \A fd \in R \cup W : \E i \in H : f[i] = fd
    BY <1>4, <1>5
  <2>4. QED
    BY <2>1, <2>2, <2>3 DEF Bijection, Injection, IsInjective, Surjection
<1>7. IsFiniteSet(H)
  <2>1. IsFiniteSet(0 .. nselect_fds - 1)
    BY FS_Interval DEF FdTypeOK
  <2>2. QED
    BY <1>1, <2>1, FS_Subset
<1>8. IsFiniteSet(R \cup W) /\ Cardinality(H) = Cardinality(R \cup W)
  <2>1. ExistsBijection(H, R \cup W)
    BY <1>6 DEF ExistsBijection
  <2>2. QED
    BY <1>7, <2>1, FS_Bijection
<1>9. IsFiniteSet(Fds) /\ Cardinality(Fds) = Nfiles
  BY FS_Interval DEF Fds
<1>10. Cardinality(R \cup W) <= Nfiles
  BY <1>2, <1>9, FS_Subset
<1>11. Cardinality(R \cup W) <= Cardinality(R) + Cardinality(W)
  <2>1. IsFiniteSet(R) /\ IsFiniteSet(W)
    BY <1>2, <1>9, FS_Subset
  <2>2. IsFiniteSet(R \cap W)
    BY <2>1, FS_Intersection
  <2>3. /\ Cardinality(R) \in Nat /\ Cardinality(W) \in Nat
        /\ Cardinality(R \cap W) \in Nat
    BY <2>1, <2>2, FS_CardinalityType
  <2>4. Cardinality(R \cup W) = Cardinality(R) + Cardinality(W) - Cardinality(R \cap W)
    BY <2>1, FS_Union
  <2>5. QED
    BY <2>3, <2>4
<1>12. QED
  BY <1>1, <1>4, <1>5, <1>8, <1>10, <1>11

(* The list of the watch holds the descriptors that select() left in its   *)
(* sets, each once.                                                        *)
LEMMA ReadyExact ==
  ASSUME FdTypeOK, ArraysExact,
         NEW R \in SUBSET master_rfdset, NEW W \in SUBSET master_wfdset
  PROVE  /\ Ready(R, W) \in Seq(Fds)
         /\ Len(Ready(R, W)) = Cardinality(R \cup W)
         /\ {Ready(R, W)[i] : i \in 1 .. Len(Ready(R, W))} = R \cup W
         /\ \A i, j \in 1 .. Len(Ready(R, W)) :
              Ready(R, W)[i] = Ready(R, W)[j] => i = j
<1> DEFINE H == Hits(R, W)
           n == Cardinality(H)
           at(k) == CHOOSE i \in H : Ridx(H, i) = k - 1
<1>1. nselect_fds \in Nat /\ H \in SUBSET (0 .. nselect_fds - 1)
  <2>1. nselect_fds \in Nat
    BY DEF FdTypeOK
  <2>2. H \in SUBSET (0 .. nselect_fds - 1)
    BY HitsExact
  <2>3. QED
    BY <2>1, <2>2
<1>2. /\ n \in Nat /\ \A i \in H : Ridx(H, i) \in 0 .. n - 1
      /\ \A i, j \in H : i < j => Ridx(H, i) < Ridx(H, j)
  <2> HIDE DEF H
  <2> QED
    BY <1>1, RidxLess
<1>3. {i \in H : Ridx(H, i) < Cardinality(R) + Cardinality(W)} = H
  <2>1. n <= Cardinality(R) + Cardinality(W)
    BY HitsExact
  <2>2. Cardinality(R) \in Nat /\ Cardinality(W) \in Nat
    <3>1. IsFiniteSet(R \cup W) /\ R \in SUBSET (R \cup W) /\ W \in SUBSET (R \cup W)
      BY HitsExact
    <3>2. QED
      BY <3>1, FS_Subset, FS_CardinalityType
  <2>3. \A i \in H : Ridx(H, i) < Cardinality(R) + Cardinality(W)
    BY <1>2, <2>1, <2>2
  <2>4. QED
    BY <2>3
<1>4. Ready(R, W) = [k \in 1 .. n |-> select_fds[at(k)]]
  <2>1. Ready(R, W) = Listed({i \in H : Ridx(H, i) < Cardinality(R) + Cardinality(W)})
    BY DEF Ready
  <2>2. Ready(R, W) = Listed(H)
    BY <1>3, <2>1
  <2>3. QED
    BY <2>2 DEF Listed
<1>5. ASSUME NEW k \in 1 .. n PROVE at(k) \in H /\ Ridx(H, at(k)) = k - 1
  <2>1. k - 1 \in 0 .. n - 1
    BY <1>2
  <2>2. \E i \in H : Ridx(H, i) = k - 1
    <3> DEFINE m == k - 1
    <3> HIDE DEF m, H
    <3>1. m \in 0 .. Cardinality(H) - 1
      <4>1. k - 1 \in 0 .. Cardinality(H) - 1
        BY <2>1
      <4> QED
        BY <4>1 DEF m
    <3>2. \E i \in H : Ridx(H, i) = m
      BY <1>1, <3>1, RidxOnto
    <3>3. QED
      BY <3>2 DEF m
  <2>3. QED
    BY <2>2
<1>6. \A i \in H : select_fds[i] \in Fds /\ select_fdidx[select_fds[i]] = i
  BY <1>1 DEF ArraysExact, IndexExact
<1>7. ASSUME NEW i \in H PROVE \E k \in 1 .. n : at(k) = i
  <2> DEFINE k == Ridx(H, i) + 1
  <2>1. k \in 1 .. n /\ Ridx(H, i) = k - 1
    BY <1>2
  <2>2. at(k) \in H /\ Ridx(H, at(k)) = Ridx(H, i)
    BY <1>5, <2>1
  <2>3. at(k) = i
    <3> HIDE DEF k, at
    <3>1. at(k) < i \/ i < at(k) \/ at(k) = i
      BY <1>1, <2>2
    <3>2. Ridx(H, i) \in Int
      BY <1>2
    <3>3. QED
      BY <1>2, <2>2, <3>1, <3>2
  <2>4. QED
    BY <2>1, <2>3
<1> HIDE DEF at, H
<1>8. Len(Ready(R, W)) = n
  BY <1>2, <1>4
<1>9. Ready(R, W) \in Seq(Fds)
  BY <1>2, <1>4, <1>5, <1>6
<1>10. {Ready(R, W)[i] : i \in 1 .. n} = {select_fds[i] : i \in H}
  BY <1>4, <1>5, <1>7
<1>11. ASSUME NEW i \in 1 .. n, NEW j \in 1 .. n, Ready(R, W)[i] = Ready(R, W)[j]
       PROVE  i = j
  <2>1. select_fds[at(i)] = select_fds[at(j)]
    BY <1>4, <1>11
  <2>2. at(i) = at(j)
    BY <1>5, <1>6, <2>1
  <2>3. i - 1 = j - 1
    BY <1>5, <2>2
  <2>4. QED
    BY <1>2, <2>3
<1>12. n = Cardinality(R \cup W) /\ {select_fds[i] : i \in H} = R \cup W
  BY HitsExact DEF H
<1>13. QED
  BY <1>8, <1>9, <1>10, <1>11, <1>12

-----------------------------------------------------------------------------
(* The invariant                                                           *)

(* The two steps that make a watch: what it leaves in the ready list.      *)
LEMMA WatchReadyTypes ==
  ASSUME FdTypeOK, ArraysExact, WatchReady
  PROVE  FdTypeOK' /\ ReadyDistinct'
<1>1. PICK R \in SUBSET Seen(master_rfdset), W \in SUBSET Seen(master_wfdset) :
        /\ working_rfdset' = R /\ working_wfdset' = W
        /\ select_rfdidx' = Ready(R, W)
  BY DEF WatchReady
<1>2. R \in SUBSET master_rfdset /\ W \in SUBSET master_wfdset
  BY DEF Seen
<1>3. /\ select_rfdidx' \in Seq(Fds)
      /\ Len(select_rfdidx') = Cardinality(R \cup W)
      /\ \A i, j \in 1 .. Len(select_rfdidx') :
           select_rfdidx'[i] = select_rfdidx'[j] => i = j
  BY <1>1, <1>2, ReadyExact
<1>4. Len(select_rfdidx') \in 0 .. Nfiles
  <2>1. Cardinality(R \cup W) <= Nfiles
    BY <1>2, HitsExact
  <2>2. Len(select_rfdidx') \in Nat
    BY <1>3
  <2>3. QED
    BY <1>3, <2>1, <2>2
<1>5. given' \in 0 .. Nfiles /\ next_ridx' = 0
  BY <1>4 DEF WatchReady, Returned
<1>6. maxfd' \in -1 .. Nfiles - 1 /\ maxfd_changed' \in BOOLEAN
  BY GetMaxfdExact DEF WatchReady
<1>7. working_rfdset' \subseteq Fds /\ working_wfdset' \subseteq Fds
  BY <1>1, <1>2 DEF FdTypeOK
<1>8. FdTypeOK'
  BY <1>3, <1>4, <1>5, <1>6, <1>7 DEF WatchReady, tableVars, FdTypeOK, Fds
<1>9. QED
  BY <1>3, <1>8 DEF ReadyDistinct

LEMMA WatchErrorTypes ==
  ASSUME FdTypeOK, ArraysExact, WatchError
  PROVE  FdTypeOK' /\ ReadyDistinct'
<1>1. select_rfdidx' = << >> /\ next_ridx' = 0 /\ given' = -1
  BY DEF WatchError, Returned
<1>2. maxfd' \in -1 .. Nfiles - 1 /\ maxfd_changed' \in BOOLEAN
  BY GetMaxfdExact DEF WatchError
<1>3. FdTypeOK'
  BY <1>1, <1>2 DEF WatchError, tableVars, FdTypeOK, Fds
<1>4. QED
  BY <1>1, <1>3 DEF ReadyDistinct

LEMMA AddTypes ==
  ASSUME FdTypeOK, NEW fd \in Fds, NEW c \in Clients \cup {0},
         NEW rw \in Directions, AddFd(fd, c, rw)
  PROVE  FdTypeOK'
<1>1. nselect_fds \in Fds /\ nselect_fds' \in 0 .. Nfiles
  BY DEF AddFd, FdTypeOK, Fds
<1>2. /\ select_fds' \in [Fds -> Fds \cup {-1}]
      /\ select_fdidx' \in [Fds -> Fds \cup {-1}]
      /\ fd_rw' \in [Fds -> Directions \cup {"none"}]
      /\ fd_data' \in [Fds -> Clients \cup {0}]
  BY <1>1 DEF AddFd, FdTypeOK
<1>3. /\ master_rfdset' \subseteq Fds /\ master_wfdset' \subseteq Fds
      /\ maxfd' \in -1 .. Nfiles - 1
  BY DEF AddFd, FdTypeOK, Fds
<1>4. given' \in Clients \cup -1 .. Nfiles
  BY DEF AddFd
<1>5. QED
  BY <1>1, <1>2, <1>3, <1>4 DEF AddFd, FdTypeOK, readyVars

LEMMA DelTypes ==
  ASSUME FdTypeOK, ArraysExact, NEW fd \in Fds, DelFd(fd)
  PROVE  FdTypeOK'
<1> DEFINE idx == select_fdidx[fd]
           last == nselect_fds - 1
<1>1. idx \in 0 .. last /\ last \in 0 .. Nfiles - 1 /\ select_fds[last] \in Fds
  BY DEF DelFd, ArraysExact, IndexExact, FdTypeOK, Fds
<1>2. nselect_fds' \in 0 .. Nfiles
  BY <1>1 DEF DelFd
<1>3. select_fds' \in [Fds -> Fds \cup {-1}]
  BY <1>1 DEF DelFd, Moved, FdTypeOK
<1>4. select_fdidx' \in [Fds -> Fds \cup {-1}]
  BY <1>1 DEF DelFd, Renumbered, FdTypeOK
<1>5. /\ fd_rw' \in [Fds -> Directions \cup {"none"}]
      /\ fd_data' \in [Fds -> Clients \cup {0}]
      /\ master_rfdset' \subseteq Fds /\ master_wfdset' \subseteq Fds
  BY DEF DelFd, FdTypeOK
<1>6. maxfd_changed' \in BOOLEAN
  BY DEF DelFd, FdTypeOK
<1>7. given' \in Clients \cup -1 .. Nfiles
  BY DEF DelFd
<1>8. QED
  BY <1>2, <1>3, <1>4, <1>5, <1>6, <1>7 DEF DelFd, FdTypeOK, readyVars

(* The place of the list that is handed out next is one of it.             *)
LEMMA NextTypes ==
  ASSUME FdTypeOK, GetNextClientData
  PROVE  FdTypeOK'
<1>1. CASE next_ridx >= Len(select_rfdidx)
  BY <1>1 DEF GetNextClientData, FdTypeOK, tableVars, maxVars
<1>2. CASE ~(next_ridx >= Len(select_rfdidx))
  <2>1. Len(select_rfdidx) \in Nat
    BY DEF FdTypeOK
  <2>2. next_ridx + 1 \in 1 .. Len(select_rfdidx)
    BY <1>2, <2>1 DEF FdTypeOK
  <2>3. NextFd \in Fds
    BY <2>2 DEF NextFd, FdTypeOK
  <2>4. given' \in Clients \cup {0} /\ next_ridx' \in 0 .. Len(select_rfdidx)
    BY <1>2, <2>2, <2>3 DEF GetNextClientData, FdTypeOK
  <2>5. QED
    BY <2>4 DEF GetNextClientData, FdTypeOK, tableVars, maxVars
<1>3. QED
  BY <1>1, <1>2

LEMMA FdInitInv ==
  ASSUME FdInit
  PROVE  FdInv
<1>1. FdTypeOK
  <2>1. /\ fd_rw \in [Fds -> Directions \cup {"none"}]
        /\ fd_data \in [Fds -> Clients \cup {0}]
        /\ select_fds \in [Fds -> Fds \cup {-1}]
        /\ select_fdidx \in [Fds -> Fds \cup {-1}]
    BY DEF FdInit
  <2>2. /\ maxfd \in -1 .. Nfiles - 1 /\ nselect_fds \in 0 .. Nfiles
        /\ given \in Clients \cup -1 .. Nfiles
    <3>1. -1 \in -1 .. Nfiles - 1 /\ 0 \in 0 .. Nfiles /\ 0 \in -1 .. Nfiles
      OBVIOUS
    <3>2. QED
      BY <3>1 DEF FdInit
  <2>3. select_rfdidx \in Seq(Fds) /\ next_ridx \in 0 .. Len(select_rfdidx)
    BY DEF FdInit
  <2>4. QED
    BY <2>1, <2>2, <2>3 DEF FdInit, FdTypeOK
<1>2. IndexExact /\ Filled = {} /\ Watching = {}
  BY DEF FdInit, IndexExact, Filled, Watching, Fds
<1>3. SetsExact /\ MaxExact
  BY <1>2 DEF FdInit, SetsExact, MaxExact
<1>4. ReadyDistinct
  BY DEF FdInit, ReadyDistinct
<1>5. QED
  BY <1>1, <1>2, <1>3, <1>4 DEF FdInv, ArraysExact

(* The calls that leave the tables as they are.                            *)
LEMMA TablesKept ==
  ASSUME ArraysExact, UNCHANGED << tableVars, maxVars >>
  PROVE  ArraysExact'
BY DEF ArraysExact, IndexExact, Filled, Watching, SetsExact, MaxExact, tableVars, maxVars

LEMMA WatchTables ==
  ASSUME FdTypeOK, ArraysExact, UNCHANGED tableVars,
         maxfd' = GetMaxfd, maxfd_changed' = FALSE
  PROVE  ArraysExact'
<1>1. IndexExact' /\ SetsExact' /\ Filled' = Filled /\ Watching' = Watching
  BY DEF ArraysExact, IndexExact, Filled, Watching, SetsExact, tableVars
<1>2. MaxExact'
  BY <1>1, GetMaxfdExact DEF MaxExact
<1>3. QED
  BY <1>1, <1>2 DEF ArraysExact

LEMMA FdNextInv ==
  ASSUME FdInv, FdNext
  PROVE  FdInv'
<1> USE DEF FdInv
<1>1. ASSUME NEW fd \in Fds, NEW c \in Clients \cup {0}, NEW rw \in Directions,
             AddFd(fd, c, rw)
      PROVE  FdInv'
  BY <1>1, AddTypes, AddArrays DEF AddFd, ReadyDistinct, readyVars
<1>2. ASSUME NEW fd \in Fds, DelFd(fd) PROVE FdInv'
  BY <1>2, DelTypes, DelArrays DEF DelFd, ReadyDistinct, readyVars
<1>3. ASSUME NEW fd \in Fds, CheckFd(fd) PROVE FdInv'
  <2>1. UNCHANGED << tableVars, maxVars, readyVars >> /\ given' \in {0, 1}
    BY <1>3 DEF CheckFd
  <2>2. FdTypeOK'
    BY <2>1 DEF FdTypeOK, tableVars, maxVars, readyVars
  <2>3. QED
    BY <2>1, <2>2, TablesKept DEF ReadyDistinct, readyVars
<1>4. CASE WatchReady
  BY <1>4, WatchReadyTypes, WatchTables DEF WatchReady
<1>5. CASE WatchError
  BY <1>5, WatchErrorTypes, WatchTables DEF WatchError
<1>6. CASE GetNextClientData
  BY <1>6, NextTypes, TablesKept DEF GetNextClientData, ReadyDistinct
<1>7. QED
  BY <1>1, <1>2, <1>3, <1>4, <1>5, <1>6 DEF FdNext

LEMMA FdStutterInv ==
  ASSUME FdInv, UNCHANGED fdVars
  PROVE  FdInv'
<1>1. UNCHANGED << tableVars, maxVars, readyVars, given >>
  BY DEF fdVars
<1>2. FdTypeOK' /\ ReadyDistinct'
  BY <1>1 DEF FdInv, FdTypeOK, ReadyDistinct, tableVars, maxVars, readyVars
<1>3. QED
  BY <1>1, <1>2, TablesKept DEF FdInv

(* The invariant holds in every state.                                     *)
THEOREM FdInvariant == FdSpec => []FdInv
<1>1. FdInv /\ [FdNext]_fdVars => FdInv'
  BY FdNextInv, FdStutterInv
<1>2. QED
  BY <1>1, FdInitInv, PTL DEF FdSpec

(* Every index and descriptor is in its table, and the number of ready     *)
(* descriptors is at most the size of it (fdwatch.c).                      *)
THEOREM FdTypeCorrect == FdSpec => []FdTypeOK
<1>1. FdInv => FdTypeOK
  BY DEF FdInv
<1>2. QED
  BY <1>1, FdInvariant, PTL

(* The two index arrays are inverse to each other and list the watched     *)
(* descriptors, the sets given to select() are theirs, and the highest     *)
(* descriptor it is told of is not below any of them (select_add_fd(),     *)
(* select_del_fd(), select_get_maxfd()).                                   *)
THEOREM FdArraysExact == FdSpec => []ArraysExact
<1>1. FdInv => ArraysExact
  BY DEF FdInv
<1>2. QED
  BY <1>1, FdInvariant, PTL

(* There is a place for every descriptor that is not watched, and every    *)
(* one that is has a place.                                                *)
PlaceForEach ==
  \A fd \in Fds : IF fd_rw[fd] = "none" THEN nselect_fds < Nfiles
                  ELSE select_fdidx[fd] \in 0 .. nselect_fds - 1

(* The errors "too many fds" and "bad idx" are never met, so the calls     *)
(* never leave the two layers of tables apart (select_add_fd() and         *)
(* select_del_fd()).                                                       *)
THEOREM FdErrorsNotMet == FdSpec => []PlaceForEach
<1>1. ASSUME FdInv, NEW fd \in Fds, fd_rw[fd] = "none"
      PROVE  nselect_fds < Nfiles
  <2> DEFINE f == [i \in 0 .. nselect_fds - 1 |-> select_fds[i]]
             T == Fds \ {fd}
  <2>1. nselect_fds \in Nat
    BY <1>1 DEF FdInv, FdTypeOK
  <2>2. \A i \in 0 .. nselect_fds - 1 :
          select_fds[i] \in T /\ select_fdidx[select_fds[i]] = i
    <3>1. fd \notin Filled
      BY <1>1 DEF FdInv, ArraysExact, Watching
    <3>2. QED
      BY <1>1, <3>1 DEF FdInv, ArraysExact, IndexExact, Filled
  <2>3. f \in Injection(0 .. nselect_fds - 1, T)
    BY <2>2 DEF Injection, IsInjective
  <2>4. IsFiniteSet(Fds) /\ Cardinality(Fds) = Nfiles
    BY FS_Interval DEF Fds
  <2>5. IsFiniteSet(T) /\ Cardinality(T) = Nfiles - 1
    BY <2>4, FS_RemoveElement
  <2>6. Cardinality(0 .. nselect_fds - 1) <= Nfiles - 1
    BY <2>3, <2>5, FS_Injection
  <2>7. Cardinality(0 .. nselect_fds - 1) = nselect_fds
    BY <2>1, FS_Interval
  <2>8. QED
    BY <2>1, <2>6, <2>7
<1>2. ASSUME FdInv, NEW fd \in Fds, fd_rw[fd] # "none"
      PROVE  select_fdidx[fd] \in 0 .. nselect_fds - 1
  <2>1. PICK i \in 0 .. nselect_fds - 1 : fd = select_fds[i]
    BY <1>2 DEF FdInv, ArraysExact, Watching, Filled
  <2>2. QED
    BY <1>2, <2>1 DEF FdInv, ArraysExact, IndexExact
<1>3. FdInv => PlaceForEach
  BY <1>1, <1>2 DEF PlaceForEach
<1>4. QED
  BY <1>3, FdInvariant, PTL

-----------------------------------------------------------------------------
(* The arrays implement the set                                            *)

(* The list of what is still to be handed out, as a set.                   *)
LEMMA TodoEmpty ==
  ASSUME FdTypeOK, next_ridx >= Len(select_rfdidx)
  PROVE  Todo = {}
<1>1. Len(select_rfdidx) \in Nat
  BY DEF FdTypeOK
<1>2. next_ridx .. Len(select_rfdidx) - 1 = {}
  BY <1>1 DEF FdTypeOK
<1>3. QED
  BY <1>2 DEF Todo

(* An add or a removal only changes the descriptor's own entry.            *)
LEMMA AddImplements ==
  ASSUME NEW fd \in Fds, NEW c \in Clients \cup {0}, NEW rw \in Directions,
         AddFd(fd, c, rw)
  PROVE  FdSet!Next
<1>1. FdSet!Add(fd, c, rw)
  BY DEF AddFd, FdSet!Add, Hot, Todo, readyVars
<1>2. QED
  BY <1>1 DEF FdSet!Next, Directions

LEMMA DelImplements ==
  ASSUME NEW fd \in Fds, DelFd(fd)
  PROVE  FdSet!Next
<1>1. FdSet!Del(fd)
  BY DEF DelFd, FdSet!Del, Hot, Todo, readyVars
<1>2. QED
  BY <1>1 DEF FdSet!Next

LEMMA CheckImplements ==
  ASSUME FdTypeOK, NEW fd \in Fds, CheckFd(fd)
  PROVE  FdSet!Next
<1>1. fd_rw[fd] \in {"read", "write"}
  BY DEF CheckFd, FdTypeOK, Directions
<1>2. IsSet(fd, working_rfdset, working_wfdset) <=> << fd, fd_rw[fd] >> \in Hot
  <2>1. CASE fd_rw[fd] = "read"
    BY <2>1 DEF IsSet, Hot
  <2>2. CASE fd_rw[fd] = "write"
    BY <2>2 DEF IsSet, Hot
  <2>3. QED
    BY <1>1, <2>1, <2>2
<1>3. FdSet!Check(fd)
  BY <1>2 DEF CheckFd, FdSet!Check, Hot, Todo, tableVars, readyVars
<1>4. QED
  BY <1>3 DEF FdSet!Next

(* A watch hands out exactly what select() left in its sets.               *)
LEMMA WatchImplements ==
  ASSUME FdTypeOK, ArraysExact, WatchReady
  PROVE  FdSet!Next
<1>1. PICK R \in SUBSET Seen(master_rfdset), W \in SUBSET Seen(master_wfdset) :
        /\ working_rfdset' = R /\ working_wfdset' = W
        /\ select_rfdidx' = Ready(R, W)
  BY DEF WatchReady
<1>2. R \in SUBSET master_rfdset /\ W \in SUBSET master_wfdset
  BY DEF Seen
<1>3. R \cup W \subseteq FdSet!Watched /\ R \cup W \subseteq Fds
  BY <1>2 DEF ArraysExact, SetsExact, FdSet!Watched
<1>4. Hot' = {<< fd, fd_rw[fd] >> : fd \in R \cup W}
  <2>1. Hot' = {<< fd, "read" >> : fd \in R} \cup {<< fd, "write" >> : fd \in W}
    BY <1>1 DEF Hot
  <2>2. (\A fd \in R : fd_rw[fd] = "read") /\ (\A fd \in W : fd_rw[fd] = "write")
    BY <1>2 DEF ArraysExact, SetsExact
  <2>3. QED
    BY <2>1, <2>2
<1>5. Todo' = R \cup W /\ given' = Cardinality(R \cup W)
  <2> DEFINE list == Ready(R, W)
  <2>1. /\ list \in Seq(Fds) /\ Len(list) = Cardinality(R \cup W)
        /\ {list[i] : i \in 1 .. Len(list)} = R \cup W
    BY <1>2, ReadyExact
  <2>2. select_rfdidx' = list /\ next_ridx' = 0 /\ given' = Len(list)
    BY <1>1 DEF WatchReady, Returned
  <2> HIDE DEF list
  <2>3. Todo' = {list[i + 1] : i \in 0 .. Len(list) - 1}
    BY <2>2 DEF Todo
  <2>4. {list[i + 1] : i \in 0 .. Len(list) - 1} = {list[i] : i \in 1 .. Len(list)}
    <3>1. Len(list) \in Nat
      BY <2>1
    <3>2. \A i \in 0 .. Len(list) - 1 : i + 1 \in 1 .. Len(list)
      BY <3>1
    <3>3. \A i \in 1 .. Len(list) : i - 1 \in 0 .. Len(list) - 1 /\ (i - 1) + 1 = i
      BY <3>1
    <3>4. QED
      BY <3>2, <3>3
  <2>5. QED
    BY <2>1, <2>2, <2>3, <2>4
<1>6. FdSet!Watch(R \cup W)
  <2>1. UNCHANGED << fd_rw, fd_data >>
    BY DEF WatchReady, tableVars
  <2> DEFINE S == R \cup W
  <2>2. S \subseteq FdSet!Watched /\ Todo' = S /\ given' = Cardinality(S)
        /\ Hot' = {<< fd, fd_rw[fd] >> : fd \in S}
    BY <1>3, <1>4, <1>5
  <2> HIDE DEF S
  <2>3. FdSet!Cardinality(S) = Cardinality(S)
    BY DEF FdSet!Cardinality, Cardinality
  <2>4. FdSet!Watch(S)
    BY <2>1, <2>2, <2>3 DEF FdSet!Watch
  <2>5. QED
    BY <2>4 DEF S
<1>7. QED
  BY <1>3, <1>6 DEF FdSet!Next

LEMMA WatchErrorImplements ==
  ASSUME FdTypeOK, ArraysExact, WatchError
  PROVE  FdSet!Next
<1>1. Hot' = {<< fd, fd_rw[fd] >> : fd \in FdSet!Watched}
  <2>1. Hot' = {<< fd, "read" >> : fd \in master_rfdset}
                 \cup {<< fd, "write" >> : fd \in master_wfdset}
    BY DEF Hot, WatchError
  <2>2. /\ \A fd \in master_rfdset : fd_rw[fd] = "read"
        /\ \A fd \in master_wfdset : fd_rw[fd] = "write"
        /\ FdSet!Watched = master_rfdset \cup master_wfdset
    BY DEF ArraysExact, SetsExact, FdSet!Watched, FdTypeOK, Directions
  <2>3. QED
    BY <2>1, <2>2
<1>2. Todo' = {}
  BY DEF WatchError, Returned, Todo
<1>3. FdSet!WatchFails
  BY <1>1, <1>2 DEF WatchError, FdSet!WatchFails, FdSet!Ends, tableVars
<1>4. QED
  BY <1>3 DEF FdSet!Next

(* The next place of the list holds a descriptor that is not in the rest   *)
(* of it.                                                                  *)
LEMMA NextImplements ==
  ASSUME FdTypeOK, ReadyDistinct, GetNextClientData
  PROVE  FdSet!Next
<1> DEFINE n == Len(select_rfdidx)
<1>1. n \in Nat /\ next_ridx \in 0 .. n /\ select_rfdidx \in Seq(Fds)
  BY DEF FdTypeOK
<1>2. UNCHANGED << fd_rw, fd_data, Hot >> /\ select_rfdidx' = select_rfdidx
  BY DEF GetNextClientData, tableVars, Hot
<1>3. CASE next_ridx >= n
  <2>1. Todo' = Todo /\ Todo = {} /\ given' = -1
    BY <1>2, <1>3, TodoEmpty DEF GetNextClientData, Todo
  <2>2. FdSet!HandOutEnds
    BY <1>2, <2>1 DEF FdSet!HandOutEnds, FdSet!Ends
  <2>3. QED
    BY <2>2 DEF FdSet!Next
<1>4. CASE ~(next_ridx >= n)
  <2>1. next_ridx' = next_ridx + 1 /\ given' = fd_data[NextFd]
    BY <1>4 DEF GetNextClientData
  <2>2. next_ridx \in 0 .. n - 1 /\ next_ridx + 1 \in 1 .. n
    BY <1>1, <1>4
  <2>3. NextFd \in Fds /\ NextFd \in Todo
    BY <1>1, <2>2 DEF NextFd, Todo
  <2>4. Todo' = {select_rfdidx[i + 1] : i \in next_ridx + 1 .. n - 1}
    BY <1>2, <2>1 DEF Todo
  <2>5. \A i \in next_ridx + 1 .. n - 1 :
          i \in next_ridx .. n - 1 /\ select_rfdidx[i + 1] # NextFd
    <3> SUFFICES ASSUME NEW i \in next_ridx + 1 .. n - 1
                 PROVE  i \in next_ridx .. n - 1 /\ select_rfdidx[i + 1] # NextFd
      OBVIOUS
    <3>1. i \in next_ridx .. n - 1 /\ i + 1 \in 1 .. n /\ i + 1 # next_ridx + 1
      BY <1>1, <2>2
    <3>2. QED
      BY <2>2, <3>1 DEF ReadyDistinct, NextFd
  <2>6. \A i \in next_ridx .. n - 1 : i = next_ridx \/ i \in next_ridx + 1 .. n - 1
    BY <1>1
  <2>7. Todo' = Todo \ {NextFd}
    BY <2>4, <2>5, <2>6 DEF Todo, NextFd
  <2>8. FdSet!HandOut(NextFd)
    BY <1>2, <2>1, <2>3, <2>7 DEF FdSet!HandOut
  <2>9. QED
    BY <2>3, <2>8 DEF FdSet!Next
<1>5. QED
  BY <1>3, <1>4

LEMMA FdInitImplements ==
  ASSUME FdInit
  PROVE  FdSet!Init
<1>1. Hot = {} /\ Todo = {}
  BY DEF FdInit, Hot, Todo
<1>2. QED
  BY <1>1 DEF FdInit, FdSet!Init

(* The array package implements a set of descriptors: after a watch every  *)
(* descriptor found ready is handed out once, no other is, and with the    *)
(* data it has by then, however descriptors were added and removed in      *)
(* between (fdwatch(), select_watch(), fdwatch_get_next_client_data()).    *)
THEOREM FdImplements == FdSpec => IsFdSet
<1>1. FdInit => FdSet!Init
  BY FdInitImplements
<1>2. FdInv /\ FdNext => FdSet!Next
  BY AddImplements, DelImplements, CheckImplements, WatchImplements,
     WatchErrorImplements, NextImplements DEF FdInv, FdNext
<1>3. UNCHANGED fdVars => UNCHANGED FdSet!vars
  BY DEF fdVars, tableVars, maxVars, readyVars, FdSet!vars, Hot, Todo
<1>4. FdInv /\ [FdNext]_fdVars => [FdSet!Next]_(FdSet!vars)
  BY <1>2, <1>3
<1>5. QED
  BY <1>1, <1>4, FdInvariant, PTL DEF FdSpec, IsFdSet, FdSet!Spec

-----------------------------------------------------------------------------
(* Children, kill timers and watchdog                                      *)

(* What the threads hold of the counter while they change it: no more than *)
(* was counted up, and no less than what was taken off.                    *)
Floor == Counted + failed - starts

CountBounds ==
  /\ Counted + failed <= starts
  /\ cgi_count <= starts /\ Floor <= cgi_count
  /\ loaded <= starts /\ Floor <= loaded
  /\ \A th \in Threads : held[th] <= starts /\ Floor <= held[th]
  /\ pc \in {"load", "store"} => starts < MaxStarts
  /\ pc = "fork" => failed < starts

(* The alarm against the timer of occasional().  While the flag is down,   *)
(* the alarm is two periods behind the timer; and with the ticks since the *)
(* timers were run it adds up to one alarm, or to two once it has taken    *)
(* the flag down.                                                          *)
ClockExact ==
  /\ since \in Nat /\ since <= 2 * AlarmTime
  /\ pc # "timers" =>
       since + alarm_left <= IF watchdog_flag THEN AlarmTime ELSE 2 * AlarmTime
  /\ since + occasional_left > 0
  /\ ~watchdog_flag => alarm_left >= occasional_left + 2 * OccasionalTime
  /\ aborted => since > 2 * OccasionalTime

(* The inductive invariant.                                                *)
SigInv ==
  /\ SigTypeOK
  /\ CountBounds
  /\ ChildrenCounted
  /\ KillArmed
  /\ ClockExact

USE PidsAssumption, TimesAssumption

-----------------------------------------------------------------------------
(* Counting children                                                       *)

Unreaped == {p \in Pids : children[p] # "none"}

(* The number of children that were not reaped is a number.                *)
LEMMA UnreapedFinite ==
  IsFiniteSet(Unreaped) /\ Cardinality(Unreaped) \in Nat
BY FS_Subset, FS_CardinalityType DEF Unreaped

(* A child that is forked is one more, one that is reaped is one less.     *)
LEMMA ForkCounts ==
  ASSUME SigTypeOK, NEW p \in Pids, Fork(p)
  PROVE  Cardinality(Unreaped') = Cardinality(Unreaped) + 1
<1>1. Unreaped' = Unreaped \cup {p} /\ p \notin Unreaped
  BY DEF SigTypeOK, Fork, Unreaped
<1>2. QED
  BY <1>1, UnreapedFinite, FS_AddElement

LEMMA ReapCounts ==
  ASSUME SigTypeOK, NEW th \in Threads, NEW p \in Pids, Reap(th, p)
  PROVE  Cardinality(Unreaped') = Cardinality(Unreaped) - 1
<1>1. Unreaped' = Unreaped \ {p} /\ p \in Unreaped
  BY DEF SigTypeOK, Reap, Zombies, Unreaped
<1>2. QED
  BY <1>1, UnreapedFinite, FS_RemoveElement

(* A child that ends is still to be reaped.                                *)
LEMMA EndsCounts ==
  ASSUME SigTypeOK, NEW p \in Pids, children[p] = "running", Ends(p)
  PROVE  Unreaped' = Unreaped
BY DEF SigTypeOK, Ends, Unreaped

(* The distance of two numbers.                                            *)
LEMMA DistanceType ==
  ASSUME NEW a \in Int, NEW b \in Int
  PROVE  /\ Distance(a, b) \in Nat
         /\ a - b <= Distance(a, b) /\ b - a <= Distance(a, b)
BY DEF Distance

-----------------------------------------------------------------------------
(* The counter                                                             *)

(* The steps of children, counters and timers that leave the counter and   *)
(* what it counts as they are.                                             *)
CountsKept ==
  /\ UNCHANGED << countVars, starts, failed >>
  /\ Unreaped' = Unreaped
  /\ pc' = pc \/ {pc, pc'} \subseteq {"loop", "stalled", "timers"}
  /\ TakingOff("main")' = TakingOff("main")
  /\ TakingOff("http")' = TakingOff("http")

LEMMA CountsKeptInv ==
  ASSUME SigTypeOK, CountBounds, CountNear, CountsKept
  PROVE  CountBounds' /\ CountNear'
<1>1. (pc' = "fork") <=> (pc = "fork")
  BY DEF CountsKept
<1>2. Counted' = Counted
  BY <1>1 DEF CountsKept, Counted, Unreaped
<1>3. QED
  BY <1>1, <1>2 DEF CountBounds, Floor, CountNear, CountsKept, countVars

(* A handler that goes from a place to another.                            *)
LEMMA TakingOffStep ==
  ASSUME SigTypeOK, NEW th \in Threads, NEW place, GoesTo(th, place)
  PROVE  /\ TakingOff(th)' = IF place \in {"load", "store"} THEN 1 ELSE 0
         /\ \A x \in Threads \ {th} : TakingOff(x)' = TakingOff(x)
BY DEF SigTypeOK, GoesTo, TakingOff

(* The children that are being taken off the count.                        *)
OffCount == TakingOff("main") + TakingOff("http")

(* So they are one less, one more or as many.                              *)
LEMMA OffCountStep ==
  ASSUME SigTypeOK, NEW th \in Threads, NEW place, GoesTo(th, place)
  PROVE  OffCount' = OffCount - TakingOff(th) + TakingOff(th)'
<1>1. /\ TakingOff("main") \in Int /\ TakingOff("http") \in Int
      /\ TakingOff("main")' \in Int /\ TakingOff("http")' \in Int
  BY DEF TakingOff
<1>2. \A x \in Threads \ {th} : TakingOff(x)' = TakingOff(x)
  BY TakingOffStep
<1>3. CASE th = "main"
  <2>1. TakingOff("http")' = TakingOff("http")
    BY <1>2, <1>3 DEF Threads
  <2>2. QED
    BY <1>1, <1>3, <2>1 DEF OffCount
<1>4. CASE th = "http"
  <2>1. TakingOff("main")' = TakingOff("main")
    BY <1>2, <1>4 DEF Threads
  <2>2. QED
    BY <1>1, <1>4, <2>1 DEF OffCount
<1>5. QED
  BY <1>3, <1>4 DEF Threads

(* Every step that does not change the counter, fork or reap.              *)
LEMMA OthersKeepCounts ==
  ASSUME SigTypeOK, SigNext
  PROVE  \/ CountsKept
         \/ CheckLimit \/ LoadCount \/ StoreCount \/ ForkFails
         \/ \E p \in Pids : Fork(p)
         \/ \E th \in Threads, p \in Pids : Reap(th, p)
         \/ \E th \in Threads : LoadDown(th) \/ StoreDown(th) \/ ClampZero(th)
<1>1. CASE Stall \/ GoesOn \/ RunTimers \/ TimersDone
  BY <1>1 DEF Stall, GoesOn, RunTimers, TimersDone, CountsKept, At, Unreaped,
              TakingOff, countVars, childVars, startVars
<1>2. CASE Occasional \/ HandleAlrm \/ Tick \/ Aborted
  BY <1>2 DEF Occasional, HandleAlrm, Tick, Aborted, CountsKept, Unreaped, TakingOff,
              sigVars, countVars, childVars, startVars
<1>6. ASSUME NEW th \in Threads, HandleChld(th) \/ NoneLeft(th) \/ Clamp(th)
      PROVE  CountsKept
  <2>1. PICK place \in {"idle", "wait", "zero"} : GoesTo(th, place)
    BY <1>6 DEF HandleChld, NoneLeft, Clamp
  <2>2. handler[th] \in {"idle", "wait", "clamp"}
    BY <1>6 DEF HandleChld, NoneLeft, Clamp, In
  <2>3. TakingOff(th)' = 0 /\ TakingOff(th) = 0
    BY <2>1, <2>2, TakingOffStep DEF TakingOff
  <2>4. \A x \in Threads : TakingOff(x)' = TakingOff(x)
    BY <2>1, <2>3, TakingOffStep
  <2>5. TakingOff("main")' = TakingOff("main") /\ TakingOff("http")' = TakingOff("http")
    BY <2>4 DEF Threads
  <2>6. Unreaped' = Unreaped /\ UNCHANGED << pc, countVars, starts, failed >>
    BY <1>6 DEF HandleChld, NoneLeft, Clamp, Unreaped, childVars, startVars
  <2>7. QED
    BY <2>5, <2>6 DEF CountsKept
<1>3. ASSUME NEW k \in kills, CgiKill(k) \/ CgiKill2(k) PROVE CountsKept
  <2>1. k.pid \in Pids
    BY DEF SigTypeOK
  <2>2. (children[k.pid] = "running" /\ Ends(k.pid)) \/ UNCHANGED childVars
    BY <1>3 DEF CgiKill, CgiKill2
  <2>3. Unreaped' = Unreaped
    BY <2>1, <2>2, EndsCounts DEF childVars, Unreaped
  <2>4. QED
    BY <1>3, <2>3 DEF CgiKill, CgiKill2, CountsKept, TakingOff, startVars
<1>4. ASSUME NEW p \in Pids, Exit(p) PROVE CountsKept
  BY <1>4, EndsCounts DEF Exit, CountsKept, TakingOff, startVars
<1>5. QED
  BY <1>1, <1>2, <1>3, <1>4, <1>6 DEF SigNext

(* The counter is off by the updates that were overwritten and by the      *)
(* forks that failed, after every step.                                    *)
LEMMA CountsStep ==
  ASSUME SigTypeOK, CountBounds, CountNear, SigNext
  PROVE  CountBounds' /\ CountNear'
<1> DEFINE n == Cardinality(Unreaped)
           k == OffCount
           f == IF pc = "fork" THEN 1 ELSE 0
<1>1. n \in Nat /\ n' \in Int
  <2>1. n \in Nat
    BY UnreapedFinite
  <2>2. IsFiniteSet(Unreaped')
    BY FS_Subset DEF Unreaped
  <2>3. QED
    BY <2>1, <2>2, FS_CardinalityType
<1>2. k \in Nat /\ k' \in Nat /\ f \in Nat /\ f' \in Nat
  BY DEF OffCount, TakingOff
<1>3. Counted = n + f + k /\ Counted' = n' + f' + k'
  <2>1. /\ Counted = n + f + TakingOff("main") + TakingOff("http")
        /\ Counted' = n' + f' + TakingOff("main")' + TakingOff("http")'
    BY DEF Counted, Unreaped
  <2>2. /\ TakingOff("main") \in Nat /\ TakingOff("http") \in Nat
        /\ TakingOff("main")' \in Nat /\ TakingOff("http")' \in Nat
    BY DEF TakingOff
  <2> DEFINE a == TakingOff("main")
             b == TakingOff("http")
  <2> HIDE DEF n, f, a, b
  <2>3. QED
    BY <1>1, <1>2, <2>1, <2>2 DEF a, b, OffCount
<1>4. /\ {cgi_count, loaded, starts, failed} \subseteq Int
      /\ held \in [Threads -> Int]
      /\ lost \in Nat /\ MaxStarts \in Nat
      /\ failed >= 0 /\ starts >= 0
  BY DEF SigTypeOK
<1>5. CASE CountsKept
  BY <1>5, CountsKeptInv
<1>6. CASE CheckLimit \/ LoadCount \/ ForkFails
  <2>1. n' = n /\ k' = k
    BY <1>6 DEF CheckLimit, LoadCount, ForkFails, childVars, Unreaped, OffCount, TakingOff
  <2>2. f' = IF pc' = "fork" THEN 1 ELSE 0
    OBVIOUS
  <2> HIDE DEF n, k
  <2>3. QED
    BY <1>1, <1>2, <1>3, <1>4, <1>6, <2>1
    DEF CheckLimit, LoadCount, ForkFails, At, countVars, startVars, CountBounds, Floor,
        CountNear
<1>7. CASE StoreCount
  <2>1. n' = n /\ k' = k /\ f = 0 /\ f' = 1
    BY <1>7 DEF StoreCount, At, childVars, Unreaped, OffCount, TakingOff
  <2>2. /\ lost' = lost + Distance(loaded, cgi_count)
        /\ Distance(loaded, cgi_count) \in Nat
        /\ loaded - cgi_count <= Distance(loaded, cgi_count)
        /\ cgi_count - loaded <= Distance(loaded, cgi_count)
    BY <1>4, <1>7, DistanceType DEF StoreCount, Overwritten
  <2> HIDE DEF n, k, f
  <2>3. CountNear'
    BY <1>1, <1>2, <1>3, <1>4, <1>7, <2>1, <2>2 DEF StoreCount, CountNear
  <2>4. CountBounds'
    BY <1>1, <1>2, <1>3, <1>4, <1>7, <2>1
    DEF StoreCount, At, CountBounds, Floor, SigTypeOK
  <2>5. QED
    BY <2>3, <2>4
<1>8. ASSUME NEW p \in Pids, Fork(p) PROVE CountBounds' /\ CountNear'
  <2>1. n' = n + 1
    BY <1>8, ForkCounts
  <2>2. k' = k /\ f = 1 /\ f' = 0
    BY <1>8 DEF Fork, At, OffCount, TakingOff
  <2> HIDE DEF n, k, f
  <2>3. QED
    BY <1>1, <1>2, <1>3, <1>4, <1>8, <2>1, <2>2
    DEF Fork, At, countVars, startVars, CountBounds, Floor, CountNear
<1>9. ASSUME NEW th \in Threads, NEW p \in Pids, Reap(th, p)
      PROVE  CountBounds' /\ CountNear'
  <2>1. n' = n - 1
    BY <1>9, ReapCounts
  <2>2. GoesTo(th, "load") /\ TakingOff(th) = 0
    BY <1>9 DEF Reap, In, TakingOff
  <2>3. k' = k + 1
    <3>1. TakingOff(th)' = 1
      BY <2>2, TakingOffStep
    <3>2. k' = k - TakingOff(th) + TakingOff(th)'
      BY <2>2, OffCountStep
    <3> HIDE DEF k
    <3>3. QED
      BY <1>2, <2>2, <3>1, <3>2
  <2>4. f' = f
    BY <1>9 DEF Reap
  <2> HIDE DEF n, k, f
  <2>5. QED
    BY <1>1, <1>2, <1>3, <1>4, <1>9, <2>1, <2>3, <2>4
    DEF Reap, countVars, startVars, CountBounds, Floor, CountNear
<1>10. ASSUME NEW th \in Threads, LoadDown(th) PROVE CountBounds' /\ CountNear'
  <2>1. GoesTo(th, "store") /\ TakingOff(th) = 1
    BY <1>10 DEF LoadDown, In, TakingOff
  <2>2. k' = k
    <3>1. TakingOff(th)' = 1
      BY <2>1, TakingOffStep
    <3>2. k' = k - TakingOff(th) + TakingOff(th)'
      BY <2>1, OffCountStep
    <3> HIDE DEF k
    <3>3. QED
      BY <1>2, <2>1, <3>1, <3>2
  <2>3. n' = n /\ f' = f
    BY <1>10 DEF LoadDown, childVars, Unreaped
  <2>4. \A x \in Threads : held'[x] \in {held[x], cgi_count}
    BY <1>4, <1>10 DEF LoadDown
  <2> HIDE DEF n, k, f
  <2>5. QED
    BY <1>1, <1>2, <1>3, <1>4, <1>10, <2>2, <2>3, <2>4
    DEF LoadDown, startVars, CountBounds, Floor, CountNear
<1>11. ASSUME NEW th \in Threads, StoreDown(th) PROVE CountBounds' /\ CountNear'
  <2>1. GoesTo(th, "clamp") /\ TakingOff(th) = 1
    BY <1>11 DEF StoreDown, In, TakingOff
  <2>2. k' = k - 1
    <3>1. TakingOff(th)' = 0
      BY <2>1, TakingOffStep
    <3>2. k' = k - TakingOff(th) + TakingOff(th)'
      BY <2>1, OffCountStep
    <3> HIDE DEF k
    <3>3. QED
      BY <1>2, <2>1, <3>1, <3>2
  <2>3. n' = n /\ f' = f
    BY <1>11 DEF StoreDown, childVars, Unreaped
  <2> DEFINE d == held[th]
  <2>4. d \in Int /\ d <= starts /\ Floor <= d
    BY <1>4 DEF CountBounds
  <2>5. /\ lost' = lost + Distance(d, cgi_count)
        /\ Distance(d, cgi_count) \in Nat
        /\ d - cgi_count <= Distance(d, cgi_count)
        /\ cgi_count - d <= Distance(d, cgi_count)
    BY <1>4, <1>11, <2>4, DistanceType DEF StoreDown, Overwritten
  <2>6. \A x \in Threads : held'[x] \in {held[x], 0}
    BY <1>4, <1>11 DEF StoreDown
  <2>7. cgi_count' = d - 1
    BY <1>11 DEF StoreDown
  <2> HIDE DEF n, k, f, d
  <2>8. CountNear'
    BY <1>1, <1>2, <1>3, <1>4, <1>11, <2>2, <2>3, <2>4, <2>5, <2>7
    DEF StoreDown, startVars, CountNear
  <2>9. Counted' = Counted - 1
    BY <1>1, <1>2, <1>3, <2>2, <2>3
  <2>10. CountBounds'
    <3>1. UNCHANGED << pc, loaded, starts, failed >>
      BY <1>11 DEF StoreDown, startVars
    <3>2. Counted \in Int /\ Floor = Counted + failed - starts
      BY <1>1, <1>2, <1>3 DEF Floor
    <3>3. Floor' = Floor - 1
      BY <1>4, <2>9, <3>1, <3>2 DEF Floor
    <3>4. /\ Counted + failed <= starts /\ Floor <= loaded /\ loaded <= starts
          /\ \A x \in Threads : held[x] <= starts /\ Floor <= held[x]
          /\ pc \in {"load", "store"} => starts < MaxStarts
          /\ pc = "fork" => failed < starts
      BY DEF CountBounds
    <3> HIDE DEF Floor, Counted
    <3>5. Counted' + failed' <= starts'
      BY <1>4, <2>9, <3>1, <3>2, <3>4
    <3>6. cgi_count' <= starts' /\ Floor' <= cgi_count'
      BY <1>4, <2>4, <2>7, <3>1, <3>2, <3>3
    <3>7. loaded' <= starts' /\ Floor' <= loaded'
      BY <1>4, <3>1, <3>2, <3>3, <3>4
    <3>8. ASSUME NEW x \in Threads PROVE held'[x] <= starts' /\ Floor' <= held'[x]
      <4>1. Floor <= 0 /\ 0 <= starts
        BY <1>4, <3>2, <3>4
      <4>2. held[x] \in Int /\ held[x] <= starts /\ Floor <= held[x]
        BY <1>4, <3>4
      <4>3. held'[x] \in {held[x], 0}
        BY <2>6
      <4>4. QED
        BY <1>4, <3>1, <3>2, <3>3, <4>1, <4>2, <4>3
    <3>9. QED
      BY <3>1, <3>4, <3>5, <3>6, <3>7, <3>8 DEF CountBounds
  <2>11. QED
    BY <2>8, <2>10
<1>12. ASSUME NEW th \in Threads, ClampZero(th) PROVE CountBounds' /\ CountNear'
  <2>1. GoesTo(th, "wait") /\ TakingOff(th) = 0
    BY <1>12 DEF ClampZero, In, TakingOff
  <2>2. k' = k
    <3>1. TakingOff(th)' = 0
      BY <2>1, TakingOffStep
    <3>2. k' = k - TakingOff(th) + TakingOff(th)'
      BY <2>1, OffCountStep
    <3> HIDE DEF k
    <3>3. QED
      BY <1>2, <2>1, <3>1, <3>2
  <2>3. n' = n /\ f' = f
    BY <1>12 DEF ClampZero, childVars, Unreaped
  <2> HIDE DEF n, k, f
  <2>4. QED
    BY <1>1, <1>2, <1>3, <1>4, <1>12, <2>2, <2>3
    DEF ClampZero, startVars, CountBounds, Floor, CountNear
<1>13. QED
  BY <1>5, <1>6, <1>7, <1>8, <1>9, <1>10, <1>11, <1>12, OthersKeepCounts

-----------------------------------------------------------------------------
(* The children that exited, and the kills before those that run           *)

(* A step of a handler of SIGCHLD other than a reap.                       *)
HandlerStep(th) ==
  \/ HandleChld(th) \/ NoneLeft(th) \/ LoadDown(th) \/ StoreDown(th)
  \/ Clamp(th) \/ ClampZero(th)

(* A child that exited has a signal pending, or the handler that reaps in  *)
(* a loop is not done.                                                     *)
LEMMA ZombiesStep ==
  ASSUME SigTypeOK, NoneForgotten, SigNext
  PROVE  NoneForgotten'
<1>1. CASE UNCHANGED << childVars, handler >>
  BY <1>1 DEF NoneForgotten, Zombies, childVars
<1>2. ASSUME NEW p \in Pids, Ends(p) PROVE NoneForgotten'
  BY <1>2 DEF Ends, NoneForgotten
<1>3. ASSUME NEW p \in Pids, Fork(p) PROVE NoneForgotten'
  <2>1. Zombies' = Zombies
    BY <1>3 DEF Fork, Zombies, SigTypeOK
  <2>2. QED
    BY <1>3, <2>1 DEF Fork, NoneForgotten
<1>4. ASSUME NEW th \in Threads, HandlerStep(th) PROVE NoneForgotten'
  <2>1. CASE NoneLeft(th)
    BY <2>1 DEF NoneLeft, NoneForgotten, Zombies, childVars
  <2>2. CASE ~ NoneLeft(th)
    <3>1. handler'[th] # "idle"
      BY <1>4, <2>2 DEF HandlerStep, HandleChld, LoadDown, StoreDown, Clamp, ClampZero,
                        GoesTo, SigTypeOK
    <3>2. QED
      BY <3>1 DEF NoneForgotten
  <2>3. QED
    BY <2>1, <2>2
<1>5. ASSUME NEW th \in Threads, NEW p \in Pids, Reap(th, p) PROVE NoneForgotten'
  <2>1. handler'[th] # "idle"
    BY <1>5 DEF Reap, GoesTo, SigTypeOK
  <2>2. QED
    BY <2>1 DEF NoneForgotten
<1>6. ASSUME NEW k \in kills, CgiKill(k) \/ CgiKill2(k) PROVE NoneForgotten'
  <2>1. k.pid \in Pids /\ handler' = handler
    BY <1>6 DEF SigTypeOK, CgiKill, CgiKill2
  <2>2. Ends(k.pid) \/ UNCHANGED childVars
    BY <1>6 DEF CgiKill, CgiKill2
  <2>3. QED
    BY <1>1, <1>2, <2>1, <2>2
<1>7. ASSUME NEW p \in Pids, Exit(p) PROVE NoneForgotten'
  BY <1>2, <1>7 DEF Exit
<1>8. CASE CheckLimit \/ LoadCount \/ StoreCount \/ ForkFails \/ Stall \/ GoesOn
             \/ RunTimers \/ Occasional \/ TimersDone
  BY <1>1, <1>8 DEF CheckLimit, LoadCount, StoreCount, ForkFails, Stall, GoesOn,
                    RunTimers, Occasional, TimersDone
<1>9. CASE HandleAlrm \/ Tick \/ Aborted
  BY <1>1, <1>9 DEF HandleAlrm, Tick, Aborted, sigVars
<1>10. QED
  BY <1>3, <1>4, <1>5, <1>6, <1>7, <1>8, <1>9 DEF SigNext, HandlerStep

(* A kill timer is only dropped when its process is gone or ends with it,  *)
(* or for the harder one that follows.                                     *)
LEMMA KillsStep ==
  ASSUME SigTypeOK, KillArmed, SigNext
  PROVE  KillArmed'
<1>1. CASE UNCHANGED << children, kills >>
  BY <1>1 DEF KillArmed
<1>2. ASSUME NEW p \in Pids, Ends(p), kills' = kills PROVE KillArmed'
  BY <1>2 DEF Ends, KillArmed, SigTypeOK
<1>3. ASSUME NEW p \in Pids, Fork(p) PROVE KillArmed'
  <2>1. Soft(p) \in kills' /\ Soft(p).pid = p
    BY <1>3 DEF Fork, Soft
  <2>2. kills \subseteq kills' /\ \A q \in Pids \ {p} : children'[q] = children[q]
    BY <1>3 DEF Fork, SigTypeOK
  <2>3. QED
    BY <2>1, <2>2 DEF KillArmed
<1>4. ASSUME NEW th \in Threads, NEW p \in Pids, Reap(th, p) PROVE KillArmed'
  BY <1>4 DEF Reap, KillArmed, SigTypeOK
<1>5. ASSUME NEW k \in kills, CgiKill(k) PROVE KillArmed'
  <2> SUFFICES ASSUME NEW p \in Pids, children'[p] = "running"
               PROVE  \E x \in kills' : x.pid = p
    BY DEF KillArmed
  <2>1. k.pid \in Pids /\ children[p] = "running"
    BY <1>5 DEF SigTypeOK, CgiKill, Ends, childVars
  <2>2. PICK x \in kills : x.pid = p
    BY <2>1 DEF KillArmed
  <2>3. CASE x # k
    BY <1>5, <2>2, <2>3 DEF CgiKill
  <2>4. CASE x = k
    <3>1. Hard(p) \in kills' /\ Hard(p).pid = p
      BY <1>5, <2>1, <2>2, <2>4 DEF CgiKill, Hard
    <3>2. QED
      BY <3>1
  <2>5. QED
    BY <2>3, <2>4
<1>6. ASSUME NEW k \in kills, CgiKill2(k) PROVE KillArmed'
  <2> SUFFICES ASSUME NEW p \in Pids, children'[p] = "running"
               PROVE  \E x \in kills' : x.pid = p
    BY DEF KillArmed
  <2>1. children[p] = "running" /\ p # k.pid
    BY <1>6 DEF SigTypeOK, CgiKill2, Ends, childVars
  <2>2. QED
    BY <1>6, <2>1 DEF KillArmed, CgiKill2
<1>7. CASE Tick
  <2>1. children' = children /\ kills' = {Sooner(k) : k \in kills}
    BY <1>7 DEF Tick, childVars
  <2>2. \A k \in kills : Sooner(k).pid = k.pid
    BY DEF Sooner, SigTypeOK
  <2>3. QED
    BY <2>1, <2>2 DEF KillArmed
<1>8. ASSUME NEW p \in Pids, Exit(p) PROVE KillArmed'
  BY <1>2, <1>8 DEF Exit
<1>9. CASE CheckLimit \/ LoadCount \/ StoreCount \/ ForkFails \/ Stall \/ GoesOn
             \/ RunTimers \/ Occasional \/ TimersDone
  BY <1>1, <1>9 DEF CheckLimit, LoadCount, StoreCount, ForkFails, Stall, GoesOn,
                    RunTimers, Occasional, TimersDone, childVars
<1>10. CASE HandleAlrm \/ Aborted
  BY <1>1, <1>10 DEF HandleAlrm, Aborted, sigVars, childVars
<1>11. ASSUME NEW th \in Threads, HandlerStep(th) PROVE KillArmed'
  BY <1>1, <1>11 DEF HandlerStep, HandleChld, NoneLeft, LoadDown, StoreDown, Clamp,
                     ClampZero, childVars
<1>12. QED
  BY <1>3, <1>4, <1>5, <1>6, <1>7, <1>8, <1>9, <1>10, <1>11 DEF SigNext, HandlerStep

-----------------------------------------------------------------------------
(* The watchdog                                                            *)

(* The flag goes up with the timer, down with the alarm, and time moves    *)
(* them all.                                                               *)
LEMMA ClockStep ==
  ASSUME SigTypeOK, ClockExact, SigNext
  PROVE  ClockExact'
<1>1. CASE UNCHANGED << pc, clockVars >>
  BY <1>1 DEF ClockExact, clockVars
<1>2. CASE UNCHANGED clockVars /\ pc # "timers"
  BY <1>2 DEF ClockExact, clockVars
<1>3. CASE Occasional
  BY <1>3 DEF Occasional, At, Alive, ClockExact, SigTypeOK, AlarmTime
<1>4. CASE TimersDone
  BY <1>4 DEF TimersDone, At, Alive, NothingDue, ClockExact, SigTypeOK, AlarmTime
<1>5. CASE HandleAlrm
  BY <1>5 DEF HandleAlrm, Alive, RearmTime, ClockExact, SigTypeOK, AlarmTime
<1>6. CASE Tick
  BY <1>6 DEF Tick, At, Alive, ClockExact, SigTypeOK, AlarmTime
<1>7. CASE CheckLimit \/ LoadCount \/ StoreCount \/ ForkFails \/ Stall \/ GoesOn
             \/ RunTimers
  BY <1>2, <1>7 DEF CheckLimit, LoadCount, StoreCount, ForkFails, Stall, GoesOn,
                    RunTimers, At
<1>8. CASE Aborted
  BY <1>1, <1>8 DEF Aborted, sigVars
<1>9. ASSUME NEW p \in Pids, Fork(p) \/ Exit(p) PROVE ClockExact'
  BY <1>1, <1>2, <1>9 DEF Fork, Exit, At
<1>10. ASSUME NEW k \in kills, CgiKill(k) \/ CgiKill2(k) PROVE ClockExact'
  BY <1>1, <1>10 DEF CgiKill, CgiKill2
<1>11. ASSUME NEW th \in Threads, HandlerStep(th) \/ \E p \in Pids : Reap(th, p)
       PROVE  ClockExact'
  BY <1>1, <1>11 DEF HandlerStep, HandleChld, NoneLeft, LoadDown, StoreDown, Clamp,
                     ClampZero, Reap
<1>12. QED
  BY <1>3, <1>4, <1>5, <1>6, <1>7, <1>8, <1>9, <1>10, <1>11 DEF SigNext, HandlerStep

-----------------------------------------------------------------------------
(* The types                                                               *)

(* A kill timer is for a process id, and has one of the two times or less  *)
(* to go.                                                                  *)
KillsTyped ==
  \A k \in kills : /\ k.pid \in Pids /\ k.hard \in BOOLEAN
                   /\ k.left \in 0 .. CgiTimeLimit + HardKillTime

LEMMA KillsTypedStep ==
  ASSUME SigTypeOK, SigNext
  PROVE  KillsTyped'
<1> KillsTyped
  BY DEF SigTypeOK, KillsTyped
<1>1. CASE kills' \subseteq kills
  BY <1>1 DEF KillsTyped
<1>2. ASSUME NEW p \in Pids
      PROVE  \A k \in {Soft(p), Hard(p)} : /\ k.pid \in Pids /\ k.hard \in BOOLEAN
                                          /\ k.left \in 0 .. CgiTimeLimit + HardKillTime
  <2>1. /\ CgiTimeLimit \in 0 .. CgiTimeLimit + HardKillTime
        /\ HardKillTime \in 0 .. CgiTimeLimit + HardKillTime
    OBVIOUS
  <2>2. /\ Soft(p).pid = p /\ Soft(p).hard = FALSE /\ Soft(p).left = CgiTimeLimit
        /\ Hard(p).pid = p /\ Hard(p).hard = TRUE /\ Hard(p).left = HardKillTime
    BY DEF Soft, Hard
  <2>3. QED
    BY <2>1, <2>2
<1>3. ASSUME NEW p \in Pids, Fork(p) PROVE KillsTyped'
  BY <1>2, <1>3 DEF Fork, KillsTyped
<1>4. ASSUME NEW k \in kills, CgiKill(k) PROVE KillsTyped'
  BY <1>2, <1>4 DEF CgiKill, KillsTyped
<1>5. ASSUME NEW k \in kills, CgiKill2(k) PROVE KillsTyped'
  BY <1>1, <1>5 DEF CgiKill2
<1>6. CASE Tick
  <2>1. \A k \in kills : /\ Sooner(k).pid = k.pid /\ Sooner(k).hard = k.hard
                         /\ Sooner(k).left \in 0 .. CgiTimeLimit + HardKillTime
    BY DEF KillsTyped, Sooner, SigTypeOK
  <2>2. kills' = {Sooner(k) : k \in kills}
    BY <1>6 DEF Tick
  <2>3. QED
    BY <2>1, <2>2 DEF KillsTyped
<1>7. CASE CheckLimit \/ LoadCount \/ StoreCount \/ ForkFails \/ Stall \/ GoesOn
             \/ RunTimers \/ Occasional \/ TimersDone
  BY <1>1, <1>7 DEF CheckLimit, LoadCount, StoreCount, ForkFails, Stall, GoesOn,
                    RunTimers, Occasional, TimersDone
<1>8. CASE HandleAlrm \/ Aborted
  BY <1>1, <1>8 DEF HandleAlrm, Aborted, sigVars
<1>9. ASSUME NEW p \in Pids, Exit(p) PROVE KillsTyped'
  BY <1>1, <1>9 DEF Exit
<1>10. ASSUME NEW th \in Threads, HandlerStep(th) \/ \E p \in Pids : Reap(th, p)
       PROVE  KillsTyped'
  BY <1>1, <1>10 DEF HandlerStep, HandleChld, NoneLeft, LoadDown, StoreDown, Clamp,
                     ClampZero, Reap
<1>11. QED
  BY <1>3, <1>4, <1>5, <1>6, <1>7, <1>8, <1>9, <1>10 DEF SigNext, HandlerStep

(* The children, the two threads and the alarm.                            *)
ChildrenTyped ==
  /\ children \in [Pids -> {"none", "running", "zombie"}]
  /\ chld_pending \in BOOLEAN

LEMMA ChildrenTypedStep ==
  ASSUME SigTypeOK, SigNext
  PROVE  ChildrenTyped'
<1> ChildrenTyped
  BY DEF SigTypeOK, ChildrenTyped
<1>1. CASE UNCHANGED childVars
  BY <1>1 DEF ChildrenTyped, childVars
<1>2. ASSUME NEW p \in Pids, Ends(p) PROVE ChildrenTyped'
  BY <1>2 DEF ChildrenTyped, Ends
<1>3. ASSUME NEW p \in Pids, Fork(p) \/ Exit(p) \/ \E th \in Threads : Reap(th, p)
      PROVE  ChildrenTyped'
  BY <1>2, <1>3 DEF Fork, Exit, Reap, ChildrenTyped
<1>4. ASSUME NEW k \in kills, CgiKill(k) \/ CgiKill2(k) PROVE ChildrenTyped'
  <2>1. k.pid \in Pids
    BY DEF SigTypeOK
  <2>2. Ends(k.pid) \/ UNCHANGED childVars
    BY <1>4 DEF CgiKill, CgiKill2
  <2>3. QED
    BY <1>1, <1>2, <2>1, <2>2
<1>5. ASSUME NEW th \in Threads, HandlerStep(th) PROVE ChildrenTyped'
  BY <1>1, <1>5 DEF HandlerStep, HandleChld, NoneLeft, LoadDown, StoreDown, Clamp,
                    ClampZero, ChildrenTyped
<1>6. CASE CheckLimit \/ LoadCount \/ StoreCount \/ ForkFails \/ Stall \/ GoesOn
             \/ RunTimers \/ Occasional \/ TimersDone
  BY <1>1, <1>6 DEF CheckLimit, LoadCount, StoreCount, ForkFails, Stall, GoesOn,
                    RunTimers, Occasional, TimersDone
<1>7. CASE HandleAlrm \/ Tick \/ Aborted
  BY <1>1, <1>7 DEF HandleAlrm, Tick, Aborted, sigVars
<1>8. QED
  BY <1>3, <1>4, <1>5, <1>6, <1>7 DEF SigNext, HandlerStep

ThreadsTyped ==
  /\ pc \in {"loop", "load", "store", "fork", "stalled", "timers"}
  /\ handler \in [Threads -> {"idle", "wait", "load", "store", "clamp", "zero"}]
  /\ watchdog_flag \in BOOLEAN /\ aborted \in BOOLEAN
  /\ alarm_left \in 0 .. AlarmTime

LEMMA ThreadsTypedStep ==
  ASSUME SigTypeOK, SigNext
  PROVE  ThreadsTyped'
<1> ThreadsTyped /\ AlarmTime \in Nat
  BY DEF SigTypeOK, ThreadsTyped, AlarmTime
<1>1. CASE CheckLimit \/ LoadCount \/ StoreCount \/ ForkFails \/ Stall \/ GoesOn
             \/ RunTimers \/ TimersDone
  BY <1>1 DEF CheckLimit, LoadCount, StoreCount, ForkFails, Stall, GoesOn, RunTimers,
              TimersDone, clockVars, ThreadsTyped
<1>2. CASE Aborted
  BY <1>2 DEF Aborted, sigVars, clockVars, ThreadsTyped
<1>3. CASE Occasional
  BY <1>3 DEF Occasional, ThreadsTyped
<1>4. CASE HandleAlrm
  <2>1. alarm_left' \in {alarm_left, AlarmTime} /\ {watchdog_flag', aborted'} \subseteq BOOLEAN
    BY <1>4 DEF HandleAlrm, RearmTime, ThreadsTyped
  <2>2. QED
    BY <1>4, <2>1 DEF HandleAlrm, ThreadsTyped
<1>5. CASE Tick
  BY <1>5 DEF Tick, ThreadsTyped
<1>6. ASSUME NEW p \in Pids, Fork(p) \/ Exit(p) PROVE ThreadsTyped'
  BY <1>6 DEF Fork, Exit, clockVars, ThreadsTyped
<1>7. ASSUME NEW k \in kills, CgiKill(k) \/ CgiKill2(k) PROVE ThreadsTyped'
  BY <1>7 DEF CgiKill, CgiKill2, clockVars, ThreadsTyped
<1>8. ASSUME NEW th \in Threads, HandlerStep(th) \/ \E p \in Pids : Reap(th, p)
      PROVE  ThreadsTyped'
  <2>1. /\ UNCHANGED << pc, clockVars >>
        /\ \E place \in {"idle", "wait", "load", "store", "clamp", "zero"} :
             GoesTo(th, place)
    BY <1>8 DEF HandlerStep, HandleChld, NoneLeft, LoadDown, StoreDown, Clamp,
                ClampZero, Reap
  <2>2. QED
    BY <2>1 DEF GoesTo, clockVars, ThreadsTyped
<1>9. QED
  BY <1>1, <1>2, <1>3, <1>4, <1>5, <1>6, <1>7, <1>8 DEF SigNext, HandlerStep

(* The counters stay in their bounds because of what the threads hold, and *)
(* the timer of occasional() because the alarm goes off.                   *)
CountersTyped ==
  /\ cgi_count \in -MaxStarts .. MaxStarts /\ loaded \in -MaxStarts .. MaxStarts
  /\ held \in [Threads -> -MaxStarts .. MaxStarts]
  /\ starts \in 0 .. MaxStarts /\ failed \in 0 .. starts
  /\ lost \in Nat

(* The counters are integers after each step.                              *)
LEMMA CountersWhole ==
  ASSUME SigTypeOK, CountBounds, SigNext
  PROVE  /\ {cgi_count', loaded'} \subseteq Int /\ held' \in [Threads -> Int]
         /\ starts' \in 0 .. MaxStarts /\ failed' \in 0 .. starts' /\ lost' \in Nat
<1>1. /\ {cgi_count, loaded} \subseteq Int /\ held \in [Threads -> Int]
      /\ starts \in 0 .. MaxStarts /\ failed \in 0 .. starts /\ lost \in Nat
  BY DEF SigTypeOK
<1>2. ASSUME NEW a \in Int PROVE lost + Distance(a, cgi_count) \in Nat
  <2>1. cgi_count \in Int
    BY <1>1
  <2>2. Distance(a, cgi_count) \in Nat
    BY <2>1, DistanceType
  <2>3. QED
    BY <1>1, <2>2
<1>3. CASE CountsKept
  BY <1>1, <1>3 DEF CountsKept, countVars
<1>4. CASE CheckLimit \/ LoadCount \/ ForkFails
  BY <1>1, <1>4 DEF CheckLimit, LoadCount, ForkFails, At, countVars, startVars,
                    CountBounds
<1>5. CASE StoreCount
  BY <1>1, <1>2, <1>5 DEF StoreCount, At, Overwritten, CountBounds
<1>6. ASSUME NEW p \in Pids, Fork(p) \/ \E th \in Threads : Reap(th, p)
      PROVE  UNCHANGED << countVars, startVars >>
  BY <1>6 DEF Fork, Reap
<1>7. ASSUME NEW th \in Threads, LoadDown(th) \/ StoreDown(th) \/ ClampZero(th)
      PROVE  /\ {cgi_count', loaded'} \subseteq Int /\ held' \in [Threads -> Int]
             /\ lost' \in Nat /\ UNCHANGED startVars
  <2>1. held[th] \in Int
    BY <1>1
  <2>2. CASE LoadDown(th)
    BY <1>1, <2>2 DEF LoadDown
  <2>3. CASE StoreDown(th)
    BY <1>1, <1>2, <2>1, <2>3 DEF StoreDown, Overwritten
  <2>4. CASE ClampZero(th)
    BY <1>1, <2>4 DEF ClampZero
  <2>5. QED
    BY <1>7, <2>2, <2>3, <2>4
<1>8. QED
  BY <1>1, <1>3, <1>4, <1>5, <1>6, <1>7, OthersKeepCounts DEF countVars, startVars

(* So they are in their ranges, for the bounds hold after the step.        *)
LEMMA CountersTypedStep ==
  ASSUME SigTypeOK, CountBounds, CountBounds', SigNext
  PROVE  CountersTyped'
<1>1. Counted' \in Nat
  <2>1. IsFiniteSet(Unreaped')
    BY FS_Subset DEF Unreaped
  <2>2. Cardinality(Unreaped') \in Nat
    BY <2>1, FS_CardinalityType
  <2>3. TakingOff("main")' \in Nat /\ TakingOff("http")' \in Nat
    BY DEF TakingOff
  <2>4. QED
    BY <2>2, <2>3 DEF Counted, Unreaped
<1>2. /\ {cgi_count', loaded'} \subseteq Int /\ held' \in [Threads -> Int]
      /\ starts' \in 0 .. MaxStarts /\ failed' \in 0 .. starts' /\ lost' \in Nat
      /\ MaxStarts \in Nat
  BY CountersWhole
<1>3. Floor' \in Int /\ -MaxStarts <= Floor'
  <2> DEFINE c == Counted'
  <2>1. Floor' = c + failed' - starts'
    BY DEF Floor
  <2>2. c \in Nat
    BY <1>1
  <2> HIDE DEF c
  <2>3. /\ starts' \in Int /\ starts' <= MaxStarts
        /\ failed' \in Int /\ 0 <= failed' /\ MaxStarts \in Int
    BY <1>2
  <2>4. ASSUME NEW x \in Nat, NEW y \in Int, NEW z \in Int, NEW m \in Int, 0 <= y, z <= m
        PROVE  x + y - z \in Int /\ -m <= x + y - z
    BY <2>4
  <2>5. QED
    BY <2>1, <2>2, <2>3, <2>4
<1>4. /\ cgi_count' <= starts' /\ Floor' <= cgi_count'
      /\ loaded' <= starts' /\ Floor' <= loaded'
      /\ \A th \in Threads : held'[th] <= starts' /\ Floor' <= held'[th]
  BY DEF CountBounds
<1>5. ASSUME NEW v \in Int, v <= starts', Floor' <= v PROVE v \in -MaxStarts .. MaxStarts
  BY <1>2, <1>3, <1>5
<1>6. \A th \in Threads : held'[th] \in -MaxStarts .. MaxStarts
  BY <1>2, <1>4, <1>5
<1>7. held' \in [Threads -> -MaxStarts .. MaxStarts]
  BY <1>2, <1>6
<1>8. QED
  BY <1>2, <1>4, <1>5, <1>7 DEF CountersTyped

LEMMA OccasionalTyped ==
  ASSUME SigTypeOK, ClockExact, ClockExact', SigNext
  PROVE  occasional_left' \in -2 * AlarmTime .. OccasionalTime
<1>1. occasional_left' \in Int /\ occasional_left' <= OccasionalTime
  <2> occasional_left \in Int /\ occasional_left <= OccasionalTime
    BY DEF SigTypeOK, AlarmTime
  <2>1. CASE Occasional \/ Tick
    BY <2>1 DEF Occasional, Tick
  <2>2. CASE CheckLimit \/ LoadCount \/ StoreCount \/ ForkFails \/ Stall \/ GoesOn
               \/ RunTimers \/ TimersDone
    BY <2>2 DEF CheckLimit, LoadCount, StoreCount, ForkFails, Stall, GoesOn, RunTimers,
                TimersDone, clockVars
  <2>3. CASE HandleAlrm \/ Aborted
    BY <2>3 DEF HandleAlrm, Aborted, sigVars, clockVars
  <2>4. ASSUME NEW p \in Pids, Fork(p) \/ Exit(p)
        PROVE  occasional_left' = occasional_left
    BY <2>4 DEF Fork, Exit, clockVars
  <2>5. ASSUME NEW k \in kills, CgiKill(k) \/ CgiKill2(k)
        PROVE  occasional_left' = occasional_left
    BY <2>5 DEF CgiKill, CgiKill2, clockVars
  <2>6. ASSUME NEW th \in Threads, HandlerStep(th) \/ \E p \in Pids : Reap(th, p)
        PROVE  occasional_left' = occasional_left
    BY <2>6 DEF HandlerStep, HandleChld, NoneLeft, LoadDown, StoreDown, Clamp,
                ClampZero, Reap, clockVars
  <2>7. QED
    BY <2>1, <2>2, <2>3, <2>4, <2>5, <2>6 DEF SigNext, HandlerStep
<1>2. since' \in Nat /\ since' <= 2 * AlarmTime /\ since' + occasional_left' > 0
  BY DEF ClockExact
<1>3. AlarmTime \in Nat /\ OccasionalTime \in Nat
  BY DEF AlarmTime
<1>4. ASSUME NEW a \in Nat, NEW t \in Nat, NEW o \in Int, NEW m \in Int,
             t <= 2 * a, t + o > 0, o <= m
      PROVE  o \in -2 * a .. m
  BY <1>4
<1> DEFINE a == AlarmTime
           t == since'
           o == occasional_left'
<1>5. a \in Nat /\ t \in Nat /\ o \in Int /\ OccasionalTime \in Int
  BY <1>1, <1>2, <1>3
<1>6. t <= 2 * a /\ t + o > 0 /\ o <= OccasionalTime
  BY <1>1, <1>2
<1>7. o \in -2 * a .. OccasionalTime
  <2> HIDE DEF a, t, o
  <2>1. QED
    BY <1>4, <1>5, <1>6
<1>8. QED
  BY <1>7

-----------------------------------------------------------------------------
(* The invariant                                                           *)

(* The server starts with no child, no kill and the alarm set.             *)
LEMMA SigInitInv ==
  ASSUME SigInit
  PROVE  SigInv
<1>1. {p \in Pids : children[p] # "none"} = {} /\ Cardinality({}) = 0
  BY FS_EmptySet DEF SigInit
<1>2. SigTypeOK
  <2>1. /\ AlarmTime \in Nat /\ OccasionalTime \in -2 * AlarmTime .. OccasionalTime
        /\ 0 \in -MaxStarts .. MaxStarts
    BY DEF AlarmTime
  <2>2. /\ children \in [Pids -> {"none", "running", "zombie"}]
        /\ watchdog_flag \in BOOLEAN /\ aborted \in BOOLEAN /\ chld_pending \in BOOLEAN
    BY DEF SigInit
  <2>3. alarm_left \in 0 .. AlarmTime
    BY <2>1 DEF SigInit, RearmTime
  <2>4. occasional_left \in -2 * AlarmTime .. OccasionalTime
    BY <2>1 DEF SigInit
  <2>5. QED
    BY <2>1, <2>2, <2>3, <2>4 DEF SigInit, SigTypeOK
<1>3. Counted = 0
  BY <1>1 DEF SigInit, Counted, TakingOff, Threads
<1>4. CountBounds
  BY <1>3 DEF SigInit, CountBounds, Floor
<1>5. ChildrenCounted
  BY <1>3 DEF SigInit, ChildrenCounted, CountNear, NoneForgotten, Zombies
<1>6. KillArmed /\ ClockExact
  BY DEF SigInit, KillArmed, ClockExact, RearmTime, AlarmTime
<1>7. QED
  BY <1>2, <1>4, <1>5, <1>6 DEF SigInv

LEMMA SigNextInv ==
  ASSUME SigInv, SigNext
  PROVE  SigInv'
<1> USE DEF SigInv
<1>1. CountBounds' /\ ChildrenCounted'
  BY CountsStep, ZombiesStep DEF ChildrenCounted
<1>2. KillArmed' /\ ClockExact'
  BY KillsStep, ClockStep
<1>3. SigTypeOK'
  BY <1>1, <1>2, KillsTypedStep, ChildrenTypedStep, ThreadsTypedStep, CountersTypedStep,
     OccasionalTyped
  DEF SigTypeOK, KillsTyped, ChildrenTyped, ThreadsTyped, CountersTyped
<1>4. QED
  BY <1>1, <1>2, <1>3

LEMMA SigStutterInv ==
  ASSUME SigInv, UNCHANGED sigVars
  PROVE  SigInv'
BY DEF SigInv, SigTypeOK, CountBounds, Floor, ChildrenCounted, CountNear, Counted,
       TakingOff, NoneForgotten, Zombies, KillArmed, ClockExact,
       sigVars, countVars, childVars, startVars, clockVars

(* The invariant holds in every state.                                     *)
THEOREM SigInvariant == SigSpec => []SigInv
<1>1. SigInv /\ [SigNext]_sigVars => SigInv'
  BY SigNextInv, SigStutterInv
<1>2. QED
  BY <1>1, SigInitInv, PTL DEF SigSpec

(* The counters, the timers and the threads keep to their ranges.          *)
THEOREM SigTypeCorrect == SigSpec => []SigTypeOK
<1>1. SigInv => SigTypeOK
  BY DEF SigInv
<1>2. QED
  BY <1>1, SigInvariant, PTL

(* cgi_count is off by no more than the overwritten updates and the failed *)
(* forks, and every child that exited is going to be reaped: however many  *)
(* exit under one SIGCHLD and wherever it interrupts the server's thread   *)
(* (handle_chld(), cgi() and ls()).                                        *)
THEOREM SigChildrenCounted == SigSpec => []ChildrenCounted
<1>1. SigInv => ChildrenCounted
  BY DEF SigInv
<1>2. QED
  BY <1>1, SigInvariant, PTL

(* A program that runs has a kill timer, until SIGKILL ends it: the timer  *)
(* of the first signal only goes when the second is set (cgi_kill()).      *)
THEOREM SigKillArmed == SigSpec => []KillArmed
<1>1. SigInv => KillArmed
  BY DEF SigInv
<1>2. QED
  BY <1>1, SigInvariant, PTL

(* The watchdog ends the process only after more than two periods without  *)
(* a run of the timers, and always before two alarms have passed           *)
(* (occasional() and handle_alrm()).                                       *)
THEOREM SigWatchdogExact == SigSpec => []WatchdogExact
<1>1. SigInv => WatchdogExact
  BY DEF SigInv, ClockExact, WatchdogExact
<1>2. QED
  BY <1>1, SigInvariant, PTL

-----------------------------------------------------------------------------
(* The main loop                                                           *)

(* Every behaviour of the loop is one of the watch and one of the children *)
(* and the watchdog: a step of one leaves the variables of the other.      *)
LEMMA LoopRefines == Spec => FdSpec /\ SigSpec
<1>1. Init => FdInit /\ SigInit
  BY DEF Init
<1>2. [Next]_<< fdVars, sigVars >> => [FdNext]_fdVars /\ [SigNext]_sigVars
  BY DEF Next
<1>3. QED
  BY <1>1, <1>2, PTL DEF Spec, FdSpec, SigSpec

(* No index of fdwatch.c leaves its array in the loop of the server.       *)
THEOREM LoopTypeCorrect == Spec => []TypeOK
<1>1. FdTypeOK /\ SigTypeOK => TypeOK
  BY DEF TypeOK
<1>2. QED
  BY <1>1, LoopRefines, FdTypeCorrect, SigTypeCorrect, PTL

=============================================================================
