------------------------------ MODULE MmcProofs ------------------------------
(***************************************************************************)
(* Proofs about the file cache, for every set of users, files and Maps,    *)
(* every hash function and every choice of the limits: the table and the   *)
(* counters are exact, and what a connection sends stays in memory.        *)
(***************************************************************************)
EXTENDS Mmc, FiniteSetTheorems, WellFoundedInduction, TLAPS

USE FilesAssumption, NullAssumption, FiniteAssumption, SizesAssumption

(* The list is in order: no Map is before itself, what is before one that  *)
(* is before another is before that one too, and of two Maps one is before *)
(* the other.                                                              *)
OrderExact ==
  \A m \in maps : /\ ahead[m] \subseteq maps \ {m}
                  /\ \A x \in ahead[m] : ahead[x] \subseteq ahead[m]
                  /\ \A x \in maps : x = m \/ x \in ahead[m] \/ m \in ahead[x]

(* The table has one of its sizes, or is not there and nothing is mapped.  *)
SizeExact ==
  /\ hash_size \in HashSizes \cup {0}
  /\ hash_size = 0 => maps = {}

FilesKnown == \A m \in maps : file[m] \in Files

(* What a user has is the address 1 of an empty file, or the Map of his.   *)
HoldExact(u) ==
  \/ held[u] = NoHold
  \/ /\ held[u].file \in Files
     /\ IF Size[held[u].file] = 0 THEN held[u].addr = One
        ELSE held[u].addr \in maps /\ file[held[u].addr] = held[u].file

HeldExact == \A u \in Users : HoldExact(u)

(* The inductive invariant.                                                *)
MmcInv ==
  /\ TypeOK /\ SlotsExact /\ CountsAddUp /\ HalfEmpty
  /\ OrderExact /\ SizeExact /\ FilesKnown
  /\ HeldExact /\ RefsExact

-----------------------------------------------------------------------------
(* The sizes of the table                                                  *)

(* A set of naturals has a least element.                                  *)
LEMMA LeastOf ==
  ASSUME NEW T \in SUBSET Nat, T # {}
  PROVE  \E x \in T : \A y \in T : x <= y
<1>1. PICK x \in T : \A y \in T : ~ (<< y, x >> \in OpToRel(<, Nat))
  BY NatLessThanWellFounded, WFMin
<1>2. \A y \in T : ~ (y < x)
  BY <1>1 DEF OpToRel
<1>3. QED
  BY <1>2

(* The Maps in use, and their number.                                      *)
LEMMA MapsFinite ==
  ASSUME TypeOK, CountsAddUp
  PROVE  /\ IsFiniteSet(maps) /\ IsFiniteSet(free_maps)
         /\ Cardinality(maps) \in Nat /\ Cardinality(Maps) \in Nat
         /\ map_count = Cardinality(maps) /\ map_count \in Nat
         /\ map_count <= Cardinality(Maps)
         /\ map_count = 0 <=> maps = {}
<1>1. IsFiniteSet(maps) /\ IsFiniteSet(free_maps) /\ Cardinality(maps) <= Cardinality(Maps)
  BY FS_Subset DEF TypeOK
<1>2. QED
  BY <1>1, FS_CardinalityType, FS_EmptySet DEF CountsAddUp

(* After check_hash_size() there is a table, with twice as many slots as   *)
(* Maps and room for one more.                                             *)
LEMMA TableSizeExact ==
  ASSUME TypeOK, CountsAddUp, SizeExact
  PROVE  /\ TableSize \in HashSizes /\ TableSize \in Nat \ {0}
         /\ 2 * (map_count + 1) <= TableSize
<1>1. /\ map_count \in Nat /\ map_count <= Cardinality(Maps) /\ Cardinality(Maps) \in Nat
      /\ hash_size = 0 => map_count = 0
  BY MapsFinite DEF SizeExact
<1>2. \A n \in HashSizes : n \in Nat \ {0} /\ n % 2 = 0
  BY HashSizesAssumption
<1>3. \A n \in HashSizes : n >= 2 /\ n # 3
  BY <1>2
<1>4. CASE hash_size = 0
  <2>1. TableSize = InitialHashSize
    BY <1>4 DEF TableSize, TooSmall, NewSize
  <2>2. QED
    BY <1>1, <1>2, <1>3, <1>4, <2>1, HashSizesAssumption
<1>5. CASE hash_size # 0 /\ TooSmall
  <2> DEFINE enough == {n \in HashSizes : n > hash_size /\ n >= 6 * map_count}
  <2>1. hash_size \in Nat /\ hash_size < 3 * map_count /\ map_count >= 1
    BY <1>1, <1>5 DEF TooSmall, TypeOK
  <2>2. PICK n \in HashSizes : n >= 6 * Cardinality(Maps)
    BY HashSizesAssumption
  <2>3. n \in enough
    <3>1. n \in Nat
      BY <1>2
    <3>2. n > hash_size /\ n >= 6 * map_count
      BY <1>1, <2>1, <2>2, <3>1
    <3>3. QED
      BY <3>2
  <2>4. enough \in SUBSET Nat
    BY <1>2
  <2>5. \E x \in enough : \A y \in enough : x <= y
    BY <2>3, <2>4, LeastOf
  <2>6. NewSize \in enough
    BY <1>5, <2>5 DEF NewSize
  <2>7. TableSize \in HashSizes /\ TableSize >= 6 * map_count
    BY <1>5, <2>6 DEF TableSize
  <2>8. QED
    BY <1>1, <1>2, <2>1, <2>7
<1>6. CASE hash_size # 0 /\ ~TooSmall
  <2>1. TableSize = hash_size /\ hash_size \in HashSizes /\ hash_size >= 3 * map_count
    BY <1>1, <1>2, <1>6 DEF TableSize, TooSmall, SizeExact, TypeOK
  <2>2. QED
    BY <1>1, <1>2, <1>3, <2>1
<1>7. QED
  BY <1>4, <1>5, <1>6

-----------------------------------------------------------------------------
(* Probing                                                                 *)

(* The probes for a file go through the slots of the table, all of them.   *)
LEMMA ProbeExact ==
  ASSUME NEW f \in Files, NEW n \in Nat \ {0}
  PROVE  /\ \A k \in 0 .. n - 1 : Probe(f, k, n) \in 0 .. n - 1
         /\ \A s \in 0 .. n - 1 : \E k \in 0 .. n - 1 : Probe(f, k, n) = s
<1> DEFINE h == Hash(f, n)
<1>1. h \in 0 .. n - 1
  BY DEF Hash
<1>2. \A k \in 0 .. n - 1 : Probe(f, k, n) = IF h + k < n THEN h + k ELSE h + k - n
  BY DEF Probe
<1> HIDE DEF h
<1>3. \A k \in 0 .. n - 1 : Probe(f, k, n) \in 0 .. n - 1
  BY <1>1, <1>2
<1>4. ASSUME NEW s \in 0 .. n - 1
      PROVE  \E k \in 0 .. n - 1 : Probe(f, k, n) = s
  <2>1. CASE s >= h
    <3>1. s - h \in 0 .. n - 1 /\ h + (s - h) = s
      BY <1>1, <2>1
    <3>2. QED
      BY <1>2, <3>1
  <2>2. CASE s < h
    <3>1. s - h + n \in 0 .. n - 1 /\ h + (s - h + n) = s + n
      BY <1>1, <2>2
    <3>2. Probe(f, s - h + n, n) = s
      BY <1>1, <1>2, <3>1
    <3>3. QED
      BY <3>1, <3>2
  <2>3. QED
    BY <1>1, <2>1, <2>2
<1>5. QED
  BY <1>3, <1>4

(* When some slot is free, add_hash() finds one.                           *)
LEMMA FreeProbeExact ==
  ASSUME NEW f \in Files, NEW n \in Nat \ {0}, NEW used,
         IsFiniteSet(used), Cardinality(used) < n
  PROVE  FreeProbe(f, n, used) \in (0 .. n - 1) \ used
<1> DEFINE Free(k) == Probe(f, k, n) \notin used
           First(k) == Free(k) /\ \A j \in 0 .. k - 1 : ~ Free(j)
           T == {k \in 0 .. n - 1 : Free(k)}
<1>1. PICK s \in 0 .. n - 1 : s \notin used
  <2>1. SUFFICES ASSUME 0 .. n - 1 \subseteq used PROVE FALSE
    OBVIOUS
  <2>2. Cardinality(0 .. n - 1) = n /\ Cardinality(used) \in Nat
    BY FS_Interval, FS_CardinalityType
  <2>3. Cardinality(0 .. n - 1) <= Cardinality(used)
    BY <2>1, FS_Subset
  <2>4. QED
    BY <2>2, <2>3
<1>2. T # {} /\ T \in SUBSET Nat
  BY <1>1, ProbeExact
<1>3. PICK k \in T : \A j \in T : k <= j
  BY <1>2, LeastOf
<1>4. k \in 0 .. n - 1 /\ First(k)
  BY <1>3
<1>5. FreeProbe(f, n, used) = Probe(f, CHOOSE i \in 0 .. n - 1 : First(i), n)
  BY DEF FreeProbe
<1> DEFINE i == CHOOSE i \in 0 .. n - 1 : First(i)
<1>6. i \in 0 .. n - 1 /\ First(i)
  BY <1>4
<1>7. Probe(f, i, n) \in (0 .. n - 1) \ used
  BY <1>6, ProbeExact
<1>8. QED
  BY <1>5, <1>7

-----------------------------------------------------------------------------
(* Tables of slots                                                         *)

(* The table tab of n slots holds the Maps of S, each in its slot.         *)
TabExact(tab, idx, S, n) ==
  /\ tab \in [0 .. n - 1 -> S \cup {Nil}]
  /\ \A m \in S : idx[m] \in 0 .. n - 1 /\ tab[idx[m]] = m
  /\ \A i \in 0 .. n - 1 : tab[i] # Nil => idx[tab[i]] = i

(* The table of the program, as far as it is exact.                        *)
LEMMA SlotsAreTab ==
  ASSUME TypeOK
  PROVE  SlotsExact <=> TabExact(hash_table, hash_idx, maps, hash_size)
<1>1. DOMAIN hash_table = 0 .. hash_size - 1
      /\ hash_table \in [0 .. hash_size - 1 -> Maps \cup {Nil}]
  BY DEF TypeOK
<1>2. SlotsExact => hash_table \in [0 .. hash_size - 1 -> maps \cup {Nil}]
  BY <1>1 DEF SlotsExact
<1>3. Nil \notin maps
  BY DEF TypeOK
<1>4. QED
  BY <1>1, <1>2, <1>3 DEF SlotsExact, TabExact

(* A table that is exact has exact slots.                                  *)
SlotsOf(tab, idx, S) ==
  /\ \A m \in S : idx[m] \in DOMAIN tab /\ tab[idx[m]] = m
  /\ \A i \in DOMAIN tab : tab[i] # Nil => tab[i] \in S /\ idx[tab[i]] = i

LEMMA TabSlots ==
  ASSUME NEW tab, NEW idx, NEW S \in SUBSET Maps, NEW n \in Nat,
         TabExact(tab, idx, S, n)
  PROVE  /\ tab \in [0 .. n - 1 -> Maps \cup {Nil}]
         /\ SlotsOf(tab, idx, S)
         /\ \A m \in S : idx[m] \in Nat
<1>1. DOMAIN tab = 0 .. n - 1
  BY DEF TabExact
<1>2. QED
  BY <1>1 DEF TabExact, SlotsOf

(* Only the slots of the Maps that are in it matter.                       *)
LEMMA TabReindexed ==
  ASSUME NEW tab, NEW idx, NEW other, NEW S \in SUBSET Maps, NEW n \in Nat,
         TabExact(tab, idx, S, n), \A m \in S : other[m] = idx[m]
  PROVE  TabExact(tab, other, S, n)
BY DEF TabExact

(* really_unmap() takes a Map out of the table and leaves the others.      *)
LEMMA TabWithout ==
  ASSUME NEW tab, NEW idx, NEW S \in SUBSET Maps, NEW gone \in SUBSET S, NEW n \in Nat,
         TabExact(tab, idx, S, n)
  PROVE  TabExact(WithoutSlots(tab, idx, gone), idx, S \ gone, n)
<1> DEFINE new == WithoutSlots(tab, idx, gone)
<1>1. DOMAIN tab = 0 .. n - 1 /\ Nil \notin S
  BY DEF TabExact
<1>2. new = [i \in 0 .. n - 1 |-> IF \E m \in gone : idx[m] = i THEN Nil ELSE tab[i]]
  BY <1>1 DEF WithoutSlots
<1>3. \A m \in S, x \in S : idx[m] = idx[x] => m = x
  BY DEF TabExact
<1>4. ASSUME NEW i \in 0 .. n - 1
      PROVE  new[i] \in (S \ gone) \cup {Nil} /\ (new[i] # Nil => idx[new[i]] = i)
  <2>1. CASE \E m \in gone : idx[m] = i
    BY <1>2, <2>1
  <2>2. CASE ~ \E m \in gone : idx[m] = i
    <3>1. new[i] = tab[i]
      BY <1>2, <2>2
    <3>2. tab[i] \in S \cup {Nil} /\ (tab[i] # Nil => idx[tab[i]] = i)
      BY DEF TabExact
    <3>3. QED
      BY <2>2, <3>1, <3>2
  <2>3. QED
    BY <2>1, <2>2
<1>5. ASSUME NEW m \in S \ gone
      PROVE  idx[m] \in 0 .. n - 1 /\ new[idx[m]] = m
  <2>1. idx[m] \in 0 .. n - 1 /\ tab[idx[m]] = m
    BY DEF TabExact
  <2>2. ~ \E x \in gone : idx[x] = idx[m]
    BY <1>3
  <2>3. QED
    BY <1>2, <2>1, <2>2
<1>6. new \in [0 .. n - 1 -> (S \ gone) \cup {Nil}]
  BY <1>2, <1>4
<1> HIDE DEF new
<1>7. TabExact(new, idx, S \ gone, n)
  BY <1>4, <1>5, <1>6 DEF TabExact
<1>8. QED
  BY <1>7 DEF new

(* add_hash() puts a Map into a slot that was free.                        *)
LEMMA TabWith ==
  ASSUME NEW tab, NEW idx, NEW other, NEW S \in SUBSET Maps, NEW n \in Nat,
         TabExact(tab, idx, S, n),
         NEW m \in Maps \ S, NEW i \in 0 .. n - 1, tab[i] = Nil,
         other[m] = i, \A x \in S : other[x] = idx[x]
  PROVE  TabExact([tab EXCEPT ![i] = m], other, S \cup {m}, n)
<1> DEFINE new == [tab EXCEPT ![i] = m]
<1>1. tab \in [0 .. n - 1 -> S \cup {Nil}] /\ Nil \notin S
  BY DEF TabExact
<1>2. \A j \in 0 .. n - 1 : new[j] = IF j = i THEN m ELSE tab[j]
  BY <1>1
<1>3. new \in [0 .. n - 1 -> (S \cup {m}) \cup {Nil}]
  BY <1>1
<1>4. ASSUME NEW x \in S \cup {m} PROVE other[x] \in 0 .. n - 1 /\ new[other[x]] = x
  <2>1. CASE x = m
    BY <1>2, <2>1
  <2>2. CASE x # m
    <3>1. other[x] = idx[x] /\ idx[x] \in 0 .. n - 1 /\ tab[idx[x]] = x
      BY <2>2 DEF TabExact
    <3>2. idx[x] # i
      BY <1>1, <2>2, <3>1
    <3>3. QED
      BY <1>2, <3>1, <3>2
  <2>3. QED
    BY <2>1, <2>2
<1>5. ASSUME NEW j \in 0 .. n - 1, new[j] # Nil PROVE other[new[j]] = j
  <2>1. CASE j = i
    BY <1>2, <2>1
  <2>2. CASE j # i
    <3>1. new[j] = tab[j] /\ tab[j] \in S /\ idx[tab[j]] = j
      BY <1>1, <1>2, <1>5, <2>2 DEF TabExact
    <3>2. QED
      BY <3>1
  <2>3. QED
    BY <2>1, <2>2
<1> HIDE DEF new
<1>6. TabExact(new, other, S \cup {m}, n)
  BY <1>3, <1>4, <1>5 DEF TabExact
<1>7. QED
  BY <1>6 DEF new

(* There are no more slots in use than Maps.                               *)
LEMMA TabUsed ==
  ASSUME NEW tab, NEW idx, NEW S \in SUBSET Maps, NEW n \in Nat,
         TabExact(tab, idx, S, n)
  PROVE  LET used == {k \in DOMAIN tab : tab[k] # Nil}
         IN IsFiniteSet(used) /\ Cardinality(used) <= Cardinality(S)
<1> DEFINE used == {k \in DOMAIN tab : tab[k] # Nil}
           g == [k \in used |-> tab[k]]
<1>1. DOMAIN tab = 0 .. n - 1
  BY DEF TabExact
<1>2. \A k \in used : tab[k] \in S /\ idx[tab[k]] = k
  BY <1>1 DEF TabExact
<1>3. g \in Injection(used, S)
  BY <1>2 DEF Injection, IsInjective
<1>4. IsFiniteSet(S)
  BY FS_Subset
<1> HIDE DEF used, g
<1>5. IsFiniteSet(used) /\ Cardinality(used) <= Cardinality(S)
  BY <1>3, <1>4, FS_Injection
<1>6. QED
  BY <1>5 DEF used

(* What find_hash() finds is a mapped Map of the file.                     *)
LEMMA FindHashExact ==
  ASSUME NEW f, NEW n \in Nat, NEW tab, NEW idx, NEW S \in SUBSET Maps,
         TabExact(tab, idx, S, n), f \in Files,
         FindHash(f, n, tab) # Nil
  PROVE  FindHash(f, n, tab) \in S /\ file[FindHash(f, n, tab)] = f
<1> DEFINE At(k) == tab[Probe(f, k, n)]
           Hit(k) == At(k) # Nil /\ file[At(k)] = f
           Found(k) == Hit(k) /\ \A j \in 0 .. k - 1 : At(j) # Nil /\ ~ Hit(j)
           k == CHOOSE k \in 0 .. n - 1 : Found(k)
<1>1. (\E i \in 0 .. n - 1 : Found(i)) /\ FindHash(f, n, tab) = At(k)
  BY DEF FindHash
<1>2. k \in 0 .. n - 1 /\ Found(k)
  BY <1>1
<1>3. n \in Nat \ {0}
  BY <1>2
<1>4. Probe(f, k, n) \in 0 .. n - 1
  BY <1>2, <1>3, ProbeExact
<1>5. At(k) \in S \cup {Nil}
  BY <1>4 DEF TabExact
<1>6. QED
  BY <1>1, <1>2, <1>5

(* check_hash_size() leaves an exact table, also when it has made a new    *)
(* one.                                                                    *)
LEMMA SlotsTable ==
  ASSUME TypeOK, SlotsExact, CountsAddUp, OrderExact, SizeExact, FilesKnown,
         NEW idx \in Slots
  PROVE  TabExact(TableOf(idx), idx, maps, TableSize)
<1>1. /\ IsFiniteSet(maps) /\ Cardinality(maps) \in Nat /\ map_count = Cardinality(maps)
      /\ maps \in SUBSET Maps
  BY MapsFinite DEF TypeOK
<1>2. TableSize \in Nat \ {0} /\ Cardinality(maps) < TableSize
  BY <1>1, TableSizeExact
<1>3. CASE ~TooSmall
  <2>1. idx = [m \in maps |-> hash_idx[m]] /\ TableOf(idx) = hash_table /\ TableSize = hash_size
    BY <1>3 DEF Slots, TableOf, TableSize
  <2>2. TabExact(hash_table, hash_idx, maps, hash_size) /\ hash_size \in Nat
    BY SlotsAreTab DEF TypeOK
  <2>3. \A m \in maps : idx[m] = hash_idx[m]
    BY <2>1
  <2>4. TabExact(hash_table, idx, maps, hash_size)
    BY <1>1, <2>2, <2>3, TabReindexed
  <2>5. QED
    BY <2>1, <2>4
<1>4. CASE TooSmall
  <2>1. /\ idx \in [maps -> 0 .. TableSize - 1]
        /\ \A m \in maps :
             idx[m] = FreeProbe(file[m], TableSize, {idx[x] : x \in ahead[m]})
    BY <1>4 DEF Slots
  <2>2. ASSUME NEW m \in maps
        PROVE  idx[m] \notin {idx[x] : x \in ahead[m]}
    <3> DEFINE A == ahead[m]
               used == {idx[x] : x \in A}
               g == [x \in A |-> idx[x]]
    <3>1. A \in SUBSET maps
      BY DEF OrderExact
    <3>2. IsFiniteSet(A) /\ Cardinality(A) <= Cardinality(maps)
      BY <1>1, <3>1, FS_Subset
    <3>3. g \in Surjection(A, used)
      BY DEF Surjection
    <3>4. IsFiniteSet(used) /\ Cardinality(used) <= Cardinality(A)
      <4> HIDE DEF g, used, A
      <4> QED
        BY <3>2, <3>3, FS_Surjection
    <3>5. Cardinality(used) < TableSize
      <4>1. Cardinality(used) \in Nat /\ Cardinality(A) \in Nat
        BY <3>2, <3>4, FS_CardinalityType
      <4>2. QED
        BY <1>1, <1>2, <3>2, <3>4, <4>1
    <3>6. file[m] \in Files
      BY DEF FilesKnown
    <3>7. FreeProbe(file[m], TableSize, used) \notin used
      <4> HIDE DEF g, used, A
      <4> QED
        BY <1>2, <3>4, <3>5, <3>6, FreeProbeExact
    <3>8. QED
      BY <2>1, <3>7
  <2>3. \A m, x \in maps : idx[m] = idx[x] => m = x
    <3> SUFFICES ASSUME NEW m \in maps, NEW x \in maps, m # x PROVE idx[m] # idx[x]
      OBVIOUS
    <3>1. x \in ahead[m] \/ m \in ahead[x]
      BY DEF OrderExact
    <3>2. QED
      BY <2>2, <3>1
  <2> DEFINE n == TableSize
             tab == TableOf(idx)
  <2>4. tab = [i \in 0 .. n - 1 |->
                 IF \E m \in maps : idx[m] = i THEN CHOOSE m \in maps : idx[m] = i
                 ELSE Nil]
    BY <1>4 DEF TableOf
  <2> HIDE DEF n, tab
  <2>5. \A m \in maps : idx[m] \in 0 .. n - 1 /\ tab[idx[m]] = m
    <3> SUFFICES ASSUME NEW m \in maps PROVE idx[m] \in 0 .. n - 1 /\ tab[idx[m]] = m
      OBVIOUS
    <3>1. idx[m] \in 0 .. n - 1
      BY <2>1 DEF n
    <3>2. tab[idx[m]] = CHOOSE x \in maps : idx[x] = idx[m]
      BY <2>4, <3>1
    <3>3. QED
      BY <2>3, <3>1, <3>2
  <2>6. \A i \in 0 .. n - 1 : tab[i] \in maps \cup {Nil} /\ (tab[i] # Nil => idx[tab[i]] = i)
    <3> SUFFICES ASSUME NEW i \in 0 .. n - 1
                 PROVE  tab[i] \in maps \cup {Nil} /\ (tab[i] # Nil => idx[tab[i]] = i)
      OBVIOUS
    <3>1. CASE \E m \in maps : idx[m] = i
      <4>1. tab[i] = CHOOSE m \in maps : idx[m] = i
        BY <2>4, <3>1
      <4>2. QED
        BY <3>1, <4>1
    <3>2. CASE ~ \E m \in maps : idx[m] = i
      BY <2>4, <3>2
    <3>3. QED
      BY <3>1, <3>2
  <2>7. tab \in [0 .. n - 1 -> maps \cup {Nil}]
    BY <2>4, <2>6
  <2>8. TabExact(tab, idx, maps, n)
    BY <2>5, <2>6, <2>7 DEF TabExact
  <2>9. QED
    BY <2>8 DEF tab, n
<1>5. QED
  BY <1>3, <1>4

-----------------------------------------------------------------------------
(* The bytes mapped                                                        *)

(* The contents of finitely many Maps are finite.                          *)
LEMMA ContentsFinite ==
  ASSUME NEW S \in SUBSET Maps, NEW fl, \A m \in S : fl[m] \in Files
  PROVE  IsFiniteSet(Contents(S, fl))
<1> DEFINE part(m) == {m} \X (1 .. Size[fl[m]])
           F == {part(m) : m \in S}
           g == [m \in S |-> part(m)]
<1>1. IsFiniteSet(S)
  BY FS_Subset
<1>2. g \in Surjection(S, F)
  BY DEF Surjection
<1>3. ASSUME NEW m \in S PROVE IsFiniteSet(part(m))
  <2>1. IsFiniteSet({m})
    BY FS_Singleton
  <2>2. Size[fl[m]] \in Nat
    OBVIOUS
  <2>3. IsFiniteSet(1 .. Size[fl[m]])
    BY <2>2, FS_Interval
  <2>4. QED
    BY <2>1, <2>3, FS_Product
<1>4. \A P \in F : IsFiniteSet(P)
  BY <1>3
<1>5. Contents(S, fl) = UNION F
  BY DEF Contents
<1> HIDE DEF F, g
<1>6. IsFiniteSet(F)
  BY <1>1, <1>2, FS_Surjection
<1>7. QED
  BY <1>4, <1>5, <1>6, FS_UNION

(* One file has as many bytes as stat() said.                              *)
LEMMA ContentsOne ==
  ASSUME NEW m \in Maps, NEW fl, fl[m] \in Files
  PROVE  Cardinality(Contents({m}, fl)) = Size[fl[m]]
<1> DEFINE n == Size[fl[m]]
<1>1. n \in Nat
  OBVIOUS
<1>2. Contents({m}, fl) = {m} \X (1 .. n)
  BY DEF Contents
<1> HIDE DEF n
<1>3. IsFiniteSet({m}) /\ Cardinality({m}) = 1
  BY FS_Singleton
<1>4. IsFiniteSet(1 .. n) /\ Cardinality(1 .. n) = n
  <2>1. 1 \in Int /\ n \in Int
    BY <1>1
  <2>2. Cardinality(1 .. n) = IF 1 > n THEN 0 ELSE n - 1 + 1
    BY <2>1, FS_Interval
  <2>3. QED
    BY <1>1, <2>1, <2>2, FS_Interval
<1>5. Cardinality({m} \X (1 .. n)) = Cardinality({m}) * Cardinality(1 .. n)
  BY <1>3, <1>4, FS_Product
<1>6. Cardinality(Contents({m}, fl)) = 1 * n
  BY <1>2, <1>3, <1>4, <1>5
<1>7. QED
  BY <1>1, <1>6 DEF n

(* The bytes of two groups of Maps add up.                                 *)
LEMMA ContentsUnion ==
  ASSUME NEW S \in SUBSET Maps, NEW T \in SUBSET Maps, S \cap T = {}, NEW fl,
         \A m \in S \cup T : fl[m] \in Files
  PROVE  /\ Cardinality(Contents(S \cup T, fl)) =
              Cardinality(Contents(S, fl)) + Cardinality(Contents(T, fl))
         /\ Cardinality(Contents(S, fl)) \in Nat
         /\ Cardinality(Contents(T, fl)) \in Nat
<1> DEFINE A == Contents(S, fl)
           B == Contents(T, fl)
<1>1. IsFiniteSet(A) /\ IsFiniteSet(B)
  BY ContentsFinite
<1>2. Contents(S \cup T, fl) = A \cup B
  BY DEF Contents
<1>3. A \cap B = {}
  BY DEF Contents
<1> HIDE DEF A, B
<1>4. Cardinality(A) \in Nat /\ Cardinality(B) \in Nat
  BY <1>1, FS_CardinalityType
<1>5. Cardinality(A \cup B) = Cardinality(A) + Cardinality(B) - Cardinality(A \cap B)
  BY <1>1, FS_Union
<1>6. Cardinality(A \cap B) = 0
  BY <1>3, FS_EmptySet
<1>7. Cardinality(A \cup B) = Cardinality(A) + Cardinality(B)
  BY <1>4, <1>5, <1>6
<1>8. QED
  BY <1>2, <1>4, <1>7 DEF A, B

(* Only the files of the Maps in question matter.                          *)
LEMMA ContentsSame ==
  ASSUME NEW S, NEW fl, NEW other, \A m \in S : other[m] = fl[m]
  PROVE  Contents(S, other) = Contents(S, fl)
BY DEF Contents

(* What really_unmap() takes off mapped_bytes leaves the bytes of the rest.*)
LEMMA BytesWithout ==
  ASSUME TypeOK, FilesKnown, NEW gone \in SUBSET maps, NEW other,
         \A m \in maps \ gone : other[m] = file[m]
  PROVE  /\ Cardinality(Contents(maps \ gone, other)) = Bytes(maps) - Bytes(gone)
         /\ Bytes(maps) \in Nat /\ Bytes(gone) \in Nat
<1> DEFINE left == maps \ gone
<1>1. /\ left \in SUBSET Maps /\ gone \in SUBSET Maps
      /\ left \cap gone = {} /\ left \cup gone = maps
      /\ \A m \in left \cup gone : file[m] \in Files
  BY DEF TypeOK, FilesKnown
<1>2. Contents(left, other) = Contents(left, file)
  BY ContentsSame
<1> HIDE DEF left
<1>3. /\ Cardinality(Contents(maps, file)) =
           Cardinality(Contents(left, file)) + Cardinality(Contents(gone, file))
      /\ Cardinality(Contents(left, file)) \in Nat
      /\ Cardinality(Contents(gone, file)) \in Nat
  BY <1>1, ContentsUnion
<1>4. QED
  BY <1>2, <1>3 DEF Bytes, left

-----------------------------------------------------------------------------
(* What the steps have in common                                           *)

(* The initial states.                                                     *)
LEMMA MmcInit == Init => MmcInv
<1> SUFFICES ASSUME Init PROVE MmcInv
  OBVIOUS
<1> USE DEF Init
<1>1. DefaultExpireAge \in DefaultExpireAge \div 10 .. MaxAge /\ 0 \in 0 .. MaxAge
  BY DEF MaxAge
<1>2. hash_table \in [0 .. hash_size - 1 -> Maps \cup {Nil}] /\ DOMAIN hash_table = {}
  OBVIOUS
<1>3. TypeOK
  BY <1>1, <1>2 DEF TypeOK, NoHold
<1>4. Contents(maps, file) = {} /\ Cardinality({}) = 0
  BY FS_EmptySet DEF Contents
<1>5. CountsAddUp
  <2>1. Bytes(maps) = 0 /\ Cardinality(maps) = 0 /\ Cardinality(free_maps) = 0
    BY <1>4 DEF Bytes
  <2>2. QED
    BY <2>1 DEF CountsAddUp
<1>6. SlotsExact
  BY <1>2 DEF SlotsExact
<1>7. HalfEmpty /\ OrderExact /\ SizeExact /\ FilesKnown
  BY DEF HalfEmpty, OrderExact, SizeExact, FilesKnown
<1>8. HeldExact /\ RefsExact
  BY DEF HeldExact, HoldExact, RefsExact
<1>9. QED
  BY <1>3, <1>5, <1>6, <1>7, <1>8 DEF MmcInv

(* The Map of a user with contents to send is counted, so it is not among  *)
(* those that panic() and mmc_cleanup() take.                              *)
LEMMA HeldCounted ==
  ASSUME MmcInv, NEW u \in Users, held[u].addr \in Maps
  PROVE  /\ held[u].addr \in maps /\ held[u].file \in Files
         /\ file[held[u].addr] = held[u].file /\ Size[held[u].file] > 0
         /\ refcount[held[u].addr] > 0
<1> DEFINE m == held[u].addr
<1>1. /\ held[u].file \in Files /\ Size[held[u].file] # 0
      /\ m \in maps /\ file[m] = held[u].file
  BY DEF MmcInv, HeldExact, HoldExact, NoHold
<1>2. Size[held[u].file] > 0
  BY <1>1
<1>3. refcount[m] = Cardinality(UsersOf(m))
  BY <1>1, <1>2 DEF MmcInv, RefsExact
<1>4. u \in UsersOf(m) /\ IsFiniteSet(UsersOf(m))
  <2>1. UsersOf(m) \subseteq Users
    BY DEF UsersOf
  <2>2. QED
    BY <2>1, FS_Subset DEF UsersOf
<1>5. Cardinality(UsersOf(m)) \in Nat /\ Cardinality(UsersOf(m)) # 0
  BY <1>4, FS_CardinalityType, FS_EmptySet
<1>6. QED
  BY <1>1, <1>2, <1>3, <1>5

(* The step leaves the list alone, but the table may have grown.           *)
Grown(idx) ==
  /\ hash_size' = TableSize /\ hash_table' = TableOf(idx)
  /\ hash_idx' = [x \in Maps |-> IF x \in maps THEN idx[x] ELSE 0]
  /\ UNCHANGED << maps, ahead, file, free_maps, counts >>

LEMMA GrownExact ==
  ASSUME MmcInv, NEW idx \in Slots, Grown(idx)
  PROVE  /\ hash_size' \in Nat /\ hash_idx' \in [Maps -> Nat]
         /\ hash_table' \in [0 .. hash_size' - 1 -> Maps \cup {Nil}]
         /\ SlotsExact' /\ CountsAddUp' /\ HalfEmpty' /\ OrderExact' /\ SizeExact' /\ FilesKnown'
<1> USE DEF MmcInv
<1> DEFINE n == TableSize
           tab == TableOf(idx)
<1>1. TabExact(tab, idx, maps, n)
  BY SlotsTable
<1>2. /\ n \in HashSizes /\ n \in Nat \ {0} /\ 2 * (map_count + 1) <= n
      /\ map_count \in Nat /\ maps \in SUBSET Maps
  BY TableSizeExact, MapsFinite DEF TypeOK
<1> HIDE DEF n, tab
<1>3. \A m \in maps : hash_idx'[m] = idx[m] /\ idx[m] \in Nat
  BY <1>1, <1>2 DEF TabExact, Grown
<1>4. TabExact(tab, hash_idx', maps, n)
  BY <1>1, <1>2, <1>3, TabReindexed
<1>5. hash_size' = n /\ hash_table' = tab /\ maps' = maps
  BY DEF Grown, n, tab
<1>6. hash_size' \in Nat /\ hash_table' \in [0 .. hash_size' - 1 -> Maps \cup {Nil}]
  BY <1>1, <1>2, <1>5, TabSlots
<1>7. hash_idx' \in [Maps -> Nat]
  BY <1>3 DEF Grown
<1>8. SlotsExact'
  <2>1. SlotsOf(hash_table', hash_idx', maps')
    BY <1>2, <1>4, <1>5, TabSlots
  <2>2. QED
    BY <2>1 DEF SlotsExact, SlotsOf
<1>9. CountsAddUp'
  BY DEF Grown, CountsAddUp, Bytes, counts
<1>10. HalfEmpty'
  <2>1. map_count' = map_count
    BY DEF Grown, counts
  <2>2. QED
    BY <1>2, <1>5, <2>1 DEF HalfEmpty
<1>11. OrderExact' /\ FilesKnown'
  BY DEF Grown, OrderExact, FilesKnown
<1>12. SizeExact'
  BY <1>2, <1>5 DEF SizeExact
<1>13. QED
  BY <1>6, <1>7, <1>8, <1>9, <1>10, <1>11, <1>12

(* The step unmaps the Maps that are gone, from the table tab of n slots.  *)
Shrunk(gone, tab, idx, n) ==
  LET left == maps \ gone IN
  /\ maps' = left
  /\ ahead' = [x \in Maps |-> IF x \in left THEN ahead[x] \ gone ELSE {}]
  /\ file' = [x \in Maps |-> IF x \in left THEN file[x] ELSE NoFile]
  /\ unused_for' = [x \in Maps |-> IF x \in left THEN unused_for[x] ELSE 0]
  /\ hash_size' = n
  /\ hash_table' = WithoutSlots(tab, idx, gone)
  /\ hash_idx' = [x \in Maps |-> IF x \in left THEN idx[x] ELSE 0]
  /\ map_count' = map_count - Cardinality(gone)
  /\ mapped_bytes' = mapped_bytes - Bytes(gone)

LEMMA ShrunkExact ==
  ASSUME MmcInv, NEW gone \in SUBSET maps, NEW tab, NEW idx, NEW n \in HashSizes \cup {0},
         TabExact(tab, idx, maps, n), 2 * map_count <= n, Shrunk(gone, tab, idx, n)
  PROVE  /\ maps' \subseteq Maps /\ ahead' \in [Maps -> SUBSET Maps]
         /\ file' \in [Maps -> Files \cup {NoFile}]
         /\ unused_for' \in [Maps -> 0 .. MaxAge]
         /\ hash_size' \in Nat /\ hash_idx' \in [Maps -> Nat]
         /\ hash_table' \in [0 .. hash_size' - 1 -> Maps \cup {Nil}]
         /\ map_count' \in Nat /\ mapped_bytes' \in Int
         /\ map_count' = Cardinality(maps') /\ mapped_bytes' = Bytes(maps)'
         /\ SlotsExact' /\ HalfEmpty' /\ OrderExact' /\ SizeExact' /\ FilesKnown'
<1> USE DEF MmcInv
<1> DEFINE left == maps \ gone
<1>1. /\ n \in Nat /\ maps \in SUBSET Maps /\ left \in SUBSET Maps /\ gone \in SUBSET Maps
  BY HashSizesAssumption DEF TypeOK
<1>2. maps' = left /\ hash_size' = n /\ hash_table' = WithoutSlots(tab, idx, gone)
  BY DEF Shrunk
<1>3. TabExact(WithoutSlots(tab, idx, gone), idx, left, n)
  BY <1>1, TabWithout
<1>4. \A m \in left : hash_idx'[m] = idx[m] /\ idx[m] \in Nat
  <2>1. \A m \in left : idx[m] \in Nat
    BY <1>1, <1>3, TabSlots
  <2>2. QED
    BY <1>1, <2>1 DEF Shrunk
<1>5. TabExact(hash_table', hash_idx', left, n)
  BY <1>1, <1>2, <1>3, <1>4, TabReindexed
<1>6. SlotsExact'
  <2>1. SlotsOf(hash_table', hash_idx', maps')
    BY <1>1, <1>2, <1>5, TabSlots
  <2>2. QED
    BY <2>1 DEF SlotsExact, SlotsOf
<1>7. hash_size' \in Nat /\ hash_table' \in [0 .. hash_size' - 1 -> Maps \cup {Nil}]
  BY <1>1, <1>2, <1>5, TabSlots
<1>8. hash_idx' \in [Maps -> Nat]
  BY <1>4 DEF Shrunk
<1>9. /\ Cardinality(left) = map_count - Cardinality(gone) /\ Cardinality(left) \in Nat
      /\ Cardinality(gone) \in Nat
  <2>1. /\ IsFiniteSet(maps) /\ map_count = Cardinality(maps)
        /\ maps \cap gone = gone /\ IsFiniteSet(gone) /\ IsFiniteSet(left)
    BY MapsFinite, FS_Subset
  <2>2. Cardinality(left) = Cardinality(maps) - Cardinality(gone)
    BY <2>1, FS_Difference
  <2>3. QED
    BY <2>1, <2>2, FS_CardinalityType
<1>10. map_count' \in Nat /\ map_count' = Cardinality(maps')
  BY <1>2, <1>9 DEF Shrunk
<1>11. HalfEmpty'
  <2>1. map_count' = map_count - Cardinality(gone) /\ map_count \in Nat
    BY MapsFinite DEF Shrunk
  <2>2. 2 * map_count' <= n
    BY <1>1, <1>9, <1>10, <2>1
  <2>3. QED
    BY <1>2, <2>2 DEF HalfEmpty
<1>12. mapped_bytes' = Bytes(maps)' /\ mapped_bytes' \in Int
  <2>1. \A m \in maps \ gone : file'[m] = file[m]
    BY <1>1 DEF Shrunk
  <2>2. /\ Cardinality(Contents(maps \ gone, file')) = Bytes(maps) - Bytes(gone)
        /\ Bytes(maps) \in Nat /\ Bytes(gone) \in Nat
    BY <2>1, BytesWithout
  <2>3. mapped_bytes' = Bytes(maps) - Bytes(gone)
    BY DEF Shrunk, CountsAddUp
  <2>4. Bytes(maps)' = Cardinality(Contents(maps \ gone, file'))
    BY <1>2 DEF Bytes
  <2>5. QED
    BY <2>2, <2>3, <2>4
<1>13. OrderExact'
  <2>1. \A m \in left : ahead'[m] = ahead[m] \ gone
    BY <1>1 DEF Shrunk
  <2>2. \A m \in left : ahead[m] \subseteq maps \ {m}
    BY DEF OrderExact
  <2>3. \A m \in left : ahead'[m] \subseteq left \ {m}
    BY <2>1, <2>2
  <2>4. \A m \in left, x \in left : x = m \/ x \in ahead'[m] \/ m \in ahead'[x]
    BY <2>1 DEF OrderExact
  <2>5. \A m \in left : \A x \in ahead'[m] : ahead'[x] \subseteq ahead'[m]
    BY <2>1, <2>2, <2>3 DEF OrderExact
  <2>6. QED
    BY <1>2, <2>3, <2>4, <2>5 DEF OrderExact
<1>14. SizeExact'
  <2>1. n = 0 => maps = {}
    <3>1. map_count \in Nat /\ (map_count = 0 => maps = {})
      BY MapsFinite
    <3>2. QED
      BY <3>1
  <2>2. QED
    BY <1>2, <2>1 DEF SizeExact
<1>15. FilesKnown'
  BY <1>1, <1>2 DEF Shrunk, FilesKnown
<1>16. maps' \subseteq Maps /\ ahead' \in [Maps -> SUBSET Maps]
  BY <1>1, <1>2 DEF Shrunk, TypeOK
<1>17. file' \in [Maps -> Files \cup {NoFile}] /\ unused_for' \in [Maps -> 0 .. MaxAge]
  <2>1. 0 \in 0 .. MaxAge
    BY DEF MaxAge
  <2>2. QED
    BY <1>1, <2>1 DEF Shrunk, TypeOK
<1>18. QED
  BY <1>6, <1>7, <1>8, <1>10, <1>11, <1>12, <1>13, <1>14, <1>15, <1>16, <1>17

(* The Maps that are gone had no user: the others keep theirs.             *)
LEMMA UsersKept ==
  ASSUME MmcInv, NEW gone \in SUBSET maps, maps' = maps \ gone, held' = held,
         \A m \in maps \ gone : file'[m] = file[m] /\ refcount'[m] = refcount[m],
         \A u \in Users : held[u].addr \notin gone
  PROVE  HeldExact' /\ RefsExact'
<1>1. ASSUME NEW u \in Users
      PROVE  HoldExact(u)'
  <2>1. HoldExact(u)
    BY DEF MmcInv, HeldExact
  <2>2. QED
    BY <2>1 DEF HoldExact
<1>2. ASSUME NEW m \in maps', Size[file'[m]] > 0
      PROVE  refcount'[m] = Cardinality(UsersOf(m)')
  <2>1. m \in maps /\ file'[m] = file[m] /\ refcount'[m] = refcount[m]
    BY <1>2
  <2>2. UsersOf(m)' = UsersOf(m)
    BY DEF UsersOf
  <2>3. refcount[m] = Cardinality(UsersOf(m))
    BY <1>2, <2>1 DEF MmcInv, RefsExact
  <2>4. QED
    BY <2>1, <2>2, <2>3
<1>3. QED
  BY <1>1, <1>2 DEF HeldExact, RefsExact

(* Nobody uses a file whose count is zero.                                 *)
LEMMA UnusedNotHeld ==
  ASSUME MmcInv
  PROVE  \A u \in Users : held[u].addr \notin Unreferenced
<1> SUFFICES ASSUME NEW u \in Users, held[u].addr \in Unreferenced PROVE FALSE
  OBVIOUS
<1>1. held[u].addr \in Maps /\ refcount[held[u].addr] = 0
  BY DEF Unreferenced, MmcInv, TypeOK
<1>2. QED
  BY <1>1, HeldCounted

-----------------------------------------------------------------------------
(* The steps that leave or shorten the list                                *)

(* open() fails.                                                           *)
LEMMA OpenFailStep ==
  ASSUME MmcInv, NEW idx \in Slots, OpenFail(idx)
  PROVE  MmcInv'
<1>1. Grown(idx)
  BY DEF OpenFail, Grown
<1>2. /\ hash_size' \in Nat /\ hash_idx' \in [Maps -> Nat]
      /\ hash_table' \in [0 .. hash_size' - 1 -> Maps \cup {Nil}]
      /\ SlotsExact' /\ CountsAddUp' /\ HalfEmpty' /\ OrderExact' /\ SizeExact'
      /\ FilesKnown'
  BY <1>1, GrownExact
<1>3. TypeOK'
  BY <1>2 DEF OpenFail, MmcInv, TypeOK, counts
<1>4. HeldExact' /\ RefsExact'
  <2>1. /\ maps' = maps \ {} /\ held' = held
        /\ \A m \in maps \ {} : file'[m] = file[m] /\ refcount'[m] = refcount[m]
        /\ \A u \in Users : held[u].addr \notin {}
    BY DEF OpenFail
  <2>2. {} \in SUBSET maps
    OBVIOUS
  <2>3. QED
    BY <2>1, <2>2, UsersKept
<1>5. QED
  BY <1>2, <1>3, <1>4 DEF MmcInv

(* What a new Map and panic() have in common.                              *)
LEMMA PanickedExact ==
  ASSUME MmcInv, NEW f \in Files, NEW gone \in Panicked(f), NEW m \in Allocatable
  PROVE  /\ gone \in SUBSET maps /\ gone \subseteq Unreferenced
         /\ m \in Maps /\ m \notin maps /\ m \notin gone
         /\ \A u \in Users : held[u].addr \notin gone /\ held[u].addr # m
<1>1. gone \in SUBSET maps /\ gone \subseteq Unreferenced
  BY DEF Panicked, Unreferenced
<1>2. m \in Maps /\ m \notin maps
  BY DEF Allocatable, MmcInv, CountsAddUp, TypeOK
<1>3. \A u \in Users : held[u].addr \notin gone
  BY <1>1, UnusedNotHeld
<1>4. \A u \in Users : held[u].addr # m
  BY <1>2, HeldCounted
<1>5. QED
  BY <1>1, <1>2, <1>3, <1>4

(* The file is not read.                                                   *)
LEMMA ReadFailStep ==
  ASSUME MmcInv, NEW idx \in Slots, NEW f \in Files, NEW gone \in Panicked(f),
         NEW m \in Allocatable, ReadFail(m, gone, idx)
  PROVE  MmcInv'
<1> DEFINE tab == TableOf(idx)
           n == TableSize
<1>1. /\ gone \in SUBSET maps /\ m \in Maps /\ m \notin maps /\ m \notin gone
      /\ \A u \in Users : held[u].addr \notin gone
  BY PanickedExact
<1>2. /\ n \in HashSizes \cup {0} /\ n \in Nat /\ 2 * map_count <= n
      /\ map_count \in Nat
  BY TableSizeExact, MapsFinite DEF MmcInv
<1>3. TabExact(tab, idx, maps, n)
  BY SlotsTable DEF MmcInv
<1>4. Shrunk(gone, tab, idx, n)
  BY DEF ReadFail, Shrunk
<1> HIDE DEF tab, n
<1>5. /\ maps' \subseteq Maps /\ ahead' \in [Maps -> SUBSET Maps]
      /\ file' \in [Maps -> Files \cup {NoFile}]
      /\ unused_for' \in [Maps -> 0 .. MaxAge]
      /\ hash_size' \in Nat /\ hash_idx' \in [Maps -> Nat]
      /\ hash_table' \in [0 .. hash_size' - 1 -> Maps \cup {Nil}]
      /\ map_count' \in Nat /\ mapped_bytes' \in Int
      /\ map_count' = Cardinality(maps') /\ mapped_bytes' = Bytes(maps)'
      /\ SlotsExact' /\ HalfEmpty' /\ OrderExact' /\ SizeExact' /\ FilesKnown'
  BY <1>1, <1>2, <1>3, <1>4, ShrunkExact
<1> DEFINE g == Cardinality(gone)
           fr == IF m \in free_maps THEN 1 ELSE 0
<1>6. /\ g \in Nat
      /\ Cardinality((free_maps \ {m}) \cup gone) = Cardinality(free_maps) - fr + g
      /\ Cardinality(free_maps) \in Nat
  <2>1. /\ IsFiniteSet(free_maps) /\ IsFiniteSet(gone) /\ gone \cap free_maps = {}
    BY <1>1, MapsFinite, FS_Subset DEF MmcInv, CountsAddUp
  <2>2. /\ IsFiniteSet(free_maps \ {m})
        /\ Cardinality(free_maps \ {m}) = Cardinality(free_maps) - fr
    BY <2>1, FS_RemoveElement, FS_CardinalityType
  <2>3. Cardinality((free_maps \ {m}) \cup gone) =
          Cardinality(free_maps \ {m}) + g - Cardinality((free_maps \ {m}) \cap gone)
    BY <2>1, <2>2, FS_Union
  <2>4. (free_maps \ {m}) \cap gone = {} /\ Cardinality({}) = 0
    BY <2>1, FS_EmptySet
  <2>5. g \in Nat /\ Cardinality(free_maps \ {m}) \in Nat /\ Cardinality(free_maps) \in Nat
    BY <2>1, <2>2, FS_CardinalityType
  <2>6. QED
    BY <2>2, <2>3, <2>4, <2>5
<1>7. /\ free_maps' = (free_maps \ {m}) \cup gone
      /\ alloc_count' = alloc_count - fr
      /\ free_count' = free_count + g - fr
      /\ map_count' = map_count - g
  <2>1. alloc_count \in Int
    BY DEF MmcInv, TypeOK
  <2>2. QED
    BY <2>1 DEF ReadFail
<1>8. /\ map_count + free_count = alloc_count /\ map_count \in Int
      /\ free_count = Cardinality(free_maps) /\ free_count \in Int
      /\ maps \cap free_maps = {} /\ fr \in Int /\ free_maps \subseteq Maps
  BY DEF MmcInv, CountsAddUp, TypeOK
<1>9. CountsAddUp'
  <2>1. maps' \cap free_maps' = {}
    BY <1>1, <1>7, <1>8 DEF ReadFail
  <2>2. free_count' = Cardinality(free_maps')
    BY <1>6, <1>7, <1>8
  <2> HIDE DEF g, fr
  <2>3. map_count' + free_count' = alloc_count'
    BY <1>6, <1>7, <1>8
  <2>4. QED
    BY <1>5, <2>1, <2>2, <2>3 DEF CountsAddUp
<1>10. TypeOK'
  <2>1. alloc_count' \in Int /\ free_count' \in Int /\ map_count' \in Int
    BY <1>6, <1>7, <1>8
  <2>2. free_maps' \subseteq Maps
    BY <1>1, <1>7, <1>8 DEF MmcInv, TypeOK
  <2>3. UNCHANGED << refcount, expire_age, held >>
    BY DEF ReadFail
  <2>4. QED
    BY <1>5, <2>1, <2>2, <2>3 DEF MmcInv, TypeOK
<1>11. HeldExact' /\ RefsExact'
  <2>1. /\ maps' = maps \ gone /\ held' = held
        /\ \A x \in maps \ gone : file'[x] = file[x] /\ refcount'[x] = refcount[x]
    BY DEF ReadFail, MmcInv, TypeOK
  <2>2. QED
    BY <1>1, <2>1, UsersKept
<1>12. QED
  BY <1>5, <1>9, <1>10, <1>11 DEF MmcInv

(* mmc_cleanup() and mmc_term() take Maps that nobody uses off the list.   *)
LEMMA DiscardStep ==
  ASSUME MmcInv, NEW gone \in SUBSET maps, NEW kept \in SUBSET (free_maps \cup gone),
         \A u \in Users : held[u].addr \notin gone,
         Discard(gone, kept), expire_age' \in DefaultExpireAge \div 10 .. MaxAge
  PROVE  MmcInv'
<1>1. /\ hash_size \in HashSizes \cup {0} /\ hash_size \in Nat
      /\ TabExact(hash_table, hash_idx, maps, hash_size)
      /\ 2 * map_count <= hash_size /\ map_count \in Nat
  BY SlotsAreTab, MapsFinite DEF MmcInv, SizeExact, TypeOK, HalfEmpty
<1>2. Shrunk(gone, hash_table, hash_idx, hash_size)
  BY DEF Discard, Shrunk
<1>3. /\ maps' \subseteq Maps /\ ahead' \in [Maps -> SUBSET Maps]
      /\ file' \in [Maps -> Files \cup {NoFile}]
      /\ unused_for' \in [Maps -> 0 .. MaxAge]
      /\ hash_size' \in Nat /\ hash_idx' \in [Maps -> Nat]
      /\ hash_table' \in [0 .. hash_size' - 1 -> Maps \cup {Nil}]
      /\ map_count' \in Nat /\ mapped_bytes' \in Int
      /\ map_count' = Cardinality(maps') /\ mapped_bytes' = Bytes(maps)'
      /\ SlotsExact' /\ HalfEmpty' /\ OrderExact' /\ SizeExact' /\ FilesKnown'
  BY <1>1, <1>2, ShrunkExact
<1> DEFINE g == Cardinality(gone)
           c == Cardinality(kept)
<1>4. /\ g \in Nat /\ c \in Nat /\ IsFiniteSet(kept)
  <2>1. IsFiniteSet(gone) /\ IsFiniteSet(free_maps \cup gone)
    BY MapsFinite, FS_Subset, FS_Union DEF MmcInv
  <2>2. QED
    BY <2>1, FS_Subset, FS_CardinalityType
<1>5. /\ free_maps' = kept /\ free_count' = c /\ map_count' = map_count - g
      /\ alloc_count' = alloc_count - (free_count + g - c)
      /\ maps' = maps \ gone /\ held' = held
      /\ refcount' = [x \in Maps |-> IF x \in maps \ gone THEN refcount[x] ELSE 0]
  BY DEF Discard
<1>6. /\ map_count + free_count = alloc_count /\ map_count \in Int
      /\ free_count \in Int /\ alloc_count \in Int
      /\ maps \cap free_maps = {} /\ free_maps \subseteq Maps /\ maps \subseteq Maps
  BY DEF MmcInv, CountsAddUp, TypeOK
<1>7. map_count' + free_count' = alloc_count' /\ alloc_count' \in Int /\ free_count' \in Int
  <2> HIDE DEF g, c
  <2> QED
    BY <1>4, <1>5, <1>6
<1>8. CountsAddUp'
  <2>1. maps' \cap free_maps' = {}
    BY <1>5, <1>6
  <2>2. free_count' = Cardinality(free_maps')
    BY <1>5
  <2>3. QED
    BY <1>3, <1>7, <2>1, <2>2 DEF CountsAddUp
<1>9. TypeOK'
  <2>1. free_maps' \subseteq Maps /\ map_count' \in Int
    BY <1>3, <1>5, <1>6
  <2>2. refcount' \in [Maps -> Nat]
    BY <1>5 DEF MmcInv, TypeOK
  <2>3. held' = held
    BY <1>5
  <2>4. QED
    BY <1>3, <1>7, <2>1, <2>2, <2>3 DEF MmcInv, TypeOK
<1>10. HeldExact' /\ RefsExact'
  <2>1. \A x \in maps \ gone : file'[x] = file[x] /\ refcount'[x] = refcount[x]
    BY <1>6 DEF Discard
  <2>2. QED
    BY <1>5, <2>1, UsersKept
<1>11. QED
  BY <1>3, <1>8, <1>9, <1>10 DEF MmcInv

(* The age limit stays between a tenth and three times the default.        *)
LEMMA AgeBounded ==
  ASSUME NEW count, NEW bytes, expire_age \in DefaultExpireAge \div 10 .. MaxAge
  PROVE  NewAge(count, bytes) \in DefaultExpireAge \div 10 .. MaxAge
<1> DEFINE D == DefaultExpireAge
           lo == D \div 10
           e == expire_age
<1>1. /\ D \in Nat \ {0} /\ lo \in Nat /\ lo <= D /\ MaxAge = 3 * D
      /\ e \in Nat /\ lo <= e /\ e <= 3 * D
  BY DEF MaxAge
<1>2. /\ (e * 2) \div 3 \in Nat /\ (e * 2) \div 3 <= e
      /\ (e * 5) \div 4 \in Nat /\ (e * 5) \div 4 >= e
  BY <1>1
<1>3. Shorter \in lo .. MaxAge
  BY <1>1, <1>2 DEF Shorter, Larger
<1>4. Longer \in lo .. MaxAge
  BY <1>1, <1>2 DEF Longer, Smaller
<1>5. QED
  BY <1>3, <1>4 DEF NewAge

LEMMA CleanupStep ==
  ASSUME MmcInv, Cleanup
  PROVE  MmcInv'
<1>1. PICK kept \in SUBSET (free_maps \cup Expired) : Discard(Expired, kept)
  BY DEF Cleanup
<1>2. Expired \in SUBSET maps /\ Expired \subseteq Unreferenced
  BY DEF Expired, Unreferenced
<1>3. \A u \in Users : held[u].addr \notin Expired
  BY <1>2, UnusedNotHeld
<1>4. expire_age' \in DefaultExpireAge \div 10 .. MaxAge
  <2>1. expire_age \in DefaultExpireAge \div 10 .. MaxAge
    BY DEF MmcInv, TypeOK
  <2>2. expire_age' = NewAge(map_count', mapped_bytes')
    BY DEF Cleanup
  <2>3. QED
    BY <2>1, <2>2, AgeBounded
<1>5. QED
  BY <1>1, <1>2, <1>3, <1>4, DiscardStep

LEMMA TermStep ==
  ASSUME MmcInv, Term
  PROVE  MmcInv'
<1>1. Discard(maps, {}) /\ expire_age' = expire_age
  BY DEF Term
<1>2. \A u \in Users : held[u].addr \notin maps
  BY DEF Term, NoHold, MmcInv, TypeOK
<1>3. expire_age' \in DefaultExpireAge \div 10 .. MaxAge
  BY <1>1 DEF MmcInv, TypeOK
<1>4. {} \in SUBSET (free_maps \cup maps) /\ maps \in SUBSET maps
  OBVIOUS
<1>5. QED
  BY <1>1, <1>2, <1>3, <1>4, DiscardStep

LEMMA TickStep ==
  ASSUME MmcInv, Tick
  PROVE  MmcInv'
<1>1. \A m \in Maps : Older(m) \in 0 .. MaxAge
  BY DEF Older, Smaller, MaxAge, MmcInv, TypeOK
<1>2. unused_for' \in [Maps -> 0 .. MaxAge]
  BY <1>1 DEF Tick
<1>3. TypeOK'
  BY <1>2 DEF Tick, MmcInv, TypeOK, table, counts
<1>4. SlotsExact' /\ HalfEmpty' /\ OrderExact' /\ SizeExact' /\ FilesKnown'
  BY DEF Tick, table, counts, MmcInv, SlotsExact, HalfEmpty, OrderExact, SizeExact,
         FilesKnown
<1>5. CountsAddUp'
  BY DEF Tick, counts, MmcInv, CountsAddUp, Bytes
<1>6. HeldExact' /\ RefsExact'
  BY DEF Tick, MmcInv, HeldExact, HoldExact, RefsExact, UsersOf
<1>7. QED
  BY <1>3, <1>4, <1>5, <1>6 DEF MmcInv

-----------------------------------------------------------------------------
(* mmc_unmap()                                                             *)

(* Some Maps of the list have a first one.                                 *)
LEMMA FirstInList ==
  ASSUME MmcInv, NEW S \in SUBSET maps, S # {}
  PROVE  \E x \in S : ahead[x] \cap S = {}
<1> DEFINE T == {Cardinality(ahead[x]) : x \in S}
<1>1. \A x \in S : IsFiniteSet(ahead[x]) /\ Cardinality(ahead[x]) \in Nat
  <2>1. \A x \in S : ahead[x] \subseteq maps
    BY DEF MmcInv, OrderExact
  <2>2. IsFiniteSet(maps)
    BY MapsFinite DEF MmcInv
  <2>3. \A x \in S : IsFiniteSet(ahead[x])
    BY <2>1, <2>2, FS_Subset
  <2>4. QED
    BY <2>3, FS_CardinalityType
<1>2. T \in SUBSET Nat /\ T # {}
  BY <1>1
<1>3. PICK c \in T : \A d \in T : c <= d
  BY <1>2, LeastOf
<1>4. PICK x \in S : \A y \in S : Cardinality(ahead[x]) <= Cardinality(ahead[y])
  BY <1>3
<1>5. ASSUME NEW y \in ahead[x] \cap S PROVE FALSE
  <2>1. ahead[y] \subseteq ahead[x] /\ y \notin ahead[y] /\ y \in ahead[x]
    BY DEF MmcInv, OrderExact
  <2>2. Cardinality(ahead[y]) < Cardinality(ahead[x])
    <3>1. Cardinality(ahead[y]) <= Cardinality(ahead[x])
          /\ (Cardinality(ahead[y]) = Cardinality(ahead[x]) => ahead[y] = ahead[x])
      BY <1>1, <2>1, FS_Subset
    <3>2. QED
      BY <1>1, <2>1, <3>1
  <2>3. QED
    BY <1>1, <1>4, <2>2
<1>6. QED
  BY <1>5

(* What mmc_unmap() finds has the address it was given, whatever the table *)
(* says: for a file with contents it is the very Map the user has.         *)
LEMMA EntryExact ==
  ASSUME MmcInv, NEW u \in Users, held[u] # NoHold
  PROVE  LET m == Entry(held[u].addr, held[u].file) IN
         /\ held[u].addr = One => m = Nil \/ (m \in maps /\ Size[file[m]] = 0)
         /\ held[u].addr # One => m = held[u].addr /\ held[u].addr \in maps
<1> DEFINE a == held[u].addr
           f == held[u].file
           hit == FindHash(f, hash_size, hash_table)
           same == {x \in maps : Addr(x) = a}
           m == Entry(a, f)
<1>1. HoldExact(u) /\ f \in Files
  BY DEF MmcInv, HeldExact, HoldExact
<1>2. \A x \in maps : Addr(x) = One \/ Addr(x) = x
  BY DEF Addr
<1>3. \A x \in maps : Addr(x) = One <=> Size[file[x]] = 0
  BY DEF Addr, MmcInv, TypeOK
<1>4. hit # Nil => hit \in maps
  <2>1. TabExact(hash_table, hash_idx, maps, hash_size) /\ hash_size \in Nat
        /\ maps \in SUBSET Maps
    BY SlotsAreTab DEF MmcInv, TypeOK
  <2>2. QED
    BY <1>1, <2>1, FindHashExact
<1>5. m = IF hit # Nil /\ Addr(hit) = a THEN hit
          ELSE IF same = {} THEN Nil ELSE CHOOSE x \in same : ahead[x] \cap same = {}
  BY DEF Entry
<1> HIDE DEF hit, m
<1>6. CASE a = One
  <2>1. same # {} => \E x \in same : ahead[x] \cap same = {}
    BY FirstInList
  <2>2. m = Nil \/ m \in same
    BY <1>4, <1>5, <2>1
  <2>3. \A x \in same : x \in maps /\ Size[file[x]] = 0
    BY <1>3, <1>6
  <2> HIDE DEF same
  <2>4. m = Nil \/ (m \in maps /\ Size[file[m]] = 0)
    BY <2>2, <2>3
  <2>5. QED
    BY <1>6, <2>4 DEF m
<1>7. CASE a # One
  <2>1. a \in maps /\ Size[file[a]] # 0
    BY <1>1, <1>7 DEF HoldExact
  <2>2. same = {a}
    BY <1>2, <1>3, <1>7, <2>1
  <2>3. ahead[a] \cap same = {}
    BY <2>1, <2>2 DEF MmcInv, OrderExact
  <2>4. (CHOOSE x \in same : ahead[x] \cap same = {}) = a
    BY <2>2, <2>3
  <2>5. hit # Nil /\ Addr(hit) = a => hit = a
    BY <1>2, <1>4, <1>7
  <2>6. m = a
    BY <1>5, <2>2, <2>4, <2>5
  <2>7. QED
    BY <1>7, <2>1, <2>6 DEF m
<1>8. QED
  BY <1>6, <1>7

(* The user lets go of his Map, and it is counted down.                    *)
LEMMA UnmapFileStep ==
  ASSUME MmcInv, NEW u \in Users, UnmapFile(u)
  PROVE  MmcInv'
<1> DEFINE a == held[u].addr
           m == Entry(a, held[u].file)
<1>1. /\ held[u] # NoHold /\ held' = [held EXCEPT ![u] = NoHold]
      /\ UNCHANGED << maps, ahead, file, hash_idx, free_maps, hash_size, hash_table,
                      alloc_count, map_count, free_count, mapped_bytes, expire_age >>
  BY DEF UnmapFile, table, counts
<1>2. \/ /\ m # Nil /\ refcount[m] > 0
         /\ refcount' = [refcount EXCEPT ![m] = @ - 1]
         /\ unused_for' = [unused_for EXCEPT ![m] = 0]
      \/ /\ ~ (m # Nil /\ refcount[m] > 0)
         /\ refcount' = refcount /\ unused_for' = unused_for
  BY DEF UnmapFile
<1>3. /\ a = One => (m = Nil \/ (m \in maps /\ Size[file[m]] = 0))
      /\ a # One => (m = a /\ a \in maps)
  BY <1>1, EntryExact
<1> HIDE DEF m
<1>4. refcount' \in [Maps -> Nat] /\ unused_for' \in [Maps -> 0 .. MaxAge]
  <2>1. refcount \in [Maps -> Nat] /\ unused_for \in [Maps -> 0 .. MaxAge] /\ 0 \in 0 .. MaxAge
    BY DEF MmcInv, TypeOK, MaxAge
  <2>2. (m # Nil /\ refcount[m] > 0) => m \in Maps
    BY <1>3 DEF MmcInv, TypeOK
  <2>3. CASE m # Nil /\ refcount[m] > 0
    <3>1. refcount[m] - 1 \in Nat
      BY <2>1, <2>2, <2>3
    <3>2. QED
      BY <1>2, <2>1, <2>3, <3>1
  <2>4. CASE ~ (m # Nil /\ refcount[m] > 0)
    BY <1>2, <2>1, <2>4
  <2>5. QED
    BY <2>3, <2>4
<1>5. TypeOK'
  <2>1. held' \in [Users -> [addr : Maps \cup {One, Nil}, file : Files \cup {NoFile}]]
    BY <1>1 DEF MmcInv, TypeOK, NoHold
  <2>2. QED
    BY <1>1, <1>4, <2>1 DEF MmcInv, TypeOK
<1>6. SlotsExact' /\ HalfEmpty' /\ OrderExact' /\ SizeExact' /\ FilesKnown'
  BY <1>1 DEF MmcInv, SlotsExact, HalfEmpty, OrderExact, SizeExact, FilesKnown
<1>7. CountsAddUp'
  BY <1>1 DEF MmcInv, CountsAddUp, Bytes
<1>8. HeldExact'
  <2>1. ASSUME NEW v \in Users PROVE HoldExact(v)'
    <3>1. HoldExact(v)
      BY DEF MmcInv, HeldExact
    <3>2. held'[v] = NoHold \/ held'[v] = held[v]
      BY <1>1 DEF MmcInv, TypeOK
    <3>3. QED
      BY <1>1, <3>1, <3>2 DEF HoldExact
  <2>2. QED
    BY <2>1 DEF HeldExact
<1>9. RefsExact'
  <2> SUFFICES ASSUME NEW x \in maps, Size[file[x]] > 0
               PROVE  refcount'[x] = Cardinality(UsersOf(x)')
    BY <1>1 DEF RefsExact
  <2>1. refcount[x] = Cardinality(UsersOf(x)) /\ x \in Maps /\ x # Nil /\ x # One
    BY DEF MmcInv, RefsExact, TypeOK
  <2>2. \A v \in Users : held'[v].addr = IF v = u THEN Nil ELSE held[v].addr
    BY <1>1 DEF MmcInv, TypeOK, NoHold
  <2>3. UsersOf(x)' = UsersOf(x) \ {u}
    BY <2>1, <2>2 DEF UsersOf
  <2>4. CASE a = x
    <3>1. m = x
      BY <1>3, <2>1, <2>4
    <3>2. refcount[x] > 0
      BY <2>1, <2>4, HeldCounted
    <3>3. refcount'[x] = refcount[x] - 1
      BY <1>2, <2>1, <3>1, <3>2 DEF MmcInv, TypeOK
    <3>4. u \in UsersOf(x) /\ IsFiniteSet(UsersOf(x))
      <4>1. UsersOf(x) \subseteq Users
        BY DEF UsersOf
      <4>2. QED
        BY <2>4, <4>1, FS_Subset DEF UsersOf
    <3>5. Cardinality(UsersOf(x) \ {u}) = Cardinality(UsersOf(x)) - 1
      BY <3>4, FS_RemoveElement
    <3>6. QED
      BY <2>1, <2>3, <3>3, <3>5
  <2>5. CASE a # x
    <3>1. m # x
      <4>1. Size[file[m]] # Size[file[x]] \/ m = a \/ m = Nil
        BY <1>3
      <4>2. QED
        BY <2>1, <2>5, <4>1
    <3>2. refcount'[x] = refcount[x]
      BY <1>2, <3>1 DEF MmcInv, TypeOK
    <3>3. UsersOf(x)' = UsersOf(x)
      BY <2>3, <2>5 DEF UsersOf
    <3>4. QED
      BY <2>1, <3>2, <3>3
  <2>6. QED
    BY <2>4, <2>5
<1>10. QED
  BY <1>5, <1>6, <1>7, <1>8, <1>9 DEF MmcInv

-----------------------------------------------------------------------------
(* mmc_map()                                                               *)

(* The file is found: it has one user more.                                *)
LEMMA MapAgainStep ==
  ASSUME MmcInv, NEW u \in Users, NEW f \in Files, NEW idx \in Slots, held[u] = NoHold,
         NEW m, m = FindHash(f, TableSize, TableOf(idx)), m # Nil,
         MapAgain(u, f, m, idx)
  PROVE  MmcInv'
<1>1. m \in maps /\ file[m] = f
  <2> DEFINE n == TableSize
             tab == TableOf(idx)
  <2>1. /\ n \in Nat /\ maps \in SUBSET Maps /\ TabExact(tab, idx, maps, n)
    BY TableSizeExact, SlotsTable DEF MmcInv, TypeOK
  <2> HIDE DEF n, tab
  <2>2. FindHash(f, n, tab) # Nil
    BY DEF n, tab
  <2>3. FindHash(f, n, tab) \in maps /\ file[FindHash(f, n, tab)] = f
    BY <2>1, <2>2, FindHashExact
  <2>4. QED
    BY <2>3 DEF n, tab
<1>2. Grown(idx) /\ expire_age' = expire_age
  BY DEF MapAgain, Grown
<1>3. /\ hash_size' \in Nat /\ hash_idx' \in [Maps -> Nat]
      /\ hash_table' \in [0 .. hash_size' - 1 -> Maps \cup {Nil}]
      /\ SlotsExact' /\ CountsAddUp' /\ HalfEmpty' /\ OrderExact' /\ SizeExact'
      /\ FilesKnown'
  BY <1>2, GrownExact
<1>4. UNCHANGED << maps, ahead, file, free_maps, alloc_count, map_count, free_count,
                   mapped_bytes >>
  BY <1>2 DEF Grown, counts
<1>5. /\ refcount' = [refcount EXCEPT ![m] = @ + 1]
      /\ unused_for' = [unused_for EXCEPT ![m] = 0]
      /\ held' = [held EXCEPT ![u] = [addr |-> Addr(m), file |-> f]]
      /\ Addr(m) = IF Size[f] = 0 THEN One ELSE m
      /\ m \in Maps
  BY <1>1 DEF MapAgain, Addr, MmcInv, TypeOK
<1>6. TypeOK'
  <2>1. refcount' \in [Maps -> Nat] /\ unused_for' \in [Maps -> 0 .. MaxAge]
    BY <1>5 DEF MmcInv, TypeOK, MaxAge
  <2>2. held' \in [Users -> [addr : Maps \cup {One, Nil}, file : Files \cup {NoFile}]]
    BY <1>5 DEF MmcInv, TypeOK
  <2>3. QED
    BY <1>2, <1>3, <1>4, <2>1, <2>2 DEF MmcInv, TypeOK
<1>7. HeldExact'
  <2>1. ASSUME NEW v \in Users PROVE HoldExact(v)'
    <3>1. HoldExact(v) /\ held \in [Users -> [addr : Maps \cup {One, Nil},
                                              file : Files \cup {NoFile}]]
      BY DEF MmcInv, HeldExact, TypeOK
    <3>2. CASE v = u
      <4>1. held'[v].addr = Addr(m) /\ held'[v].file = f
        BY <1>5, <3>1, <3>2
      <4>2. QED
        BY <1>1, <1>4, <1>5, <4>1 DEF HoldExact
    <3>3. CASE v # u
      <4>1. held'[v] = held[v]
        BY <1>5, <3>1, <3>3
      <4>2. QED
        BY <1>4, <3>1, <4>1 DEF HoldExact
    <3>4. QED
      BY <3>2, <3>3
  <2>2. QED
    BY <2>1 DEF HeldExact
<1>8. RefsExact'
  <2> SUFFICES ASSUME NEW x \in maps, Size[file[x]] > 0
               PROVE  refcount'[x] = Cardinality(UsersOf(x)')
    BY <1>4 DEF RefsExact
  <2>1. refcount[x] = Cardinality(UsersOf(x)) /\ x \in Maps /\ x # Nil /\ x # One
    BY DEF MmcInv, RefsExact, TypeOK
  <2>2. \A v \in Users : held'[v].addr = IF v = u THEN Addr(m) ELSE held[v].addr
    BY <1>5 DEF MmcInv, TypeOK
  <2>3. u \notin UsersOf(x)
    BY <2>1 DEF UsersOf, NoHold
  <2>4. CASE x = m
    <3>1. Addr(m) = x
      BY <1>1, <1>5, <2>4
    <3>2. UsersOf(x)' = UsersOf(x) \cup {u}
      BY <2>2, <3>1 DEF UsersOf
    <3>3. IsFiniteSet(UsersOf(x))
      <4>1. UsersOf(x) \subseteq Users
        BY DEF UsersOf
      <4>2. QED
        BY <4>1, FS_Subset
    <3>4. Cardinality(UsersOf(x) \cup {u}) = Cardinality(UsersOf(x)) + 1
      BY <2>3, <3>3, FS_AddElement
    <3>5. refcount'[x] = refcount[x] + 1
      BY <1>5, <2>4 DEF MmcInv, TypeOK
    <3>6. QED
      BY <2>1, <3>2, <3>4, <3>5
  <2>5. CASE x # m
    <3>1. refcount'[x] = refcount[x]
      BY <1>5, <2>1, <2>5 DEF MmcInv, TypeOK
    <3>2. Addr(m) # x
      BY <1>5, <2>1, <2>5
    <3>3. UsersOf(x)' = UsersOf(x)
      BY <2>2, <2>3, <3>2 DEF UsersOf
    <3>4. QED
      BY <2>1, <3>1, <3>3
  <2>6. QED
    BY <2>4, <2>5
<1>9. QED
  BY <1>3, <1>6, <1>7, <1>8 DEF MmcInv

(* The file is read into a new Map, after panic() or not.                  *)
LEMMA MapNewStep ==
  ASSUME MmcInv, NEW u \in Users, NEW f \in Files, NEW idx \in Slots, held[u] = NoHold,
         NEW gone \in Panicked(f), NEW m \in Allocatable, MapNew(u, f, m, gone, idx)
  PROVE  MmcInv'
<1> DEFINE left == maps \ gone
           n == TableSize
           tab == WithoutSlots(TableOf(idx), idx, gone)
           used == {k \in DOMAIN tab : tab[k] # Nil}
           i == FreeProbe(f, n, used)
           g == Cardinality(gone)
           fr == IF m \in free_maps THEN 1 ELSE 0
<1>1. /\ gone \in SUBSET maps /\ m \in Maps /\ m \notin maps /\ m \notin gone
      /\ m \notin left /\ left \in SUBSET Maps /\ gone \in SUBSET Maps
      /\ maps \in SUBSET Maps
      /\ \A v \in Users : held[v].addr \notin gone /\ held[v].addr # m
  BY PanickedExact DEF MmcInv, TypeOK
<1>2. /\ n \in HashSizes /\ n \in Nat \ {0} /\ 2 * (map_count + 1) <= n
      /\ map_count \in Nat /\ map_count = Cardinality(maps)
      /\ IsFiniteSet(maps) /\ IsFiniteSet(free_maps)
  BY TableSizeExact, MapsFinite DEF MmcInv
<1>3. /\ IsFiniteSet(gone) /\ IsFiniteSet(left) /\ g \in Nat
      /\ Cardinality(left) = map_count - g /\ Cardinality(left) \in Nat
  <2>1. IsFiniteSet(gone) /\ IsFiniteSet(left) /\ maps \cap gone = gone
    BY <1>1, <1>2, FS_Subset
  <2>2. Cardinality(left) = Cardinality(maps) - Cardinality(gone)
    BY <1>1, <1>2, <2>1, FS_Difference
  <2>3. QED
    BY <1>2, <2>1, <2>2, FS_CardinalityType
<1>4. TabExact(tab, idx, left, n)
  <2>1. TabExact(TableOf(idx), idx, maps, n)
    BY SlotsTable DEF MmcInv
  <2>2. QED
    BY <1>1, <1>2, <2>1, TabWithout
<1>5. i \in 0 .. n - 1 /\ tab[i] = Nil
  <2>1. DOMAIN tab = 0 .. n - 1
    BY <1>4 DEF TabExact
  <2>2. IsFiniteSet(used) /\ Cardinality(used) <= Cardinality(left)
    <3> HIDE DEF tab, left, n
    <3> QED
      BY <1>1, <1>2, <1>4, TabUsed
  <2>3. Cardinality(used) < n
    <3>1. Cardinality(used) \in Nat
      BY <2>2, FS_CardinalityType
    <3> HIDE DEF used, left, n, g
    <3> QED
      BY <1>2, <1>3, <2>2, <3>1
  <2>4. i \in (0 .. n - 1) \ used
    <3> HIDE DEF used, n
    <3> QED
      BY <1>2, <2>2, <2>3, FreeProbeExact
  <2>5. QED
    BY <2>1, <2>4
<1>6. /\ maps' = left \cup {m}
      /\ ahead' = [x \in Maps |-> IF x \in left THEN (ahead[x] \ gone) \cup {m} ELSE {}]
      /\ file' = [x \in Maps |->
                    IF x = m THEN f ELSE IF x \in left THEN file[x] ELSE NoFile]
      /\ refcount' = [refcount EXCEPT ![m] = 1]
      /\ unused_for' = [x \in Maps |-> IF x \in left THEN unused_for[x] ELSE 0]
      /\ hash_size' = n /\ hash_table' = [tab EXCEPT ![i] = m]
      /\ hash_idx' = [x \in Maps |->
                        IF x = m THEN i ELSE IF x \in left THEN idx[x] ELSE 0]
      /\ free_maps' = (free_maps \ {m}) \cup gone
      /\ free_count' = free_count + g - fr
      /\ map_count' = map_count - g + 1
      /\ mapped_bytes' = mapped_bytes - Bytes(gone) + Size[f]
      /\ held' = [held EXCEPT ![u] = [addr |-> IF Size[f] = 0 THEN One ELSE m,
                                      file |-> f]]
      /\ expire_age' = expire_age
  BY DEF MapNew
<1>7. alloc_count' = alloc_count + 1 - fr
  <2>1. alloc_count' = IF m \in free_maps THEN alloc_count ELSE alloc_count + 1
    BY DEF MapNew
  <2>2. alloc_count \in Int
    BY DEF MmcInv, TypeOK
  <2>3. QED
    BY <2>1, <2>2
<1> HIDE DEF n, tab, used, i, g
<1>8. TabExact(hash_table', hash_idx', maps', n)
  <2> DEFINE other == hash_idx'
  <2>1. other[m] = i /\ \A x \in left : other[x] = idx[x]
    BY <1>1, <1>6
  <2>2. m \in Maps \ left
    BY <1>1
  <2> HIDE DEF other, left
  <2>3. TabExact([tab EXCEPT ![i] = m], other, left \cup {m}, n)
    BY <1>1, <1>2, <1>4, <1>5, <2>1, <2>2, TabWith
  <2>4. QED
    BY <1>6, <2>3 DEF other, left
<1>9. maps' \in SUBSET Maps
  BY <1>1, <1>6
<1>10. SlotsExact'
  <2>1. SlotsOf(hash_table', hash_idx', maps')
    BY <1>2, <1>8, <1>9, TabSlots
  <2>2. QED
    BY <2>1 DEF SlotsExact, SlotsOf
<1>11. /\ hash_size' \in Nat /\ hash_idx' \in [Maps -> Nat]
       /\ hash_table' \in [0 .. hash_size' - 1 -> Maps \cup {Nil}]
  <2>1. hash_table' \in [0 .. hash_size' - 1 -> Maps \cup {Nil}]
    BY <1>2, <1>6, <1>8, <1>9, TabSlots
  <2>2. \A x \in left : idx[x] \in Nat
    BY <1>1, <1>2, <1>4, TabSlots
  <2>3. i \in Nat
    BY <1>2, <1>5
  <2>4. hash_idx' \in [Maps -> Nat]
    BY <1>6, <2>2, <2>3
  <2>5. QED
    BY <1>2, <1>6, <2>1, <2>4
<1>12. Cardinality(maps') = map_count' /\ map_count' \in Nat
  <2>1. Cardinality(left \cup {m}) = Cardinality(left) + 1
    BY <1>1, <1>3, FS_AddElement
  <2>2. QED
    BY <1>2, <1>3, <1>6, <2>1
<1>13. /\ Cardinality((free_maps \ {m}) \cup gone) = Cardinality(free_maps) - fr + g
       /\ Cardinality(free_maps) \in Nat
  <2>1. /\ IsFiniteSet(free_maps \ {m})
        /\ Cardinality(free_maps \ {m}) = Cardinality(free_maps) - fr
    BY <1>2, FS_RemoveElement, FS_CardinalityType
  <2>2. Cardinality((free_maps \ {m}) \cup gone) =
          Cardinality(free_maps \ {m}) + g - Cardinality((free_maps \ {m}) \cap gone)
    BY <1>3, <2>1, FS_Union DEF g
  <2>3. (free_maps \ {m}) \cap gone = {} /\ Cardinality({}) = 0
    BY <1>1, FS_EmptySet DEF MmcInv, CountsAddUp
  <2>4. Cardinality(free_maps \ {m}) \in Nat /\ Cardinality(free_maps) \in Nat
    BY <1>2, <2>1, FS_CardinalityType
  <2>5. fr \in Int
    OBVIOUS
  <2> DEFINE old == Cardinality(free_maps)
             less == Cardinality(free_maps \ {m})
             new == Cardinality((free_maps \ {m}) \cup gone)
  <2>6. new = less + g - 0 /\ less = old - fr
    BY <2>1, <2>2, <2>3
  <2> HIDE DEF fr, old, less, new
  <2>7. old \in Nat /\ less \in Nat
    BY <2>4 DEF old, less
  <2>8. new = old - fr + g
    BY <1>3, <2>5, <2>6, <2>7
  <2>9. QED
    BY <2>7, <2>8 DEF old, new
<1>14. /\ map_count + free_count = alloc_count /\ map_count \in Int
       /\ free_count = Cardinality(free_maps) /\ free_count \in Int
       /\ maps \cap free_maps = {} /\ fr \in Int /\ free_maps \subseteq Maps
       /\ alloc_count \in Int
  BY DEF MmcInv, CountsAddUp, TypeOK
<1>15. mapped_bytes' = Bytes(maps)' /\ mapped_bytes' \in Int
  <2>1. \A x \in maps \ gone : file'[x] = file[x]
    BY <1>1, <1>6
  <2>2. /\ Cardinality(Contents(maps \ gone, file')) = Bytes(maps) - Bytes(gone)
        /\ Bytes(maps) \in Nat /\ Bytes(gone) \in Nat
    BY <1>1, <2>1, BytesWithout DEF MmcInv
  <2>3. file'[m] = f
    BY <1>1, <1>6
  <2>4. Cardinality(Contents({m}, file')) = Size[f]
    BY <1>1, <2>3, ContentsOne
  <2>5. \A x \in left \cup {m} : file'[x] \in Files
    BY <1>1, <2>1, <2>3 DEF MmcInv, FilesKnown
  <2>6. Cardinality(Contents(left \cup {m}, file')) =
          Cardinality(Contents(left, file')) + Cardinality(Contents({m}, file'))
    <3>1. {m} \in SUBSET Maps /\ left \cap {m} = {}
      BY <1>1
    <3> HIDE DEF left
    <3> QED
      BY <1>1, <2>5, <3>1, ContentsUnion
  <2>7. Bytes(maps)' = Cardinality(Contents(left \cup {m}, file'))
    BY <1>6 DEF Bytes
  <2>8. mapped_bytes' = Bytes(maps) - Bytes(gone) + Size[f]
    BY <1>6 DEF MmcInv, CountsAddUp
  <2>9. QED
    BY <2>2, <2>4, <2>6, <2>7, <2>8
<1>16. CountsAddUp'
  <2>1. maps' \cap free_maps' = {}
    BY <1>1, <1>6, <1>14
  <2>2. free_count' = Cardinality(free_maps')
    BY <1>3, <1>6, <1>13, <1>14
  <2> HIDE DEF fr
  <2>3. map_count' + free_count' = alloc_count'
    BY <1>3, <1>6, <1>7, <1>14
  <2>4. QED
    BY <1>12, <1>15, <2>1, <2>2, <2>3 DEF CountsAddUp
<1>17. HalfEmpty'
  <2>1. 2 * map_count' <= n
    BY <1>2, <1>3, <1>6
  <2>2. QED
    BY <1>6, <2>1 DEF HalfEmpty
<1>18. OrderExact'
  <2>1. /\ \A x \in left : ahead'[x] = (ahead[x] \ gone) \cup {m}
        /\ ahead'[m] = {}
    BY <1>1, <1>6
  <2>2. \A x \in left : ahead[x] \subseteq maps \ {x}
    BY DEF MmcInv, OrderExact
  <2>3. \A x \in maps' : ahead'[x] \subseteq maps' \ {x}
    BY <1>1, <1>6, <2>1, <2>2
  <2>4. \A x \in maps', y \in maps' : y = x \/ y \in ahead'[x] \/ x \in ahead'[y]
    BY <1>6, <2>1 DEF MmcInv, OrderExact
  <2>5. \A x \in maps' : \A y \in ahead'[x] : ahead'[y] \subseteq ahead'[x]
    <3> SUFFICES ASSUME NEW x \in maps', NEW y \in ahead'[x]
                 PROVE  ahead'[y] \subseteq ahead'[x]
      OBVIOUS
    <3>1. x \in left
      BY <1>6, <2>1
    <3>2. CASE y = m
      BY <2>1, <3>2
    <3>3. CASE y # m
      <4>1. y \in ahead[x] /\ y \in left
        BY <2>1, <2>2, <3>1, <3>3
      <4>2. ahead[y] \subseteq ahead[x]
        BY <3>1, <4>1 DEF MmcInv, OrderExact
      <4>3. QED
        BY <2>1, <3>1, <4>1, <4>2
    <3>4. QED
      BY <3>2, <3>3
  <2>6. QED
    BY <2>3, <2>4, <2>5 DEF OrderExact
<1>19. SizeExact'
  <2>1. hash_size' \in HashSizes /\ hash_size' # 0
    BY <1>2, <1>6
  <2>2. QED
    BY <2>1 DEF SizeExact
<1>20. FilesKnown'
  BY <1>1, <1>6 DEF FilesKnown, MmcInv
<1>21. TypeOK'
  <2>1. ahead' \in [Maps -> SUBSET Maps]
    BY <1>1, <1>6 DEF MmcInv, TypeOK
  <2>2. file' \in [Maps -> Files \cup {NoFile}]
    BY <1>6 DEF MmcInv, TypeOK
  <2>3. refcount' \in [Maps -> Nat] /\ unused_for' \in [Maps -> 0 .. MaxAge]
    <3>1. refcount \in [Maps -> Nat] /\ unused_for \in [Maps -> 0 .. MaxAge] /\ 0 \in 0 .. MaxAge
      BY DEF MmcInv, TypeOK, MaxAge
    <3>2. QED
      BY <1>1, <1>6, <3>1
  <2>4. held' \in [Users -> [addr : Maps \cup {One, Nil}, file : Files \cup {NoFile}]]
    BY <1>1, <1>6 DEF MmcInv, TypeOK
  <2>5. free_maps' \subseteq Maps
    BY <1>1, <1>6, <1>14
  <2>6. alloc_count' \in Int /\ free_count' \in Int /\ map_count' \in Int
    BY <1>3, <1>6, <1>7, <1>12, <1>14
  <2>7. expire_age' \in DefaultExpireAge \div 10 .. MaxAge
    BY <1>6 DEF MmcInv, TypeOK
  <2>8. maps' \subseteq Maps
    BY <1>9
  <2>9. QED
    BY <1>11, <1>15, <2>1, <2>2, <2>3, <2>4, <2>5, <2>6, <2>7, <2>8 DEF TypeOK
<1>22. HeldExact'
  <2>1. ASSUME NEW v \in Users PROVE HoldExact(v)'
    <3>1. HoldExact(v) /\ held \in [Users -> [addr : Maps \cup {One, Nil},
                                              file : Files \cup {NoFile}]]
      BY DEF MmcInv, HeldExact, TypeOK
    <3>2. CASE v = u
      <4>1. held'[v].addr = (IF Size[f] = 0 THEN One ELSE m) /\ held'[v].file = f
        BY <1>6, <3>1, <3>2
      <4>2. m \in maps' /\ file'[m] = f
        BY <1>1, <1>6
      <4>3. QED
        BY <4>1, <4>2 DEF HoldExact
    <3>3. CASE v # u
      <4>1. held'[v] = held[v]
        BY <1>6, <3>1, <3>3
      <4>2. \A x \in left : x \in maps' /\ file'[x] = file[x]
        BY <1>1, <1>6
      <4>3. held[v].addr \in maps => held[v].addr \in left
        BY <1>1
      <4>4. QED
        BY <3>1, <4>1, <4>2, <4>3 DEF HoldExact
    <3>4. QED
      BY <3>2, <3>3
  <2>2. QED
    BY <2>1 DEF HeldExact
<1>23. RefsExact'
  <2>1. \A v \in Users : held'[v].addr = IF v = u THEN (IF Size[f] = 0 THEN One ELSE m)
                                                  ELSE held[v].addr
    BY <1>6 DEF MmcInv, TypeOK
  <2>2. ASSUME NEW x \in left, Size[file'[x]] > 0
        PROVE  refcount'[x] = Cardinality(UsersOf(x)')
    <3>1. x \in Maps /\ x # m /\ x # Nil /\ x # One /\ file'[x] = file[x]
      BY <1>1, <1>6
    <3>2. refcount[x] = Cardinality(UsersOf(x))
      BY <2>2, <3>1 DEF MmcInv, RefsExact
    <3>3. refcount'[x] = refcount[x]
      BY <1>6, <3>1 DEF MmcInv, TypeOK
    <3>4. held[u].addr # x
      BY <3>1 DEF NoHold
    <3>5. UsersOf(x)' = UsersOf(x)
      BY <2>1, <3>1, <3>4 DEF UsersOf
    <3>6. QED
      BY <3>2, <3>3, <3>5
  <2>3. Size[file'[m]] > 0 => refcount'[m] = Cardinality(UsersOf(m)')
    <3> SUFFICES ASSUME Size[file'[m]] > 0
                 PROVE  refcount'[m] = Cardinality(UsersOf(m)')
      OBVIOUS
    <3>1. file'[m] = f /\ refcount'[m] = 1
      BY <1>1, <1>6 DEF MmcInv, TypeOK
    <3>2. UsersOf(m)' = {u}
      BY <1>1, <2>1, <3>1 DEF UsersOf
    <3>3. QED
      BY <3>1, <3>2, FS_Singleton
  <2>4. QED
    BY <1>6, <2>2, <2>3 DEF RefsExact
<1>24. QED
  BY <1>10, <1>16, <1>17, <1>18, <1>19, <1>20, <1>21, <1>22, <1>23 DEF MmcInv

-----------------------------------------------------------------------------
(* The theorems                                                            *)

(* Every step of the cache keeps the invariant.                            *)
LEMMA MmcNextInv ==
  ASSUME MmcInv, [Next]_vars
  PROVE  MmcInv'
<1>1. CASE UNCHANGED vars
  <2>1. UNCHANGED << maps, ahead, file, refcount, hash_idx, unused_for, free_maps,
                     hash_size, hash_table, alloc_count, map_count, free_count,
                     mapped_bytes, expire_age, held >>
    BY <1>1 DEF vars, table, counts
  <2>2. TypeOK' /\ SlotsExact' /\ HalfEmpty' /\ OrderExact' /\ SizeExact' /\ FilesKnown'
    BY <2>1 DEF MmcInv, TypeOK, SlotsExact, HalfEmpty, OrderExact, SizeExact, FilesKnown
  <2>3. CountsAddUp'
    BY <2>1 DEF MmcInv, CountsAddUp, Bytes
  <2>4. HeldExact' /\ RefsExact'
    BY <2>1 DEF MmcInv, HeldExact, HoldExact, RefsExact, UsersOf
  <2>5. QED
    BY <2>2, <2>3, <2>4 DEF MmcInv
<1>2. ASSUME NEW u \in Users, UnmapFile(u) PROVE MmcInv'
  BY <1>2, UnmapFileStep
<1>3. ASSUME NEW u \in Users, NEW f \in Files, MapFile(u, f) PROVE MmcInv'
  <2>1. held[u] = NoHold
    BY <1>3 DEF MapFile
  <2>2. PICK idx \in Slots :
          LET m == FindHash(f, TableSize, TableOf(idx)) IN
          \/ m # Nil /\ MapAgain(u, f, m, idx)
          \/ OpenFail(idx)
          \/ \E new \in Allocatable, gone \in Panicked(f) : MapNew(u, f, new, gone, idx)
          \/ \E new \in Allocatable, gone \in Panicked(f) : ReadFail(new, gone, idx)
    BY <1>3 DEF MapFile
  <2> DEFINE m == FindHash(f, TableSize, TableOf(idx))
  <2>3. CASE m # Nil /\ MapAgain(u, f, m, idx)
    BY <2>1, <2>3, MapAgainStep
  <2>4. CASE OpenFail(idx)
    BY <2>4, OpenFailStep
  <2>5. ASSUME NEW new \in Allocatable, NEW gone \in Panicked(f),
               MapNew(u, f, new, gone, idx)
        PROVE  MmcInv'
    BY <2>1, <2>5, MapNewStep
  <2>6. ASSUME NEW new \in Allocatable, NEW gone \in Panicked(f),
               ReadFail(new, gone, idx)
        PROVE  MmcInv'
    BY <2>6, ReadFailStep
  <2>7. QED
    BY <2>2, <2>3, <2>4, <2>5, <2>6
<1>4. QED
  BY <1>1, <1>2, <1>3, CleanupStep, TermStep, TickStep DEF Next

(* The invariant holds of the cache.                                       *)
THEOREM MmcInvariant == Spec => []MmcInv
<1>1. MmcInv /\ [Next]_vars => MmcInv'
  BY MmcNextInv
<1>2. QED
  BY MmcInit, <1>1, PTL DEF Spec

(* The variables of the cache keep their types: the table has as many slots*)
(* as hash_size says, each with a Map or nothing, and the age limit that   *)
(* mmc_cleanup() adapts stays between a tenth and three times the default. *)
THEOREM MmcTypeCorrect == Spec => []TypeOK
<1>1. MmcInv => TypeOK
  BY DEF MmcInv
<1>2. QED
  BY <1>1, MmcInvariant, PTL

(* The table points to mapped files only, each with its own slot, and the  *)
(* counters of mmc_logstats() agree with the lists and the bytes mapped.   *)
THEOREM MmcTableExact == Spec => []TableExact
<1>1. MmcInv => TableExact
  BY DEF MmcInv, TableExact
<1>2. QED
  BY <1>1, MmcInvariant, PTL

(* check_hash_size() keeps half of the table empty, so that the loops of   *)
(* add_hash() and find_hash() end.                                         *)
THEOREM MmcHalfEmpty == Spec => []HalfEmpty
<1>1. MmcInv => HalfEmpty
  BY DEF MmcInv
<1>2. QED
  BY <1>1, MmcInvariant, PTL

(* What a connection sends stays in memory, and is the file it asked for,  *)
(* whatever panic(), mmc_cleanup() and the broken hash chains do.          *)
THEOREM MmcHeldValid == Spec => []HeldValid
<1>1. MmcInv => HeldValid
  <2> SUFFICES ASSUME MmcInv, NEW u \in Users, held[u].addr \in Maps
               PROVE  held[u].addr \in maps /\ file[held[u].addr] = held[u].file
    BY DEF HeldValid
  <2> QED
    BY HeldCounted
<1>2. QED
  BY <1>1, MmcInvariant, PTL

(* The count of a file with contents is the number of its users.           *)
THEOREM MmcRefsExact == Spec => []RefsExact
<1>1. MmcInv => RefsExact
  BY DEF MmcInv
<1>2. QED
  BY <1>1, MmcInvariant, PTL
=============================================================================
