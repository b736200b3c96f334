-------------------------------- MODULE Mmc --------------------------------
(***************************************************************************)
(* The file cache (httpserver/src/mmc.c): files in memory with a count of  *)
(* the connections that use them, unused ones kept until they expire, and  *)
(* a hash table with linear probing to find them again.  really_unmap()    *)
(* empties a slot of the table without closing the gap, so that lookups    *)
(* may miss a file that is mapped.                                         *)
(*                                                                         *)
(* A file stands for what stat() says of it: inode, device, size and time  *)
(* of change.  Only memory for file contents can be short (panic());       *)
(* malloc() of a Map or of the hash table does not fail.  The fields of a  *)
(* Map that is not on the list maps are dead, and kept at one value.       *)
(***************************************************************************)
EXTENDS Integers, FiniteSets

CONSTANTS
  Users,                \* connections that map files
  Files, Size, HashOf,  \* files, st_size, and hash() before the mask
  Maps, Nil,            \* addresses malloc() can give a Map; (Map*) 0
  One, NoFile,          \* (void*) 1; a value that is no file
  InitialHashSize,      \* INITIAL_HASH_SIZE, a power of two
  HashSizes,            \* that, and what doubling it again and again gives
  DefaultExpireAge,     \* DEFAULT_EXPIRE_AGE
  DesiredFreeCount,     \* DESIRED_FREE_COUNT
  DesiredMaxMappedFiles,  \* DESIRED_MAX_MAPPED_FILES
  DesiredMaxMappedBytes,  \* DESIRED_MAX_MAPPED_BYTES
  TickLen,              \* seconds in a step of time
  MaxRefs               \* bound: the largest refcount, more than the users

ASSUME FilesAssumption == Size \in [Files -> Nat] /\ HashOf \in [Files -> Nat]
ASSUME NullAssumption ==
  Nil \notin Maps /\ One \notin Maps /\ Nil # One /\ NoFile \notin Files
ASSUME FiniteAssumption == IsFiniteSet(Users) /\ IsFiniteSet(Maps)
ASSUME HashSizesAssumption ==
  /\ HashSizes \subseteq Nat \ {0} /\ InitialHashSize \in HashSizes
  /\ \A n \in HashSizes : /\ n % 2 = 0
                          /\ n = InitialHashSize \/ \E x \in HashSizes : n = 2 * x
  /\ \E n \in HashSizes : n >= 6 * Cardinality(Maps)  \* an int is large enough
ASSUME SizesAssumption ==
  /\ DefaultExpireAge \in Nat \ {0}
  /\ DesiredFreeCount \in Nat /\ DesiredMaxMappedFiles \in Nat
  /\ DesiredMaxMappedBytes \in Nat /\ TickLen \in Nat \ {0}
ASSUME MaxRefsAssumption == Cardinality(Users) < MaxRefs

VARIABLES
  maps,        \* the Maps on the list of active ones
  ahead,       \* for each of them the Maps before it in the list
  file, refcount, hash_idx,
  unused_for,  \* now - reftime, while refcount is zero
  free_maps,   \* the Maps on the list of free ones (their order is of no use)
  hash_size, hash_table,
  alloc_count, map_count, free_count, mapped_bytes,
  expire_age,
  held         \* what a user has: the address, and the file for mmc_unmap()

table == << hash_size, hash_table >>
counts == << alloc_count, map_count, free_count, mapped_bytes >>
vars == << maps, ahead, file, refcount, hash_idx, unused_for, free_maps, table,
           counts, expire_age, held >>

NoHold == [addr |-> Nil, file |-> NoFile]
MaxAge == 3 * DefaultExpireAge

Larger(a, b) == IF a > b THEN a ELSE b
Smaller(a, b) == IF a < b THEN a ELSE b

(* m->addr: the contents of a file have an address of their own, named     *)
(* after the Map; all the empty files have the address 1.                  *)
Addr(m) == IF Size[file[m]] = 0 THEN One ELSE m

(* The bytes of files in memory, each the Map and the place in its file.   *)
Contents(S, fileOf) == UNION {{m} \X (1 .. Size[fileOf[m]]) : m \in S}
Bytes(S) == Cardinality(Contents(S, file))
Unreferenced == {m \in maps : refcount[m] = 0}

-----------------------------------------------------------------------------
(* The hash table                                                          *)

(* The slot of the k-th probe for file f in a table of n slots, n a power  *)
(* of two: it starts at hash() and goes round the table.                   *)
Hash(f, n) == HashOf[f] % n
Probe(f, k, n) == IF Hash(f, n) + k < n THEN Hash(f, n) + k ELSE Hash(f, n) + k - n

(* add_hash(): the first probe that meets a slot not in use.               *)
FreeProbe(f, n, used) ==
  LET Free(k) == Probe(f, k, n) \notin used
      k == CHOOSE i \in 0 .. n - 1 : Free(i) /\ \A j \in 0 .. i - 1 : ~ Free(j)
  IN Probe(f, k, n)

(* find_hash(): probes up to an empty slot.                                *)
FindHash(f, n, tab) ==
  LET At(k) == tab[Probe(f, k, n)]
      Hit(k) == At(k) # Nil /\ file[At(k)] = f
      Found(k) == Hit(k) /\ \A j \in 0 .. k - 1 : At(j) # Nil /\ ~ Hit(j)
  IN IF \E k \in 0 .. n - 1 : Found(k)
       THEN At(CHOOSE k \in 0 .. n - 1 : Found(k)) ELSE Nil

(* Mutant: the table grows when it is full.                                *)
TooSmallLate == hash_size = 0 \/ hash_size < map_count

(* check_hash_size(): a new table is needed, and the size it has.          *)
TooSmall == hash_size = 0 \/ hash_size < 3 * map_count

(* It is doubled once, and until it is big enough.                         *)
NewSize ==
  LET enough == {n \in HashSizes : n > hash_size /\ n >= 6 * map_count}
  IN IF hash_size = 0 THEN InitialHashSize
     ELSE CHOOSE n \in enough : \A x \in enough : n <= x

TableSize == IF TooSmall THEN NewSize ELSE hash_size

(* The slots of the Maps after check_hash_size(), which adds them to a new *)
(* table in the order of the list.                                         *)
Slots ==
  IF TooSmall
    THEN {idx \in [maps -> 0 .. TableSize - 1] :
            \A m \in maps :
              idx[m] = FreeProbe(file[m], TableSize, {idx[x] : x \in ahead[m]})}
    ELSE {[m \in maps |-> hash_idx[m]]}

TableOf(idx) ==
  IF TooSmall
    THEN [i \in 0 .. TableSize - 1 |->
            IF \E m \in maps : idx[m] = i THEN CHOOSE m \in maps : idx[m] = i
                                          ELSE Nil]
    ELSE hash_table

(* Mutant: the slot keeps pointing to the Map.                             *)
WithoutSlotsNot(tab, idx, gone) == tab

(* really_unmap() empties the slots of the Maps that are gone.             *)
WithoutSlots(tab, idx, gone) ==
  [i \in DOMAIN tab |-> IF \E m \in gone : idx[m] = i THEN Nil ELSE tab[i]]

-----------------------------------------------------------------------------
(* mmc_map()                                                               *)

(* The file is found.                                                      *)
MapAgain(u, f, m, idx) ==
  /\ refcount' = [refcount EXCEPT ![m] = @ + 1]
  /\ unused_for' = [unused_for EXCEPT ![m] = 0]
  /\ held' = [held EXCEPT ![u] = [addr |-> Addr(m), file |-> f]]
  /\ hash_size' = TableSize /\ hash_table' = TableOf(idx)
  /\ hash_idx' = [x \in Maps |-> IF x \in maps THEN idx[x] ELSE 0]
  /\ UNCHANGED << maps, ahead, file, free_maps, counts, expire_age >>

(* Mutant: panic() unmaps the files in use as well.                        *)
PanickedAll(f) == {{}} \cup (IF Size[f] = 0 THEN {} ELSE {maps})

(* A Map is taken from the free list or from the heap, memory for the file *)
(* from the heap, if need be after panic() has unmapped what is not used.  *)
Panicked(f) == {{}} \cup (IF Size[f] = 0 THEN {} ELSE {Unreferenced})

Allocatable ==
  IF free_maps # {} THEN free_maps ELSE Maps \ maps

MapNew(u, f, m, gone, idx) ==
  LET left == maps \ gone
      tab == WithoutSlots(TableOf(idx), idx, gone)
      i == FreeProbe(f, TableSize, {k \in DOMAIN tab : tab[k] # Nil})
  IN
  /\ maps' = left \cup {m}
  /\ ahead' = [x \in Maps |->
                 IF x \in left THEN (ahead[x] \ gone) \cup {m} ELSE {}]
  /\ file' = [x \in Maps |->
                IF x = m THEN f ELSE IF x \in left THEN file[x] ELSE NoFile]
  /\ refcount' = [refcount EXCEPT ![m] = 1]
  /\ unused_for' = [x \in Maps |-> IF x \in left THEN unused_for[x] ELSE 0]
  /\ hash_size' = TableSize
  /\ hash_table' = [tab EXCEPT ![i] = m]
  /\ hash_idx' = [x \in Maps |->
                    IF x = m THEN i ELSE IF x \in left THEN idx[x] ELSE 0]
  /\ free_maps' = (free_maps \ {m}) \cup gone
  /\ alloc_count' = IF m \in free_maps THEN alloc_count ELSE alloc_count + 1
  /\ free_count' = free_count + Cardinality(gone)
                     - (IF m \in free_maps THEN 1 ELSE 0)
  /\ map_count' = map_count - Cardinality(gone) + 1
  /\ mapped_bytes' = mapped_bytes - Bytes(gone) + Size[f]
  /\ held' = [held EXCEPT ![u] = [addr |-> IF Size[f] = 0 THEN One ELSE m,
                                  file |-> f]]
  /\ UNCHANGED expire_age

(* open() fails: only the table may have grown.                            *)
OpenFail(idx) ==
  /\ hash_size' = TableSize /\ hash_table' = TableOf(idx)
  /\ hash_idx' = [x \in Maps |-> IF x \in maps THEN idx[x] ELSE 0]
  /\ UNCHANGED << maps, ahead, file, refcount, unused_for, free_maps, counts,
                  expire_age, held >>

(* The file is not read, for lack of memory or by an error: the Map is     *)
(* given back to the heap.                                                 *)
ReadFail(m, gone, idx) ==
  LET left == maps \ gone IN
  /\ maps' = left
  /\ ahead' = [x \in Maps |-> IF x \in left THEN ahead[x] \ gone ELSE {}]
  /\ file' = [x \in Maps |-> IF x \in left THEN file[x] ELSE NoFile]
  /\ unused_for' = [x \in Maps |-> IF x \in left THEN unused_for[x] ELSE 0]
  /\ hash_size' = TableSize
  /\ hash_table' = WithoutSlots(TableOf(idx), idx, gone)
  /\ hash_idx' = [x \in Maps |-> IF x \in left THEN idx[x] ELSE 0]
  /\ free_maps' = (free_maps \ {m}) \cup gone
  /\ alloc_count' = IF m \in free_maps THEN alloc_count - 1 ELSE alloc_count
  /\ free_count' = free_count + Cardinality(gone)
                     - (IF m \in free_maps THEN 1 ELSE 0)
  /\ map_count' = map_count - Cardinality(gone)
  /\ mapped_bytes' = mapped_bytes - Bytes(gone)
  /\ UNCHANGED << refcount, expire_age, held >>

MapFile(u, f) ==
  /\ held[u] = NoHold
  /\ \E idx \in Slots :
       LET m == FindHash(f, TableSize, TableOf(idx)) IN
       \/ m # Nil /\ refcount[m] < MaxRefs /\ MapAgain(u, f, m, idx)
       \/ m = Nil /\ OpenFail(idx)
       \/ /\ m = Nil
          /\ \E new \in Allocatable, gone \in Panicked(f) :
               MapNew(u, f, new, gone, idx)
       \/ /\ m = Nil /\ Size[f] > 0
          /\ \E new \in Allocatable, gone \in Panicked(f) :
               ReadFail(new, gone, idx)

-----------------------------------------------------------------------------
(* mmc_unmap()                                                             *)

(* Mutant: what the table says is taken without a look at the address.     *)
EntryOfFile(a, f) ==
  LET m == FindHash(f, hash_size, hash_table)
      same == {x \in maps : Addr(x) = a}
  IN IF m # Nil THEN m
     ELSE IF same = {} THEN Nil
     ELSE CHOOSE x \in same : ahead[x] \cap same = {}

(* The table is asked first, then the list is searched for the address.    *)
Entry(a, f) ==
  LET m == FindHash(f, hash_size, hash_table)
      same == {x \in maps : Addr(x) = a}
  IN IF m # Nil /\ Addr(m) = a THEN m
     ELSE IF same = {} THEN Nil
     ELSE CHOOSE x \in same : ahead[x] \cap same = {}

UnmapFile(u) ==
  LET m == Entry(held[u].addr, held[u].file) IN
  /\ held[u] # NoHold
  /\ IF m # Nil /\ refcount[m] > 0
       THEN /\ refcount' = [refcount EXCEPT ![m] = @ - 1]
            /\ unused_for' = [unused_for EXCEPT ![m] = 0]
       ELSE UNCHANGED << refcount, unused_for >>  \* an error is logged
  /\ held' = [held EXCEPT ![u] = NoHold]
  /\ UNCHANGED << maps, ahead, file, hash_idx, free_maps, table, counts,
                  expire_age >>

-----------------------------------------------------------------------------
(* mmc_cleanup(), mmc_term()                                               *)

(* Mutants: the age limit has no lower, or no upper, bound.                *)
ShorterNoFloor == (expire_age * 2) \div 3
LongerNoCeiling == (expire_age * 5) \div 4

Shorter == Larger((expire_age * 2) \div 3, DefaultExpireAge \div 10)

Longer == Smaller((expire_age * 5) \div 4, MaxAge)

NewAge(count, bytes) ==
  IF bytes > DesiredMaxMappedBytes \/ count > DesiredMaxMappedFiles THEN Shorter
  ELSE IF count < DesiredMaxMappedFiles \div 2 THEN Longer
  ELSE expire_age

(* Mutant: no file expires.                                                *)
ExpiredNone == {}

Expired == {m \in Unreferenced : unused_for[m] >= expire_age}

(* really_unmap() of the Maps that are gone, and kept are those that stay  *)
(* on the free list.                                                       *)
Discard(gone, kept) ==
  LET left == maps \ gone IN
  /\ maps' = left
  /\ ahead' = [x \in Maps |-> IF x \in left THEN ahead[x] \ gone ELSE {}]
  /\ file' = [x \in Maps |-> IF x \in left THEN file[x] ELSE NoFile]
  /\ refcount' = [x \in Maps |-> IF x \in left THEN refcount[x] ELSE 0]
  /\ unused_for' = [x \in Maps |-> IF x \in left THEN unused_for[x] ELSE 0]
  /\ hash_table' = WithoutSlots(hash_table, hash_idx, gone)
  /\ hash_idx' = [x \in Maps |-> IF x \in left THEN hash_idx[x] ELSE 0]
  /\ free_maps' = kept
  /\ map_count' = map_count - Cardinality(gone)
  /\ free_count' = Cardinality(kept)
  /\ alloc_count' = alloc_count
       - (free_count + Cardinality(gone) - Cardinality(kept))
  /\ mapped_bytes' = mapped_bytes - Bytes(gone)
  /\ UNCHANGED << hash_size, held >>

Cleanup ==
  /\ \E kept \in SUBSET (free_maps \cup Expired) :
       /\ Cardinality(kept) =
            Smaller(DesiredFreeCount, free_count + Cardinality(Expired))
       /\ Discard(Expired, kept)
  /\ expire_age' = NewAge(map_count', mapped_bytes')

(* shut_down() has closed the connections before it calls mmc_term().  The *)
(* program ends then, but the package could be used again.                *)
Term ==
  /\ \A u \in Users : held[u] = NoHold
  /\ Discard(maps, {})
  /\ UNCHANGED expire_age

(* Time passes; what exceeds the largest expiry age is all the same.       *)
Older(m) ==
  IF m \in Unreferenced THEN Smaller(unused_for[m] + TickLen, MaxAge)
                        ELSE unused_for[m]

Tick ==
  /\ unused_for' = [m \in Maps |-> Older(m)]
  /\ UNCHANGED << maps, ahead, file, refcount, hash_idx, free_maps, table,
                  counts, expire_age, held >>

-----------------------------------------------------------------------------

Init ==
  /\ maps = {} /\ free_maps = {}
  /\ ahead = [m \in Maps |-> {}] /\ file = [m \in Maps |-> NoFile]
  /\ refcount = [m \in Maps |-> 0] /\ hash_idx = [m \in Maps |-> 0]
  /\ unused_for = [m \in Maps |-> 0]
  /\ hash_size = 0 /\ hash_table = [i \in {} |-> Nil]
  /\ alloc_count = 0 /\ map_count = 0 /\ free_count = 0 /\ mapped_bytes = 0
  /\ expire_age = DefaultExpireAge
  /\ held = [u \in Users |-> NoHold]

Next ==
  \/ \E u \in Users : UnmapFile(u) \/ \E f \in Files : MapFile(u, f)
  \/ Cleanup \/ Term \/ Tick

Spec == Init /\ [][Next]_vars

(* Time passes and the timer of occasional() keeps firing.                 *)
FairSpec == Spec /\ WF_vars(Tick) /\ WF_vars(Cleanup)

-----------------------------------------------------------------------------
(* Properties                                                              *)

TypeOK ==
  /\ maps \subseteq Maps /\ free_maps \subseteq Maps
  /\ ahead \in [Maps -> SUBSET Maps]
  /\ file \in [Maps -> Files \cup {NoFile}]
  /\ refcount \in [Maps -> Nat] /\ hash_idx \in [Maps -> Nat]
  /\ unused_for \in [Maps -> 0 .. MaxAge]
  /\ hash_size \in Nat
  /\ hash_table \in [0 .. hash_size - 1 -> Maps \cup {Nil}]
  /\ alloc_count \in Int /\ map_count \in Int /\ free_count \in Int
  /\ mapped_bytes \in Int
  /\ expire_age \in DefaultExpireAge \div 10 .. MaxAge
  /\ held \in [Users -> [addr : Maps \cup {One, Nil},
                         file : Files \cup {NoFile}]]

SlotsExact ==
  /\ \A m \in maps : /\ hash_idx[m] \in DOMAIN hash_table
                     /\ hash_table[hash_idx[m]] = m
  /\ \A i \in DOMAIN hash_table :
       hash_table[i] # Nil => hash_table[i] \in maps /\ hash_idx[hash_table[i]] = i

CountsAddUp ==
  /\ map_count + free_count = alloc_count
  /\ map_count = Cardinality(maps) /\ free_count = Cardinality(free_maps)
  /\ maps \cap free_maps = {}
  /\ mapped_bytes = Bytes(maps)

(* The table points to mapped files only, and every mapped file knows the  *)
(* slot that points to it, so really_unmap() never leaves a slot pointing  *)
(* to a Map it has freed, nor empties the slot of another; and the "map    *)
(* counts don't add up!" of mmc_logstats() is never logged, as the         *)
(* counters agree with the lists and with the bytes mapped.                *)
TableExact == SlotsExact /\ CountsAddUp

(* The table is never more than half full: add_hash() always finds a slot  *)
(* and find_hash() an end.                                                 *)
HalfEmpty == 2 * map_count <= hash_size

(* A file that is sent stays in memory until its last user has unmapped    *)
(* it, although lookups may miss it.                                       *)
HeldValid ==
  \A u \in Users : held[u].addr \in Maps =>
    held[u].addr \in maps /\ file[held[u].addr] = held[u].file

UsersOf(m) == {u \in Users : held[u].addr = m}

(* The count of a file that has contents is the number of its users, also  *)
(* when the file is mapped twice because its entry was not found.          *)
RefsExact ==
  \A m \in maps : Size[file[m]] > 0 => refcount[m] = Cardinality(UsersOf(m))

(* A file that nobody uses leaves the memory in the end, unless somebody   *)
(* uses it again.                                                          *)
UnusedExpire ==
  \A m \in Maps :
    (m \in maps /\ UsersOf(m) = {}) ~> (m \notin maps \/ UsersOf(m) # {})

(* When the files are gone for good, the age limit that a full cache has   *)
(* cut down grows again to its maximum: no rounding of the divisions by 3  *)
(* and 4 holds it down.                                                    *)
AgeRecovers == <>[](maps = {}) => <>(expire_age = MaxAge)

(* "This will sometimes break hash chains, but that's harmless; the        *)
(* unmapping code that searches the hash table knows to keep searching":   *)
(* mmc_unmap() always finds the entry of the file, in use.                 *)
UnmapFinds ==
  \A u \in Users : held[u] # NoHold =>
    LET m == Entry(held[u].addr, held[u].file) IN
    m # Nil /\ file[m] = held[u].file /\ refcount[m] > 0

=============================================================================
