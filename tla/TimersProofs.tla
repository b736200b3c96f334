---------------------------- MODULE TimersProofs ----------------------------
(***************************************************************************)
(* Proofs about the timer package, for every number of Timers and of       *)
(* buckets and for all delays: the lists that l_add() and l_remove() link  *)
(* stay lists, tmr_run() misses no timer, and the package implements the   *)
(* queue it promises, provided that no timer procedure cancels or resets   *)
(* the timer that tmr_run() has saved as the next one.                     *)
(***************************************************************************)
EXTENDS Timers, FiniteSetTheorems, WellFoundedInduction, TLAPS

USE NilAssumption, TimerIdsAssumption, HashSizeAssumption

Addresses == TimerIds \cup {Nil}
Pointers == [TimerIds -> Addresses]

-----------------------------------------------------------------------------
(* Lists                                                                   *)

(* The Timers of L, and no others, are on the list nx that begins with u.  *)
Reaches(nx, u, L) ==
  /\ L \in SUBSET TimerIds /\ u \in L \cup {Nil} /\ Closed(nx, L)
  /\ \A S \in SUBSET TimerIds : u \in S \cup {Nil} /\ Closed(nx, S) => L \subseteq S

(* It has no circle, and no two Timers have the same successor.            *)
Chain(nx, u, L) ==
  /\ Reaches(nx, u, L)
  /\ \A v \in L : nx[v] # u
  /\ \A v, w \in L : nx[v] = nx[w] /\ nx[v] # Nil => v = w

(* ListFrom() is what the list reaches.                                    *)
LEMMA ListReaches ==
  ASSUME NEW nx, NEW u, NEW L, Reaches(nx, u, L)
  PROVE  ListFrom(nx, u) = L
<1>1. L \in SUBSET TimerIds /\ u \in L \cup {Nil} /\ Closed(nx, L)
  BY DEF Reaches
<1>2. ListFrom(nx, u) \subseteq L
  BY <1>1 DEF ListFrom
<1>3. L \subseteq ListFrom(nx, u)
  BY <1>1 DEF ListFrom, Reaches
<1>4. QED
  BY <1>2, <1>3

LEMMA ReachesList ==
  ASSUME NEW nx \in Pointers, NEW u \in Addresses
  PROVE  Reaches(nx, u, ListFrom(nx, u))
<1> DEFINE L == ListFrom(nx, u)
<1>1. L \in SUBSET TimerIds
  BY DEF ListFrom
<1>2. u \in L \cup {Nil}
  BY DEF ListFrom, Addresses
<1>3. ASSUME NEW v \in L PROVE nx[v] \in L \cup {Nil}
  <2> SUFFICES ASSUME nx[v] # Nil PROVE nx[v] \in L
    OBVIOUS
  <2>1. nx[v] \in TimerIds
    BY <1>1 DEF Pointers, Addresses
  <2>2. ASSUME NEW S \in SUBSET TimerIds, u \in S \cup {Nil}, Closed(nx, S)
        PROVE  nx[v] \in S
    <3>1. v \in S
      BY <2>2 DEF ListFrom
    <3>2. QED
      BY <2>2, <3>1 DEF Closed
  <2>3. QED
    BY <2>1, <2>2 DEF ListFrom
<1>4. \A S \in SUBSET TimerIds : u \in S \cup {Nil} /\ Closed(nx, S) => L \subseteq S
  BY DEF ListFrom
<1>5. Closed(nx, L)
  BY <1>3 DEF Closed
<1> HIDE DEF L
<1>6. QED
  BY <1>1, <1>2, <1>4, <1>5 DEF Reaches, L

(* The list of Nil is empty.                                               *)
LEMMA NilReaches ==
  ASSUME NEW nx, NEW L, Reaches(nx, Nil, L)
  PROVE  L = {}
<1>1. Closed(nx, {})
  BY DEF Closed
<1>2. L \subseteq {}
  BY <1>1 DEF Reaches
<1>3. QED
  BY <1>2

(* Only the successors of the Timers on the list matter.                   *)
LEMMA ChainSame ==
  ASSUME NEW nx, NEW ny, NEW u, NEW L, Chain(nx, u, L), \A v \in L : ny[v] = nx[v]
  PROVE  Chain(ny, u, L)
<1>1. /\ L \in SUBSET TimerIds /\ u \in L \cup {Nil} /\ Closed(nx, L)
      /\ \A v \in L : nx[v] # u
      /\ \A v, w \in L : nx[v] = nx[w] /\ nx[v] # Nil => v = w
  BY DEF Chain, Reaches
<1>2. Closed(ny, L)
  BY <1>1 DEF Closed
<1>3. ASSUME NEW S \in SUBSET TimerIds, u \in S \cup {Nil}, Closed(ny, S)
      PROVE  L \subseteq S
  <2>1. Closed(nx, S \cap L) /\ u \in (S \cap L) \cup {Nil}
    BY <1>1, <1>3 DEF Closed
  <2>2. S \cap L \in SUBSET TimerIds
    OBVIOUS
  <2>3. L \subseteq S \cap L
    BY <2>1, <2>2 DEF Chain, Reaches
  <2>4. QED
    BY <2>3
<1>4. QED
  BY <1>1, <1>2, <1>3 DEF Chain, Reaches

(* Every Timer on the list but the first has a predecessor on it, and none *)
(* is its own.                                                             *)
LEMMA ChainPred ==
  ASSUME NEW nx, NEW u, NEW L, Chain(nx, u, L), NEW x \in L
  PROVE  /\ x # u => \E v \in L : v # x /\ nx[v] = x
         /\ nx[x] # x
<1>1. /\ L \in SUBSET TimerIds /\ u \in L \cup {Nil} /\ Closed(nx, L)
      /\ \A v \in L : nx[v] # u
      /\ \A v, w \in L : nx[v] = nx[w] /\ nx[v] # Nil => v = w
  BY DEF Chain, Reaches
<1>2. x = u \/ \E v \in L : v # x /\ nx[v] = x
  <2> SUFFICES ASSUME x # u, \A v \in L : v # x => nx[v] # x PROVE FALSE
    OBVIOUS
  <2>1. Closed(nx, L \ {x}) /\ u \in (L \ {x}) \cup {Nil} /\ L \ {x} \in SUBSET TimerIds
    BY <1>1 DEF Closed
  <2>2. L \subseteq L \ {x}
    BY <2>1 DEF Chain, Reaches
  <2>3. QED
    BY <2>2
<1>3. nx[x] # x
  <2>1. x # Nil
    BY <1>1
  <2>2. QED
    BY <1>1, <1>2, <2>1
<1>4. QED
  BY <1>2, <1>3

-----------------------------------------------------------------------------
(* A Timer joins a list, or leaves it                                      *)

(* x goes behind p, or to the front when p is Nil.                         *)
Joined(nx, ny, u, L, p, x) ==
  /\ p \in L \cup {Nil} /\ x \in TimerIds \ L
  /\ \A v \in L : ny[v] = IF v = p THEN x ELSE nx[v]
  /\ ny[x] = IF p = Nil THEN u ELSE nx[p]

LEMMA ChainJoined ==
  ASSUME NEW nx, NEW ny, NEW u, NEW L, NEW p, NEW x,
         Chain(nx, u, L), Joined(nx, ny, u, L, p, x)
  PROVE  Chain(ny, IF p = Nil THEN x ELSE u, L \cup {x})
<1> DEFINE M == L \cup {x}
           first == IF p = Nil THEN x ELSE u
<1>1. /\ L \in SUBSET TimerIds /\ u \in L \cup {Nil} /\ Closed(nx, L)
      /\ \A v \in L : nx[v] # u
      /\ \A v, w \in L : nx[v] = nx[w] /\ nx[v] # Nil => v = w
  BY DEF Chain, Reaches
<1>2. /\ p \in L \cup {Nil} /\ x \in TimerIds /\ x \notin L /\ x # Nil
      /\ \A v \in L : ny[v] = IF v = p THEN x ELSE nx[v]
      /\ ny[x] = IF p = Nil THEN u ELSE nx[p]
  BY DEF Joined
<1>3. p # Nil => u # Nil
  <2>1. u = Nil => L = {}
    BY NilReaches DEF Chain
  <2>2. QED
    BY <1>2, <2>1
<1>4. \A v \in L : nx[v] \in L \cup {Nil}
  BY <1>1 DEF Closed
<1>5. M \in SUBSET TimerIds /\ first \in M \cup {Nil}
  BY <1>1, <1>2
<1>6. Closed(ny, M)
  BY <1>1, <1>2, <1>4 DEF Closed
<1>7. ASSUME NEW S \in SUBSET TimerIds, first \in S \cup {Nil}, Closed(ny, S)
      PROVE  M \subseteq S
  <2>1. \A v \in S : ny[v] \in S \cup {Nil}
    BY <1>7 DEF Closed
  <2>2. u \in (S \cap L) \cup {Nil}
    <3>1. CASE p = Nil
      <4>1. x \in S
        BY <1>2, <1>7, <3>1
      <4>2. u \in S \cup {Nil}
        BY <1>2, <2>1, <3>1, <4>1
      <4>3. QED
        BY <1>1, <4>2
    <3>2. CASE p # Nil
      BY <1>1, <1>7, <3>2
    <3>3. QED
      BY <3>1, <3>2
  <2>3. ASSUME NEW v \in S \cap L PROVE nx[v] \in (S \cap L) \cup {Nil}
    <3>1. CASE v = p
      <4>1. ny[v] = x /\ x \in S
        BY <1>2, <2>1, <3>1
      <4>2. ny[x] = nx[v] /\ ny[x] \in S \cup {Nil}
        BY <1>1, <1>2, <2>1, <3>1, <4>1
      <4>3. QED
        BY <1>4, <4>2
    <3>2. CASE v # p
      BY <1>2, <1>4, <2>1, <3>2
    <3>3. QED
      BY <3>1, <3>2
  <2>4. S \cap L \in SUBSET TimerIds /\ Closed(nx, S \cap L)
    BY <2>3 DEF Closed
  <2>5. L \subseteq S \cap L
    BY <2>2, <2>4 DEF Chain, Reaches
  <2>6. x \in S
    <3>1. CASE p = Nil
      BY <1>2, <1>7, <3>1
    <3>2. CASE p # Nil
      <4>1. p \in L /\ p \in S /\ ny[p] = x
        BY <1>2, <2>5, <3>2
      <4>2. QED
        BY <1>2, <2>1, <4>1
    <3>3. QED
      BY <3>1, <3>2
  <2>7. QED
    BY <2>5, <2>6
<1>8. \A v \in M : ny[v] # first
  <2>1. CASE p = Nil
    BY <1>1, <1>2, <1>4, <2>1
  <2>2. CASE p # Nil
    BY <1>1, <1>2, <1>3, <2>2
  <2>3. QED
    BY <2>1, <2>2
<1>9. \A v, w \in M : ny[v] = ny[w] /\ ny[v] # Nil => v = w
  <2>1. CASE p = Nil
    BY <1>1, <1>2, <2>1
  <2>2. CASE p # Nil
    BY <1>1, <1>2, <1>4, <2>2
  <2>3. QED
    BY <2>1, <2>2
<1> HIDE DEF M, first
<1>10. Chain(ny, first, M)
  BY <1>5, <1>6, <1>7, <1>8, <1>9 DEF Chain, Reaches
<1>11. QED
  BY <1>10 DEF M, first

(* x leaves: its successor follows its predecessor.                        *)
Left(nx, ny, L, x) ==
  /\ x \in L
  /\ \A v \in L \ {x} : ny[v] = IF nx[v] = x THEN nx[x] ELSE nx[v]

LEMMA ChainLeft ==
  ASSUME NEW nx, NEW ny, NEW u, NEW L, NEW x, Chain(nx, u, L), Left(nx, ny, L, x)
  PROVE  Chain(ny, IF u = x THEN nx[x] ELSE u, L \ {x})
<1> DEFINE M == L \ {x}
           first == IF u = x THEN nx[x] ELSE u
<1>1. /\ L \in SUBSET TimerIds /\ u \in L \cup {Nil} /\ Closed(nx, L)
      /\ \A v \in L : nx[v] # u
      /\ \A v, w \in L : nx[v] = nx[w] /\ nx[v] # Nil => v = w
  BY DEF Chain, Reaches
<1>2. x \in L /\ x # Nil /\ \A v \in M : ny[v] = IF nx[v] = x THEN nx[x] ELSE nx[v]
  BY <1>1 DEF Left
<1>3. nx[x] # x /\ \A v \in L : nx[v] \in L \cup {Nil}
  BY <1>1, <1>2, ChainPred DEF Closed
<1>4. M \in SUBSET TimerIds /\ first \in M \cup {Nil}
  BY <1>1, <1>2, <1>3
<1>5. Closed(ny, M)
  BY <1>2, <1>3 DEF Closed
<1>6. ASSUME NEW S \in SUBSET TimerIds, first \in S \cup {Nil}, Closed(ny, S)
      PROVE  M \subseteq S
  <2> DEFINE T == {v \in L : IF v = x THEN nx[x] \in S \cup {Nil} ELSE v \in S}
  <2>1. \A v \in S : ny[v] \in S \cup {Nil}
    BY <1>6 DEF Closed
  <2>2. u \in T \cup {Nil}
    BY <1>1, <1>6
  <2>3. ASSUME NEW v \in T PROVE nx[v] \in T \cup {Nil}
    <3>1. CASE v = x
      BY <1>2, <1>3, <3>1
    <3>2. CASE v # x /\ nx[v] = x
      BY <1>2, <2>1, <3>2
    <3>3. CASE v # x /\ nx[v] # x
      BY <1>2, <1>3, <2>1, <3>3
    <3>4. QED
      BY <3>1, <3>2, <3>3
  <2>4. T \in SUBSET TimerIds /\ Closed(nx, T)
    BY <1>1, <2>3 DEF Closed
  <2> HIDE DEF T
  <2>5. L \subseteq T
    BY <2>2, <2>4 DEF Chain, Reaches
  <2>6. QED
    BY <2>5 DEF T
<1>7. \A v \in M : ny[v] # first
  <2>1. CASE u = x
    <3>1. CASE nx[x] = Nil
      <4>1. Closed(nx, {x}) /\ {x} \in SUBSET TimerIds /\ u \in {x} \cup {Nil}
        BY <1>1, <1>2, <2>1, <3>1 DEF Closed
      <4>2. L \subseteq {x}
        BY <4>1 DEF Chain, Reaches
      <4>3. QED
        BY <4>2
    <3>2. CASE nx[x] # Nil
      BY <1>1, <1>2, <2>1, <3>2
    <3>3. QED
      BY <3>1, <3>2
  <2>2. CASE u # x
    BY <1>1, <1>2, <1>3, <2>2
  <2>3. QED
    BY <2>1, <2>2
<1>8. \A v, w \in M : ny[v] = ny[w] /\ ny[v] # Nil => v = w
  <2> SUFFICES ASSUME NEW v \in M, NEW w \in M, ny[v] = ny[w], ny[v] # Nil PROVE v = w
    OBVIOUS
  <2>1. CASE nx[v] = x
    BY <1>1, <1>2, <2>1
  <2>2. CASE nx[v] # x
    BY <1>1, <1>2, <2>2
  <2>3. QED
    BY <2>1, <2>2
<1> HIDE DEF M, first
<1>9. Chain(ny, first, M)
  BY <1>4, <1>5, <1>6, <1>7, <1>8 DEF Chain, Reaches
<1>10. QED
  BY <1>9 DEF M, first

(* What comes after a Timer y of the list is still there.                  *)
LEMMA TailJoined ==
  ASSUME NEW nx, NEW ny \in Pointers, NEW u, NEW L, NEW p, NEW x,
         Chain(nx, u, L), Joined(nx, ny, u, L, p, x), NEW y \in L \cup {Nil}
  PROVE  ListFrom(nx, y) \subseteq ListFrom(ny, y)
<1> DEFINE R == ListFrom(ny, y)
           S == R \cap L
<1>1. /\ L \in SUBSET TimerIds /\ \A v \in L : nx[v] \in L \cup {Nil}
      /\ p \in L \cup {Nil} /\ x \in TimerIds /\ x \notin L /\ x # Nil
      /\ \A v \in L : ny[v] = IF v = p THEN x ELSE nx[v]
      /\ ny[x] = IF p = Nil THEN u ELSE nx[p]
  BY DEF Chain, Reaches, Closed, Joined
<1>2. R \in SUBSET TimerIds /\ y \in R \cup {Nil} /\ \A v \in R : ny[v] \in R \cup {Nil}
  <2>1. y \in Addresses
    BY <1>1 DEF Addresses
  <2>2. QED
    BY <2>1, ReachesList DEF Reaches, Closed
<1> HIDE DEF R
<1>3. ASSUME NEW v \in S PROVE nx[v] \in S \cup {Nil}
  <2>1. CASE v = p
    <3>1. ny[v] = x /\ x \in R /\ ny[x] = nx[v]
      BY <1>1, <1>2, <2>1
    <3>2. nx[v] \in R \cup {Nil}
      BY <1>2, <3>1
    <3>3. QED
      BY <1>1, <3>2
  <2>2. CASE v # p
    BY <1>1, <1>2, <2>2
  <2>3. QED
    BY <2>1, <2>2
<1>4. S \in SUBSET TimerIds /\ Closed(nx, S) /\ y \in S \cup {Nil}
  BY <1>1, <1>2, <1>3 DEF Closed
<1> HIDE DEF S
<1>5. ListFrom(nx, y) \subseteq S
  BY <1>4 DEF ListFrom
<1>6. QED
  BY <1>5 DEF S, R

LEMMA TailLeft ==
  ASSUME NEW nx, NEW ny \in Pointers, NEW u, NEW L, NEW x,
         Chain(nx, u, L), Left(nx, ny, L, x), NEW y \in L \cup {Nil}, y # x
  PROVE  ListFrom(nx, y) \ {x} \subseteq ListFrom(ny, y)
<1> DEFINE R == ListFrom(ny, y)
           S == {v \in L : IF v = x THEN nx[x] \in R \cup {Nil} ELSE v \in R}
<1>1. /\ L \in SUBSET TimerIds /\ \A v \in L : nx[v] \in L \cup {Nil}
      /\ x \in L /\ x # Nil /\ nx[x] # x
      /\ \A v \in L \ {x} : ny[v] = IF nx[v] = x THEN nx[x] ELSE nx[v]
  BY ChainPred DEF Chain, Reaches, Closed, Left
<1>2. R \in SUBSET TimerIds /\ y \in R \cup {Nil} /\ \A v \in R : ny[v] \in R \cup {Nil}
  <2>1. y \in Addresses
    BY <1>1 DEF Addresses
  <2>2. QED
    BY <2>1, ReachesList DEF Reaches, Closed
<1> HIDE DEF R
<1>3. ASSUME NEW v \in S PROVE nx[v] \in S \cup {Nil}
  <2>1. CASE v = x
    BY <1>1, <2>1
  <2>2. CASE v # x /\ nx[v] = x
    BY <1>1, <1>2, <2>2
  <2>3. CASE v # x /\ nx[v] # x
    BY <1>1, <1>2, <2>3
  <2>4. QED
    BY <2>1, <2>2, <2>3
<1>4. S \in SUBSET TimerIds /\ Closed(nx, S) /\ y \in S \cup {Nil}
  BY <1>1, <1>2, <1>3 DEF Closed
<1> HIDE DEF S
<1>5. ListFrom(nx, y) \subseteq S
  BY <1>4 DEF ListFrom
<1>6. QED
  BY <1>5 DEF S, R

-----------------------------------------------------------------------------
(* The doubly linked list of a bucket                                      *)

LinksType == [head : [Buckets -> Addresses], next : Pointers, prev : Pointers]

(* The list of bucket b links the Timers of L both ways.                   *)
DList(l, b, L) ==
  /\ Chain(l.next, l.head[b], L)
  /\ l.head[b] # Nil => l.prev[l.head[b]] = Nil
  /\ \A v \in L : l.next[v] # Nil => l.prev[l.next[v]] = v

(* The Timer that prev points to is the one before.                        *)
LEMMA PrevExact ==
  ASSUME NEW l, NEW b, NEW L, DList(l, b, L), NEW x \in L
  PROVE  /\ l.head[b] = x <=> l.prev[x] = Nil
         /\ l.prev[x] \in L \cup {Nil}
         /\ l.prev[x] # Nil => l.next[l.prev[x]] = x
         /\ \A v \in L : l.next[v] = x <=> v = l.prev[x]
<1>1. L \in SUBSET TimerIds /\ x # Nil
  BY DEF DList, Chain, Reaches
<1>2. \A v \in L : l.next[v] = x => v = l.prev[x]
  BY <1>1 DEF DList
<1>3. l.head[b] = x => l.prev[x] = Nil
  BY <1>1 DEF DList
<1>4. l.head[b] # x => \E v \in L : l.next[v] = x
  BY ChainPred DEF DList
<1>5. QED
  BY <1>1, <1>2, <1>3, <1>4

(* A list that the step does not touch.                                    *)
LEMMA OtherList ==
  ASSUME NEW l, NEW r, NEW b, NEW L, DList(l, b, L), r.head[b] = l.head[b],
         \A v \in L : r.next[v] = l.next[v] /\ r.prev[v] = l.prev[v]
  PROVE  DList(r, b, L)
<1>1. /\ l.head[b] \in L \cup {Nil}
      /\ \A v \in L : l.next[v] \in L \cup {Nil}
  BY DEF DList, Chain, Reaches, Closed
<1>2. Chain(r.next, l.head[b], L)
  <2> DEFINE nx == l.next
             ny == r.next
  <2>1. Chain(nx, l.head[b], L) /\ \A v \in L : ny[v] = nx[v]
    BY DEF DList
  <2> HIDE DEF nx, ny
  <2>2. Chain(ny, l.head[b], L)
    BY <2>1, ChainSame
  <2>3. QED
    BY <2>2 DEF ny
<1>3. QED
  BY <1>1, <1>2 DEF DList

(* The fields l_remove() changes.                                          *)
LEMMA LRemoveFields ==
  ASSUME NEW l \in LinksType, NEW b \in Buckets, NEW u \in TimerIds
  PROVE  LET r == LRemove(l, b, u)
             p == l.prev[u]
             n == l.next[u]
         IN /\ r \in LinksType
            /\ r.head = IF p = Nil THEN [l.head EXCEPT ![b] = n] ELSE l.head
            /\ r.next = IF p = Nil THEN l.next ELSE [l.next EXCEPT ![p] = n]
            /\ r.prev = IF n = Nil THEN l.prev ELSE [l.prev EXCEPT ![n] = p]
<1> DEFINE p == l.prev[u]
           n == l.next[u]
<1>1. p \in Addresses /\ n \in Addresses
  BY DEF LinksType, Pointers
<1>2. l = [head |-> l.head, next |-> l.next, prev |-> l.prev]
  BY DEF LinksType
<1>3. /\ l.head \in [Buckets -> Addresses] /\ l.next \in [TimerIds -> Addresses]
      /\ l.prev \in [TimerIds -> Addresses]
  BY DEF LinksType, Pointers
<1> DEFINE forward == IF p = Nil THEN [l EXCEPT !.head[b] = n]
                                 ELSE [l EXCEPT !.next[p] = n]
<1>4. /\ forward \in LinksType /\ forward.prev = l.prev
      /\ forward.head = IF p = Nil THEN [l.head EXCEPT ![b] = n] ELSE l.head
      /\ forward.next = IF p = Nil THEN l.next ELSE [l.next EXCEPT ![p] = n]
  <2> HIDE DEF p, n
  <2>1. CASE p = Nil
    <3>1. forward = [head |-> [l.head EXCEPT ![b] = n], next |-> l.next, prev |-> l.prev]
      BY <1>2, <2>1
    <3>2. [l.head EXCEPT ![b] = n] \in [Buckets -> Addresses]
      BY <1>1, <1>3
    <3>3. QED
      BY <1>3, <2>1, <3>1, <3>2 DEF LinksType, Pointers
  <2>2. CASE p # Nil
    <3>1. forward = [head |-> l.head, next |-> [l.next EXCEPT ![p] = n], prev |-> l.prev]
      BY <1>2, <2>2
    <3>2. [l.next EXCEPT ![p] = n] \in [TimerIds -> Addresses]
      BY <1>1, <1>3
    <3>3. QED
      BY <1>3, <2>2, <3>1, <3>2 DEF LinksType, Pointers
  <2>3. QED
    BY <2>1, <2>2
<1>5. LRemove(l, b, u) = IF n = Nil THEN forward ELSE [forward EXCEPT !.prev[n] = p]
  BY DEF LRemove
<1> HIDE DEF forward, p, n
<1>6. CASE n = Nil
  BY <1>4, <1>5, <1>6 DEF p, n
<1>7. CASE n # Nil
  <2>1. forward = [head |-> forward.head, next |-> forward.next, prev |-> forward.prev]
    BY <1>4 DEF LinksType
  <2>2. LRemove(l, b, u) = [head |-> forward.head, next |-> forward.next,
                            prev |-> [l.prev EXCEPT ![n] = p]]
    BY <1>4, <1>5, <1>7, <2>1
  <2>3. [l.prev EXCEPT ![n] = p] \in Pointers
    BY <1>1, <1>3 DEF Pointers
  <2>4. LRemove(l, b, u) \in LinksType
    BY <1>4, <2>2, <2>3 DEF LinksType
  <2>5. QED
    BY <1>4, <1>7, <2>2, <2>4 DEF p, n
<1>8. QED
  BY <1>6, <1>7

(* The fields that change when u goes between p and n.                     *)
LEMMA BetweenFields ==
  ASSUME NEW l \in LinksType, NEW b \in Buckets, NEW p \in Addresses,
         NEW u \in TimerIds, NEW n \in Addresses,
         NEW r, r = Between(l, b, p, u, n)
  PROVE  /\ r \in LinksType
         /\ \A c \in Buckets : r.head[c] = IF p = Nil /\ c = b THEN u ELSE l.head[c]
         /\ \A v \in TimerIds :
              r.next[v] = IF v = p THEN u ELSE IF v = u THEN n ELSE l.next[v]
         /\ \A v \in TimerIds :
              r.prev[v] = IF v = n THEN u ELSE IF v = u THEN p ELSE l.prev[v]
<1> DEFINE nx == [l.next EXCEPT ![u] = n]
           pv == [l.prev EXCEPT ![u] = p]
           own == [l EXCEPT !.prev[u] = p, !.next[u] = n]
           forward == IF p = Nil THEN [own EXCEPT !.head[b] = u]
                                 ELSE [own EXCEPT !.next[p] = u]
<1>1. l = [head |-> l.head, next |-> l.next, prev |-> l.prev]
  BY DEF LinksType
<1>2. /\ l.head \in [Buckets -> Addresses] /\ nx \in Pointers /\ pv \in Pointers
      /\ u \in Addresses
  BY DEF LinksType, Pointers, Addresses
<1>3. own = [head |-> l.head, next |-> nx, prev |-> pv]
  <2> DEFINE half == [l EXCEPT !.prev[u] = p]
  <2>1. half = [head |-> l.head, next |-> l.next, prev |-> pv]
    BY <1>1
  <2>2. own = [half EXCEPT !.next[u] = n]
    OBVIOUS
  <2> HIDE DEF half, pv
  <2>3. [half EXCEPT !.next[u] = n] = [head |-> l.head, next |-> nx, prev |-> pv]
    BY <2>1
  <2>4. QED
    BY <2>2, <2>3
<1> DEFINE hd == IF p = Nil THEN [l.head EXCEPT ![b] = u] ELSE l.head
           fw == IF p = Nil THEN nx ELSE [nx EXCEPT ![p] = u]
           bw == IF n = Nil THEN pv ELSE [pv EXCEPT ![n] = u]
<1> HIDE DEF nx, pv, own
<1>4. hd \in [Buckets -> Addresses] /\ fw \in Pointers /\ bw \in Pointers
  BY <1>2 DEF Pointers
<1>5. forward = [head |-> hd, next |-> fw, prev |-> pv]
  BY <1>3
<1>6. Between(l, b, p, u, n) = IF n = Nil THEN forward ELSE [forward EXCEPT !.prev[n] = u]
  BY DEF Between, own
<1> HIDE DEF forward
<1>7. Between(l, b, p, u, n) = [head |-> hd, next |-> fw, prev |-> bw]
  BY <1>5, <1>6
<1>8. \A c \in Buckets : hd[c] = IF p = Nil /\ c = b THEN u ELSE l.head[c]
  BY <1>2
<1>9. \A v \in TimerIds : fw[v] = IF v = p THEN u ELSE IF v = u THEN n ELSE l.next[v]
  <2>1. \A v \in TimerIds : nx[v] = IF v = u THEN n ELSE l.next[v]
    BY DEF nx, LinksType, Pointers
  <2>2. QED
    BY <1>2, <2>1 DEF Pointers
<1>10. \A v \in TimerIds : bw[v] = IF v = n THEN u ELSE IF v = u THEN p ELSE l.prev[v]
  <2>1. \A v \in TimerIds : pv[v] = IF v = u THEN p ELSE l.prev[v]
    BY DEF pv, LinksType, Pointers
  <2>2. QED
    BY <1>2, <2>1 DEF Pointers
<1> HIDE DEF hd, fw, bw
<1>11. r.head = hd /\ r.next = fw /\ r.prev = bw /\ r \in LinksType
  BY <1>4, <1>7 DEF LinksType
<1>12. QED
  BY <1>8, <1>9, <1>10, <1>11

(* What is not on the list of bucket b does not change.                    *)
Elsewhere(l, r, b, L) ==
  /\ \A v \in TimerIds \ L : r.next[v] = l.next[v] /\ r.prev[v] = l.prev[v]
  /\ \A c \in Buckets \ {b} : r.head[c] = l.head[c]

(* l_remove() takes one Timer off its list.                                *)
LEMMA RemoveList ==
  ASSUME NEW l \in LinksType, NEW b \in Buckets, NEW L, DList(l, b, L), NEW u \in L,
         NEW r, r = LRemove(l, b, u)
  PROVE  /\ r \in LinksType /\ DList(r, b, L \ {u}) /\ Left(l.next, r.next, L, u)
         /\ Elsewhere(l, r, b, L)
<1> DEFINE p == l.prev[u]
           n == l.next[u]
           hd == l.head[b]
<1>1. /\ L \in SUBSET TimerIds /\ hd \in L \cup {Nil} /\ n \in L \cup {Nil} /\ n # u
      /\ \A v \in L : l.next[v] # hd /\ l.next[v] \in L \cup {Nil}
  <2>1. Chain(l.next, hd, L)
    BY DEF DList
  <2>2. n # u
    BY <2>1, ChainPred
  <2>3. /\ L \in SUBSET TimerIds /\ hd \in L \cup {Nil}
        /\ \A v \in L : l.next[v] # hd /\ l.next[v] \in L \cup {Nil}
    BY <2>1 DEF Chain, Reaches, Closed
  <2> QED
    BY <2>2, <2>3
<1>2. /\ hd = u <=> p = Nil
      /\ p \in L \cup {Nil}
      /\ p # Nil => l.next[p] = u
      /\ \A v \in L : l.next[v] = u <=> v = p
  BY PrevExact
<1>3. /\ l.head \in [Buckets -> Addresses] /\ l.next \in [TimerIds -> Addresses]
      /\ l.prev \in [TimerIds -> Addresses]
  BY DEF LinksType, Pointers
<1>4. /\ r \in LinksType
      /\ \A c \in Buckets : r.head[c] = IF p = Nil /\ c = b THEN n ELSE l.head[c]
      /\ \A v \in TimerIds : r.next[v] = IF v = p THEN n ELSE l.next[v]
      /\ \A v \in TimerIds : r.prev[v] = IF v = n THEN p ELSE l.prev[v]
  <2>1. /\ r \in LinksType
        /\ r.head = IF p = Nil THEN [l.head EXCEPT ![b] = n] ELSE l.head
        /\ r.next = IF p = Nil THEN l.next ELSE [l.next EXCEPT ![p] = n]
        /\ r.prev = IF n = Nil THEN l.prev ELSE [l.prev EXCEPT ![n] = p]
    BY <1>1, LRemoveFields
  <2> HIDE DEF p, n
  <2>2. \A c \in Buckets : r.head[c] = IF p = Nil /\ c = b THEN n ELSE l.head[c]
    BY <1>3, <2>1
  <2>3. \A v \in TimerIds : r.next[v] = IF v = p THEN n ELSE l.next[v]
    BY <1>3, <2>1
  <2>4. \A v \in TimerIds : r.prev[v] = IF v = n THEN p ELSE l.prev[v]
    BY <1>3, <2>1
  <2>5. QED
    BY <2>1, <2>2, <2>3, <2>4
<1>5. Left(l.next, r.next, L, u)
  BY <1>1, <1>2, <1>4 DEF Left
<1>6. r.head[b] = IF hd = u THEN n ELSE hd
  BY <1>2, <1>4
<1>7. Chain(r.next, r.head[b], L \ {u})
  <2> DEFINE nx == l.next
             ny == r.next
  <2>1. Chain(nx, hd, L) /\ Left(nx, ny, L, u) /\ r.head[b] = IF hd = u THEN nx[u] ELSE hd
    BY <1>5, <1>6 DEF DList
  <2> HIDE DEF nx, ny, hd
  <2>2. Chain(ny, IF hd = u THEN nx[u] ELSE hd, L \ {u})
    BY <2>1, ChainLeft
  <2>3. QED
    BY <2>1, <2>2 DEF ny
<1>8. r.head[b] # Nil => r.prev[r.head[b]] = Nil
  <2>1. CASE hd = u
    BY <1>1, <1>2, <1>4, <1>6, <2>1
  <2>2. CASE hd # u
    BY <1>1, <1>2, <1>4, <1>6, <2>2 DEF DList
  <2>3. QED
    BY <2>1, <2>2
<1>9. ASSUME NEW v \in L \ {u}, r.next[v] # Nil
      PROVE  r.prev[r.next[v]] = v
  <2>1. CASE v = p
    BY <1>1, <1>4, <1>9, <2>1
  <2>2. CASE v # p
    <3>1. r.next[v] = l.next[v] /\ l.prev[l.next[v]] = v /\ l.next[v] \in TimerIds
      BY <1>1, <1>4, <1>9, <2>2 DEF DList
    <3>2. n # Nil => l.prev[n] = u
      BY DEF DList
    <3>3. l.next[v] # n
      BY <1>9, <3>1, <3>2
    <3>4. QED
      BY <1>4, <3>1, <3>3
  <2>3. QED
    BY <2>1, <2>2
<1>10. DList(r, b, L \ {u})
  BY <1>7, <1>8, <1>9 DEF DList
<1>11. Elsewhere(l, r, b, L)
  BY <1>1, <1>2, <1>4 DEF Elsewhere
<1>12. QED
  BY <1>4, <1>5, <1>10, <1>11

(* What follows p, or is first when p is Nil.                              *)
After(l, b, p) == IF p = Nil THEN l.head[b] ELSE l.next[p]

(* l_add() puts one Timer on a list, behind p or in front.                 *)
LEMMA BetweenList ==
  ASSUME NEW l \in LinksType, NEW b \in Buckets, NEW L, DList(l, b, L),
         NEW u \in TimerIds \ L, NEW p \in L \cup {Nil},
         NEW r, r = Between(l, b, p, u, After(l, b, p))
  PROVE  /\ r \in LinksType /\ DList(r, b, L \cup {u})
         /\ Joined(l.next, r.next, l.head[b], L, p, u)
         /\ Elsewhere(l, r, b, L \cup {u})
<1> DEFINE hd == l.head[b]
           n == IF p = Nil THEN hd ELSE l.next[p]
<1>1. /\ L \in SUBSET TimerIds /\ hd \in L \cup {Nil} /\ n \in L \cup {Nil} /\ n # u
      /\ \A v \in L : l.next[v] # hd /\ l.next[v] \in L \cup {Nil}
      /\ p \in Addresses /\ n \in Addresses /\ u # Nil
  BY DEF DList, Chain, Reaches, Closed, Addresses
<1>2. /\ l.head \in [Buckets -> Addresses] /\ l.next \in [TimerIds -> Addresses]
      /\ l.prev \in [TimerIds -> Addresses]
  BY DEF LinksType, Pointers
<1>3. /\ r \in LinksType
      /\ \A c \in Buckets : r.head[c] = IF p = Nil /\ c = b THEN u ELSE l.head[c]
      /\ \A v \in TimerIds :
           r.next[v] = IF v = p THEN u ELSE IF v = u THEN n ELSE l.next[v]
      /\ \A v \in TimerIds :
           r.prev[v] = IF v = n THEN u ELSE IF v = u THEN p ELSE l.prev[v]
  <2> HIDE DEF n
  <2>1. r = Between(l, b, p, u, n) /\ p \in Addresses /\ n \in Addresses /\ u \in TimerIds
    BY <1>1 DEF n, After
  <2>2. QED
    BY <2>1, BetweenFields
<1>4. p # u
  BY <1>1
<1>5. Joined(l.next, r.next, hd, L, p, u)
  <2>1. \A v \in L : r.next[v] = IF v = p THEN u ELSE l.next[v]
    BY <1>1, <1>3
  <2>2. r.next[u] = n
    BY <1>3, <1>4
  <2>3. QED
    BY <2>1, <2>2 DEF Joined
<1>6. r.head[b] = IF p = Nil THEN u ELSE hd
  BY <1>3
<1>7. Chain(r.next, r.head[b], L \cup {u})
  <2> DEFINE nx == l.next
             ny == r.next
  <2>1. Chain(nx, hd, L) /\ Joined(nx, ny, hd, L, p, u)
    BY <1>5 DEF DList
  <2> HIDE DEF nx, ny, hd
  <2>2. Chain(ny, r.head[b], L \cup {u})
    BY <1>6, <2>1, ChainJoined
  <2>3. QED
    BY <2>2 DEF ny
<1>8. r.head[b] # Nil => r.prev[r.head[b]] = Nil
  <2>1. CASE p = Nil
    BY <1>1, <1>3, <1>6, <2>1
  <2>2. CASE p # Nil
    <3>1. n # hd
      BY <1>1, <2>2
    <3>2. hd # Nil => hd \in TimerIds /\ hd # u /\ l.prev[hd] = Nil
      BY <1>1 DEF DList
    <3>3. QED
      BY <1>3, <1>6, <2>2, <3>1, <3>2
  <2>3. QED
    BY <2>1, <2>2
<1>9. ASSUME NEW v \in L \cup {u}, r.next[v] # Nil
      PROVE  r.prev[r.next[v]] = v
  <2>1. CASE v = p
    BY <1>1, <1>3, <1>4, <2>1
  <2>2. CASE v = u
    BY <1>1, <1>3, <1>4, <1>9, <2>2
  <2>3. CASE v # p /\ v # u
    <3>1. r.next[v] = l.next[v] /\ l.prev[l.next[v]] = v /\ l.next[v] \in L
      BY <1>1, <1>3, <1>9, <2>3 DEF DList
    <3>2. l.next[v] # n
      <4>1. CASE p = Nil
        BY <1>1, <2>3, <4>1
      <4>2. CASE p # Nil
        <5>1. l.next[v] = l.next[p] => v = p
          BY <1>9, <2>3, <3>1, <4>2 DEF DList
        <5>2. QED
          BY <2>3, <4>2, <5>1
      <4>3. QED
        BY <4>1, <4>2
    <3>3. l.next[v] # u /\ l.next[v] \in TimerIds
      BY <1>1, <3>1
    <3>4. QED
      BY <1>3, <3>1, <3>2, <3>3
  <2>4. QED
    BY <2>1, <2>2, <2>3
<1>10. DList(r, b, L \cup {u})
  BY <1>7, <1>8, <1>9 DEF DList
<1>11. Elsewhere(l, r, b, L \cup {u})
  BY <1>1, <1>3 DEF Elsewhere
<1>12. QED
  BY <1>3, <1>5, <1>10, <1>11

-----------------------------------------------------------------------------
(* Lists in the order of their times                                       *)

Sorted(l, L, tm) == \A v \in L : l.next[v] # Nil => tm[v] <= tm[l.next[v]]

(* Where l_add() stops: behind a timer that is due before u, in front of   *)
(* one that is not, or at the end of the list.                             *)
LEMMA PassedExact ==
  ASSUME NEW l \in LinksType, NEW b \in Buckets, NEW L, DList(l, b, L),
         NEW tm \in [TimerIds -> Nat], NEW u \in TimerIds,
         NEW P, P = Passed(l, b, u, tm),
         NEW p, p = IF P = {} THEN Nil ELSE CHOOSE v \in P : Later(l.next[v], u, tm)
  PROVE  /\ p \in L \cup {Nil}
         /\ p # Nil => ~ Later(p, u, tm)
         /\ Later(IF p = Nil THEN l.head[b] ELSE l.next[p], u, tm)
<1> DEFINE hd == l.head[b]
           nx == l.next
           D(S) == \A w \in {hd} \cup {nx[x] : x \in S} : w \in S \/ Later(w, u, tm)
<1>1. /\ L \in SUBSET TimerIds /\ hd \in L \cup {Nil}
      /\ \A v \in L : nx[v] # hd /\ nx[v] \in L \cup {Nil}
      /\ \A v, w \in L : nx[v] = nx[w] /\ nx[v] # Nil => v = w
  BY DEF DList, Chain, Reaches, Closed
<1>2. P = {v \in TimerIds : \A S \in SUBSET TimerIds : D(S) => v \in S}
  BY DEF Passed
<1> HIDE DEF hd, nx
<1>3. P \subseteq {v \in L : ~ Later(v, u, tm)}
  <2> DEFINE S == {v \in L : ~ Later(v, u, tm)}
  <2>1. D(S) /\ S \in SUBSET TimerIds
    BY <1>1 DEF Later
  <2> HIDE DEF S
  <2>2. P \subseteq S
    BY <1>2, <2>1
  <2>3. QED
    BY <2>2 DEF S
<1>4. hd \in P \/ Later(hd, u, tm)
  <2> SUFFICES ASSUME ~ Later(hd, u, tm) PROVE hd \in P
    OBVIOUS
  <2>1. hd \in TimerIds
    BY <1>1 DEF Later
  <2>2. \A S \in SUBSET TimerIds : D(S) => hd \in S
    OBVIOUS
  <2>3. QED
    BY <1>2, <2>1, <2>2
<1>5. ASSUME NEW x \in P PROVE nx[x] \in P \/ Later(nx[x], u, tm)
  <2> SUFFICES ASSUME ~ Later(nx[x], u, tm) PROVE nx[x] \in P
    OBVIOUS
  <2>1. nx[x] \in TimerIds
    BY <1>1, <1>3 DEF Later
  <2>2. ASSUME NEW S \in SUBSET TimerIds, D(S) PROVE nx[x] \in S
    <3>1. x \in S
      BY <1>2, <2>2
    <3>2. nx[x] \in {nx[y] : y \in S}
      BY <3>1
    <3>3. QED
      BY <2>2, <3>2
  <2>3. QED
    BY <1>2, <2>1, <2>2
<1>6. CASE P = {}
  BY <1>4, <1>6 DEF hd
<1>7. CASE P # {}
  <2>1. hd \in P
    <3> SUFFICES ASSUME Later(hd, u, tm) PROVE P \subseteq {}
      BY <1>4, <1>7
    <3>1. D({}) /\ {} \in SUBSET TimerIds
      OBVIOUS
    <3> HIDE DEF D
    <3>2. QED
      BY <1>2, <3>1
  <2>2. \E v \in P : Later(nx[v], u, tm)
    <3> SUFFICES ASSUME \A v \in P : ~ Later(nx[v], u, tm) PROVE FALSE
      OBVIOUS
    <3> DEFINE Q == P \ {hd}
               g == [v \in P |-> nx[v]]
    <3>1. \A v \in P : nx[v] \in Q /\ nx[v] # Nil
      BY <1>1, <1>3, <1>5 DEF Later
    <3>2. g \in Injection(P, Q)
      BY <1>1, <1>3, <3>1 DEF Injection, IsInjective
    <3>3. IsFiniteSet(P)
      BY <1>1, <1>3, FS_Subset
    <3>4. Cardinality(Q) = Cardinality(P) - 1 /\ IsFiniteSet(Q)
      BY <2>1, <3>3, FS_RemoveElement
    <3> HIDE DEF Q, g
    <3>5. Cardinality(P) <= Cardinality(Q)
      BY <3>2, <3>4, FS_Injection
    <3>6. Cardinality(P) \in Nat
      BY <3>3, FS_CardinalityType
    <3>7. QED
      BY <3>4, <3>5, <3>6
  <2>3. p \in P /\ Later(nx[p], u, tm)
    BY <1>7, <2>2 DEF nx
  <2>4. p \in L /\ p # Nil /\ ~ Later(p, u, tm)
    BY <1>1, <1>3, <2>3
  <2>5. QED
    BY <2>3, <2>4 DEF nx
<1>8. QED
  BY <1>6, <1>7

(* l_add() puts a Timer on its list, which stays in order.                 *)
LEMMA AddList ==
  ASSUME NEW l \in LinksType, NEW b \in Buckets, NEW L, DList(l, b, L),
         NEW tm \in [TimerIds -> Nat], NEW u \in TimerIds \ L, Sorted(l, L, tm),
         NEW r, r = LAdd(l, b, u, tm)
  PROVE  /\ r \in LinksType /\ DList(r, b, L \cup {u}) /\ Sorted(r, L \cup {u}, tm)
         /\ \E p \in L \cup {Nil} : Joined(l.next, r.next, l.head[b], L, p, u)
         /\ Elsewhere(l, r, b, L \cup {u})
<1> DEFINE P == Passed(l, b, u, tm)
           p == IF P = {} THEN Nil ELSE CHOOSE v \in P : Later(l.next[v], u, tm)
           n == IF p = Nil THEN l.head[b] ELSE l.next[p]
<1>1. r = Between(l, b, p, u, n)
  BY DEF LAdd
<1>2. p \in L \cup {Nil} /\ (p # Nil => ~ Later(p, u, tm)) /\ Later(n, u, tm)
  <2> HIDE DEF P
  <2>1. P = Passed(l, b, u, tm) /\ u \in TimerIds
    BY DEF P
  <2>2. QED
    BY <2>1, PassedExact
<1> HIDE DEF P, p
<1>3. /\ r \in LinksType /\ DList(r, b, L \cup {u})
      /\ Joined(l.next, r.next, l.head[b], L, p, u)
      /\ Elsewhere(l, r, b, L \cup {u})
  <2>1. p \in L \cup {Nil}
    BY <1>2
  <2>2. r = Between(l, b, p, u, After(l, b, p))
    BY <1>1 DEF After
  <2> HIDE DEF n
  <2>3. QED
    BY <2>1, <2>2, BetweenList
<1>4. L \in SUBSET TimerIds /\ \A v \in TimerIds : tm[v] \in Nat
  BY DEF DList, Chain, Reaches
<1>5. ASSUME NEW v \in L \cup {u}, r.next[v] # Nil
      PROVE  tm[v] <= tm[r.next[v]]
  <2>1. CASE v = p
    <3>1. r.next[v] = u /\ p \in TimerIds
      BY <1>2, <1>3, <1>4, <2>1 DEF Joined
    <3>2. tm[p] < tm[u]
      BY <1>2, <1>4, <2>1, <3>1 DEF Later
    <3>3. QED
      BY <1>4, <2>1, <3>1, <3>2
  <2>2. CASE v = u
    <3>1. r.next[v] = n
      BY <1>3, <2>2 DEF Joined
    <3>2. QED
      BY <1>2, <1>5, <2>2, <3>1 DEF Later
  <2>3. CASE v # p /\ v # u
    BY <1>3, <1>5, <2>3 DEF Joined, Sorted
  <2>4. QED
    BY <2>1, <2>2, <2>3
<1>6. Sorted(r, L \cup {u}, tm)
  BY <1>5 DEF Sorted
<1>7. QED
  BY <1>2, <1>3, <1>6

(* A list stays in order when one Timer leaves it.                         *)
LEMMA LeftSorted ==
  ASSUME NEW l, NEW r, NEW L \in SUBSET TimerIds, NEW u, NEW tm \in [TimerIds -> Nat],
         Sorted(l, L, tm), Closed(l.next, L), Left(l.next, r.next, L, u)
  PROVE  Sorted(r, L \ {u}, tm)
<1> SUFFICES ASSUME NEW v \in L \ {u}, r.next[v] # Nil
             PROVE  tm[v] <= tm[r.next[v]]
  BY DEF Sorted
<1>1. u \in L /\ r.next[v] = IF l.next[v] = u THEN l.next[u] ELSE l.next[v]
  BY DEF Left
<1>2. CASE l.next[v] = u
  <2>1. tm[v] <= tm[u] /\ tm[u] <= tm[l.next[u]] /\ l.next[u] \in TimerIds
    BY <1>1, <1>2 DEF Sorted, Closed
  <2>2. tm[v] \in Nat /\ tm[u] \in Nat /\ tm[l.next[u]] \in Nat
    BY <1>1, <2>1
  <2>3. QED
    BY <1>1, <1>2, <2>1, <2>2
<1>3. CASE l.next[v] # u
  BY <1>1, <1>3 DEF Sorted
<1>4. QED
  BY <1>2, <1>3

(* The first Timer of a list in order is due first.                        *)
LEMMA FirstIsLeast ==
  ASSUME NEW nx \in Pointers, NEW u \in TimerIds, NEW tm \in [TimerIds -> Nat],
         NEW L \in SUBSET TimerIds, u \in L, Closed(nx, L),
         \A v \in L : nx[v] # Nil => tm[v] <= tm[nx[v]]
  PROVE  \A v \in ListFrom(nx, u) : tm[u] <= tm[v]
<1> DEFINE S == {v \in L : tm[u] <= tm[v]}
<1>1. \A v \in S : nx[v] \in S \cup {Nil}
  BY DEF Closed
<1>2. S \in SUBSET TimerIds /\ u \in S \cup {Nil} /\ Closed(nx, S)
  BY <1>1 DEF Closed
<1> HIDE DEF S
<1>3. ListFrom(nx, u) \subseteq S
  BY <1>2 DEF ListFrom
<1>4. QED
  BY <1>3 DEF S

-----------------------------------------------------------------------------
(* All the buckets                                                         *)

(* The Timers of A that hash to bucket b.                                  *)
In(A, hs, b) == {u \in A : hs[u] = b}

(* Every bucket lists its Timers of A in order.                            *)
Lists(l, A, hs, tm) ==
  /\ A \in SUBSET TimerIds /\ \A u \in A : hs[u] \in Buckets
  /\ \A b \in Buckets : DList(l, b, In(A, hs, b))
  /\ Sorted(l, A, tm)

(* The step keeps the successors of the Timers outside A.                  *)
Outside(nx, ny, A) == \A v \in TimerIds \ A : ny[v] = nx[v]

(* After a Timer y of A comes what came there before, with or without u.   *)
Tails(nx, ny, A, u) ==
  \A y \in (A \ {u}) \cup {Nil} : ListFrom(nx, y) \ {u} \subseteq ListFrom(ny, y)

LEMMA TailSame ==
  ASSUME NEW nx, NEW ny \in Pointers, NEW M \in SUBSET TimerIds, Closed(nx, M),
         \A v \in M : ny[v] = nx[v], NEW y \in M \cup {Nil}
  PROVE  ListFrom(nx, y) \subseteq ListFrom(ny, y)
<1> DEFINE R == ListFrom(ny, y)
<1>1. R \in SUBSET TimerIds /\ y \in R \cup {Nil} /\ \A v \in R : ny[v] \in R \cup {Nil}
  <2>1. y \in Addresses
    BY DEF Addresses
  <2>2. QED
    BY <2>1, ReachesList DEF Reaches, Closed
<1> HIDE DEF R
<1>2. Closed(nx, R \cap M) /\ R \cap M \in SUBSET TimerIds /\ y \in (R \cap M) \cup {Nil}
  BY <1>1 DEF Closed
<1>3. ListFrom(nx, y) \subseteq R \cap M
  BY <1>2 DEF ListFrom
<1>4. QED
  BY <1>3 DEF R

(* Only the times and buckets of the Timers on the lists matter.           *)
LEMMA ListsRetimed ==
  ASSUME NEW l, NEW A, NEW hs, NEW tm, NEW gs, NEW sm, Lists(l, A, hs, tm),
         \A v \in A : gs[v] = hs[v] /\ sm[v] = tm[v]
  PROVE  Lists(l, A, gs, sm)
<1>1. A \in SUBSET TimerIds /\ \A b \in Buckets : In(A, gs, b) = In(A, hs, b)
  BY DEF Lists, In
<1>2. \A b \in Buckets : DList(l, b, In(A, gs, b))
  BY <1>1 DEF Lists
<1>3. \A v \in A : l.next[v] \in A \cup {Nil}
  BY DEF Lists, DList, Chain, Reaches, Closed, In
<1>4. Sorted(l, A, sm)
  BY <1>3 DEF Lists, Sorted
<1>5. \A v \in A : gs[v] \in Buckets
  BY DEF Lists
<1>6. QED
  BY <1>1, <1>2, <1>4, <1>5 DEF Lists

(* A Timer leaves the lists.                                               *)
LEMMA ListsWithout ==
  ASSUME NEW l \in LinksType, NEW A, NEW hs, NEW tm \in [TimerIds -> Nat],
         Lists(l, A, hs, tm), NEW u \in A, NEW r, r = LRemove(l, hs[u], u)
  PROVE  /\ r \in LinksType /\ Lists(r, A \ {u}, hs, tm)
         /\ Outside(l.next, r.next, A) /\ Tails(l.next, r.next, A, u)
<1> DEFINE b == hs[u]
           L == In(A, hs, b)
<1>1. /\ A \in SUBSET TimerIds /\ b \in Buckets /\ u \in L /\ L \in SUBSET A
      /\ \A v \in A : hs[v] \in Buckets
      /\ DList(l, b, L) /\ \A c \in Buckets : DList(l, c, In(A, hs, c))
      /\ r = LRemove(l, b, u)
  BY DEF Lists, In
<1> HIDE DEF b, L
<1>2. /\ r \in LinksType /\ DList(r, b, L \ {u}) /\ Left(l.next, r.next, L, u)
      /\ Elsewhere(l, r, b, L)
  BY <1>1, RemoveList
<1>3. ASSUME NEW c \in Buckets PROVE DList(r, c, In(A \ {u}, hs, c))
  <2>1. CASE c = b
    <3>1. In(A \ {u}, hs, c) = L \ {u}
      BY <2>1 DEF In, L
    <3>2. QED
      BY <1>2, <2>1, <3>1
  <2>2. CASE c # b
    <3> DEFINE M == In(A, hs, c)
    <3>1. M \cap L = {} /\ M \in SUBSET TimerIds /\ In(A \ {u}, hs, c) = M
      BY <1>1, <2>2 DEF In, L, b
    <3>2. /\ DList(l, c, M) /\ r.head[c] = l.head[c]
          /\ \A v \in M : r.next[v] = l.next[v] /\ r.prev[v] = l.prev[v]
      BY <1>1, <1>2, <2>2, <3>1 DEF Elsewhere
    <3> HIDE DEF M
    <3>3. DList(r, c, M)
      BY <3>2, OtherList
    <3>4. QED
      BY <3>1, <3>3
  <2>3. QED
    BY <2>1, <2>2
<1>4. ASSUME NEW v \in A \ L PROVE r.next[v] = l.next[v]
  BY <1>1, <1>2 DEF Elsewhere
<1>5. Sorted(r, A \ {u}, tm)
  <2>1. Sorted(l, L, tm) /\ Closed(l.next, L) /\ L \in SUBSET TimerIds
    BY <1>1 DEF Lists, Sorted, DList, Chain, Reaches
  <2>2. Sorted(r, L \ {u}, tm)
    BY <1>2, <2>1, LeftSorted
  <2>3. QED
    BY <1>4, <2>2 DEF Sorted, Lists
<1>6. Outside(l.next, r.next, A)
  BY <1>1, <1>2 DEF Elsewhere, Outside
<1>7. ASSUME NEW y \in (A \ {u}) \cup {Nil}
      PROVE  ListFrom(l.next, y) \ {u} \subseteq ListFrom(r.next, y)
  <2> DEFINE nx == l.next
             ny == r.next
  <2>1. ny \in Pointers
    BY <1>2 DEF LinksType
  <2>2. Chain(nx, l.head[b], L) /\ Left(nx, ny, L, u) /\ u # Nil /\ y # u
    BY <1>1, <1>2 DEF DList
  <2>3. CASE y \in L \cup {Nil}
    <3> HIDE DEF nx, ny
    <3>1. ListFrom(nx, y) \ {u} \subseteq ListFrom(ny, y)
      BY <2>1, <2>2, <2>3, TailLeft
    <3>2. QED
      BY <3>1 DEF nx, ny
  <2>4. CASE y \notin L \cup {Nil}
    <3> DEFINE M == In(A, hs, hs[y])
    <3>1. /\ y \in M /\ M \cap L = {} /\ M \in SUBSET A /\ M \in SUBSET TimerIds
          /\ hs[y] \in Buckets
      BY <1>1, <2>4 DEF In, L, b
    <3>2. Closed(nx, M)
      BY <1>1, <3>1 DEF DList, Chain, Reaches
    <3>3. \A v \in M : ny[v] = nx[v]
      BY <1>4, <3>1
    <3> HIDE DEF nx, ny, M
    <3>4. ListFrom(nx, y) \subseteq ListFrom(ny, y)
      BY <2>1, <3>1, <3>2, <3>3, TailSame
    <3>5. QED
      BY <3>4 DEF nx, ny
  <2>5. QED
    BY <2>3, <2>4
<1>8. Tails(l.next, r.next, A, u)
  BY <1>7 DEF Tails
<1>9. Lists(r, A \ {u}, hs, tm)
  BY <1>1, <1>3, <1>5 DEF Lists
<1>10. QED
  BY <1>2, <1>6, <1>8, <1>9

(* A Timer joins the lists.                                                *)
LEMMA ListsWith ==
  ASSUME NEW l \in LinksType, NEW A, NEW hs, NEW tm \in [TimerIds -> Nat],
         Lists(l, A, hs, tm), NEW u \in TimerIds \ A, hs[u] \in Buckets,
         NEW r, r = LAdd(l, hs[u], u, tm)
  PROVE  /\ r \in LinksType /\ Lists(r, A \cup {u}, hs, tm)
         /\ Outside(l.next, r.next, A \cup {u}) /\ Tails(l.next, r.next, A, u)
<1> DEFINE b == hs[u]
           L == In(A, hs, b)
<1>1. /\ A \in SUBSET TimerIds /\ b \in Buckets /\ u \in TimerIds \ L /\ L \in SUBSET A
      /\ \A v \in A : hs[v] \in Buckets
      /\ DList(l, b, L) /\ \A c \in Buckets : DList(l, c, In(A, hs, c))
      /\ r = LAdd(l, b, u, tm)
  BY DEF Lists, In
<1> HIDE DEF b, L
<1>2. Sorted(l, L, tm)
  BY <1>1 DEF Lists, Sorted
<1>3. /\ r \in LinksType /\ DList(r, b, L \cup {u}) /\ Sorted(r, L \cup {u}, tm)
      /\ \E p \in L \cup {Nil} : Joined(l.next, r.next, l.head[b], L, p, u)
      /\ Elsewhere(l, r, b, L \cup {u})
  BY <1>1, <1>2, AddList
<1>4. ASSUME NEW v \in A \ L PROVE r.next[v] = l.next[v] /\ r.prev[v] = l.prev[v]
  BY <1>1, <1>3 DEF Elsewhere
<1>5. ASSUME NEW c \in Buckets PROVE DList(r, c, In(A \cup {u}, hs, c))
  <2>1. CASE c = b
    <3>1. In(A \cup {u}, hs, c) = L \cup {u}
      BY <2>1 DEF In, L, b
    <3>2. QED
      BY <1>3, <2>1, <3>1
  <2>2. CASE c # b
    <3> DEFINE M == In(A, hs, c)
    <3>1. M \in SUBSET (A \ L) /\ In(A \cup {u}, hs, c) = M
      BY <1>1, <2>2 DEF In, L, b
    <3>2. /\ DList(l, c, M) /\ r.head[c] = l.head[c]
          /\ \A v \in M : r.next[v] = l.next[v] /\ r.prev[v] = l.prev[v]
      BY <1>1, <1>3, <1>4, <2>2, <3>1 DEF Elsewhere
    <3> HIDE DEF M
    <3>3. DList(r, c, M)
      BY <3>2, OtherList
    <3>4. QED
      BY <3>1, <3>3
  <2>3. QED
    BY <2>1, <2>2
<1>6. Sorted(r, A \cup {u}, tm)
  BY <1>1, <1>3, <1>4 DEF Sorted, Lists
<1>7. Outside(l.next, r.next, A \cup {u})
  BY <1>1, <1>3 DEF Elsewhere, Outside
<1>8. ASSUME NEW y \in (A \ {u}) \cup {Nil}
      PROVE  ListFrom(l.next, y) \ {u} \subseteq ListFrom(r.next, y)
  <2> DEFINE nx == l.next
             ny == r.next
  <2>1. ny \in Pointers
    BY <1>3 DEF LinksType
  <2>2. CASE y \in L \cup {Nil}
    <3>1. PICK p \in L \cup {Nil} : Joined(nx, ny, l.head[b], L, p, u)
      BY <1>3
    <3>2. Chain(nx, l.head[b], L)
      BY <1>1 DEF DList
    <3> HIDE DEF nx, ny
    <3>3. ListFrom(nx, y) \subseteq ListFrom(ny, y)
      BY <2>1, <2>2, <3>1, <3>2, TailJoined
    <3>4. QED
      BY <3>3 DEF nx, ny
  <2>3. CASE y \notin L \cup {Nil}
    <3> DEFINE M == In(A, hs, hs[y])
    <3>1. /\ y \in M /\ M \in SUBSET (A \ L) /\ M \in SUBSET TimerIds
          /\ hs[y] \in Buckets
      BY <1>1, <2>3 DEF In, L, b
    <3>2. Closed(nx, M)
      BY <1>1, <3>1 DEF DList, Chain, Reaches
    <3>3. \A v \in M : ny[v] = nx[v]
      BY <1>4, <3>1
    <3> HIDE DEF nx, ny, M
    <3>4. ListFrom(nx, y) \subseteq ListFrom(ny, y)
      BY <2>1, <3>1, <3>2, <3>3, TailSame
    <3>5. QED
      BY <3>4 DEF nx, ny
  <2>4. QED
    BY <2>2, <2>3
<1>9. Tails(l.next, r.next, A, u)
  BY <1>8 DEF Tails
<1>10. Lists(r, A \cup {u}, hs, tm)
  BY <1>1, <1>5, <1>6 DEF Lists
<1>11. QED
  BY <1>3, <1>7, <1>9, <1>10

(* l_resort(): a Timer is given another time and moves to where it belongs.*)
LEMMA ListsMoved ==
  ASSUME NEW l \in LinksType, NEW A, NEW hs, NEW tm, NEW gs, NEW sm \in [TimerIds -> Nat],
         tm \in [TimerIds -> Nat], Lists(l, A, hs, tm), NEW u \in A, gs[u] \in Buckets,
         \A v \in A \ {u} : gs[v] = hs[v] /\ sm[v] = tm[v],
         NEW r, r = LAdd(LRemove(l, hs[u], u), gs[u], u, sm)
  PROVE  /\ r \in LinksType /\ Lists(r, A, gs, sm)
         /\ Outside(l.next, r.next, A) /\ Tails(l.next, r.next, A, u)
<1> DEFINE k == LRemove(l, hs[u], u)
           B == A \ {u}
<1>1. A \in SUBSET TimerIds /\ u \in TimerIds \ B /\ B \cup {u} = A
  BY DEF Lists
<1>2. /\ k \in LinksType /\ Lists(k, B, hs, tm)
      /\ Outside(l.next, k.next, A) /\ Tails(l.next, k.next, A, u)
  BY ListsWithout
<1>3. r = LAdd(k, gs[u], u, sm)
  OBVIOUS
<1> HIDE DEF k, B
<1>4. Lists(k, B, gs, sm)
  <2>1. \A v \in B : gs[v] = hs[v] /\ sm[v] = tm[v]
    BY DEF B
  <2>2. QED
    BY <1>2, <2>1, ListsRetimed
<1>5. /\ r \in LinksType /\ Lists(r, B \cup {u}, gs, sm)
      /\ Outside(k.next, r.next, B \cup {u}) /\ Tails(k.next, r.next, B, u)
  BY <1>1, <1>2, <1>3, <1>4, ListsWith
<1>6. Outside(l.next, r.next, A)
  BY <1>1, <1>2, <1>5 DEF Outside
<1>7. Tails(l.next, r.next, A, u)
  BY <1>2, <1>5 DEF Tails, B
<1>8. QED
  BY <1>1, <1>5, <1>6, <1>7

-----------------------------------------------------------------------------
(* The inductive invariant                                                 *)

(* Where tmr_run() is: the timer it is at is a client's, or the one-shot   *)
(* timer whose procedure runs; the one it has saved is a client's.         *)
RunExact ==
  /\ pc = "idle" => t = Nil /\ next = Nil
  /\ pc = "loop" => t \in owned \cup {Nil} /\ next = Nil
  /\ pc = "proc" => /\ t \in alloc /\ (t \in owned <=> periodic[t])
                    /\ next \in (owned \ {t}) \cup {Nil}

Rest == IF pc = "loop" THEN t ELSE next

(* The one-shot timers that are due are still in front of tmr_run().       *)
Walked ==
  pc # "idle" =>
    \A u \in owned : Due(u) /\ ~ periodic[u] =>
      \/ hash[u] > h
      \/ hash[u] = h /\ u \in ListFrom(links.next, Rest)

FieldsExact == \A u \in Active : hash[u] = Hash(time[u]) /\ msecs[u] \in Delays

TmrInv ==
  /\ TypeOK /\ CountsAddUp /\ RunExact /\ FieldsExact
  /\ Lists(links, Active, hash, time)
  /\ Chain(links.next, free_timers, alloc \ Active)
  /\ Walked

(* The initial states.                                                     *)
LEMMA TmrInit == Init => TmrInv
<1> SUFFICES ASSUME Init PROVE TmrInv
  OBVIOUS
<1> USE DEF Init
<1>1. 0 \in Buckets /\ Active = {} /\ 0 \in 0 .. MaxNow
  BY MaxNowAssumption DEF Buckets, Active
<1>2. TypeOK
  BY <1>1 DEF TypeOK
<1>3. Cardinality({}) = 0
  BY FS_EmptySet
<1>4. CountsAddUp
  BY <1>1, <1>3 DEF CountsAddUp
<1>5. RunExact /\ FieldsExact /\ Walked
  BY <1>1 DEF RunExact, FieldsExact, Walked
<1>6. \A nx : Chain(nx, Nil, {})
  BY DEF Chain, Reaches, Closed
<1>7. Lists(links, Active, hash, time)
  <2>1. \A b \in Buckets : links.head[b] = Nil /\ In(Active, hash, b) = {}
    BY <1>1 DEF In
  <2>2. \A b \in Buckets : DList(links, b, In(Active, hash, b))
    BY <1>6, <2>1 DEF DList
  <2>3. QED
    BY <1>1, <2>2 DEF Lists, Sorted
<1>8. Chain(links.next, free_timers, alloc \ Active)
  <2>1. alloc \ Active = {} /\ free_timers = Nil
    OBVIOUS
  <2>2. QED
    BY <1>6, <2>1
<1>9. QED
  BY <1>2, <1>4, <1>5, <1>7, <1>8 DEF TmrInv

(* What the invariant says of the lists.                                   *)
LEMMA InvLists ==
  ASSUME TmrInv
  PROVE  /\ links \in LinksType /\ links.next \in Pointers
         /\ Active \in SUBSET alloc /\ Active \in SUBSET TimerIds /\ alloc \in SUBSET TimerIds
         /\ owned \in SUBSET Active
         /\ time \in [TimerIds -> Nat] /\ hash \in [TimerIds -> Buckets]
         /\ \A b \in Buckets : Reaches(links.next, links.head[b], In(Active, hash, b))
         /\ \A b \in Buckets : ListFrom(links.next, links.head[b]) = In(Active, hash, b)
         /\ ListFrom(links.next, free_timers) = alloc \ Active
         /\ \A u \in Active : links.next[u] \in (Active \ {u}) \cup {Nil}
<1>1. links \in LinksType /\ links.next \in Pointers
  BY DEF TmrInv, TypeOK, LinksType, Pointers, Addresses
<1>2. /\ Active \in SUBSET alloc /\ Active \in SUBSET TimerIds /\ alloc \in SUBSET TimerIds
      /\ owned \in SUBSET Active
      /\ time \in [TimerIds -> Nat] /\ hash \in [TimerIds -> Buckets]
  BY DEF TmrInv, TypeOK, Active, RunExact
<1>3. \A b \in Buckets : Reaches(links.next, links.head[b], In(Active, hash, b))
  BY DEF TmrInv, Lists, DList, Chain
<1>4. \A b \in Buckets : ListFrom(links.next, links.head[b]) = In(Active, hash, b)
  BY <1>3, ListReaches
<1>5. ListFrom(links.next, free_timers) = alloc \ Active
  BY ListReaches DEF TmrInv, Chain
<1>6. ASSUME NEW u \in Active PROVE links.next[u] \in (Active \ {u}) \cup {Nil}
  <2> DEFINE nx == links.next
             b == hash[u]
             L == In(Active, hash, b)
  <2>1. b \in Buckets /\ u \in L /\ L \in SUBSET Active
    BY <1>2 DEF In
  <2>2. Chain(nx, links.head[b], L)
    BY <2>1 DEF TmrInv, Lists, DList
  <2> HIDE DEF nx, L, b
  <2>3. nx[u] \in L \cup {Nil} /\ nx[u] # u
    BY <2>1, <2>2, ChainPred DEF Chain, Reaches, Closed
  <2>4. QED
    BY <2>1, <2>3 DEF nx
<1>7. QED
  BY <1>1, <1>2, <1>3, <1>4, <1>5, <1>6

(* How many Timers there are.                                              *)
LEMMA InvCounts ==
  ASSUME TmrInv
  PROVE  /\ IsFiniteSet(Active) /\ IsFiniteSet(alloc)
         /\ Cardinality(Active) \in Nat /\ Cardinality(alloc) \in Nat
         /\ active_count = Cardinality(Active) /\ alloc_count = Cardinality(alloc)
         /\ free_count = alloc_count - active_count
         /\ Cardinality(alloc \ Active) = free_count
         /\ active_count \in Int /\ alloc_count \in Int /\ free_count \in Int
<1>1. Active \in SUBSET alloc /\ alloc \in SUBSET TimerIds
  BY InvLists
<1>2. IsFiniteSet(Active) /\ IsFiniteSet(alloc)
  BY <1>1, FS_Subset
<1>3. Cardinality(Active) \in Nat /\ Cardinality(alloc) \in Nat
  BY <1>2, FS_CardinalityType
<1>4. /\ active_count = Cardinality(Active) /\ alloc_count = Cardinality(alloc)
      /\ active_count + free_count = alloc_count
      /\ active_count \in Int /\ alloc_count \in Int /\ free_count \in Int
  BY DEF TmrInv, CountsAddUp, TypeOK
<1>5. Cardinality(alloc \ Active) = Cardinality(alloc) - Cardinality(Active)
  <2>1. alloc \cap Active = Active
    BY <1>1
  <2>2. QED
    BY <1>2, <2>1, FS_Difference
<1>6. QED
  BY <1>2, <1>3, <1>4, <1>5

(* The lists stay as they are when what is not on them changes.            *)
LEMMA ListsSame ==
  ASSUME NEW l, NEW r, NEW A, NEW hs, NEW tm, Lists(l, A, hs, tm), r.head = l.head,
         \A v \in A : r.next[v] = l.next[v] /\ r.prev[v] = l.prev[v]
  PROVE  Lists(r, A, hs, tm)
<1>1. ASSUME NEW b \in Buckets PROVE DList(r, b, In(A, hs, b))
  <2> DEFINE M == In(A, hs, b)
  <2>1. DList(l, b, M) /\ M \in SUBSET A /\ r.head[b] = l.head[b]
    BY DEF Lists, In
  <2>2. \A v \in M : r.next[v] = l.next[v] /\ r.prev[v] = l.prev[v]
    BY <2>1
  <2> HIDE DEF M
  <2>3. DList(r, b, M)
    BY <2>1, <2>2, OtherList
  <2>4. QED
    BY <2>3 DEF M
<1>2. Sorted(r, A, tm)
  BY DEF Lists, Sorted
<1>3. QED
  BY <1>1, <1>2 DEF Lists

(* The lists of A lead nowhere else.                                       *)
LEMMA ListsClosed ==
  ASSUME NEW l, NEW A, NEW hs, NEW tm, Lists(l, A, hs, tm)
  PROVE  Closed(l.next, A)
BY DEF Lists, DList, Chain, Reaches, Closed, In

-----------------------------------------------------------------------------
(* The steps of the clients                                                *)

(* What a client does to u, the saved timer excepted, leaves the timers in *)
(* front of tmr_run() there.                                               *)
LEMMA WalkedKept ==
  ASSUME TmrInv, ClientRuns, NEW u, UNCHANGED << now, run >>, u # next,
         owned' \subseteq owned \cup {u},
         \A v \in owned \ {u} : /\ time'[v] = time[v] /\ hash'[v] = hash[v]
                                /\ periodic'[v] = periodic[v],
         u \in owned' => ~ (time'[u] <= now),
         Tails(links.next, links'.next, Active, u)
  PROVE  Walked'
<1> SUFFICES ASSUME pc # "idle", NEW v \in owned', Due(v)', ~ periodic'[v]
             PROVE  \/ hash'[v] > h
                    \/ hash'[v] = h /\ v \in ListFrom(links'.next, Rest')
  BY DEF Walked, run
<1>1. pc = "proc" /\ pc' = "proc" /\ next' = next /\ Rest = next /\ Rest' = next
  BY DEF ClientRuns, run, Rest
<1>2. v # u /\ v \in owned
  BY DEF Due
<1>3. Due(v) /\ ~ periodic[v] /\ hash'[v] = hash[v]
  BY <1>2 DEF Due
<1>4. hash[v] > h \/ (hash[v] = h /\ v \in ListFrom(links.next, next))
  BY <1>1, <1>2, <1>3 DEF TmrInv, Walked
<1>5. next \in (Active \ {u}) \cup {Nil}
  BY <1>1, InvLists DEF TmrInv, RunExact
<1>6. v \in ListFrom(links.next, next) => v \in ListFrom(links'.next, next)
  BY <1>2, <1>5 DEF Tails
<1>7. QED
  BY <1>1, <1>3, <1>4, <1>6

(* tmr_cancel() moves an active Timer to the free list.                    *)
LEMMA CancelLists ==
  ASSUME TmrInv, NEW u \in Active, TmrCancel(u)
  PROVE  /\ links' \in LinksType /\ Lists(links', Active \ {u}, hash', time')
         /\ Chain(links'.next, free_timers', alloc' \ (Active \ {u}))
         /\ Tails(links.next, links'.next, Active, u)
         /\ active_count' + free_count' = alloc_count'
         /\ active_count' = Cardinality(Active \ {u})
         /\ alloc_count' = Cardinality(alloc')
         /\ active_count' \in Int /\ free_count' \in Int /\ alloc_count' \in Int
<1> DEFINE r == LRemove(links, hash[u], u)
           B == Active \ {u}
           F == alloc \ Active
<1>1. /\ links \in LinksType /\ u \in TimerIds /\ u \in alloc /\ u \notin F
      /\ Active \in SUBSET TimerIds /\ F \in SUBSET TimerIds
      /\ time \in [TimerIds -> Nat] /\ free_timers \in Addresses
  BY InvLists DEF TmrInv, TypeOK, Addresses
<1>2. /\ links' = [r EXCEPT !.next[u] = free_timers, !.prev[u] = Nil]
      /\ free_timers' = u /\ UNCHANGED << time, hash, alloc, alloc_count >>
      /\ active_count' = active_count - 1 /\ free_count' = free_count + 1
  BY DEF TmrCancel, fields
<1>3. /\ r \in LinksType /\ Lists(r, B, hash, time)
      /\ Outside(links.next, r.next, Active) /\ Tails(links.next, r.next, Active, u)
  BY <1>1, ListsWithout DEF TmrInv
<1> HIDE DEF r
<1>4. /\ links' \in LinksType /\ links'.head = r.head
      /\ links'.next = [r.next EXCEPT ![u] = free_timers]
      /\ links'.prev = [r.prev EXCEPT ![u] = Nil]
  <2> DEFINE half == [r EXCEPT !.next[u] = free_timers]
             nx == [r.next EXCEPT ![u] = free_timers]
             pv == [r.prev EXCEPT ![u] = Nil]
  <2>1. r = [head |-> r.head, next |-> r.next, prev |-> r.prev]
    BY <1>3 DEF LinksType
  <2>2. half = [head |-> r.head, next |-> nx, prev |-> r.prev]
    BY <2>1
  <2>3. links' = [half EXCEPT !.prev[u] = Nil]
    BY <1>2
  <2>4. nx \in Pointers /\ pv \in Pointers /\ r.head \in [Buckets -> Addresses]
    BY <1>1, <1>3 DEF LinksType, Pointers, Addresses
  <2> HIDE DEF half, nx
  <2>5. links' = [head |-> r.head, next |-> nx, prev |-> pv]
    BY <2>2, <2>3
  <2> HIDE DEF pv
  <2>6. QED
    BY <2>4, <2>5 DEF LinksType, nx, pv
<1>5. \A v \in TimerIds : /\ links'.next[v] = IF v = u THEN free_timers ELSE r.next[v]
                          /\ v # u => links'.prev[v] = r.prev[v]
  BY <1>1, <1>3, <1>4 DEF LinksType, Pointers
<1>6. Lists(links', B, hash', time')
  <2>1. \A v \in B : links'.next[v] = r.next[v] /\ links'.prev[v] = r.prev[v]
    BY <1>1, <1>5
  <2> HIDE DEF B
  <2>2. Lists(links', B, hash, time)
    BY <1>3, <1>4, <2>1, ListsSame
  <2>3. QED
    BY <1>2, <2>2
<1>7. Chain(links'.next, free_timers', alloc' \ B)
  <2> DEFINE nx == links.next
             ny == links'.next
             head == free_timers
  <2>1. Chain(nx, head, F)
    BY DEF TmrInv
  <2>2. \A v \in F : ny[v] = nx[v]
    BY <1>1, <1>3, <1>5 DEF Outside
  <2>3. Joined(nx, ny, head, F, Nil, u)
    BY <1>1, <1>5, <2>2 DEF Joined
  <2>4. alloc' \ B = F \cup {u} /\ free_timers' = u
    BY <1>1, <1>2
  <2> HIDE DEF nx, ny, F, head
  <2>5. Chain(ny, u, F \cup {u})
    <3>1. Chain(ny, IF Nil = Nil THEN u ELSE head, F \cup {u})
      BY <2>1, <2>3, ChainJoined
    <3>2. QED
      BY <3>1
  <2>6. QED
    BY <2>4, <2>5 DEF ny
<1>8. Tails(links.next, links'.next, Active, u)
  <2> DEFINE nx == r.next
             ny == links'.next
  <2>1. Closed(nx, B) /\ B \in SUBSET TimerIds
    BY <1>1, <1>3, ListsClosed
  <2>2. ny \in Pointers /\ \A v \in B : ny[v] = nx[v]
    BY <1>1, <1>4, <1>5 DEF LinksType
  <2>3. ASSUME NEW y \in B \cup {Nil} PROVE ListFrom(nx, y) \subseteq ListFrom(ny, y)
    <3> HIDE DEF nx, ny, B
    <3> QED
      BY <2>1, <2>2, TailSame
  <2>4. QED
    BY <1>3, <2>3 DEF Tails
<1>9. /\ active_count' = Cardinality(B) /\ active_count' + free_count' = alloc_count'
      /\ alloc_count' = Cardinality(alloc')
      /\ active_count' \in Int /\ free_count' \in Int /\ alloc_count' \in Int
  <2>1. Cardinality(B) = Cardinality(Active) - 1
    BY InvCounts, FS_RemoveElement
  <2>2. QED
    BY <1>2, <2>1, InvCounts
<1>10. QED
  BY <1>4, <1>6, <1>7, <1>8, <1>9

LEMMA CancelStep ==
  ASSUME TmrInv, ~ CancelSaved, NEW u \in TimerIds, Cancel(u)
  PROVE  TmrInv'
<1>1. /\ ClientRuns /\ u \in owned /\ ~ periodic[u] /\ u # next
      /\ TmrCancel(u) /\ owned' = owned \ {u} /\ UNCHANGED << now, run >>
  BY DEF Cancel
<1>2. u \in Active /\ UNCHANGED << fields, alloc >>
  BY <1>1 DEF Active, TmrCancel
<1>3. pc = "proc" => u # t
  BY <1>1 DEF TmrInv, RunExact
<1>4. Active' = Active \ {u}
  BY <1>1, <1>3 DEF Active, run
<1>5. /\ links' \in LinksType /\ Lists(links', Active', hash', time')
      /\ Chain(links'.next, free_timers', alloc' \ Active')
      /\ Tails(links.next, links'.next, Active, u)
      /\ CountsAddUp'
      /\ active_count' \in Int /\ free_count' \in Int /\ alloc_count' \in Int
  BY <1>1, <1>2, <1>4, CancelLists DEF CountsAddUp
<1>6. TypeOK'
  <2>1. free_timers' \in TimerIds /\ alloc' = alloc
    BY <1>1 DEF TmrCancel
  <2>2. owned' \subseteq alloc'
    BY <1>1, <2>1 DEF TmrInv, TypeOK
  <2>3. links' \in [head : [Buckets -> TimerIds \cup {Nil}],
                    next : [TimerIds -> TimerIds \cup {Nil}],
                    prev : [TimerIds -> TimerIds \cup {Nil}]]
    BY <1>5 DEF LinksType, Pointers, Addresses
  <2>4. QED
    BY <1>1, <1>2, <1>5, <2>1, <2>2, <2>3 DEF TmrInv, TypeOK, fields, run
<1>7. RunExact'
  BY <1>1, <1>2, <1>3 DEF TmrInv, RunExact, run, fields, ClientRuns
<1>8. FieldsExact'
  BY <1>2, <1>4 DEF TmrInv, FieldsExact, fields
<1>9. Walked'
  <2>1. /\ owned' \subseteq owned \cup {u} /\ u \notin owned'
        /\ \A v \in owned \ {u} : /\ time'[v] = time[v] /\ hash'[v] = hash[v]
                                  /\ periodic'[v] = periodic[v]
    BY <1>1, <1>2 DEF fields
  <2>2. QED
    BY <1>1, <1>5, <2>1, WalkedKept
<1>10. QED
  BY <1>5, <1>6, <1>7, <1>8, <1>9 DEF TmrInv

(* hash() gives the number of a bucket.                                    *)
LEMMA HashType == \A at \in Nat : Hash(at) \in Buckets
BY DEF Hash, Buckets

(* tmr_create() puts a new Timer, or the first free one, on the lists.     *)
LEMMA CreateStep ==
  ASSUME TmrInv, NEW u \in TimerIds, Create(u)
  PROVE  TmrInv'
<1> DEFINE F == alloc \ Active
<1>1. PICK ms \in Delays, p \in BOOLEAN :
        /\ time' = [time EXCEPT ![u] = now + ms]
        /\ msecs' = [msecs EXCEPT ![u] = ms]
        /\ periodic' = [periodic EXCEPT ![u] = p]
        /\ hash' = [hash EXCEPT ![u] = Hash(now + ms)]
        /\ links' = LAdd(links, Hash(now + ms), u, time')
  BY DEF Create
<1>2. /\ ClientRuns /\ Allocate(u) /\ active_count' = active_count + 1
      /\ owned' = owned \cup {u} /\ UNCHANGED << now, run >>
  BY DEF Create
<1>3. ms \in Nat /\ ms > 0 /\ now \in Nat /\ now + ms \in Nat
      /\ Hash(now + ms) \in Buckets
  BY DelaysAssumption, MaxNowAssumption, HashType DEF TmrInv, TypeOK
<1>4. /\ links \in LinksType /\ Active \in SUBSET alloc /\ alloc \in SUBSET TimerIds
      /\ time \in [TimerIds -> Nat] /\ hash \in [TimerIds -> Buckets]
      /\ Chain(links.next, free_timers, F)
  BY InvLists DEF TmrInv
<1>5. \/ /\ free_timers # Nil /\ u = free_timers /\ u \in F
         /\ free_timers' = links.next[u] /\ free_count' = free_count - 1
         /\ alloc' = alloc /\ alloc_count' = alloc_count
      \/ /\ free_timers = Nil /\ u \notin alloc
         /\ free_timers' = Nil /\ free_count' = free_count
         /\ alloc' = alloc \cup {u} /\ alloc_count' = alloc_count + 1
  BY <1>2, <1>4 DEF Allocate, Chain, Reaches
<1>6. /\ u \notin Active /\ u \in alloc' /\ alloc \subseteq alloc'
      /\ Active' = Active \cup {u}
  BY <1>2, <1>4, <1>5 DEF Active, run
<1>7. time' \in [TimerIds -> Nat] /\ hash' \in [TimerIds -> Buckets]
  BY <1>1, <1>3, <1>4
<1>8. /\ links' \in LinksType /\ Lists(links', Active', hash', time')
      /\ Outside(links.next, links'.next, Active \cup {u})
      /\ Tails(links.next, links'.next, Active, u)
  <2> DEFINE hs == hash'
             tm == time'
             r == links'
  <2>1. \A v \in Active : hs[v] = hash[v] /\ tm[v] = time[v]
    BY <1>1, <1>4, <1>6
  <2>2. Lists(links, Active, hash, time)
    BY DEF TmrInv
  <2>3. /\ r = LAdd(links, hs[u], u, tm) /\ hs[u] \in Buckets
        /\ tm \in [TimerIds -> Nat] /\ u \in TimerIds \ Active
    BY <1>1, <1>3, <1>4, <1>6, <1>7
  <2> HIDE DEF hs, tm, r
  <2>4. Lists(links, Active, hs, tm)
    BY <2>1, <2>2, ListsRetimed
  <2>5. /\ r \in LinksType /\ Lists(r, Active \cup {u}, hs, tm)
        /\ Outside(links.next, r.next, Active \cup {u})
        /\ Tails(links.next, r.next, Active, u)
    BY <1>4, <2>3, <2>4, ListsWith
  <2>6. QED
    BY <1>6, <2>5 DEF hs, tm, r
<1>9. Chain(links'.next, free_timers', alloc' \ Active')
  <2> DEFINE nx == links.next
             ny == links'.next
             G == alloc' \ Active'
             head == free_timers
  <2>1. \A v \in G : ny[v] = nx[v]
    <3>1. G \subseteq TimerIds \ (Active \cup {u})
      BY <1>4, <1>5, <1>6
    <3>2. QED
      BY <1>8, <3>1 DEF Outside
  <2>2. Chain(nx, free_timers', G)
    <3>1. CASE free_timers # Nil
      <4>1. G = F \ {u} /\ u = head /\ free_timers' = nx[u] /\ u \in F
        BY <1>5, <1>6, <3>1
      <4>2. Left(nx, nx, F, u)
        <5>1. \A v \in F : nx[v] # u
          BY <1>4, <4>1 DEF Chain
        <5>2. QED
          BY <4>1, <5>1 DEF Left
      <4> HIDE DEF nx, F, G
      <4>3. Chain(nx, IF head = u THEN nx[u] ELSE head, F \ {u})
        BY <1>4, <4>2, ChainLeft DEF nx
      <4>4. QED
        BY <4>1, <4>3
    <3>2. CASE free_timers = Nil
      <4>1. G = F /\ free_timers' = free_timers
        BY <1>5, <1>6, <3>2
      <4>2. QED
        BY <1>4, <4>1
    <3>3. QED
      BY <3>1, <3>2
  <2> HIDE DEF nx, ny, G
  <2>3. Chain(ny, free_timers', G)
    BY <2>1, <2>2, ChainSame
  <2>4. QED
    BY <2>3 DEF ny, G
<1>10. CountsAddUp' /\ active_count' \in Int /\ free_count' \in Int /\ alloc_count' \in Int
  <2>1. Cardinality(Active') = Cardinality(Active) + 1
    BY <1>6, InvCounts, FS_AddElement
  <2>2. u \notin alloc => Cardinality(alloc \cup {u}) = Cardinality(alloc) + 1
    BY InvCounts, FS_AddElement
  <2>3. active_count' = Cardinality(Active')
    BY <1>2, <2>1, InvCounts
  <2>4. alloc_count' = Cardinality(alloc')
    BY <1>5, <2>2, InvCounts
  <2>5. active_count' + free_count' = alloc_count'
    BY <1>2, <1>5, InvCounts
  <2>6. QED
    BY <1>2, <1>5, <2>3, <2>4, <2>5, InvCounts DEF CountsAddUp
<1>11. TypeOK'
  <2>1. free_timers' \in TimerIds \cup {Nil}
    BY <1>5, <1>4 DEF LinksType, Pointers, Addresses
  <2>2. alloc' \subseteq TimerIds /\ owned' \subseteq alloc'
    BY <1>2, <1>4, <1>5, <1>6 DEF TmrInv, TypeOK
  <2>3. links' \in [head : [Buckets -> TimerIds \cup {Nil}],
                    next : [TimerIds -> TimerIds \cup {Nil}],
                    prev : [TimerIds -> TimerIds \cup {Nil}]]
    BY <1>8 DEF LinksType, Pointers, Addresses
  <2>4. msecs' \in [TimerIds -> Nat] /\ periodic' \in [TimerIds -> BOOLEAN]
    BY <1>1, <1>3 DEF TmrInv, TypeOK
  <2>5. QED
    BY <1>2, <1>7, <1>10, <2>1, <2>2, <2>3, <2>4 DEF TmrInv, TypeOK, run
<1>12. RunExact'
  <2>1. pc = "proc" => t \in Active
    BY DEF Active
  <2>2. pc = "proc" => periodic'[t] = periodic[t]
    BY <1>1, <1>4, <1>6, <2>1 DEF TmrInv, TypeOK
  <2>3. QED
    BY <1>2, <1>6, <2>1, <2>2 DEF TmrInv, RunExact, run, ClientRuns
<1>13. FieldsExact'
  <2> SUFFICES ASSUME NEW v \in Active \cup {u}
               PROVE  hash'[v] = Hash(time'[v]) /\ msecs'[v] \in Delays
    BY <1>6 DEF FieldsExact
  <2>1. CASE v = u
    BY <1>1, <1>4, <2>1 DEF TmrInv, TypeOK
  <2>2. CASE v # u
    BY <1>1, <1>4, <2>2 DEF TmrInv, TypeOK, FieldsExact
  <2>3. QED
    BY <2>1, <2>2
<1>14. Walked'
  <2>1. u # next
    BY <1>2, <1>6, InvLists DEF TmrInv, RunExact, ClientRuns
  <2>2. \A v \in owned \ {u} : /\ time'[v] = time[v] /\ hash'[v] = hash[v]
                               /\ periodic'[v] = periodic[v]
    BY <1>1, <1>4 DEF TmrInv, TypeOK
  <2>3. ~ (time'[u] <= now)
    BY <1>1, <1>3, <1>4
  <2>4. QED
    BY <1>2, <1>8, <2>1, <2>2, <2>3, WalkedKept
<1>15. QED
  BY <1>8, <1>9, <1>10, <1>11, <1>12, <1>13, <1>14 DEF TmrInv

(* l_resort() moves an active Timer u and leaves the other Timers alone.   *)
LEMMA LResortLists ==
  ASSUME TmrInv, NEW u \in Active, NEW at \in Nat, LResort(u, at)
  PROVE  /\ links' \in LinksType /\ Lists(links', Active, hash', time')
         /\ Chain(links'.next, free_timers, alloc \ Active)
         /\ Tails(links.next, links'.next, Active, u)
         /\ time' \in [TimerIds -> Nat] /\ hash' \in [TimerIds -> Buckets]
         /\ time'[u] = at /\ hash'[u] = Hash(at)
         /\ \A v \in TimerIds \ {u} : time'[v] = time[v] /\ hash'[v] = hash[v]
<1>1. /\ links \in LinksType /\ u \in TimerIds /\ Active \in SUBSET TimerIds
      /\ alloc \in SUBSET TimerIds
      /\ time \in [TimerIds -> Nat] /\ hash \in [TimerIds -> Buckets]
      /\ Lists(links, Active, hash, time)
  BY InvLists DEF TmrInv
<1>2. /\ time' = [time EXCEPT ![u] = at] /\ hash' = [hash EXCEPT ![u] = Hash(at)]
      /\ links' = LAdd(LRemove(links, hash[u], u), Hash(at), u, time')
  BY DEF LResort
<1>3. Hash(at) \in Buckets
  BY HashType
<1>4. /\ time' \in [TimerIds -> Nat] /\ hash' \in [TimerIds -> Buckets]
      /\ time'[u] = at /\ hash'[u] = Hash(at)
      /\ \A v \in TimerIds \ {u} : time'[v] = time[v] /\ hash'[v] = hash[v]
  BY <1>1, <1>2, <1>3
<1>5. /\ links' \in LinksType /\ Lists(links', Active, hash', time')
      /\ Outside(links.next, links'.next, Active)
      /\ Tails(links.next, links'.next, Active, u)
  <2> DEFINE gs == hash'
             sm == time'
             r == links'
  <2>1. /\ sm \in [TimerIds -> Nat] /\ gs[u] \in Buckets
        /\ \A v \in Active \ {u} : gs[v] = hash[v] /\ sm[v] = time[v]
        /\ r = LAdd(LRemove(links, hash[u], u), gs[u], u, sm)
    BY <1>1, <1>2, <1>3, <1>4
  <2> HIDE DEF gs, sm, r
  <2>2. /\ r \in LinksType /\ Lists(r, Active, gs, sm)
        /\ Outside(links.next, r.next, Active) /\ Tails(links.next, r.next, Active, u)
    BY <1>1, <2>1, ListsMoved
  <2>3. QED
    BY <2>2 DEF gs, sm, r
<1>6. Chain(links'.next, free_timers, alloc \ Active)
  <2> DEFINE nx == links.next
             ny == links'.next
             F == alloc \ Active
  <2>1. Chain(nx, free_timers, F)
    BY DEF TmrInv
  <2>2. \A v \in F : ny[v] = nx[v]
    BY <1>1, <1>5 DEF Outside
  <2> HIDE DEF nx, ny, F
  <2>3. Chain(ny, free_timers, F)
    BY <2>1, <2>2, ChainSame
  <2>4. QED
    BY <2>3 DEF ny, F
<1>7. QED
  BY <1>4, <1>5, <1>6

LEMMA ResetStep ==
  ASSUME TmrInv, ~ CancelSaved, NEW u \in TimerIds, Reset(u)
  PROVE  TmrInv'
<1>1. /\ ClientRuns /\ u \in owned \ {t} /\ u # next /\ LResort(u, now + msecs[u])
      /\ UNCHANGED << msecs, periodic, heap, now, run, owned >>
  BY DEF Reset
<1>2. u \in Active /\ Active' = Active
  BY <1>1 DEF Active, run
<1>3. now \in Nat /\ msecs[u] \in Nat /\ msecs[u] > 0 /\ now + msecs[u] \in Nat
  BY <1>2, DelaysAssumption, MaxNowAssumption DEF TmrInv, TypeOK, FieldsExact
<1>4. /\ links' \in LinksType /\ Lists(links', Active, hash', time')
      /\ Chain(links'.next, free_timers, alloc \ Active)
      /\ Tails(links.next, links'.next, Active, u)
      /\ time' \in [TimerIds -> Nat] /\ hash' \in [TimerIds -> Buckets]
      /\ time'[u] = now + msecs[u] /\ hash'[u] = Hash(now + msecs[u])
      /\ \A v \in TimerIds \ {u} : time'[v] = time[v] /\ hash'[v] = hash[v]
  <2> DEFINE at == now + msecs[u]
  <2>1. at \in Nat /\ LResort(u, at)
    BY <1>1, <1>3
  <2> HIDE DEF at
  <2>2. /\ links' \in LinksType /\ Lists(links', Active, hash', time')
        /\ Chain(links'.next, free_timers, alloc \ Active)
        /\ Tails(links.next, links'.next, Active, u)
        /\ time' \in [TimerIds -> Nat] /\ hash' \in [TimerIds -> Buckets]
        /\ time'[u] = at /\ hash'[u] = Hash(at)
        /\ \A v \in TimerIds \ {u} : time'[v] = time[v] /\ hash'[v] = hash[v]
    BY <1>2, <2>1, LResortLists
  <2>3. QED
    BY <2>2 DEF at
<1>5. /\ Lists(links', Active', hash', time')
      /\ Chain(links'.next, free_timers', alloc' \ Active')
  <2>1. free_timers' = free_timers /\ alloc' = alloc
    BY <1>1 DEF heap
  <2>2. QED
    BY <1>2, <1>4, <2>1
<1>6. TypeOK'
  <2>1. links' \in [head : [Buckets -> TimerIds \cup {Nil}],
                    next : [TimerIds -> TimerIds \cup {Nil}],
                    prev : [TimerIds -> TimerIds \cup {Nil}]]
    BY <1>4 DEF LinksType, Pointers, Addresses
  <2>2. QED
    BY <1>1, <1>4, <2>1 DEF TmrInv, TypeOK, heap, run
<1>7. CountsAddUp' /\ RunExact'
  BY <1>1, <1>2 DEF TmrInv, CountsAddUp, RunExact, heap, run
<1>8. FieldsExact'
  <2>1. Active \in SUBSET TimerIds
    BY InvLists
  <2>2. QED
    BY <1>1, <1>2, <1>4, <2>1 DEF TmrInv, FieldsExact
<1>9. Walked'
  <2>1. /\ owned' \subseteq owned \cup {u}
        /\ \A v \in owned \ {u} : /\ time'[v] = time[v] /\ hash'[v] = hash[v]
                                  /\ periodic'[v] = periodic[v]
    BY <1>1, <1>4, InvLists
  <2>2. ~ (time'[u] <= now)
    BY <1>3, <1>4
  <2>3. QED
    BY <1>1, <1>4, <2>1, <2>2, WalkedKept
<1>10. QED
  BY <1>5, <1>6, <1>7, <1>8, <1>9 DEF TmrInv

(* tmr_cleanup() leaves the Timers on the lists.                           *)
LEMMA CleanupStep ==
  ASSUME TmrInv, Cleanup
  PROVE  TmrInv'
<1> DEFINE gone == ListFrom(links.next, free_timers)
<1>1. /\ alloc' = alloc \ gone /\ free_timers' = Nil
      /\ alloc_count' = alloc_count - Cardinality(gone)
      /\ free_count' = free_count - Cardinality(gone)
      /\ UNCHANGED << links, fields, active_count, now, run, owned >>
  BY DEF Cleanup
<1>2. gone = alloc \ Active /\ Active' = Active /\ Active \in SUBSET alloc
  BY <1>1, InvLists DEF Active, run
<1> HIDE DEF gone
<1>3. alloc' = Active
  BY <1>1, <1>2
<1>4. /\ alloc_count' = active_count /\ free_count' = 0 /\ active_count \in Int
      /\ active_count' = active_count /\ active_count = Cardinality(Active)
  BY <1>1, <1>2, InvCounts
<1>5. CountsAddUp'
  <2>1. active_count' + free_count' = alloc_count'
    BY <1>4
  <2>2. active_count' = Cardinality(Active') /\ alloc_count' = Cardinality(alloc')
    BY <1>2, <1>3, <1>4
  <2>3. QED
    BY <2>1, <2>2 DEF CountsAddUp
<1>6. TypeOK'
  <2>1. owned' \subseteq alloc' /\ alloc' \subseteq TimerIds
    BY <1>1, <1>3, InvLists
  <2>2. QED
    BY <1>1, <1>4, <2>1 DEF TmrInv, TypeOK, fields, run
<1>7. RunExact'
  BY <1>1, <1>3 DEF TmrInv, RunExact, Active, fields, run
<1>8. FieldsExact' /\ Walked'
  BY <1>1, <1>2 DEF TmrInv, FieldsExact, Walked, Rest, Due, fields, run
<1>9. Lists(links', Active', hash', time')
  BY <1>1, <1>2 DEF TmrInv, fields
<1>10. Chain(links'.next, free_timers', alloc' \ Active')
  <2>1. free_timers' = Nil /\ alloc' \ Active' = {}
    BY <1>1, <1>2, <1>3
  <2>2. \A nx : Chain(nx, Nil, {})
    BY DEF Chain, Reaches, Closed
  <2>3. QED
    BY <2>1, <2>2
<1>11. QED
  BY <1>5, <1>6, <1>7, <1>8, <1>9, <1>10 DEF TmrInv

(* tmr_term() empties the lists.                                           *)
LEMMA TermStep ==
  ASSUME TmrInv, Term
  PROVE  TmrInv'
<1> DEFINE active == UNION {ListFrom(links.next, links.head[b]) : b \in Buckets}
           gone == active \cup ListFrom(links.next, free_timers)
<1>1. /\ pc = "idle"
      /\ active_count' = active_count - Cardinality(active)
      /\ free_count' = free_count + Cardinality(active) - Cardinality(gone)
      /\ alloc_count' = alloc_count - Cardinality(gone)
      /\ alloc' = alloc \ gone
      /\ links' = [links EXCEPT !.head = [b \in Buckets |-> Nil]]
      /\ free_timers' = Nil /\ owned' = {}
      /\ UNCHANGED << fields, now, run >>
  BY DEF Term
<1>2. active = Active
  <2>1. active = UNION {In(Active, hash, b) : b \in Buckets}
    BY InvLists
  <2>2. \A u \in Active : hash[u] \in Buckets
    BY InvLists
  <2>3. QED
    BY <2>1, <2>2 DEF In
<1>3. gone = alloc
  BY <1>2, InvLists
<1> HIDE DEF active, gone
<1>4. alloc' = {} /\ Active' = {}
  BY <1>1, <1>3 DEF Active, run
<1>5. active_count' = 0 /\ alloc_count' = 0 /\ free_count' = 0
  BY <1>1, <1>2, <1>3, InvCounts
<1>6. CountsAddUp'
  <2>1. Cardinality({}) = 0
    BY FS_EmptySet
  <2>2. QED
    BY <1>4, <1>5, <2>1 DEF CountsAddUp
<1>7. /\ links' \in LinksType /\ links'.next = links.next
      /\ links'.head = [b \in Buckets |-> Nil]
  BY <1>1, InvLists DEF LinksType, Addresses
<1>8. TypeOK'
  <2>1. links' \in [head : [Buckets -> TimerIds \cup {Nil}],
                    next : [TimerIds -> TimerIds \cup {Nil}],
                    prev : [TimerIds -> TimerIds \cup {Nil}]]
    BY <1>7 DEF LinksType, Pointers, Addresses
  <2>2. QED
    BY <1>1, <1>4, <1>5, <2>1 DEF TmrInv, TypeOK, fields, run
<1>9. RunExact' /\ FieldsExact' /\ Walked'
  BY <1>1, <1>4 DEF TmrInv, RunExact, FieldsExact, Walked, run
<1>10. \A nx : Chain(nx, Nil, {})
  BY DEF Chain, Reaches, Closed
<1>11. Lists(links', Active', hash', time')
  <2>1. \A b \in Buckets : links'.head[b] = Nil /\ In(Active', hash', b) = {}
    BY <1>4, <1>7 DEF In
  <2>2. \A b \in Buckets : DList(links', b, In(Active', hash', b))
    BY <1>10, <2>1 DEF DList
  <2>3. QED
    BY <1>4, <2>2 DEF Lists, Sorted
<1>12. Chain(links'.next, free_timers', alloc' \ Active')
  <2>1. free_timers' = Nil /\ alloc' \ Active' = {}
    BY <1>1, <1>4
  <2>2. QED
    BY <1>10, <2>1
<1>13. QED
  BY <1>6, <1>8, <1>9, <1>11, <1>12 DEF TmrInv

-----------------------------------------------------------------------------
(* The steps of tmr_run()                                                  *)

(* Steps that leave the lists and the active Timers as they are.           *)
LEMMA ListsKept ==
  ASSUME TmrInv, UNCHANGED << links, fields, heap >>, Active' = Active
  PROVE  /\ CountsAddUp' /\ FieldsExact' /\ Lists(links', Active', hash', time')
         /\ Chain(links'.next, free_timers', alloc' \ Active')
<1>1. /\ links' = links /\ hash' = hash /\ time' = time /\ msecs' = msecs
      /\ free_timers' = free_timers /\ alloc' = alloc /\ alloc_count' = alloc_count
      /\ active_count' = active_count /\ free_count' = free_count
  BY DEF fields, heap
<1>2. CountsAddUp' /\ FieldsExact'
  BY <1>1 DEF TmrInv, CountsAddUp, FieldsExact
<1>3. /\ Lists(links, Active, hash, time)
      /\ Chain(links.next, free_timers, alloc \ Active)
  BY DEF TmrInv
<1>4. QED
  BY <1>1, <1>2, <1>3

LEMMA RunStartStep ==
  ASSUME TmrInv, RunStart
  PROVE  TmrInv'
<1>1. /\ pc = "idle" /\ pc' = "loop" /\ h' = 0 /\ t' = links.head[0]
      /\ UNCHANGED << links, fields, heap, now, next, owned >>
  BY DEF RunStart
<1>2. Active' = Active /\ Active = owned /\ 0 \in Buckets
  BY <1>1 DEF Active, Buckets
<1>3. /\ Reaches(links.next, links.head[0], In(Active, hash, 0))
      /\ ListFrom(links.next, t') = In(Active, hash, 0)
  BY <1>1, <1>2, InvLists
<1>4. t' \in owned \cup {Nil} /\ owned \in SUBSET TimerIds
  BY <1>1, <1>2, <1>3, InvLists DEF Reaches, In
<1>5. TypeOK'
  BY <1>1, <1>2, <1>4 DEF TmrInv, TypeOK, fields, heap
<1>6. RunExact'
  BY <1>1, <1>4 DEF TmrInv, RunExact
<1>7. Walked'
  <2> SUFFICES ASSUME NEW u \in owned
               PROVE  hash[u] > 0 \/ (hash[u] = 0 /\ u \in In(Active, hash, 0))
    BY <1>1, <1>3 DEF Walked, Rest, fields
  <2>1. hash[u] \in Nat /\ u \in Active
    BY InvLists DEF Buckets
  <2>2. QED
    BY <2>1 DEF In
<1>8. QED
  BY <1>1, <1>2, <1>5, <1>6, <1>7, ListsKept DEF TmrInv

(* When the list that tmr_run() walks has no timer in front of it that is  *)
(* due, the one-shot timers that are due are in later lists.               *)
LEMMA NothingDue ==
  ASSUME TmrInv, pc = "loop", IF t = Nil THEN TRUE ELSE ~ Due(t),
         NEW u \in owned, Due(u), ~ periodic[u]
  PROVE  hash[u] > h
<1> SUFFICES ASSUME hash[u] = h, u \in ListFrom(links.next, t) PROVE FALSE
  BY DEF TmrInv, Walked, Rest
<1>1. CASE t = Nil
  <2>1. Reaches(links.next, Nil, ListFrom(links.next, Nil))
    BY InvLists, ReachesList DEF Addresses
  <2>2. QED
    BY <1>1, <2>1, NilReaches
<1>2. CASE t # Nil
  <2> DEFINE nx == links.next
  <2>1. /\ nx \in Pointers /\ Active \in SUBSET TimerIds /\ t \in Active /\ t \in TimerIds
        /\ time \in [TimerIds -> Nat] /\ now \in Nat
    BY <1>2, InvLists, MaxNowAssumption DEF TmrInv, TypeOK, RunExact
  <2>2. Closed(nx, Active)
    BY ListsClosed DEF TmrInv
  <2>3. \A v \in Active : nx[v] # Nil => time[v] <= time[nx[v]]
    BY DEF TmrInv, Lists, Sorted
  <2> HIDE DEF nx
  <2>4. \A v \in ListFrom(nx, t) : time[t] <= time[v]
    BY <2>1, <2>2, <2>3, FirstIsLeast
  <2>5. time[t] <= time[u] /\ u \in TimerIds
    BY <2>1, <2>4 DEF nx, ListFrom
  <2>6. QED
    BY <1>2, <2>1, <2>5 DEF Due
<1>3. QED
  BY <1>1, <1>2

LEMMA NextBucketStep ==
  ASSUME TmrInv, NextBucket
  PROVE  TmrInv'
<1>1. /\ pc = "loop" /\ IF t = Nil THEN TRUE ELSE ~ Due(t)
      /\ UNCHANGED << links, fields, heap, now, next, owned >>
  BY DEF NextBucket
<1>2. \/ pc' = "idle" /\ h' = 0 /\ t' = Nil
      \/ h # HashSize - 1 /\ h' = h + 1 /\ t' = links.head[h + 1] /\ pc' = "loop"
  BY <1>1 DEF NextBucket
<1>3. Active' = Active /\ Active = owned
  BY <1>1, <1>2 DEF Active
<1>4. h \in Buckets
  BY DEF TmrInv, TypeOK
<1>5. CASE pc' = "idle" /\ h' = 0 /\ t' = Nil
  <2>1. TypeOK' /\ RunExact' /\ Walked'
    BY <1>1, <1>5 DEF TmrInv, TypeOK, RunExact, Walked, fields, heap, Buckets
  <2>2. QED
    BY <1>1, <1>3, <2>1, ListsKept DEF TmrInv
<1>6. CASE h # HashSize - 1 /\ h' = h + 1 /\ t' = links.head[h + 1] /\ pc' = "loop"
  <2>1. h + 1 \in Buckets
    BY <1>4, <1>6 DEF Buckets
  <2>2. /\ Reaches(links.next, t', In(Active, hash, h + 1))
        /\ ListFrom(links.next, t') = In(Active, hash, h + 1)
    BY <1>6, <2>1, InvLists
  <2>3. t' \in owned \cup {Nil} /\ owned \in SUBSET TimerIds
    BY <1>3, <2>2, InvLists DEF Reaches, In
  <2>4. TypeOK'
    BY <1>1, <1>6, <2>1, <2>3 DEF TmrInv, TypeOK, fields, heap
  <2>5. RunExact'
    BY <1>1, <1>6, <2>3 DEF TmrInv, RunExact
  <2>6. Walked'
    <3> SUFFICES ASSUME NEW u \in owned, Due(u), ~ periodic[u]
                 PROVE  \/ hash[u] > h + 1
                        \/ hash[u] = h + 1 /\ u \in In(Active, hash, h + 1)
      BY <1>1, <1>6, <2>2 DEF Walked, Rest, Due, fields
    <3>1. hash[u] > h
      BY <1>1, NothingDue
    <3>2. hash[u] \in Nat /\ h \in Nat /\ u \in Active
      BY <1>4, InvLists DEF Buckets
    <3>3. hash[u] > h + 1 \/ hash[u] = h + 1
      BY <3>1, <3>2
    <3>4. QED
      BY <3>2, <3>3 DEF In
  <2>7. QED
    BY <1>1, <1>3, <2>4, <2>5, <2>6, ListsKept DEF TmrInv
<1>7. QED
  BY <1>2, <1>5, <1>6

(* What follows a Timer on its list follows its successor, or is that.     *)
LEMMA TailSplit ==
  ASSUME NEW nx \in Pointers, NEW u \in TimerIds, NEW v \in ListFrom(nx, u), v # u
  PROVE  v \in ListFrom(nx, nx[u])
<1>1. v \in TimerIds
  BY DEF ListFrom
<1>2. ASSUME NEW S \in SUBSET TimerIds, nx[u] \in S \cup {Nil}, Closed(nx, S)
      PROVE  v \in S
  <2>1. Closed(nx, S \cup {u}) /\ S \cup {u} \in SUBSET TimerIds
    BY <1>2 DEF Closed
  <2>2. v \in S \cup {u}
    BY <2>1 DEF ListFrom
  <2>3. QED
    BY <2>2
<1>3. QED
  BY <1>1, <1>2 DEF ListFrom

LEMMA ProcStep ==
  ASSUME TmrInv, Proc
  PROVE  TmrInv'
<1>1. /\ pc = "loop" /\ t # Nil /\ Due(t) /\ next' = links.next[t] /\ pc' = "proc"
      /\ owned' = IF periodic[t] THEN owned ELSE owned \ {t}
      /\ UNCHANGED << links, fields, heap, now, h, t >>
  BY DEF Proc
<1>2. t \in owned /\ owned = Active /\ t \in TimerIds /\ t \in alloc
  BY <1>1, InvLists DEF TmrInv, RunExact, Active
<1>3. Active' = Active
  BY <1>1, <1>2 DEF Active
<1>4. next' \in (owned \ {t}) \cup {Nil} /\ owned \in SUBSET TimerIds
  BY <1>1, <1>2, InvLists
<1>5. TypeOK'
  BY <1>1, <1>4 DEF TmrInv, TypeOK, fields, heap
<1>6. RunExact'
  BY <1>1, <1>2, <1>4 DEF TmrInv, RunExact, fields, heap
<1>7. Walked'
  <2> SUFFICES ASSUME NEW u \in owned', Due(u), ~ periodic[u]
               PROVE  \/ hash[u] > h
                      \/ hash[u] = h /\ u \in ListFrom(links.next, next')
    BY <1>1 DEF Walked, Rest, Due, fields
  <2>1. u \in owned /\ u # t
    BY <1>1
  <2>2. hash[u] > h \/ (hash[u] = h /\ u \in ListFrom(links.next, t))
    BY <1>1, <2>1 DEF TmrInv, Walked, Rest
  <2>3. links.next \in Pointers
    BY InvLists
  <2>4. u \in ListFrom(links.next, t) => u \in ListFrom(links.next, links.next[t])
    BY <1>2, <2>1, <2>3, TailSplit
  <2>5. QED
    BY <1>1, <2>2, <2>4
<1>8. QED
  BY <1>1, <1>3, <1>5, <1>6, <1>7, ListsKept DEF TmrInv

(* The procedure of t returns: t moves to its next time, or is cancelled.  *)
LEMMA ProcReturnStep ==
  ASSUME TmrInv, ProcReturn
  PROVE  TmrInv'
<1>1. /\ pc = "proc" /\ Done(t) /\ t' = next /\ next' = Nil /\ pc' = "loop"
      /\ UNCHANGED << now, h, owned >>
  BY DEF ProcReturn
<1>2. /\ t \in Active /\ t \in TimerIds /\ t \in alloc /\ (t \in owned <=> periodic[t])
      /\ next \in (owned \ {t}) \cup {Nil} /\ Active = owned \cup {t}
  BY <1>1, InvLists DEF TmrInv, RunExact, Active
<1>3. Active' = owned
  BY <1>1 DEF Active
<1>4. /\ links' \in LinksType /\ Lists(links', Active', hash', time')
      /\ Chain(links'.next, free_timers', alloc' \ Active')
      /\ Tails(links.next, links'.next, Active, t)
      /\ CountsAddUp' /\ FieldsExact'
      /\ time' \in [TimerIds -> Nat] /\ hash' \in [TimerIds -> Buckets]
      /\ \A v \in owned \ {t} : time'[v] = time[v] /\ hash'[v] = hash[v]
      /\ free_timers' \in TimerIds \cup {Nil} /\ alloc' = alloc
      /\ active_count' \in Int /\ free_count' \in Int /\ alloc_count' \in Int
      /\ UNCHANGED << msecs, periodic >>
  <2>1. CASE periodic[t]
    <3>1. /\ LResort(t, time[t] + msecs[t]) /\ UNCHANGED << msecs, periodic, heap >>
          /\ Active' = Active
      BY <1>1, <1>2, <1>3, <2>1 DEF Done
    <3>2. time[t] + msecs[t] \in Nat
      BY <1>2 DEF TmrInv, TypeOK
    <3> DEFINE at == time[t] + msecs[t]
    <3>3. at \in Nat /\ LResort(t, at)
      BY <3>1, <3>2
    <3> HIDE DEF at
    <3>4. /\ links' \in LinksType /\ Lists(links', Active, hash', time')
          /\ Chain(links'.next, free_timers, alloc \ Active)
          /\ Tails(links.next, links'.next, Active, t)
          /\ time' \in [TimerIds -> Nat] /\ hash' \in [TimerIds -> Buckets]
          /\ time'[t] = at /\ hash'[t] = Hash(at)
          /\ \A v \in TimerIds \ {t} : time'[v] = time[v] /\ hash'[v] = hash[v]
      BY <1>2, <3>3, LResortLists
    <3>5. /\ free_timers' = free_timers /\ alloc' = alloc /\ alloc_count' = alloc_count
          /\ active_count' = active_count /\ free_count' = free_count
      BY <3>1 DEF heap
    <3>6. CountsAddUp'
      BY <3>1, <3>5 DEF TmrInv, CountsAddUp
    <3>7. FieldsExact'
      <4>1. Active \in SUBSET TimerIds
        BY InvLists
      <4>2. QED
        BY <3>1, <3>4, <4>1 DEF TmrInv, FieldsExact
    <3>8. /\ Lists(links', Active', hash', time')
          /\ Chain(links'.next, free_timers', alloc' \ Active')
      BY <3>1, <3>4, <3>5
    <3>9. free_timers' \in TimerIds \cup {Nil} /\ owned \in SUBSET TimerIds
      BY <3>5, InvLists DEF TmrInv, TypeOK
    <3>10. active_count' \in Int /\ free_count' \in Int /\ alloc_count' \in Int
      BY <3>5, InvCounts
    <3>11. QED
      BY <3>1, <3>4, <3>5, <3>6, <3>7, <3>8, <3>9, <3>10
  <2>2. CASE ~ periodic[t]
    <3>1. TmrCancel(t) /\ Active' = Active \ {t}
      BY <1>1, <1>2, <1>3, <2>2 DEF Done
    <3>2. free_timers' = t /\ UNCHANGED << time, msecs, periodic, hash, alloc >>
      BY <3>1 DEF TmrCancel, fields
    <3>3. /\ links' \in LinksType /\ Lists(links', Active \ {t}, hash', time')
          /\ Chain(links'.next, free_timers', alloc' \ (Active \ {t}))
          /\ Tails(links.next, links'.next, Active, t)
          /\ active_count' + free_count' = alloc_count'
          /\ active_count' = Cardinality(Active \ {t})
          /\ alloc_count' = Cardinality(alloc')
          /\ active_count' \in Int /\ free_count' \in Int /\ alloc_count' \in Int
      BY <1>2, <3>1, CancelLists
    <3>4. CountsAddUp'
      BY <3>1, <3>3 DEF CountsAddUp
    <3>5. FieldsExact'
      BY <3>1, <3>2 DEF TmrInv, FieldsExact
    <3>6. QED
      BY <1>2, <3>1, <3>2, <3>3, <3>4, <3>5, InvLists
  <2>3. QED
    BY <2>1, <2>2
<1>5. TypeOK'
  <2>1. links' \in [head : [Buckets -> TimerIds \cup {Nil}],
                    next : [TimerIds -> TimerIds \cup {Nil}],
                    prev : [TimerIds -> TimerIds \cup {Nil}]]
    BY <1>4 DEF LinksType, Pointers, Addresses
  <2>2. t' \in TimerIds \cup {Nil}
    BY <1>1 DEF TmrInv, TypeOK
  <2>3. QED
    BY <1>1, <1>4, <2>1, <2>2 DEF TmrInv, TypeOK
<1>6. RunExact'
  BY <1>1, <1>2 DEF RunExact
<1>7. Walked'
  <2> SUFFICES ASSUME NEW v \in owned, Due(v)', ~ periodic'[v]
               PROVE  hash'[v] > h \/ (hash'[v] = h /\ v \in ListFrom(links'.next, next))
    BY <1>1 DEF Walked, Rest
  <2>1. v # t /\ Due(v) /\ ~ periodic[v] /\ hash'[v] = hash[v]
    BY <1>1, <1>2, <1>4 DEF Due
  <2>2. hash[v] > h \/ (hash[v] = h /\ v \in ListFrom(links.next, next))
    BY <1>1, <2>1 DEF TmrInv, Walked, Rest
  <2>3. v \in ListFrom(links.next, next) => v \in ListFrom(links'.next, next)
    BY <1>2, <1>4, <2>1 DEF Tails
  <2>4. QED
    BY <2>1, <2>2, <2>3
<1>8. QED
  BY <1>4, <1>5, <1>6, <1>7 DEF TmrInv

LEMMA TickStep ==
  ASSUME TmrInv, Tick
  PROVE  TmrInv'
<1>1. /\ pc = "idle" /\ now < MaxNow /\ now' = now + 1
      /\ UNCHANGED << links, fields, heap, run, owned >>
  BY DEF Tick
<1>2. Active' = Active
  BY <1>1 DEF Active, run
<1>3. now' \in 0 .. MaxNow
  BY <1>1, MaxNowAssumption DEF TmrInv, TypeOK
<1>4. TypeOK'
  BY <1>1, <1>3 DEF TmrInv, TypeOK, fields, heap, run
<1>5. RunExact' /\ Walked'
  BY <1>1 DEF TmrInv, RunExact, Walked, fields, heap, run
<1>6. QED
  BY <1>1, <1>2, <1>4, <1>5, ListsKept DEF TmrInv

(* Every step keeps the invariant.                                         *)
LEMMA TmrNextInv ==
  ASSUME TmrInv, ~ CancelSaved, [Next]_vars
  PROVE  TmrInv'
<1>1. CASE TmrRun
  BY <1>1, RunStartStep, NextBucketStep, ProcStep, ProcReturnStep DEF TmrRun
<1>2. CASE Client
  BY <1>2, CreateStep, CancelStep, ResetStep, CleanupStep, TermStep DEF Client
<1>3. CASE Tick
  BY <1>3, TickStep
<1>4. CASE UNCHANGED vars
  <2>1. /\ UNCHANGED << links, fields, heap, now, run, owned >> /\ Active' = Active
    BY <1>4 DEF vars, Active, run
  <2>2. TypeOK' /\ RunExact' /\ Walked'
    BY <2>1 DEF TmrInv, TypeOK, RunExact, Walked, Rest, Due, fields, heap, run
  <2>3. QED
    BY <2>1, <2>2, ListsKept DEF TmrInv
<1>5. QED
  BY <1>1, <1>2, <1>3, <1>4 DEF Next

-----------------------------------------------------------------------------
(* The theorems.  CancelSaved says that a timer procedure may cancel or    *)
(* reset the timer that tmr_run() has saved in `next'.  Then the package   *)
(* does walk a wrong list, and what follows holds of clients that do not.  *)

(* The inductive invariant holds in every state.                           *)
THEOREM TmrInvariant ==
  ASSUME ~ CancelSaved
  PROVE  Spec => []TmrInv
<1>1. Init => TmrInv
  BY TmrInit
<1>2. TmrInv /\ [Next]_vars => TmrInv'
  BY TmrNextInv
<1>3. QED
  BY <1>1, <1>2, PTL DEF Spec

(* Every variable of the package stays in its type.                        *)
THEOREM TmrTypeCorrect ==
  ASSUME ~ CancelSaved
  PROVE  Spec => []TypeOK
<1>1. TmrInv => TypeOK
  BY DEF TmrInv
<1>2. QED
  BY <1>1, TmrInvariant, PTL

(* l_add(), l_remove(), the free list and the callbacks of tmr_run() keep  *)
(* every list linked both ways and sorted, each active timer in the bucket *)
(* of its time and every other Timer on the free list; the counts add up.  *)
THEOREM TmrListsExact ==
  ASSUME ~ CancelSaved
  PROVE  Spec => []ListsExact
<1>1. TmrInv => ListsExact
  <2> SUFFICES ASSUME TmrInv PROVE ListsExact
    OBVIOUS
  <2>1. \A b \in Buckets :
          ListFrom(links.next, links.head[b]) = {u \in Active : hash[u] = b}
    BY InvLists DEF In
  <2>2. ListFrom(links.next, free_timers) = alloc \ Active
    BY InvLists
  <2>3. \A b \in Buckets : DList(links, b, In(Active, hash, b))
    BY DEF TmrInv, Lists
  <2>4. \A b \in Buckets : links.head[b] # Nil => links.prev[links.head[b]] = Nil
    BY <2>3 DEF DList
  <2>5. ASSUME NEW u \in Active
        PROVE  /\ hash[u] = Hash(time[u])
               /\ links.next[u] # Nil => /\ links.prev[links.next[u]] = u
                                         /\ time[u] <= time[links.next[u]]
               /\ links.prev[u] # Nil => links.next[links.prev[u]] = u
    <3> DEFINE b == hash[u]
               L == In(Active, hash, b)
    <3>1. u \in L /\ DList(links, b, L)
      BY <2>3, InvLists DEF In
    <3> HIDE DEF b, L
    <3>2. links.prev[u] # Nil => links.next[links.prev[u]] = u
      BY <3>1, PrevExact
    <3>3. links.next[u] # Nil => links.prev[links.next[u]] = u
      BY <3>1 DEF DList
    <3>4. links.next[u] # Nil => time[u] <= time[links.next[u]]
      BY DEF TmrInv, Lists, Sorted
    <3>5. hash[u] = Hash(time[u])
      BY DEF TmrInv, FieldsExact
    <3>6. QED
      BY <3>2, <3>3, <3>4, <3>5
  <2>6. Linked
    BY <2>1, <2>2, <2>4, <2>5 DEF Linked
  <2>7. QED
    BY <2>6 DEF ListsExact, TmrInv
<1>2. QED
  BY <1>1, TmrInvariant, PTL

(* A set of natural numbers that is not empty has a least element.         *)
LEMMA LeastOf ==
  ASSUME NEW T \in SUBSET Nat, T # {}
  PROVE  \E x \in T : \A y \in T : x <= y
<1>1. PICK x \in T : \A y \in T : ~ (<< y, x >> \in OpToRel(<, Nat))
  BY NatLessThanWellFounded, WFMin
<1>2. \A y \in T : ~ (y < x)
  BY <1>1 DEF OpToRel
<1>3. QED
  BY <1>2

(* The first timers of the lists, one of which is due before all others.   *)
Heads == {links.head[b] : b \in Buckets} \ {Nil}

LEMMA HeadsLeast ==
  ASSUME TmrInv
  PROVE  /\ Heads \in SUBSET Active
         /\ \A u \in Active : \E v \in Heads : time[v] <= time[u]
<1>1. Heads \in SUBSET Active
  <2> SUFFICES ASSUME NEW b \in Buckets, links.head[b] # Nil
               PROVE  links.head[b] \in Active
    BY DEF Heads
  <2>1. links.head[b] \in In(Active, hash, b)
    <3>1. Reaches(links.next, links.head[b], In(Active, hash, b))
      BY InvLists
    <3> QED
      BY <3>1 DEF Reaches
  <2>2. QED
    BY <2>1 DEF In
<1>2. ASSUME NEW u \in Active PROVE \E v \in Heads : time[v] <= time[u]
  <2> DEFINE b == hash[u]
             nx == links.next
             first == links.head[b]
             L == In(Active, hash, b)
  <2>1. b \in Buckets /\ u \in L /\ u \in ListFrom(nx, first) /\ Reaches(nx, first, L)
    <3>1. b \in Buckets /\ u \in L
      BY InvLists DEF In
    <3>2. ListFrom(nx, first) = L /\ Reaches(nx, first, L)
      BY <3>1, InvLists
    <3> HIDE DEF b, nx, first, L
    <3> QED
      BY <3>1, <3>2
  <2>2. first # Nil
    BY <2>1, NilReaches
  <2>3. /\ nx \in Pointers /\ Active \in SUBSET TimerIds /\ first \in Active
        /\ first \in Heads /\ time \in [TimerIds -> Nat]
    BY <1>1, <2>1, <2>2, InvLists DEF Heads
  <2>4. Closed(nx, Active)
    BY ListsClosed DEF TmrInv
  <2>5. \A v \in Active : nx[v] # Nil => time[v] <= time[nx[v]]
    BY DEF TmrInv, Lists, Sorted
  <2> HIDE DEF nx, first, b, L
  <2>6. \A v \in ListFrom(nx, first) : time[first] <= time[v]
    BY <2>3, <2>4, <2>5, FirstIsLeast
  <2>7. QED
    BY <2>1, <2>3, <2>6
<1>3. QED
  BY <1>1, <1>2

(* A number is the quotient and the rest of its division.                  *)
LEMMA DivMod ==
  ASSUME NEW n \in Nat, NEW d \in Nat \ {0}
  PROVE  /\ n \div d \in Nat /\ n % d \in 0 .. d - 1
         /\ n = d * (n \div d) + (n % d)
OBVIOUS

(* The quotient cut toward zero is less than one unit off either way.      *)
LEMMA QuotientNear ==
  ASSUME NEW n \in Int, NEW d \in Nat \ {0}
  PROVE  /\ Quotient(n, d) \in Int
         /\ n - d < d * Quotient(n, d) /\ d * Quotient(n, d) < n + d
<1>1. CASE n >= 0
  <2>1. n \in Nat
    BY <1>1
  <2> DEFINE q == n \div d
  <2>2. Quotient(n, d) = q
    BY <1>1 DEF Quotient
  <2>3. q \in Nat /\ n % d \in 0 .. d - 1 /\ n = d * q + (n % d)
    BY <2>1, DivMod
  <2> HIDE DEF q
  <2>4. QED
    BY <2>2, <2>3
<1>2. CASE ~ (n >= 0)
  <2>1. - n \in Nat
    BY <1>2
  <2> DEFINE k == - n
             q == k \div d
             x == k % d
  <2>2. Quotient(n, d) = - q
    BY <1>2 DEF Quotient
  <2>3. q \in Nat /\ x \in 0 .. d - 1 /\ k = d * q + x
    BY <2>1, DivMod
  <2>4. n = - k /\ k \in Nat
    BY <2>1
  <2> HIDE DEF q, x, k
  <2>5. d * (- q) = - (d * q)
    BY <2>3
  <2>6. d * q \in Int
    BY <2>3
  <2> DEFINE p == d * q
  <2>7. d * Quotient(n, d) = - p /\ p \in Int /\ k = p + x
    BY <2>2, <2>3, <2>5, <2>6
  <2> HIDE DEF p
  <2>8. QED
    BY <2>2, <2>3, <2>4, <2>7
<1>3. QED
  BY <1>1, <1>2

(* The milliseconds to a time are less than one off either way.            *)
LEMMA MsUntilNear ==
  ASSUME now \in Nat, NEW at \in Nat
  PROVE  /\ MsUntil(at) \in Int
         /\ at - now - TicksPerMs < MsUntil(at) * TicksPerMs
         /\ MsUntil(at) * TicksPerMs < at - now + TicksPerMs
<1> DEFINE K == TicksPerMs
           M == MsPerSec
           S == TicksPerSec
           a == Sec(at)
           b == Sec(now)
           x == SubSec(at)
           y == SubSec(now)
           q == Quotient(x - y, K)
<1>1. K \in Nat \ {0} /\ M \in Nat \ {0} /\ S = K * M
  BY ResolutionAssumption DEF TicksPerSec
<1>2. S \in Nat \ {0}
  <2> HIDE DEF K, M, S
  <2> QED
    BY <1>1
<1>3. /\ a \in Nat /\ x \in Nat /\ at = S * a + x
      /\ b \in Nat /\ y \in Nat /\ now = S * b + y
  BY <1>2, DivMod DEF Sec, SubSec
<1>4. MsUntil(at) = (a - b) * M + q
  BY DEF MsUntil
<1> HIDE DEF K, M, S, a, b, x, y
<1>5. q \in Int /\ x - y - K < K * q /\ K * q < x - y + K
  <2>1. x - y \in Int
    BY <1>3
  <2>2. QED
    BY <1>1, <2>1, QuotientNear
<1> HIDE DEF q
<1> DEFINE c == a - b
<1>6. c \in Int /\ at - now = S * c + (x - y)
  BY <1>2, <1>3
<1> HIDE DEF c
<1>7. (c * M + q) * K = S * c + K * q /\ c * M + q \in Int
  BY <1>1, <1>5, <1>6
<1>8. S * c \in Int /\ K * q \in Int
  BY <1>1, <1>2, <1>5, <1>6
<1> DEFINE e == S * c
           f == K * q
<1>9. /\ e \in Int /\ f \in Int /\ at - now = e + (x - y)
      /\ (c * M + q) * K = e + f
      /\ x - y - K < f /\ f < x - y + K
  BY <1>5, <1>6, <1>7, <1>8
<1> HIDE DEF e, f
<1>10. /\ at - now - K < (c * M + q) * K
       /\ (c * M + q) * K < at - now + K
  BY <1>1, <1>3, <1>9
<1>11. QED
  BY <1>4, <1>7, <1>10 DEF K, c

(* A number of milliseconds whose ticks are more than -(n + k) is itself   *)
(* at least that, a millisecond being at least a tick.                     *)
LEMMA MsNotLess ==
  ASSUME NEW m \in Int, NEW k \in Nat \ {0}, NEW n \in Nat, NEW a \in Nat,
         a - n - k < m * k
  PROVE  m + (n + k) \in Nat
<1>1. CASE m >= 0
  BY <1>1
<1>2. CASE m < 0
  <2>1. m * k <= m
    BY <1>2
  <2> DEFINE p == m * k
  <2>2. p \in Int /\ a - n - k < p /\ p <= m
    BY <2>1
  <2> HIDE DEF p
  <2>3. QED
    BY <2>2
<1>3. QED
  BY <1>1, <1>2

(* So they are not less than minus the time that has passed, and a bit.    *)
LEMMA MsUntilLow ==
  ASSUME now \in Nat, NEW at \in Nat
  PROVE  MsUntil(at) + (now + TicksPerMs) \in Nat
<1>1. /\ MsUntil(at) \in Int
      /\ at - now - TicksPerMs < MsUntil(at) * TicksPerMs
  BY MsUntilNear
<1>2. QED
  BY <1>1, MsNotLess, ResolutionAssumption

(* tmr_mstimeout() is the time to some timer, and to no later one than any *)
(* timer, each to less than a millisecond.                                 *)
LEMMA MsTimeoutExact ==
  ASSUME TmrInv
  PROVE  IF Active = {} THEN MsTimeout = -1
         ELSE /\ MsTimeout \in Nat
              /\ \A u \in Active :
                   MsTimeout = 0 \/ MsTimeout * TicksPerMs < time[u] - now + TicksPerMs
              /\ \E u \in Active :
                   time[u] - now < MsTimeout * TicksPerMs + TicksPerMs
<1>1. /\ Heads \in SUBSET Active /\ \A u \in Active : \E v \in Heads : time[v] <= time[u]
      /\ Active \in SUBSET TimerIds /\ time \in [TimerIds -> Nat] /\ now \in Nat
  BY HeadsLeast, InvLists, MaxNowAssumption DEF TmrInv, TypeOK
<1>2. \A u \in Active : time[u] \in Nat
  BY <1>1
<1> DEFINE S == {MsUntil(time[u]) : u \in Heads}
           m == MinOf(S)
           K == TicksPerMs
<1>3. MsTimeout = IF Heads = {} THEN -1 ELSE IF m < 0 THEN 0 ELSE m
  BY DEF MsTimeout, Heads
<1>4. K \in Nat \ {0}
  BY ResolutionAssumption
<1> HIDE DEF m, K
<1>5. CASE Heads = {}
  BY <1>1, <1>3, <1>5
<1>6. CASE Heads # {}
  <2> DEFINE T == {MsUntil(time[u]) + (now + K) : u \in Heads}
  <2>1. \A u \in Heads : MsUntil(time[u]) + (now + K) \in Nat
    BY <1>1, <1>2, MsUntilLow DEF K
  <2>2. T \in SUBSET Nat /\ T # {}
    BY <1>6, <2>1
  <2> HIDE DEF T
  <2>3. PICK x \in T : \A y \in T : x <= y
    BY <2>2, LeastOf
  <2>4. PICK v \in Heads : x = MsUntil(time[v]) + (now + K)
    BY <2>3 DEF T
  <2>5. \A u \in Heads : MsUntil(time[u]) \in Int
    BY <1>1, <1>2, MsUntilNear
  <2>6. \A u \in Heads : MsUntil(time[v]) <= MsUntil(time[u])
    <3> SUFFICES ASSUME NEW u \in Heads PROVE MsUntil(time[v]) <= MsUntil(time[u])
      OBVIOUS
    <3>1. MsUntil(time[u]) + (now + K) \in T
      BY DEF T
    <3>2. MsUntil(time[v]) + (now + K) <= MsUntil(time[u]) + (now + K)
      BY <2>3, <2>4, <3>1
    <3>3. MsUntil(time[v]) \in Int /\ MsUntil(time[u]) \in Int /\ now + K \in Int
      BY <1>1, <1>4, <2>5
    <3>4. QED
      BY <3>2, <3>3
  <2>7. MsUntil(time[v]) \in S /\ \A y \in S : MsUntil(time[v]) <= y
    BY <2>6
  <2>8. S \in SUBSET Int
    BY <2>5
  <2> HIDE DEF S
  <2>9. m \in S /\ \A y \in S : m <= y
    BY <2>7 DEF MinOf, m
  <2>10. m = MsUntil(time[v])
    <3>1. m <= MsUntil(time[v]) /\ MsUntil(time[v]) <= m
      BY <2>7, <2>9
    <3>2. m \in Int /\ MsUntil(time[v]) \in Int
      BY <2>5, <2>8, <2>9
    <3>3. QED
      BY <3>1, <3>2
  <2>11. m \in Int /\ time[v] - now < m * K + K
    <3>1. time[v] \in Nat
      BY <1>1, <1>2
    <3>2. m \in Int /\ time[v] - now - K < m * K
      BY <1>1, <2>10, <3>1, MsUntilNear DEF K
    <3>3. m * K \in Int /\ K \in Int /\ now \in Int
      BY <1>1, <1>4, <3>2
    <3>4. QED
      BY <3>1, <3>2, <3>3
  <2>12. ASSUME NEW u \in Active PROVE m * K < time[u] - now + K
    <3>1. PICK w \in Heads : time[w] <= time[u]
      BY <1>1
    <3>2. time[w] \in Nat /\ time[u] \in Nat
      BY <1>1, <1>2
    <3>3. MsUntil(time[w]) \in Int /\ MsUntil(time[w]) * K < time[w] - now + K
      BY <1>1, <3>2, MsUntilNear DEF K
    <3>4. m <= MsUntil(time[w])
      BY <2>6, <2>10
    <3>5. m * K <= MsUntil(time[w]) * K
      BY <1>4, <2>11, <3>3, <3>4
    <3>6. m * K \in Int /\ MsUntil(time[w]) * K \in Int
      BY <1>4, <2>11, <3>3
    <3>7. QED
      BY <1>1, <1>4, <3>1, <3>2, <3>3, <3>5, <3>6
  <2>13. CASE m < 0
    <3>1. MsTimeout = 0
      BY <1>3, <1>6, <2>13
    <3>2. m * K + K <= 0 * K + K
      BY <1>4, <2>11, <2>13
    <3>3. time[v] - now < 0 * K + K
      <4>1. time[v] \in Nat
        BY <1>1, <1>2
      <4>2. m * K \in Int /\ time[v] - now \in Int
        BY <1>1, <1>4, <2>11, <4>1
      <4>3. QED
        BY <1>4, <2>11, <3>2, <4>2
    <3>4. QED
      BY <1>1, <1>6, <3>1, <3>3 DEF K
  <2>14. CASE ~ (m < 0)
    <3>1. MsTimeout = m /\ m \in Nat
      BY <1>3, <1>6, <2>11, <2>14
    <3>2. QED
      BY <1>1, <1>6, <2>11, <2>12, <3>1 DEF K
  <2>15. QED
    BY <2>13, <2>14
<1>7. QED
  BY <1>5, <1>6

(* The timeout that thttpd passes to fdwatch() is the time to the first    *)
(* timer, to less than a millisecond, and is INFTIM only if there is none. *)
THEOREM TmrTimeoutExact ==
  ASSUME ~ CancelSaved
  PROVE  Spec => []TimeoutExact
<1>1. TmrInv => TimeoutExact
  <2> SUFFICES ASSUME TmrInv, pc = "idle"
               PROVE  /\ MsTimeout = -1 <=> owned = {}
                      /\ \A u \in owned : MsTimeout > 0 =>
                           MsTimeout * TicksPerMs < time[u] - now + TicksPerMs
                      /\ owned # {} => \E u \in owned :
                           time[u] - now < MsTimeout * TicksPerMs + TicksPerMs
    BY DEF TimeoutExact
  <2>1. Active = owned
    BY DEF Active
  <2>2. CASE owned = {}
    BY <2>1, <2>2, MsTimeoutExact
  <2>3. CASE owned # {}
    <3>1. /\ MsTimeout \in Nat
          /\ \A u \in owned :
               MsTimeout = 0 \/ MsTimeout * TicksPerMs < time[u] - now + TicksPerMs
          /\ \E u \in owned :
               time[u] - now < MsTimeout * TicksPerMs + TicksPerMs
      BY <2>1, <2>3, MsTimeoutExact
    <3>2. MsTimeout # -1
      BY <3>1
    <3>3. \A u \in owned : MsTimeout > 0 =>
            MsTimeout * TicksPerMs < time[u] - now + TicksPerMs
      BY <3>1
    <3>4. QED
      BY <2>3, <3>1, <3>2, <3>3
  <2>4. QED
    BY <2>2, <2>3
<1>2. QED
  BY <1>1, TmrInvariant, PTL

(* A pass of tmr_run() that ends has run every one-shot timer that was due.*)
THEOREM TmrRunFiresAll ==
  ASSUME ~ CancelSaved
  PROVE  Spec => RunFiresAll
<1> DEFINE Fired == pc = "loop" /\ pc' = "idle" =>
                      \A u \in owned : Due(u) => periodic[u]
<1>1. TmrInv /\ [Next]_vars => [Fired]_vars
  <2> SUFFICES ASSUME TmrInv, Next, pc = "loop", pc' = "idle",
                      NEW u \in owned, Due(u), ~ periodic[u]
               PROVE  FALSE
    OBVIOUS
  <2>1. NextBucket
    BY DEF Next, TmrRun, Client, RunStart, Proc, ProcReturn, Create, Cancel, Reset,
           Cleanup, Term, Tick, ClientRuns, run
  <2>2. h = HashSize - 1 /\ IF t = Nil THEN TRUE ELSE ~ Due(t)
    BY <2>1 DEF NextBucket
  <2>3. hash[u] > h
    BY <2>2, NothingDue
  <2>4. hash[u] \in Buckets
    BY InvLists
  <2>5. QED
    BY <2>2, <2>3, <2>4 DEF Buckets
<1>2. QED
  BY <1>1, TmrInvariant, PTL DEF Spec, RunFiresAll

-----------------------------------------------------------------------------
(* The package implements TimerQueue                                       *)

(* Every step of the package is a step of the queue, or none.               *)
LEMMA QueueStep ==
  ASSUME TmrInv, [Next]_vars
  PROVE  [Queue!Next]_(Queue!queueVars)
<1> USE DEF Queue!OthersKept
<1>1. /\ time \in [TimerIds -> Nat] /\ owned \in SUBSET Active /\ Active \in SUBSET TimerIds
      /\ now \in Nat
  BY InvLists, MaxNowAssumption DEF TmrInv, TypeOK
<1>2. ASSUME NEW u \in TimerIds, Create(u) PROVE Queue!Schedule(u)
  <2>1. /\ owned' = owned \cup {u} /\ UNCHANGED << now, run >>
        /\ \A v \in TimerIds \ {u} : time'[v] = time[v]
    BY <1>1, <1>2 DEF Create
  <2>2. u \notin Active
    BY <1>2, InvLists DEF Create, Allocate, TmrInv, Chain, Reaches
  <2>3. pc' = pc /\ t' = t /\ now' = now
    BY <2>1 DEF run
  <2>4. QED
    BY <1>1, <2>1, <2>2, <2>3 DEF Queue!Schedule, Active
<1>3. ASSUME NEW u \in TimerIds, Cancel(u) PROVE Queue!Cancel(u)
  <2>1. /\ u \in owned /\ owned' = owned \ {u} /\ ~ periodic[u] /\ time' = time
        /\ pc' = pc /\ t' = t /\ now' = now
    BY <1>3 DEF Cancel, TmrCancel, fields, run
  <2>2. pc = "proc" => t # u
    BY <2>1 DEF TmrInv, RunExact
  <2>3. QED
    BY <2>1, <2>2 DEF Queue!Cancel
<1>4. ASSUME NEW u \in TimerIds, Reset(u) PROVE Queue!Reset(u)
  <2>1. /\ u \in owned \ {t} /\ owned' = owned /\ pc' = pc /\ t' = t /\ now' = now
        /\ \A v \in TimerIds \ {u} : time'[v] = time[v]
    BY <1>1, <1>4 DEF Reset, LResort, run
  <2>2. QED
    BY <1>1, <2>1 DEF Queue!Reset
<1>5. ASSUME Term PROVE Queue!CancelAll
  <2>1. pc = "idle" /\ pc' = pc /\ t' = t /\ now' = now /\ owned' = {}
    BY <1>5 DEF Term, run
  <2>2. QED
    BY <2>1 DEF Queue!CancelAll
<1>6. ASSUME Proc PROVE Queue!Fire(t) /\ t \in TimerIds
  <2>1. /\ pc = "loop" /\ pc' = "proc" /\ t # Nil /\ time[t] <= now /\ t' = t /\ now' = now
        /\ time' = time /\ owned' = IF periodic[t] THEN owned ELSE owned \ {t}
    BY <1>6 DEF Proc, Due, fields
  <2>2. t \in owned /\ t \in TimerIds
    BY <1>1, <2>1 DEF TmrInv, RunExact
  <2>3. QED
    BY <2>1, <2>2 DEF Queue!Fire
<1>7. ASSUME ProcReturn PROVE Queue!Return
  <2>1. /\ pc = "proc" /\ pc' = "loop" /\ now' = now /\ owned' = owned
        /\ t \in TimerIds /\ t # Nil /\ (t \in owned <=> periodic[t]) /\ Done(t)
    BY <1>7 DEF ProcReturn, TmrInv, RunExact, TypeOK
  <2>2. CASE periodic[t]
    <3>1. LResort(t, time[t] + msecs[t])
      BY <2>1, <2>2 DEF Done
    <3>2. time'[t] = time[t] + msecs[t] /\ \A v \in TimerIds \ {t} : time'[v] = time[v]
      BY <1>1, <2>1, <3>1 DEF LResort
    <3>3. msecs[t] \in Nat /\ msecs[t] > 0 /\ time[t] \in Nat
      <4>1. t \in Active
        BY <2>1 DEF Active
      <4>2. msecs[t] \in Delays
        BY <4>1 DEF TmrInv, FieldsExact
      <4>3. msecs[t] \in Nat \ {0}
        BY <4>2, DelaysAssumption
      <4>4. time[t] \in Nat
        BY <1>1, <2>1
      <4>5. QED
        BY <4>3, <4>4
    <3>4. time'[t] > time[t]
      BY <3>2, <3>3
    <3>5. QED
      BY <1>1, <2>1, <2>2, <3>2, <3>4 DEF Queue!Return
  <2>3. CASE ~ periodic[t]
    <3>1. time' = time
      BY <2>1, <2>3 DEF Done, TmrCancel, fields
    <3>2. QED
      BY <2>1, <2>3, <3>1 DEF Queue!Return
  <2>4. QED
    BY <2>2, <2>3
<1>8. ASSUME Tick PROVE Queue!Pass
  <2>1. now' = now + 1 /\ pc' = pc /\ t' = t /\ time' = time /\ owned' = owned
    BY <1>8 DEF Tick, run, fields
  <2>2. QED
    BY <1>1, <2>1 DEF Queue!Pass
<1>9. ASSUME Cleanup \/ RunStart \/ NextBucket \/ UNCHANGED vars
      PROVE  UNCHANGED Queue!queueVars
  <2>1. CASE Cleanup \/ UNCHANGED vars
    <3>1. pc' = pc /\ t' = t /\ now' = now /\ time' = time /\ owned' = owned
      BY <2>1 DEF Cleanup, vars, run, fields
    <3>2. QED
      BY <3>1 DEF Queue!queueVars
  <2>2. CASE RunStart \/ NextBucket
    <3>1. pc # "proc" /\ pc' # "proc" /\ now' = now /\ time' = time /\ owned' = owned
      BY <2>2 DEF RunStart, NextBucket, fields
    <3>2. QED
      BY <3>1 DEF Queue!queueVars
  <2>3. QED
    BY <1>9, <2>1, <2>2
<1>10. QED
  BY <1>2, <1>3, <1>4, <1>5, <1>6, <1>7, <1>8, <1>9
  DEF Next, TmrRun, Client, Queue!Next

(* The package promises what TimerQueue says: only a scheduled timer       *)
(* fires, not before its time, one at a time, and a periodic one is        *)
(* scheduled again for later.                                              *)
THEOREM TmrQueue ==
  ASSUME ~ CancelSaved
  PROVE  Spec => QueueSafety
<1>1. Init => Queue!Init
  BY DEF Init, Queue!Init
<1>2. TmrInv /\ [Next]_vars => [Queue!Next]_(Queue!queueVars)
  BY QueueStep
<1>3. QED
  BY <1>1, <1>2, TmrInvariant, PTL DEF Spec, QueueSafety, Queue!Safety
=============================================================================
