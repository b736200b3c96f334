----------------------------- MODULE FoldFacts -----------------------------
(***************************************************************************)
(* What FoldLeft computes, for any operator Op and sequences of any        *)
(* length.  The models fold operators of their own over byte strings,      *)
(* headers and calls: a proof about such a fold instantiates this module   *)
(* with its operator and has the induction over the sequence from here.    *)
(***************************************************************************)
EXTENDS Integers, Sequences, SequencesExt, WellFoundedInduction, TLAPS

CONSTANT Op(_, _)

Fold(base, s) == FoldLeft(Op, base, s)

-----------------------------------------------------------------------------
(* Induction, the property being a set of numbers.                         *)

LEMMA NatInd ==
  ASSUME NEW P, 0 \in P, \A n \in Nat : n \in P => n + 1 \in P
  PROVE  Nat \subseteq P
<1> SUFFICES ASSUME Nat \ P # {}
             PROVE  FALSE
  OBVIOUS
<1>1. PICK m \in Nat \ P : \A k \in Nat \ P : ~(<<k, m>> \in OpToRel(<, Nat))
  BY NatLessThanWellFounded, WFMin
<1>2. \A k \in Nat \ P : ~(k < m)
  BY <1>1 DEF OpToRel
<1>3. m # 0 /\ m - 1 \in Nat /\ m - 1 < m
  OBVIOUS
<1>4. m - 1 \in P
  BY <1>2, <1>3
<1> QED
  BY <1>3, <1>4

-----------------------------------------------------------------------------
(* The recursive function inside FoldLeft() is there: it goes down from    *)
(* the last index of the sequence.                                         *)

Down(base, s, k, g) ==
  g = [T \in SUBSET (1..k) |-> IF T = {} THEN base
                               ELSE Op(g[T \ {Max(T)}], s[Max(T)])]

LEMMA MaxIs ==
  ASSUME NEW k \in Nat, NEW T \in SUBSET (1..k), k \in T
  PROVE  Max(T) = k
<1>1. \A x \in T : x \in Nat /\ x <= k
  OBVIOUS
<1>2. \A x \in T : (\A y \in T : x >= y) => x = k
  BY <1>1
<1>3. \E x \in T : \A y \in T : x >= y
  BY <1>1
<1> QED
  BY <1>2, <1>3 DEF Max

LEMMA DownStep ==
  ASSUME NEW base, NEW s, NEW k \in Nat, NEW g, Down(base, s, k, g)
  PROVE  \E h : Down(base, s, k + 1, h)
<1> DEFINE h == [T \in SUBSET (1..(k + 1)) |->
                   IF k + 1 \in T THEN Op(g[T \ {k + 1}], s[k + 1]) ELSE g[T]]
<1>1. ASSUME NEW T \in SUBSET (1..(k + 1))
      PROVE  h[T] = IF T = {} THEN base ELSE Op(h[T \ {Max(T)}], s[Max(T)])
  <2>1. CASE k + 1 \in T
    <3>1. Max(T) = k + 1
      BY <2>1, MaxIs
    <3>2. T \ {k + 1} \in SUBSET (1..(k + 1)) /\ k + 1 \notin T \ {k + 1}
      OBVIOUS
    <3>3. h[T \ {k + 1}] = g[T \ {k + 1}]
      BY <3>2
    <3>4. h[T] = Op(g[T \ {k + 1}], s[k + 1])
      BY <2>1
    <3> QED
      BY <2>1, <3>1, <3>3, <3>4
  <2>2. CASE k + 1 \notin T
    <3>1. T \in SUBSET (1..k)
      BY <2>2
    <3>2. g[T] = IF T = {} THEN base ELSE Op(g[T \ {Max(T)}], s[Max(T)])
      BY <3>1 DEF Down
    <3>3. h[T] = g[T]
      BY <2>2
    <3>4. h[T \ {Max(T)}] = g[T \ {Max(T)}]
      BY <2>2
    <3> QED
      BY <3>2, <3>3, <3>4
  <2> QED
    BY <2>1, <2>2
<1>2. h = [T \in SUBSET (1..(k + 1)) |->
             IF T = {} THEN base ELSE Op(h[T \ {Max(T)}], s[Max(T)])]
  <2> DEFINE v == [T \in SUBSET (1..(k + 1)) |->
                     IF T = {} THEN base ELSE Op(h[T \ {Max(T)}], s[Max(T)])]
  <2>1. \A T \in SUBSET (1..(k + 1)) : h[T] = v[T]
    BY <1>1
  <2>2. h = [T \in SUBSET (1..(k + 1)) |-> h[T]]
    OBVIOUS
  <2>3. v = [T \in SUBSET (1..(k + 1)) |-> v[T]]
    OBVIOUS
  <2> HIDE DEF h, v
  <2>4. h = v
    BY <2>1, <2>2, <2>3
  <2> QED
    BY <2>4 DEF v
<1> HIDE DEF h
<1> QED
  BY <1>2 DEF Down

LEMMA DownExists ==
  ASSUME NEW base, NEW s, NEW n \in Nat
  PROVE  \E g : Down(base, s, n, g)
<1> DEFINE P == {k \in Nat : \E g : Down(base, s, k, g)}
<1>1. 0 \in P
  <2> DEFINE g == [T \in SUBSET (1..0) |-> base]
  <2>1. \A T \in SUBSET (1..0) : T = {}
    OBVIOUS
  <2>2. Down(base, s, 0, g)
    BY <2>1 DEF Down
  <2> QED
    BY <2>2
<1>2. \A k \in Nat : k \in P => k + 1 \in P
  BY DownStep
<1> HIDE DEF P
<1>3. n \in P
  BY <1>1, <1>2, NatInd
<1> QED
  BY <1>3 DEF P

(* A fold is a run of Op along the sequence.                               *)
Run(base, s, r) ==
  /\ r[0] = base
  /\ \A i \in 1..Len(s) : r[i] = Op(r[i - 1], s[i])

LEMMA FoldRun ==
  ASSUME NEW S, NEW s \in Seq(S), NEW base
  PROVE  \E r : Run(base, s, r) /\ r[Len(s)] = Fold(base, s)
<1> DEFINE n == Len(s)
           g == CHOOSE f : Down(base, s, n, f)
           r == [i \in 0..n |-> g[1..i]]
<1>1. n \in Nat /\ DOMAIN s = 1..n
  OBVIOUS
<1>2. Fold(base, s) = g[1..n]
  BY <1>1 DEF Fold, FoldLeft, MapThenFoldSet, Down
<1>3. Down(base, s, n, g)
  BY <1>1, DownExists
<1> HIDE DEF n, g
<1>4. r[0] = base
  <2>1. 1..0 = {} /\ {} \in SUBSET (1..n)
    OBVIOUS
  <2>2. g[{}] = base
    BY <1>3 DEF Down
  <2> QED
    BY <1>1, <2>1, <2>2
<1>5. ASSUME NEW i \in 1..n
      PROVE  r[i] = Op(r[i - 1], s[i])
  <2>1. (1..i) \in SUBSET (1..n) /\ 1..i # {} /\ (1..i) \ {i} = 1..(i - 1)
    BY <1>1
  <2>2. Max(1..i) = i
    BY <1>1, MaxIs
  <2>3. g[1..i] = Op(g[1..(i - 1)], s[i])
    BY <1>3, <2>1, <2>2 DEF Down
  <2>4. r[i] = g[1..i] /\ r[i - 1] = g[1..(i - 1)]
    BY <1>1
  <2> QED
    BY <2>3, <2>4
<1>6. r[n] = g[1..n]
  BY <1>1
<1> HIDE DEF r
<1>7. Run(base, s, r)
  BY <1>4, <1>5 DEF Run, n
<1> QED
  BY <1>2, <1>6, <1>7 DEF n

(* Two runs along the same elements are the same.                          *)
Agree(s, t, n) ==
  /\ Len(s) \in Nat /\ Len(t) \in Nat /\ n \in Nat
  /\ n <= Len(s) /\ n <= Len(t)
  /\ \A i \in 1..n : s[i] = t[i]

LEMMA RunsAgree ==
  ASSUME NEW base, NEW s, NEW t, NEW q, NEW r, NEW n,
         Agree(s, t, n), Run(base, s, q), Run(base, t, r)
  PROVE  q[n] = r[n]
<1> USE DEF Agree
<1> DEFINE P == {k \in Nat : k <= n => q[k] = r[k]}
<1>1. 0 \in P
  BY DEF Run
<1>2. ASSUME NEW k \in Nat, k \in P
      PROVE  k + 1 \in P
  <2> SUFFICES ASSUME k + 1 <= n
               PROVE  q[k + 1] = r[k + 1]
    OBVIOUS
  <2>1. k + 1 \in 1..Len(s) /\ k + 1 \in 1..Len(t) /\ k + 1 \in 1..n /\ (k + 1) - 1 = k
    OBVIOUS
  <2>2. q[k] = r[k]
    BY <1>2
  <2>3. q[k + 1] = Op(q[k], s[k + 1]) /\ r[k + 1] = Op(r[k], t[k + 1])
    BY <2>1 DEF Run
  <2> QED
    BY <2>1, <2>2, <2>3
<1> HIDE DEF P
<1>3. n \in P
  BY <1>1, <1>2, NatInd
<1> QED
  BY <1>3 DEF P

-----------------------------------------------------------------------------
(* The equations of a fold.                                                *)

LEMMA FoldEmpty ==
  ASSUME NEW base
  PROVE  Fold(base, << >>) = base
<1>1. << >> \in Seq({}) /\ Len(<< >>) = 0
  OBVIOUS
<1>2. PICK r : Run(base, << >>, r) /\ r[0] = Fold(base, << >>)
  BY <1>1, FoldRun
<1> QED
  BY <1>2 DEF Run

LEMMA FoldAppend ==
  ASSUME NEW S, NEW s \in Seq(S), NEW e \in S, NEW base
  PROVE  Fold(base, Append(s, e)) = Op(Fold(base, s), e)
<1> DEFINE t == Append(s, e)
<1>1. /\ t \in Seq(S) /\ Len(s) \in Nat /\ Len(t) = Len(s) + 1
      /\ t[Len(s) + 1] = e /\ \A i \in 1..Len(s) : s[i] = t[i]
  OBVIOUS
<1> HIDE DEF t
<1>2. PICK q : Run(base, s, q) /\ q[Len(s)] = Fold(base, s)
  BY FoldRun
<1>3. PICK r : Run(base, t, r) /\ r[Len(t)] = Fold(base, t)
  BY <1>1, FoldRun
<1>4. Agree(s, t, Len(s))
  BY <1>1 DEF Agree
<1>5. q[Len(s)] = r[Len(s)]
  BY <1>2, <1>3, <1>4, RunsAgree
<1>6. Len(t) \in 1..Len(t) /\ Len(t) - 1 = Len(s)
  BY <1>1
<1>7. r[Len(t)] = Op(r[Len(s)], t[Len(t)])
  BY <1>3, <1>6 DEF Run
<1> QED
  BY <1>1, <1>2, <1>3, <1>5, <1>7 DEF t

(* The fold of one element more than a prefix.                             *)
LEMMA FoldPrefix ==
  ASSUME NEW S, NEW s \in Seq(S), NEW n \in 1..Len(s), NEW base
  PROVE  Fold(base, SubSeq(s, 1, n)) = Op(Fold(base, SubSeq(s, 1, n - 1)), s[n])
<1> DEFINE u == SubSeq(s, 1, n - 1)
<1>1. u \in Seq(S) /\ s[n] \in S /\ SubSeq(s, 1, n) = Append(u, s[n])
  OBVIOUS
<1> HIDE DEF u
<1>2. Fold(base, Append(u, s[n])) = Op(Fold(base, u), s[n])
  BY <1>1, FoldAppend
<1> QED
  BY <1>1, <1>2 DEF u

(* What every step keeps, the fold keeps.                                  *)
LEMMA FoldClosed ==
  ASSUME NEW S, NEW s \in Seq(S), NEW A, NEW base \in A,
         \A a \in A : \A e \in S : Op(a, e) \in A
  PROVE  Fold(base, s) \in A
<1>1. PICK r : Run(base, s, r) /\ r[Len(s)] = Fold(base, s)
  BY FoldRun
<1>2. Len(s) \in Nat /\ \A i \in 1..Len(s) : s[i] \in S
  OBVIOUS
<1> DEFINE P == {k \in Nat : k <= Len(s) => r[k] \in A}
<1>3. 0 \in P
  BY <1>1 DEF Run
<1>4. ASSUME NEW k \in Nat, k \in P
      PROVE  k + 1 \in P
  <2> SUFFICES ASSUME k + 1 <= Len(s)
               PROVE  r[k + 1] \in A
    OBVIOUS
  <2>1. k + 1 \in 1..Len(s) /\ (k + 1) - 1 = k
    BY <1>2
  <2>2. r[k] \in A
    BY <1>2, <1>4
  <2>3. r[k + 1] = Op(r[k], s[k + 1])
    BY <1>1, <2>1 DEF Run
  <2> QED
    BY <1>2, <2>1, <2>2, <2>3
<1> HIDE DEF P
<1>5. Len(s) \in P
  BY <1>2, <1>3, <1>4, NatInd
<1> QED
  BY <1>1, <1>2, <1>5 DEF P

(* The fold of one sequence behind another goes on where the first ends.   *)
LEMMA FoldConcat ==
  ASSUME NEW S, NEW s \in Seq(S), NEW t \in Seq(S), NEW base
  PROVE  Fold(base, s \o t) = Fold(Fold(base, s), t)
<1> DEFINE F(n) == SubSeq(t, 1, n)
           P == {n \in Nat : n <= Len(t) =>
                   Fold(base, s \o F(n)) = Fold(Fold(base, s), F(n))}
<1>1. 0 \in P
  <2>1. F(0) = << >> /\ s \o << >> = s
    OBVIOUS
  <2> QED
    BY <2>1, FoldEmpty
<1>2. ASSUME NEW n \in Nat, n \in P
      PROVE  n + 1 \in P
  <2> SUFFICES ASSUME n + 1 <= Len(t)
               PROVE  Fold(base, s \o F(n + 1)) = Fold(Fold(base, s), F(n + 1))
    OBVIOUS
  <2> DEFINE u == F(n)
             e == t[n + 1]
  <2>1. u \in Seq(S) /\ e \in S /\ s \o u \in Seq(S)
    OBVIOUS
  <2>2. F(n + 1) = Append(u, e)
    OBVIOUS
  <2>3. s \o Append(u, e) = Append(s \o u, e)
    BY <2>1
  <2>4. Fold(base, s \o u) = Fold(Fold(base, s), u)
    BY <1>2
  <2> HIDE DEF u, e, F
  <2>5. Fold(base, Append(s \o u, e)) = Op(Fold(base, s \o u), e)
    BY <2>1, FoldAppend
  <2>6. Fold(Fold(base, s), Append(u, e)) = Op(Fold(Fold(base, s), u), e)
    BY <2>1, FoldAppend
  <2> QED
    BY <2>2, <2>3, <2>4, <2>5, <2>6
<1>3. Len(t) \in Nat /\ F(Len(t)) = t
  OBVIOUS
<1> HIDE DEF P
<1>4. Len(t) \in P
  BY <1>1, <1>2, <1>3, NatInd
<1> HIDE DEF F
<1>5. Fold(base, s \o F(Len(t))) = Fold(Fold(base, s), F(Len(t)))
  BY <1>3, <1>4 DEF P
<1> QED
  BY <1>3, <1>5

=============================================================================
