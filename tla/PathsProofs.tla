----------------------------- MODULE PathsProofs -----------------------------
(***************************************************************************)
(* Proofs about de_dotdot(), for file names of any length: it keeps what a *)
(* name means, and what it leaves, unless the parser refuses it, climbs    *)
(* above the root at none of its steps.                                    *)
(*                                                                         *)
(* The loops are functions that call themselves.  LoopExists shows that a  *)
(* function with such an equation is there when each turn makes the name   *)
(* shorter, LoopKeeps what is known of its value.                          *)
(***************************************************************************)
EXTENDS Paths, SequenceTheorems, WellFoundedInduction, TLAPS

Path == Seq(Tokens)    \* C strings
Names == Seq(Path)

SegOp(segs, c) == IF c = Slash THEN Append(segs, << >>)
                  ELSE [segs EXCEPT ![Len(segs)] = Append(@, c)]
Sg == INSTANCE FoldFacts WITH Op <- SegOp
St == INSTANCE FoldFacts WITH Op <- Step

Go(dirs, f) == St!Fold(dirs, Segments(f))

(* Segments, Resolve and Go are folds.                                     *)
LEMMA SegmentsIs ==
  ASSUME NEW f
  PROVE  Segments(f) = Sg!Fold(<< << >> >>, f)
BY DEF Segments, SegOp, Sg!Fold, Sg!FoldLeft, Sg!MapThenFoldSet, Sg!Max,
       FoldLeft, MapThenFoldSet, Max

LEMMA ResolveIs ==
  ASSUME NEW f
  PROVE  Resolve(f) = Go(<< >>, f)
BY DEF Resolve, Go, St!Fold, St!FoldLeft, St!MapThenFoldSet, St!Max,
       FoldLeft, MapThenFoldSet, Max

(* One more token leaves at least one segment.                             *)
LEMMA SegOpType ==
  ASSUME NEW segs \in Names \ {<< >>}, NEW c \in Tokens
  PROVE  SegOp(segs, c) \in Names \ {<< >>}
<1>1. << >> \in Path
  BY DEF Path
<1>2. CASE c = Slash
  BY <1>1, <1>2 DEF SegOp, Names
<1>3. CASE c # Slash
  <2>1. Len(segs) \in 1..Len(segs) /\ segs[Len(segs)] \in Path
    BY DEF Names
  <2>2. Append(segs[Len(segs)], c) \in Path
    BY <2>1 DEF Path
  <2>3. [segs EXCEPT ![Len(segs)] = Append(segs[Len(segs)], c)] \in Names
    BY <2>1, <2>2 DEF Names
  <2>4. [segs EXCEPT ![Len(segs)] = Append(segs[Len(segs)], c)] # << >>
    BY <2>1, <2>2 DEF Names
  <2> QED
    BY <1>3, <2>3, <2>4 DEF SegOp
<1> QED
  BY <1>2, <1>3

(* A path has at least one segment.                                        *)
LEMMA SegmentsType ==
  ASSUME NEW f \in Path
  PROVE  Segments(f) \in Names \ {<< >>}
<1> DEFINE A == Names \ {<< >>}
<1>1. << << >> >> \in A
  BY DEF Names, Path
<1>2. \A a \in A : \A e \in Tokens : SegOp(a, e) \in A
  BY SegOpType
<1>3. f \in Seq(Tokens)
  BY DEF Path
<1> HIDE DEF A
<1>4. Sg!Fold(<< << >> >>, f) \in A
  BY <1>1, <1>2, <1>3, Sg!FoldClosed
<1> QED
  BY <1>4, SegmentsIs DEF A

(* The empty path has one segment, the empty one.                          *)
LEMMA SegmentsEmpty == Segments(<< >>) = << << >> >>
BY SegmentsIs, Sg!FoldEmpty

(* What is before does not change.                                         *)
LEMMA SegOpBehind ==
  ASSUME NEW u \in Names, NEW v \in Names \ {<< >>}, NEW c \in Tokens
  PROVE  SegOp(u \o v, c) = u \o SegOp(v, c)
<1>1. Len(u) \in Nat /\ Len(v) \in Nat \ {0} /\ Len(u \o v) = Len(u) + Len(v)
  BY DEF Names
<1>2. CASE c = Slash
  <2>1. << >> \in Path
    BY DEF Path
  <2> QED
    BY <1>2, <2>1 DEF SegOp, Names
<1>3. CASE c # Slash
  <2> DEFINE w == Append(v[Len(v)], c)
             x == [v EXCEPT ![Len(v)] = w]
             y == [u \o v EXCEPT ![Len(u) + Len(v)] = w]
  <2>1. (u \o v)[Len(u) + Len(v)] = v[Len(v)]
    BY <1>1 DEF Names
  <2>2. v[Len(v)] \in Path
    BY <1>1 DEF Names
  <2>3. w \in Path
    BY <2>2 DEF Path
  <2>4. SegOp(v, c) = x /\ SegOp(u \o v, c) = y
    BY <1>1, <1>3, <2>1 DEF SegOp
  <2> HIDE DEF w
  <2>5. x \in Names /\ Len(x) = Len(v)
    BY <1>1, <2>3 DEF Names
  <2>6. y \in Names /\ Len(y) = Len(u) + Len(v)
    BY <1>1, <2>3 DEF Names
  <2>7. u \o x \in Names /\ Len(u \o x) = Len(u) + Len(v)
    BY <2>5 DEF Names
  <2>8. ASSUME NEW i \in 1..Len(y)
        PROVE  y[i] = (u \o x)[i]
    <3>1. i \in 1..(Len(u) + Len(v)) /\ DOMAIN (u \o v) = 1..(Len(u) + Len(v))
      BY <1>1, <2>6 DEF Names
    <3>2. y[i] = IF i = Len(u) + Len(v) THEN w ELSE (u \o v)[i]
      BY <3>1
    <3>3. CASE i <= Len(u)
      <4>1. (u \o v)[i] = u[i] /\ (u \o x)[i] = u[i]
        BY <1>1, <2>5, <3>1, <3>3 DEF Names
      <4> QED
        BY <1>1, <3>2, <3>3, <4>1
    <3>4. CASE i > Len(u)
      <4> DEFINE k == i - Len(u)
      <4>1. k \in 1..Len(v) /\ i = Len(u) + k
        BY <1>1, <3>1, <3>4
      <4>2. (u \o v)[i] = v[k] /\ (u \o x)[i] = x[k]
        BY <1>1, <2>5, <3>1, <3>4, <4>1 DEF Names
      <4>3. x[k] = IF k = Len(v) THEN w ELSE v[k]
        BY <1>1, <4>1 DEF Names
      <4> QED
        BY <1>1, <3>2, <4>1, <4>2, <4>3
    <3> QED
      BY <1>1, <3>1, <3>3, <3>4
  <2> HIDE DEF x, y
  <2>9. y = u \o x
    BY <1>1, <2>6, <2>7, <2>8, SeqEqual DEF Names
  <2> QED
    BY <2>4, <2>9
<1> QED
  BY <1>2, <1>3

(* Behind other segments, a path puts its own.                             *)
LEMMA SegmentsBehind ==
  ASSUME NEW u \in Names, NEW b \in Path
  PROVE  Sg!Fold(u \o << << >> >>, b) = u \o Segments(b)
<1> DEFINE F(n) == SubSeq(b, 1, n)
           z == << << >> >>
           P == {n \in Nat : n <= Len(b) => Sg!Fold(u \o z, F(n)) = u \o Sg!Fold(z, F(n))}
<1>1. 0 \in P
  <2>1. F(0) = << >>
    BY DEF Path
  <2> QED
    BY <2>1, Sg!FoldEmpty
<1>2. ASSUME NEW n \in Nat, n \in P
      PROVE  n + 1 \in P
  <2> SUFFICES ASSUME n + 1 <= Len(b)
               PROVE  Sg!Fold(u \o z, F(n + 1)) = u \o Sg!Fold(z, F(n + 1))
    OBVIOUS
  <2> DEFINE s == F(n)
             e == b[n + 1]
  <2>1. s \in Path /\ e \in Tokens /\ F(n + 1) = Append(s, e)
    BY DEF Path
  <2>2. Sg!Fold(u \o z, s) = u \o Sg!Fold(z, s)
    BY <1>2
  <2> HIDE DEF s, e, F
  <2>3. Sg!Fold(z, s) \in Names \ {<< >>}
    BY <2>1, SegmentsIs, SegmentsType
  <2> HIDE DEF z
  <2>4. /\ Sg!Fold(u \o z, Append(s, e)) = SegOp(Sg!Fold(u \o z, s), e)
        /\ Sg!Fold(z, Append(s, e)) = SegOp(Sg!Fold(z, s), e)
    BY <2>1, Sg!FoldAppend DEF Path
  <2> QED
    BY <2>1, <2>2, <2>3, <2>4, SegOpBehind
<1>3. Len(b) \in Nat /\ F(Len(b)) = b
  BY DEF Path
<1> HIDE DEF P, F
<1>4. Len(b) \in P
  BY <1>1, <1>2, <1>3, Sg!NatInd
<1>5. Sg!Fold(u \o z, F(Len(b))) = u \o Sg!Fold(z, F(Len(b)))
  BY <1>3, <1>4 DEF P
<1> QED
  BY <1>3, <1>5, SegmentsIs

(* A slash between two paths puts their segments one behind another.       *)
LEMMA SegmentsConcat ==
  ASSUME NEW a \in Path, NEW b \in Path
  PROVE  Segments(a \o <<Slash>> \o b) = Segments(a) \o Segments(b)
<1> DEFINE z == << << >> >>
<1>1. Slash \in Tokens /\ a \o <<Slash>> = Append(a, Slash) /\ a \o <<Slash>> \in Path
  BY DEF Path, Tokens
<1>2. Sg!Fold(z, (a \o <<Slash>>) \o b) = Sg!Fold(Sg!Fold(z, a \o <<Slash>>), b)
  BY <1>1, Sg!FoldConcat DEF Path
<1>3. Sg!Fold(z, a \o <<Slash>>) = SegOp(Sg!Fold(z, a), Slash)
  BY <1>1, Sg!FoldAppend DEF Path
<1>4. Segments(a) \in Names
  BY SegmentsType
<1>5. SegOp(Segments(a), Slash) = Segments(a) \o z
  BY <1>4 DEF SegOp, Names, Path
<1> QED
  BY <1>2, <1>3, <1>4, <1>5, SegmentsIs, SegmentsBehind

(* A path without a slash is its own segment.                              *)
LEMMA SegmentsWord ==
  ASSUME NEW w \in Path, \A i \in 1..Len(w) : w[i] # Slash
  PROVE  Segments(w) = <<w>>
<1> DEFINE F(n) == SubSeq(w, 1, n)
           P == {n \in Nat : n <= Len(w) => Segments(F(n)) = <<F(n)>>}
<1>1. 0 \in P
  <2>1. F(0) = << >>
    BY DEF Path
  <2> QED
    BY <2>1, SegmentsEmpty
<1>2. ASSUME NEW n \in Nat, n \in P
      PROVE  n + 1 \in P
  <2> SUFFICES ASSUME n + 1 <= Len(w)
               PROVE  Segments(F(n + 1)) = <<F(n + 1)>>
    OBVIOUS
  <2> DEFINE s == F(n)
             e == w[n + 1]
  <2>1. s \in Path /\ e \in Tokens /\ F(n + 1) = Append(s, e) /\ e # Slash
    BY DEF Path
  <2>2. Segments(s) = <<s>>
    BY <1>2
  <2> HIDE DEF s, e, F
  <2>3. Segments(Append(s, e)) = SegOp(Segments(s), e)
    BY <2>1, Sg!FoldAppend, SegmentsIs DEF Path
  <2>4. [<<s>> EXCEPT ![1] = Append(<<s>>[1], e)] = <<Append(s, e)>> /\ Len(<<s>>) = 1
    OBVIOUS
  <2>5. SegOp(<<s>>, e) = <<Append(s, e)>>
    BY <2>1, <2>4 DEF SegOp
  <2> QED
    BY <2>1, <2>2, <2>3, <2>5
<1>3. Len(w) \in Nat /\ F(Len(w)) = w
  BY DEF Path
<1> HIDE DEF P, F
<1>4. Len(w) \in P
  BY <1>1, <1>2, <1>3, Sg!NatInd
<1>5. Segments(F(Len(w))) = <<F(Len(w))>>
  BY <1>3, <1>4 DEF P
<1> QED
  BY <1>3, <1>5

(* Where a path leads is a list of directories.                            *)
LEMMA GoType ==
  ASSUME NEW x \in Names, NEW f \in Path
  PROVE  Go(x, f) \in Names
<1>1. \A a \in Names : \A e \in Path : Step(a, e) \in Names
  BY DEF Step, Names
<1>2. Segments(f) \in Seq(Path)
  BY SegmentsType DEF Names
<1> QED
  BY <1>1, <1>2, St!FoldClosed DEF Go

(* A path with a slash is one path and then another.                       *)
LEMMA GoSlash ==
  ASSUME NEW x, NEW a \in Path, NEW b \in Path
  PROVE  Go(x, a \o <<Slash>> \o b) = Go(Go(x, a), b)
<1>1. Segments(a) \in Seq(Path) /\ Segments(b) \in Seq(Path)
  BY SegmentsType DEF Names
<1>2. Segments(a \o <<Slash>> \o b) = Segments(a) \o Segments(b)
  BY SegmentsConcat
<1>3. St!Fold(x, Segments(a) \o Segments(b)) = St!Fold(St!Fold(x, Segments(a)), Segments(b))
  BY <1>1, St!FoldConcat
<1> QED
  BY <1>2, <1>3 DEF Go

(* A path without a slash is one step.                                     *)
LEMMA GoWord ==
  ASSUME NEW x, NEW w \in Path, \A i \in 1..Len(w) : w[i] # Slash
  PROVE  Go(x, w) = Step(x, w)
<1>1. Segments(w) = Append(<< >>, w)
  BY SegmentsWord
<1>2. St!Fold(x, Append(<< >>, w)) = Step(St!Fold(x, << >>), w)
  <2>1. << >> \in Seq(Path)
    OBVIOUS
  <2> QED
    BY <2>1, St!FoldAppend
<1> QED
  BY <1>1, <1>2, St!FoldEmpty DEF Go

-----------------------------------------------------------------------------
(* A loop: while its state is in T it goes on with c of it.  Each turn     *)
(* makes m of the state smaller, so the function that runs it is there,    *)
(* and what a turn keeps, the loop keeps.                                  *)

Turns(S, T, c, m) ==
  /\ T \subseteq S
  /\ \A x \in S : m[x] \in Nat
  /\ \A x \in T : c[x] \in S /\ m[c[x]] < m[x]

Loop(S, T, c, f) == f = [x \in S |-> IF x \in T THEN f[c[x]] ELSE x]

Less(S, m, k) == {x \in S : m[x] < k}

(* A loop that can be run from states smaller than k can be from k.        *)
LEMMA LoopStep ==
  ASSUME NEW S, NEW T, NEW c, NEW m, Turns(S, T, c, m), NEW k \in Nat,
         NEW g, Loop(Less(S, m, k), T, c, g)
  PROVE  \E h : Loop(Less(S, m, k + 1), T, c, h)
<1> DEFINE D == Less(S, m, k)
           E == Less(S, m, k + 1)
           h == [x \in E |-> IF x \in D THEN g[x] ELSE IF x \in T THEN g[c[x]] ELSE x]
           v == [x \in E |-> IF x \in T THEN h[c[x]] ELSE x]
<1>1. \A x \in E \cap T : c[x] \in D /\ c[x] \in E
  BY DEF Less, Turns
<1>2. \A x \in D : x \in E
  BY DEF Less, Turns
<1>3. \A x \in D : g[x] = IF x \in T THEN g[c[x]] ELSE x
  BY DEF Loop
<1> HIDE DEF D, E
<1>4. \A x \in E \cap T : h[c[x]] = g[c[x]]
  BY <1>1
<1>5. \A x \in E : h[x] = v[x]
  BY <1>1, <1>2, <1>3, <1>4
<1>6. h = [x \in E |-> h[x]] /\ v = [x \in E |-> v[x]]
  OBVIOUS
<1> HIDE DEF h, v
<1>7. h = v
  BY <1>5, <1>6
<1>8. Loop(E, T, c, h)
  BY <1>7 DEF v, Loop
<1> QED
  BY <1>8 DEF E

(* Two runs of a loop from the same state are the same.                    *)
LEMMA LoopsAgree ==
  ASSUME NEW S, NEW T, NEW c, NEW m, Turns(S, T, c, m), NEW j \in Nat, NEW k \in Nat,
         NEW f, Loop(Less(S, m, j), T, c, f),
         NEW g, Loop(Less(S, m, k), T, c, g)
  PROVE  \A x \in Less(S, m, j) \cap Less(S, m, k) : f[x] = g[x]
<1> DEFINE B == Less(S, m, j) \cap Less(S, m, k)
           P == {n \in Nat : \A x \in B : m[x] < n => f[x] = g[x]}
<1>1. \A x \in B : /\ x \in S /\ m[x] \in Nat
                   /\ f[x] = (IF x \in T THEN f[c[x]] ELSE x)
                   /\ g[x] = (IF x \in T THEN g[c[x]] ELSE x)
                   /\ x \in T => c[x] \in B /\ m[c[x]] < m[x] /\ m[c[x]] \in Nat
  BY DEF Less, Loop, Turns
<1> HIDE DEF B
<1>2. 0 \in P
  BY <1>1
<1>3. ASSUME NEW n \in Nat, n \in P
      PROVE  n + 1 \in P
  <2> SUFFICES ASSUME NEW x \in B, m[x] < n + 1
               PROVE  f[x] = g[x]
    OBVIOUS
  <2>1. CASE x \in T
    <3>1. c[x] \in B /\ m[c[x]] < n
      BY <1>1, <2>1
    <3>2. f[c[x]] = g[c[x]]
      BY <1>3, <3>1
    <3> QED
      BY <1>1, <2>1, <3>2
  <2>2. CASE x \notin T
    BY <1>1, <2>2
  <2> QED
    BY <2>1, <2>2
<1> HIDE DEF P
<1>4. \A n \in Nat : n \in P
  BY <1>2, <1>3, Sg!NatInd
<1>5. ASSUME NEW x \in B
      PROVE  f[x] = g[x]
  <2>1. m[x] + 1 \in P /\ m[x] < m[x] + 1
    BY <1>1, <1>4
  <2> QED
    BY <2>1 DEF P
<1> QED
  BY <1>5 DEF B

(* There is a function that runs the loop.                                 *)
LEMMA LoopExists ==
  ASSUME NEW S, NEW T, NEW c, NEW m, Turns(S, T, c, m)
  PROVE  \E f : Loop(S, T, c, f)
<1> DEFINE P == {k \in Nat : \E g : Loop(Less(S, m, k), T, c, g)}
<1>1. 0 \in P
  <2> DEFINE g == [x \in Less(S, m, 0) |-> x]
  <2>1. Less(S, m, 0) = {}
    BY DEF Less, Turns
  <2>2. Loop(Less(S, m, 0), T, c, g)
    BY <2>1 DEF Loop
  <2> QED
    BY <2>2
<1>2. \A k \in Nat : k \in P => k + 1 \in P
  BY LoopStep
<1> HIDE DEF P
<1>3. \A k \in Nat : \E g : Loop(Less(S, m, k), T, c, g)
  BY <1>1, <1>2, Sg!NatInd DEF P
<1> DEFINE G(k) == CHOOSE g : Loop(Less(S, m, k), T, c, g)
           f == [x \in S |-> G(m[x] + 1)[x]]
           v == [x \in S |-> IF x \in T THEN f[c[x]] ELSE x]
<1>4. \A k \in Nat : Loop(Less(S, m, k), T, c, G(k))
  BY <1>3
<1> HIDE DEF G
<1>5. ASSUME NEW x \in S
      PROVE  f[x] = v[x]
  <2>1. m[x] \in Nat /\ m[x] + 1 \in Nat /\ x \in Less(S, m, m[x] + 1)
    BY DEF Turns, Less
  <2>2. f[x] = IF x \in T THEN G(m[x] + 1)[c[x]] ELSE x
    BY <1>4, <2>1 DEF Loop
  <2>3. CASE x \in T
    <3> DEFINE y == c[x]
    <3>1. y \in S /\ m[y] \in Nat /\ m[y] + 1 \in Nat /\ m[y] < m[x]
      BY <2>3 DEF Turns
    <3>2. y \in Less(S, m, m[x] + 1) \cap Less(S, m, m[y] + 1)
      BY <2>1, <3>1 DEF Less
    <3> HIDE DEF y
    <3>3. G(m[x] + 1)[y] = G(m[y] + 1)[y]
      BY <1>4, <2>1, <3>1, <3>2, LoopsAgree
    <3>4. f[y] = G(m[y] + 1)[y]
      BY <3>1
    <3> QED
      BY <2>2, <2>3, <3>3, <3>4 DEF y
  <2>4. CASE x \notin T
    BY <2>2, <2>4
  <2> QED
    BY <2>3, <2>4
<1>6. f = [x \in S |-> f[x]] /\ v = [x \in S |-> v[x]]
  OBVIOUS
<1> HIDE DEF f, v
<1>7. f = v
  BY <1>5, <1>6
<1> QED
  BY <1>7 DEF v, Loop

(* What every turn keeps, the loop keeps, and it ends outside of T.        *)
LEMMA LoopKeeps ==
  ASSUME NEW S, NEW T, NEW c, NEW m, Turns(S, T, c, m), NEW f, Loop(S, T, c, f),
         NEW J \in SUBSET S, \A x \in J \cap T : c[x] \in J
  PROVE  \A x \in J : f[x] \in J \ T
<1> DEFINE P == {n \in Nat : \A x \in J : m[x] < n => f[x] \in J \ T}
<1>1. \A x \in J : /\ m[x] \in Nat /\ f[x] = (IF x \in T THEN f[c[x]] ELSE x)
                   /\ x \in T => c[x] \in J /\ m[c[x]] < m[x] /\ m[c[x]] \in Nat
  BY DEF Loop, Turns
<1>2. 0 \in P
  BY <1>1
<1>3. ASSUME NEW n \in Nat, n \in P
      PROVE  n + 1 \in P
  <2> SUFFICES ASSUME NEW x \in J, m[x] < n + 1
               PROVE  f[x] \in J \ T
    OBVIOUS
  <2>1. CASE x \in T
    <3>1. c[x] \in J /\ m[c[x]] < n
      BY <1>1, <2>1
    <3>2. f[c[x]] \in J \ T
      BY <1>3, <3>1
    <3> QED
      BY <1>1, <2>1, <3>2
  <2>2. CASE x \notin T
    BY <1>1, <2>2
  <2> QED
    BY <2>1, <2>2
<1> HIDE DEF P
<1>4. \A n \in Nat : n \in P
  BY <1>2, <1>3, Sg!NatInd
<1>5. ASSUME NEW x \in J
      PROVE  f[x] \in J \ T
  <2>1. m[x] + 1 \in P /\ m[x] < m[x] + 1
    BY <1>1, <1>4
  <2> QED
    BY <2>1 DEF P
<1> QED
  BY <1>5

-----------------------------------------------------------------------------
(* A set of numbers that is not empty has a least one.                     *)
LEMMA LeastOf ==
  ASSUME NEW N \in SUBSET Nat, N # {}
  PROVE  \E x \in N : \A y \in N : x <= y
<1>1. PICK m \in N : \A k \in N : ~(<<k, m>> \in OpToRel(<, Nat))
  BY NatLessThanWellFounded, WFMin
<1>2. \A k \in N : ~(k < m)
  BY <1>1 DEF OpToRel
<1> QED
  BY <1>2

(* Min is it.                                                              *)
LEMMA MinIs ==
  ASSUME NEW N \in SUBSET Nat, N # {}
  PROVE  Min(N) \in N /\ \A y \in N : Min(N) <= y
BY LeastOf DEF Min

(* Max is the greatest of a bounded set.                                   *)
LEMMA MaxIs ==
  ASSUME NEW n \in Nat, NEW N \in SUBSET (0..n), N # {}
  PROVE  Max(N) \in N /\ \A y \in N : y <= Max(N)
<1> DEFINE M == {n - x : x \in N}
<1>1. M \in SUBSET Nat /\ M # {}
  <2>1. \A x \in N : x \in Nat /\ n - x \in Nat
    OBVIOUS
  <2> QED
    BY <2>1
<1>2. PICK k \in M : \A y \in M : k <= y
  BY <1>1, LeastOf
<1>3. PICK x \in N : k = n - x
  BY <1>2
<1>4. \A y \in N : y <= x
  <2> TAKE y \in N
  <2>1. n - y \in M /\ x \in 0..n /\ y \in 0..n
    OBVIOUS
  <2>2. n - x <= n - y
    BY <1>2, <1>3, <2>1
  <2> QED
    BY <2>1, <2>2
<1>5. \E z \in N : \A y \in N : z >= y
  BY <1>3, <1>4
<1> QED
  BY <1>5 DEF Max

(* The words de_dotdot() looks for are paths.                              *)
LEMMA TokenFacts ==
  /\ Slash \in Tokens /\ Dot \in Tokens
  /\ Slash # Dot
  /\ << >> \in Path /\ <<Slash, Slash>> \in Path /\ <<Dot>> \in Path /\ <<Dot, Dot>> \in Path
  /\ <<Slash, Dot, Slash>> \in Path /\ Parent \in Path
  /\ Len(<<Slash, Slash>>) = 2 /\ Len(<<Slash, Dot, Slash>>) = 3 /\ Len(Parent) = 4
BY DEF Slash, Dot, Tokens, Path, Parent

(* strstr() compares token by token.                                       *)
LEMMA OccursAtIs ==
  ASSUME NEW f \in Path, NEW p \in Path, NEW i \in 1..(Len(f) + 1 - Len(p))
  PROVE  OccursAt(f, p, i) <=> \A k \in 1..Len(p) : f[i + k - 1] = p[k]
<1> DEFINE u == SubSeq(f, i, i + Len(p) - 1)
<1>1. /\ u \in Path /\ Len(u) = Len(p) /\ Len(p) \in Nat
      /\ \A k \in 1..Len(p) : u[k] = f[i + k - 1]
  BY DEF Path
<1> HIDE DEF u
<1>2. u = p <=> \A k \in 1..Len(p) : u[k] = p[k]
  BY <1>1, SeqEqual DEF Path
<1> QED
  BY <1>1, <1>2 DEF u, OccursAt

(* strstr() finds the first place.                                         *)
LEMMA OccurrenceIs ==
  ASSUME NEW f \in Path, NEW p \in Path, Occurs(f, p)
  PROVE  /\ Occurrence(f, p) \in 1..(Len(f) + 1 - Len(p))
         /\ OccursAt(f, p, Occurrence(f, p))
         /\ \A i \in 1..(Len(f) + 1 - Len(p)) : OccursAt(f, p, i) => Occurrence(f, p) <= i
<1> DEFINE N == {i \in 1..(Len(f) + 1 - Len(p)) : OccursAt(f, p, i)}
<1>1. N \in SUBSET Nat /\ N # {}
  BY DEF Occurs, Path
<1>2. Occurrence(f, p) = Min(N)
  BY DEF Occurrence
<1> QED
  BY <1>1, <1>2, MinIs

(* What ol_strcpy() leaves.                                                *)
LEMMA CutIs ==
  ASSUME NEW f \in Path, NEW i \in 0..Len(f), NEW j \in i..Len(f)
  PROVE  /\ Cut(f, i, j) \in Path
         /\ Len(Cut(f, i, j)) = Len(f) - (j - i)
         /\ \A k \in 1..(Len(f) - (j - i)) :
              Cut(f, i, j)[k] = IF k <= i THEN f[k] ELSE f[k + (j - i)]
<1> DEFINE a == SubSeq(f, 1, i)
           b == SubSeq(f, j + 1, Len(f))
<1>1. Len(f) \in Nat /\ i \in Nat /\ j \in Nat /\ i <= j /\ j <= Len(f)
  BY DEF Path
<1>2. a \in Path /\ Len(a) = i /\ \A k \in 1..i : a[k] = f[k]
  BY <1>1 DEF Path
<1>3. b \in Path /\ Len(b) = Len(f) - j /\ \A k \in 1..(Len(f) - j) : b[k] = f[k + j]
  BY <1>1 DEF Path
<1> HIDE DEF a, b
<1>4. a \o b \in Path /\ Len(a \o b) = Len(f) - (j - i)
  BY <1>1, <1>2, <1>3 DEF Path
<1>5. \A k \in 1..(Len(f) - (j - i)) : (a \o b)[k] = IF k <= i THEN f[k] ELSE f[k + (j - i)]
  <2> TAKE k \in 1..(Len(f) - (j - i))
  <2>1. k \in 1..(Len(a) + Len(b))
    BY <1>1, <1>2, <1>3
  <2>2. (a \o b)[k] = IF k <= i THEN a[k] ELSE b[k - i]
    BY <1>2, <1>3, <2>1, ConcatProperties DEF Path
  <2>3. CASE k <= i
    BY <1>1, <1>2, <2>2, <2>3
  <2>4. CASE k > i
    <3>1. k - i \in 1..(Len(f) - j) /\ (k - i) + j = k + (j - i)
      BY <1>1, <2>4
    <3>2. b[k - i] = f[(k - i) + j]
      BY <1>3, <3>1
    <3>3. ~(k <= i)
      BY <1>1, <2>4
    <3> QED
      BY <2>2, <3>1, <3>2, <3>3
  <2>5. k \in Int /\ (k <= i \/ k > i)
    BY <1>1
  <2> QED
    BY <2>3, <2>4, <2>5
<1> QED
  BY <1>4, <1>5 DEF a, b, Cut

-----------------------------------------------------------------------------
NoDouble(f) == \A k \in 1..(Len(f) - 1) : ~(f[k] = Slash /\ f[k + 1] = Slash)
NoDot(f) == \A k \in 1..(Len(f) - 2) : ~(f[k] = Slash /\ f[k + 1] = Dot /\ f[k + 2] = Slash)
NoLead(f) == ~(Len(f) >= 2 /\ f[1] = Dot /\ f[2] = Slash)
NoUp(f) == ~(Len(f) >= 3 /\ f[1] = Dot /\ f[2] = Dot /\ f[3] = Slash)
NoParent(f) ==
  \A k \in 1..(Len(f) - 3) :
    ~(f[k] = Slash /\ f[k + 1] = Dot /\ f[k + 2] = Dot /\ f[k + 3] = Slash)

(* A cut from behind a slash, or the beginning, through a slash.           *)
Clean(f, i, j) ==
  /\ i \in 0..Len(f) /\ j \in i..Len(f) /\ i < j
  /\ f[j] = Slash
  /\ i > 0 => f[i] = Slash

(* What is at k is from before the cut, or, from the slash at i on, behind *)
(* it.                                                                     *)
LEMMA CleanCut ==
  ASSUME NEW f \in Path, NEW i, NEW j, Clean(f, i, j)
  PROVE  \E d \in Nat \ {0} :
           /\ i \in Nat /\ i + d = j /\ i + d <= Len(f) /\ Len(f) \in Nat
           /\ f[i + d] = Slash
           /\ Cut(f, i, j) \in Path /\ Len(Cut(f, i, j)) = Len(f) - d
           /\ \A k \in Nat : 1 <= k /\ k <= i => Cut(f, i, j)[k] = f[k]
           /\ \A k \in Nat : 1 <= k /\ i <= k /\ k <= Len(f) - d => Cut(f, i, j)[k] = f[k + d]
<1> DEFINE g == Cut(f, i, j)
           d == j - i
<1>1. i \in Nat /\ j \in Nat /\ d \in Nat \ {0} /\ Len(f) \in Nat /\ j <= Len(f) /\ i + d = j
  BY DEF Clean, Path
<1>2. g \in Path /\ Len(g) = Len(f) - d
  BY CutIs DEF Clean
<1>3. \A k \in 1..(Len(f) - d) : g[k] = IF k <= i THEN f[k] ELSE f[k + d]
  BY CutIs DEF Clean
<1>4. f[i + d] = Slash /\ (i > 0 => f[i] = Slash)
  BY <1>1 DEF Clean
<1> HIDE DEF g, d
<1>5. \A k \in Nat : 1 <= k /\ k <= i => g[k] = f[k]
  BY <1>1, <1>3
<1>6. ASSUME NEW k \in Nat, 1 <= k, i <= k, k <= Len(f) - d
      PROVE  g[k] = f[k + d]
  <2>1. k \in 1..(Len(f) - d)
    BY <1>1, <1>6
  <2>2. CASE k = i
    BY <1>1, <1>4, <1>5, <1>6, <2>2
  <2>3. CASE k > i
    BY <1>1, <1>3, <2>1, <2>3
  <2> QED
    BY <1>1, <1>6, <2>2, <2>3
<1> QED
  BY <1>1, <1>2, <1>4, <1>5, <1>6 DEF g

(* No cut makes a "//".                                                    *)
LEMMA CutNoDouble ==
  ASSUME NEW f \in Path, NEW i, NEW j, Clean(f, i, j), NoDouble(f)
  PROVE  NoDouble(Cut(f, i, j))
<1> DEFINE g == Cut(f, i, j)
<1>1. PICK d \in Nat \ {0} :
           /\ i \in Nat /\ Len(f) \in Nat /\ Len(g) = Len(f) - d
           /\ \A k \in Nat : 1 <= k /\ k <= i => g[k] = f[k]
           /\ \A k \in Nat : 1 <= k /\ i <= k /\ k <= Len(f) - d => g[k] = f[k + d]
  BY CleanCut
<1> HIDE DEF g
<1>2. \A k \in Nat : 1 <= k /\ k + 1 <= Len(f) => ~(f[k] = Slash /\ f[k + 1] = Slash)
  BY <1>1 DEF NoDouble
<1>3. ASSUME NEW k \in Nat, 1 <= k, k + 1 <= Len(g), g[k] = Slash, g[k + 1] = Slash
      PROVE  FALSE
  <2>1. k < i => g[k] = f[k] /\ g[k + 1] = f[k + 1] /\ k + 1 <= Len(f)
    BY <1>1, <1>3
  <2>2. ASSUME k >= i
        PROVE  g[k] = f[k + d] /\ g[k + 1] = f[(k + d) + 1] /\ (k + d) + 1 <= Len(f)
    <3>1. k + 1 \in Nat /\ k + d \in Nat /\ (k + 1) + d = (k + d) + 1
      OBVIOUS
    <3>2. g[k + 1] = f[(k + 1) + d]
      BY <1>1, <1>3, <2>2, <3>1
    <3> QED
      BY <1>1, <1>3, <2>2, <3>1, <3>2
  <2>3. k \in Nat /\ k + d \in Nat /\ 1 <= k + d
    BY <1>3
  <2>4. CASE k < i
    BY <1>2, <1>3, <2>1, <2>4
  <2>5. CASE k >= i
    BY <1>2, <1>3, <2>2, <2>3, <2>5
  <2> QED
    BY <1>1, <2>4, <2>5
<1> QED
  BY <1>1, <1>3 DEF NoDouble, g

(* No cut makes a "/./".                                                   *)
LEMMA CutNoDot ==
  ASSUME NEW f \in Path, NEW i, NEW j, Clean(f, i, j), NoDot(f)
  PROVE  NoDot(Cut(f, i, j))
<1> DEFINE g == Cut(f, i, j)
<1>1. PICK d \in Nat \ {0} :
           /\ i \in Nat /\ Len(f) \in Nat /\ Len(g) = Len(f) - d /\ f[i + d] = Slash
           /\ i + d <= Len(f)
           /\ \A k \in Nat : 1 <= k /\ k <= i => g[k] = f[k]
           /\ \A k \in Nat : 1 <= k /\ i <= k /\ k <= Len(f) - d => g[k] = f[k + d]
  BY CleanCut
<1> HIDE DEF g
<1>2. \A k \in Nat : 1 <= k /\ k + 2 <= Len(f) =>
        ~(f[k] = Slash /\ f[k + 1] = Dot /\ f[k + 2] = Slash)
  BY <1>1 DEF NoDot
<1>3. ASSUME NEW k \in Nat, 1 <= k, k + 2 <= Len(g),
             g[k] = Slash, g[k + 1] = Dot, g[k + 2] = Slash
      PROVE  FALSE
  <2>1. ASSUME k + 1 < i
        PROVE  g[k] = f[k] /\ g[k + 1] = f[k + 1] /\ g[k + 2] = f[k + 2] /\ k + 2 <= Len(f)
    <3>1. k + 1 \in Nat /\ k + 2 \in Nat /\ k + 2 <= i
      BY <1>1, <2>1
    <3>2. g[k] = f[k] /\ g[k + 1] = f[k + 1]
      BY <1>1, <1>3, <3>1
    <3>3. g[k + 2] = f[k + 2]
      BY <1>1, <1>3, <3>1
    <3> QED
      BY <1>1, <1>3, <3>2, <3>3
  <2>2. k + 1 = i => g[k + 1] = Slash
    BY <1>1, <1>3
  <2>3. ASSUME k >= i
        PROVE  /\ g[k] = f[k + d] /\ g[k + 1] = f[(k + d) + 1] /\ g[k + 2] = f[(k + d) + 2]
               /\ (k + d) + 2 <= Len(f)
    <3>1. /\ k + 1 \in Nat /\ k + 2 \in Nat /\ k + d \in Nat
          /\ (k + 1) + d = (k + d) + 1 /\ (k + 2) + d = (k + d) + 2
      OBVIOUS
    <3>2. /\ 1 <= k + 1 /\ i <= k + 1 /\ k + 1 <= Len(f) - d
          /\ 1 <= k + 2 /\ i <= k + 2 /\ k + 2 <= Len(f) - d
          /\ i <= k /\ k <= Len(f) - d /\ (k + d) + 2 <= Len(f)
      BY <1>1, <1>3, <2>3
    <3>3. \A l \in Nat : 1 <= l /\ i <= l /\ l <= Len(f) - d => g[l] = f[l + d]
      BY <1>1
    <3>4. g[k + 1] = f[(k + 1) + d] /\ g[k + 2] = f[(k + 2) + d] /\ g[k] = f[k + d]
      BY <1>3, <3>1, <3>2, <3>3
    <3> QED
      BY <3>1, <3>2, <3>4
  <2>4. CASE k + 1 < i
    BY <1>2, <1>3, <2>1, <2>4
  <2>5. CASE k + 1 = i
    BY <1>3, <2>2, <2>5, TokenFacts
  <2>6. CASE k >= i
    <3>1. k + d \in Nat /\ 1 <= k + d
      BY <1>3
    <3> QED
      BY <1>2, <1>3, <2>3, <2>6, <3>1
  <2> QED
    BY <1>1, <2>4, <2>5, <2>6
<1> QED
  BY <1>1, <1>3 DEF NoDot, g

(* Only "/./" can put "./" at the front.                                   *)
LEMMA CutNoLead ==
  ASSUME NEW f \in Path, NEW i, NEW j, Clean(f, i, j), NoLead(f), i > 0 \/ NoDot(f)
  PROVE  NoLead(Cut(f, i, j))
<1> DEFINE g == Cut(f, i, j)
<1>1. PICK d \in Nat \ {0} :
           /\ i \in Nat /\ Len(f) \in Nat /\ Len(g) = Len(f) - d /\ f[i + d] = Slash
           /\ i + d <= Len(f)
           /\ \A k \in Nat : 1 <= k /\ k <= i => g[k] = f[k]
           /\ \A k \in Nat : 1 <= k /\ i <= k /\ k <= Len(f) - d => g[k] = f[k + d]
  BY CleanCut
<1> HIDE DEF g
<1> SUFFICES ASSUME Len(g) >= 2, g[1] = Dot, g[2] = Slash
             PROVE  FALSE
  BY DEF NoLead, g
<1>2. CASE i = 0
  <2>1. 1 \in Nat /\ 2 \in Nat /\ 1 <= Len(f) - d /\ 2 <= Len(f) - d /\ d \in 1..(Len(f) - 2)
    BY <1>1, <1>2
  <2>2. \A k \in Nat : 1 <= k /\ i <= k /\ k <= Len(f) - d => g[k] = f[k + d]
    BY <1>1
  <2>3. g[1] = f[1 + d] /\ g[2] = f[2 + d] /\ f[i + d] = Slash
    BY <1>1, <1>2, <2>1, <2>2
  <2>4. 1 + d = d + 1 /\ 2 + d = d + 2 /\ i + d = d
    BY <1>1, <1>2
  <2>5. f[d] = Slash /\ f[d + 1] = Dot /\ f[d + 2] = Slash
    BY <2>3, <2>4
  <2>6. NoDot(f)
    BY <1>2

  <2> QED
    BY <2>1, <2>5, <2>6 DEF NoDot
<1>3. CASE i = 1
  BY <1>1, <1>3, TokenFacts
<1>4. CASE i > 1
  BY <1>1, <1>4 DEF NoLead
<1> QED
  BY <1>1, <1>2, <1>3, <1>4

-----------------------------------------------------------------------------
(* What a cut leaves of the meaning of a path.                             *)

(* A part of a path.                                                       *)
LEMMA SubPath ==
  ASSUME NEW f \in Path, NEW i \in Nat \ {0}, NEW j \in Nat, j <= Len(f)
  PROVE  /\ SubSeq(f, i, j) \in Path
         /\ Len(SubSeq(f, i, j)) = IF i <= j THEN j - i + 1 ELSE 0
         /\ \A k \in 1..(j - i + 1) : SubSeq(f, i, j)[k] = f[i + k - 1]
<1>1. \A k \in i..j : f[k] \in Tokens
  BY DEF Path
<1> QED
  BY <1>1, SubSeqProperties DEF Path

(* A path is what is before a slash, the slash, and what is behind it.     *)
LEMMA SplitAt ==
  ASSUME NEW f \in Path, NEW i \in 1..Len(f), f[i] = Slash, NEW n \in i..Len(f)
  PROVE  SubSeq(f, 1, n) = SubSeq(f, 1, i - 1) \o <<Slash>> \o SubSeq(f, i + 1, n)
<1>1. Len(f) \in Nat /\ i \in Nat /\ n \in Nat /\ f \in Seq(Tokens)
  BY DEF Path
<1>2. SubSeq(f, 1, i) = SubSeq(f, 1, i - 1) \o <<Slash>>
  <2>1. 1 \in 1..Len(f) /\ i \in 1..Len(f)
    BY <1>1
  <2> QED
    BY <1>1, <2>1, SubSeqRecursiveSecond
<1>3. SubSeq(f, 1, i) \o SubSeq(f, i + 1, n) = SubSeq(f, 1, n)
  <2>1. 1 \in 1..(Len(f) + 1) /\ i \in (1 - 1)..Len(f) /\ n \in i..Len(f)
    BY <1>1
  <2> QED
    BY <1>1, <2>1, ConcatAdjacentSubSeq
<1> QED
  BY <1>2, <1>3

(* So is the whole of it.                                                  *)
LEMMA SplitPath ==
  ASSUME NEW f \in Path, NEW i \in 1..Len(f), f[i] = Slash
  PROVE  f = SubSeq(f, 1, i - 1) \o <<Slash>> \o SubSeq(f, i + 1, Len(f))
<1>1. Len(f) \in i..Len(f) /\ SubSeq(f, 1, Len(f)) = f
  BY DEF Path
<1> QED
  BY <1>1, SplitAt

(* What leads back to where it began can be cut.                           *)
LEMMA CutMeaning ==
  ASSUME NEW f \in Path, NEW i, NEW j, Clean(f, i, j), NEW y,
         i = 0 => y = << >>,
         i > 0 => y = Go(<< >>, SubSeq(f, 1, i - 1)),
         Go(y, SubSeq(f, i + 1, j - 1)) = y
  PROVE  Resolve(Cut(f, i, j)) = Resolve(f)
<1> DEFINE a == SubSeq(f, 1, i - 1)
           m == SubSeq(f, i + 1, j - 1)
           b == SubSeq(f, j + 1, Len(f))
<1>1. /\ i \in Nat /\ j \in Nat /\ i < j /\ j <= Len(f) /\ Len(f) \in Nat /\ j \in 1..Len(f)
      /\ f[j] = Slash /\ (i > 0 => f[i] = Slash)
  BY DEF Clean, Path
<1>2. m \in Path /\ b \in Path
  BY <1>1, SubPath
<1>3. f = SubSeq(f, 1, j - 1) \o <<Slash>> \o b
  BY <1>1, SplitPath
<1>4. SubSeq(f, 1, j - 1) \in Path
  <2>1. j - 1 \in Nat /\ 1 \in Nat \ {0} /\ j - 1 <= Len(f)
    BY <1>1
  <2> QED
    BY <2>1, SubPath
<1>5. Go(<< >>, f) = Go(Go(<< >>, SubSeq(f, 1, j - 1)), b)
  <2> DEFINE p == SubSeq(f, 1, j - 1)
  <2>1. p \in Path /\ b \in Path /\ f = p \o <<Slash>> \o b
    BY <1>2, <1>3, <1>4
  <2> HIDE DEF p, b
  <2>2. Go(<< >>, p \o <<Slash>> \o b) = Go(Go(<< >>, p), b)
    BY <2>1, GoSlash
  <2>3. Go(<< >>, f) = Go(Go(<< >>, p), b)
    BY <2>1, <2>2
  <2> QED
    BY <2>3 DEF p
<1>6. CASE i = 0
  <2>1. SubSeq(f, 1, 0) = << >> /\ << >> \o b = b
    BY <1>2 DEF Path
  <2>2. Cut(f, i, j) = b
    BY <1>6, <2>1 DEF Cut
  <2>3. m = SubSeq(f, 1, j - 1)
    BY <1>6
  <2>4. Go(<< >>, m) = << >>
    BY <1>6
  <2> HIDE DEF m, b
  <2> QED
    BY <1>5, <2>2, <2>3, <2>4, ResolveIs
<1>7. CASE i > 0
  <2>1. i \in 1..Len(f) /\ f[i] = Slash /\ j - 1 \in i..Len(f)
    BY <1>1, <1>7
  <2>2. SubSeq(f, 1, j - 1) = a \o <<Slash>> \o m
    BY <2>1, SplitAt
  <2>3. a \in Path
    <3>1. i - 1 \in Nat /\ 1 \in Nat \ {0} /\ i - 1 <= Len(f)
      BY <1>1, <1>7
    <3> QED
      BY <3>1, SubPath
  <2>4. SubSeq(f, 1, i) = a \o <<Slash>>
    <3>1. 1 \in 1..Len(f) /\ i \in 1..Len(f) /\ f \in Seq(Tokens)
      BY <1>1, <1>7 DEF Path
    <3> QED
      BY <2>1, <3>1, SubSeqRecursiveSecond
  <2>5. Cut(f, i, j) = a \o <<Slash>> \o b
    BY <2>4 DEF Cut
  <2>6. y = Go(<< >>, a) /\ Go(y, m) = y
    BY <1>7
  <2> HIDE DEF a, m, b
  <2>7. Go(<< >>, SubSeq(f, 1, j - 1)) = Go(Go(<< >>, a), m)
    <3>1. Go(<< >>, a \o <<Slash>> \o m) = Go(Go(<< >>, a), m)
      BY <1>2, <2>3, GoSlash
    <3> QED
      BY <2>2, <3>1
  <2>8. Go(<< >>, Cut(f, i, j)) = Go(Go(<< >>, a), b)
    BY <1>2, <2>3, <2>5, GoSlash
  <2> QED
    BY <1>5, <2>6, <2>7, <2>8, ResolveIs
<1> QED
  BY <1>1, <1>6, <1>7

(* "", "." and, at the root, ".." lead nowhere, nor a name and "..".       *)
LEMMA StepFacts ==
  ASSUME NEW y \in Names
  PROVE  /\ Step(y, << >>) = y /\ Step(y, <<Dot>>) = y
         /\ Step(<< >>, <<Dot, Dot>>) = << >>
         /\ \A seg \in Path : seg \notin {<< >>, <<Dot>>, <<Dot, Dot>>} =>
              Step(Step(y, seg), <<Dot, Dot>>) = y
<1>1. << >> # <<Dot, Dot>> /\ <<Dot>> # <<Dot, Dot>>
  OBVIOUS
<1>2. Step(y, << >>) = y /\ Step(y, <<Dot>>) = y
  BY <1>1 DEF Step
<1>3. Step(<< >>, <<Dot, Dot>>) = << >>
  BY DEF Step
<1>4. ASSUME NEW seg \in Path, seg \notin {<< >>, <<Dot>>, <<Dot, Dot>>}
      PROVE  Step(Step(y, seg), <<Dot, Dot>>) = y
  <2>1. Step(y, seg) = Append(y, seg)
    BY <1>4 DEF Step
  <2>2. SubSeq(Append(y, seg), 1, Len(Append(y, seg)) - 1) = y
    BY DEF Names
  <2> QED
    BY <2>1, <2>2 DEF Step
<1> QED
  BY <1>2, <1>3, <1>4

(* A name and ".." behind it lead nowhere.                                 *)
LEMMA UpMeaning ==
  ASSUME NEW f \in Path, NEW cp \in 1..Len(f), NEW sb \in 0..(cp - 1), NEW y \in Names,
         cp + 2 <= Len(f), f[cp] = Slash, f[cp + 1] = Dot, f[cp + 2] = Dot,
         NoDouble(f), NoDot(f), NoLead(f), NoUp(f),
         \A k \in (sb + 1)..(cp - 1) : f[k] # Slash,
         sb = 0 => y = << >>,
         sb > 0 => f[sb] = Slash,
         (sb > 0 /\ sb + 3 <= Len(f)) =>
           ~(f[sb] = Slash /\ f[sb + 1] = Dot /\ f[sb + 2] = Dot /\ f[sb + 3] = Slash)
  PROVE  Go(y, SubSeq(f, sb + 1, cp + 2)) = y
<1> DEFINE seg == SubSeq(f, sb + 1, cp - 1)
           m == SubSeq(f, sb + 1, cp + 2)
           n == cp - sb
<1>1. /\ Len(f) \in Nat /\ cp \in Nat /\ sb \in Nat /\ n \in Nat \ {0} /\ sb < cp
      /\ sb + 1 \in Nat \ {0} /\ cp - 1 \in Nat /\ cp + 2 \in Nat
  BY DEF Path
<1>2. /\ seg \in Path /\ Len(seg) = n - 1
      /\ \A k \in 1..(n - 1) : seg[k] = f[sb + k]
  <2>1. cp - 1 <= Len(f)
    BY <1>1
  <2>2. /\ seg \in Path
        /\ Len(seg) = IF sb + 1 <= cp - 1 THEN (cp - 1) - (sb + 1) + 1 ELSE 0
        /\ \A k \in 1..((cp - 1) - (sb + 1) + 1) : seg[k] = f[(sb + 1) + k - 1]
    BY <1>1, <2>1, SubPath
  <2>3. \A k \in 1..(n - 1) : (sb + 1) + k - 1 = sb + k /\ k \in 1..((cp - 1) - (sb + 1) + 1)
    BY <1>1
  <2> HIDE DEF seg
  <2> QED
    BY <1>1, <2>2, <2>3
<1>3. ASSUME NEW k \in 1..Len(seg)
      PROVE  seg[k] # Slash
  <2>1. k \in 1..(n - 1) /\ sb + k \in (sb + 1)..(cp - 1)
    BY <1>1, <1>2
  <2>2. seg[k] = f[sb + k]
    BY <1>2, <2>1
  <2> QED
    BY <2>1, <2>2
<1>4. m = seg \o <<Slash>> \o <<Dot, Dot>>
  <2>1. m \in Path /\ Len(m) = n + 2 /\ \A k \in 1..(n + 2) : m[k] = f[sb + k]
    <3>1. /\ m \in Path
          /\ Len(m) = IF sb + 1 <= cp + 2 THEN (cp + 2) - (sb + 1) + 1 ELSE 0
          /\ \A k \in 1..((cp + 2) - (sb + 1) + 1) : m[k] = f[(sb + 1) + k - 1]
      BY <1>1, SubPath
    <3>2. \A k \in 1..(n + 2) : (sb + 1) + k - 1 = sb + k /\ k \in 1..((cp + 2) - (sb + 1) + 1)
      BY <1>1
    <3> HIDE DEF m
    <3> QED
      BY <1>1, <3>1, <3>2
  <2> HIDE DEF seg, m
  <2> DEFINE w == seg \o <<Slash>> \o <<Dot, Dot>>
  <2>2. <<Slash>> \in Path /\ <<Dot, Dot>> \in Path
    BY TokenFacts DEF Path
  <2>3. /\ w \in Path /\ Len(w) = n + 2
        /\ \A k \in 1..(n - 1) : w[k] = seg[k]
        /\ w[n] = Slash /\ w[n + 1] = Dot /\ w[n + 2] = Dot
    <3> DEFINE v == seg \o <<Slash>>
    <3>1. v \in Path /\ Len(v) = n /\ v[n] = Slash /\ \A k \in 1..(n - 1) : v[k] = seg[k]
      <4>1. /\ v \in Path /\ Len(v) = Len(seg) + 1
            /\ \A k \in 1..(Len(seg) + 1) : v[k] = IF k <= Len(seg) THEN seg[k] ELSE <<Slash>>[k - Len(seg)]
        BY <1>2, <2>2, ConcatProperties DEF Path
      <4>2. Len(seg) = n - 1 /\ n \in 1..n /\ n - (n - 1) = 1 /\ <<Slash>>[1] = Slash
        BY <1>1, <1>2
      <4> HIDE DEF v
      <4> QED
        BY <1>1, <4>1, <4>2
    <3> HIDE DEF v
    <3>2. /\ v \o <<Dot, Dot>> \in Path /\ Len(v \o <<Dot, Dot>>) = n + 2
          /\ \A k \in 1..n : (v \o <<Dot, Dot>>)[k] = v[k]
          /\ (v \o <<Dot, Dot>>)[n + 1] = Dot /\ (v \o <<Dot, Dot>>)[n + 2] = Dot
      <4> DEFINE z == <<Dot, Dot>>
      <4>1. z \in Path /\ Len(z) = 2 /\ z[1] = Dot /\ z[2] = Dot
        BY <2>2
      <4>0. Len(v) = n /\ n \in Nat
        BY <1>1, <3>1
      <4> HIDE DEF z, n
      <4>2. /\ v \o z \in Path /\ Len(v \o z) = n + 2
            /\ \A k \in 1..(n + 2) : (v \o z)[k] = IF k <= n THEN v[k] ELSE z[k - n]
        <5>1. /\ v \o z \in Path /\ Len(v \o z) = Len(v) + Len(z)
              /\ \A k \in 1..(Len(v) + Len(z)) : (v \o z)[k] = IF k <= Len(v) THEN v[k] ELSE z[k - Len(v)]
          <6>1. v \in Seq(Tokens) /\ z \in Seq(Tokens)
            BY <3>1, <4>1 DEF Path
          <6> HIDE DEF v
          <6>2. /\ v \o z \in Seq(Tokens) /\ Len(v \o z) = Len(v) + Len(z)
                /\ \A k \in 1..(Len(v) + Len(z)) : (v \o z)[k] = IF k <= Len(v) THEN v[k] ELSE z[k - Len(v)]
            BY <6>1, ConcatProperties
          <6> QED
            BY <6>2 DEF Path
        <5> QED
          BY <4>0, <4>1, <5>1
      <4>3. n + 1 \in 1..(n + 2) /\ n + 2 \in 1..(n + 2) /\ (n + 1) - n = 1 /\ (n + 2) - n = 2
        BY <4>0
      <4>4. (v \o z)[n + 1] = Dot /\ (v \o z)[n + 2] = Dot
        <5>1. ~(n + 1 <= n) /\ ~(n + 2 <= n)
          BY <4>0
        <5> QED
          BY <4>1, <4>2, <4>3, <5>1
      <4>5. \A k \in 1..n : (v \o z)[k] = v[k]
        BY <4>0, <4>2
      <4> QED
        BY <4>2, <4>4, <4>5 DEF z
    <3> QED
      BY <1>1, <3>1, <3>2 DEF v
  <2>4. f[sb + n] = Slash /\ f[sb + (n + 1)] = Dot /\ f[sb + (n + 2)] = Dot
    BY <1>1
  <2> HIDE DEF w, n
  <2>5. ASSUME NEW k \in 1..(n + 2)
        PROVE  m[k] = w[k]
    <3>1. CASE k <= n - 1
      <4>1. k \in 1..(n - 1)
        BY <1>1, <3>1
      <4> QED
        BY <1>2, <2>1, <2>3, <4>1
    <3>2. CASE k \in {n, n + 1, n + 2}
      BY <1>1, <2>1, <2>3, <2>4, <3>2
    <3> QED
      BY <1>1, <3>1, <3>2
  <2>6. m = w
    BY <2>1, <2>3, <2>5, SeqEqual DEF Path
  <2> QED
    BY <2>6 DEF w
<1>5. Go(y, m) = Step(Step(y, seg), <<Dot, Dot>>)
  <2> HIDE DEF seg, m
  <2>1. <<Dot, Dot>> \in Path /\ \A k \in 1..Len(<<Dot, Dot>>) : <<Dot, Dot>>[k] # Slash
    BY TokenFacts DEF Path
  <2>2. Go(y, seg \o <<Slash>> \o <<Dot, Dot>>) = Go(Go(y, seg), <<Dot, Dot>>)
    BY <1>2, <2>1, GoSlash
  <2>3. Go(y, seg) = Step(y, seg)
    BY <1>2, <1>3, GoWord
  <2>4. Go(Step(y, seg), <<Dot, Dot>>) = Step(Step(y, seg), <<Dot, Dot>>)
    BY <2>1, GoWord
  <2> QED
    BY <1>4, <2>2, <2>3, <2>4
<1> HIDE DEF m
<1>6. CASE seg \notin {<< >>, <<Dot>>, <<Dot, Dot>>}
  BY <1>2, <1>5, <1>6, StepFacts DEF m
<1>7. CASE seg = << >>
  <2>1. sb = cp - 1
    BY <1>1, <1>2, <1>7
  <2>2. CASE sb > 0
    <3>1. sb \in 1..(Len(f) - 1) /\ f[sb] = Slash /\ f[sb + 1] = Slash
      BY <1>1, <2>1, <2>2
    <3> QED
      BY <3>1 DEF NoDouble
  <2>3. CASE sb = 0
    BY <1>5, <1>7, <2>3, StepFacts DEF m
  <2> QED
    BY <1>1, <2>2, <2>3
<1>8. CASE seg = <<Dot>>
  <2>1. Len(seg) = 1 /\ seg[1] = Dot
    <3> HIDE DEF seg
    <3> QED
      BY <1>8
  <2>2. n = 2 /\ f[sb + 1] = Dot /\ f[sb + 2] = Slash
    BY <1>1, <1>2, <2>1
  <2>3. CASE sb > 0
    <3>1. sb \in 1..(Len(f) - 2) /\ f[sb] = Slash
      BY <1>1, <2>2, <2>3
    <3> QED
      BY <2>2, <3>1 DEF NoDot
  <2>4. CASE sb = 0
    BY <1>1, <2>2, <2>4 DEF NoLead
  <2> QED
    BY <1>1, <2>3, <2>4
<1>9. CASE seg = <<Dot, Dot>>
  <2>1. Len(seg) = 2 /\ seg[1] = Dot /\ seg[2] = Dot
    <3> HIDE DEF seg
    <3> QED
      BY <1>9
  <2>2. n = 3 /\ f[sb + 1] = Dot /\ f[sb + 2] = Dot /\ f[sb + 3] = Slash
    BY <1>1, <1>2, <2>1
  <2>3. CASE sb > 0
    BY <1>1, <2>2, <2>3
  <2>4. CASE sb = 0
    BY <1>1, <2>2, <2>4 DEF NoUp
  <2> QED
    BY <1>1, <2>3, <2>4
<1> QED
  BY <1>6, <1>7, <1>8, <1>9

-----------------------------------------------------------------------------
(* The turns of the loops of de_dotdot().                                  *)

(* A word of the path is there where its tokens are.                       *)
LEMMA WordAt ==
  ASSUME NEW f \in Path, NEW w \in Path, NEW i \in Nat \ {0}, NEW n \in Nat,
         Len(w) = n, i + n - 1 <= Len(f),
         \A k \in 1..n : f[i + k - 1] = w[k]
  PROVE  SubSeq(f, i, i + n - 1) = w
<1>1. i \in 1..(Len(f) + 1 - Len(w))
  BY DEF Path
<1> QED
  BY <1>1, OccursAtIs DEF OccursAt

(* "." and "..", told by their tokens.                                     *)
LEMMA DotWords ==
  /\ \A f \in Path : \A i \in 1..Len(f) : f[i] = Dot => SubSeq(f, i, i) = <<Dot>>
  /\ \A f \in Path : \A i \in 1..Len(f) :
       (i + 1 <= Len(f) /\ f[i] = Dot /\ f[i + 1] = Dot) => SubSeq(f, i, i + 1) = <<Dot, Dot>>
<1>1. ASSUME NEW f \in Path, NEW i \in 1..Len(f), f[i] = Dot
      PROVE  SubSeq(f, i, i) = <<Dot>>
  <2>1. <<Dot>> \in Path /\ Len(<<Dot>>) = 1 /\ <<Dot>>[1] = Dot
    BY TokenFacts
  <2>2. /\ Len(f) \in Nat /\ i \in Nat \ {0} /\ i + 1 - 1 <= Len(f) /\ i + 1 - 1 = i
        /\ \A k \in 1..1 : f[i + k - 1] = <<Dot>>[k]
    BY <1>1, <2>1 DEF Path
  <2>3. SubSeq(f, i, i + 1 - 1) = <<Dot>>
    BY <2>1, <2>2, WordAt
  <2> QED
    BY <2>2, <2>3
<1>2. ASSUME NEW f \in Path, NEW i \in 1..Len(f), i + 1 <= Len(f), f[i] = Dot, f[i + 1] = Dot
      PROVE  SubSeq(f, i, i + 1) = <<Dot, Dot>>
  <2>1. <<Dot, Dot>> \in Path /\ Len(<<Dot, Dot>>) = 2
        /\ <<Dot, Dot>>[1] = Dot /\ <<Dot, Dot>>[2] = Dot
    BY TokenFacts
  <2>2. /\ Len(f) \in Nat /\ i \in Nat \ {0} /\ i + 2 - 1 <= Len(f) /\ i + 2 - 1 = i + 1
        /\ \A k \in 1..2 : f[i + k - 1] = <<Dot, Dot>>[k]
    BY <1>2, <2>1 DEF Path
  <2>3. SubSeq(f, i, i + 2 - 1) = <<Dot, Dot>>
    BY <2>1, <2>2, WordAt
  <2> QED
    BY <2>2, <2>3
<1> QED
  BY <1>1, <1>2

(* What is before a slash leads somewhere.                                 *)
LEMMA BeforeType ==
  ASSUME NEW f \in Path, NEW i \in 1..Len(f)
  PROVE  SubSeq(f, 1, i - 1) \in Path /\ Go(<< >>, SubSeq(f, 1, i - 1)) \in Names
<1>1. 1 \in Nat \ {0} /\ i - 1 \in Nat /\ i - 1 <= Len(f)
  BY DEF Path
<1>2. SubSeq(f, 1, i - 1) \in Path
  BY <1>1, SubPath
<1>3. << >> \in Names
  BY DEF Names
<1> QED
  BY <1>2, <1>3, GoType

(* One "/" of "//" goes.                                                   *)
LEMMA CollapseTurn ==
  ASSUME NEW f \in Path, Occurs(f, <<Slash, Slash>>)
  PROVE  \E i, j : /\ CutBehind(f, <<Slash, Slash>>, 1, 1) = Cut(f, i, j)
                   /\ Clean(f, i, j) /\ Resolve(Cut(f, i, j)) = Resolve(f)
<1> DEFINE p == <<Slash, Slash>>
           o == Occurrence(f, p)
<1>1. p \in Path /\ Len(p) = 2 /\ p[1] = Slash /\ p[2] = Slash
  BY TokenFacts
<1> HIDE DEF p
<1>2. o \in 1..(Len(f) + 1 - Len(p)) /\ OccursAt(f, p, o)
  BY <1>1, OccurrenceIs DEF p
<1>3. f[o] = Slash /\ f[o + 1] = Slash
  <2>1. \A k \in 1..2 : f[o + k - 1] = p[k]
    BY <1>1, <1>2, OccursAtIs
  <2>2. o + 1 - 1 = o /\ o + 2 - 1 = o + 1
    BY <1>2
  <2> QED
    BY <1>1, <2>1, <2>2
<1> HIDE DEF o
<1>4. Len(f) \in Nat /\ o \in 1..(Len(f) - 1)
  BY <1>1, <1>2 DEF Path
<1>5. CutBehind(f, p, 1, 1) = Cut(f, o, o + 1)
  BY <1>4 DEF CutBehind, o
<1>6. Clean(f, o, o + 1)
  BY <1>3, <1>4 DEF Clean
<1> DEFINE y == Go(<< >>, SubSeq(f, 1, o - 1))
<1>7. y \in Names
  <2>1. o \in 1..Len(f)
    BY <1>4
  <2> QED
    BY <2>1, BeforeType
<1>8. SubSeq(f, o + 1, (o + 1) - 1) = << >>
  BY <1>4, SubSeqEmpty
<1>9. Go(y, << >>) = y
  BY <1>7, GoWord, StepFacts, TokenFacts
<1>10. Resolve(Cut(f, o, o + 1)) = Resolve(f)
  <2>1. (o = 0 => y = << >>) /\ (o > 0 => y = Go(<< >>, SubSeq(f, 1, o - 1)))
    BY <1>4
  <2>2. Go(y, SubSeq(f, o + 1, (o + 1) - 1)) = y
    BY <1>8, <1>9
  <2> HIDE DEF y
  <2> QED
    BY <1>6, <2>1, <2>2, CutMeaning
<1> QED
  BY <1>5, <1>6, <1>10 DEF p

(* Cutting "/." or the "./" behind it is the same.                         *)
LEMMA CutShift ==
  ASSUME NEW f \in Path, NEW i \in 0..(Len(f) - 1), NEW j \in i..(Len(f) - 1),
         f[i + 1] = f[j + 1]
  PROVE  Cut(f, i, j) = Cut(f, i + 1, j + 1)
<1>1. /\ Len(f) \in Nat /\ i \in Nat /\ j \in Nat /\ i <= j /\ j + 1 <= Len(f)
      /\ i \in 0..Len(f) /\ j \in i..Len(f) /\ i + 1 \in 0..Len(f) /\ j + 1 \in (i + 1)..Len(f)
      /\ (j + 1) - (i + 1) = j - i
  BY DEF Path
<1> DEFINE d == j - i
           u == Cut(f, i, j)
           v == Cut(f, i + 1, j + 1)
<1>2. u \in Path /\ Len(u) = Len(f) - d /\ \A k \in 1..(Len(f) - d) : u[k] = IF k <= i THEN f[k] ELSE f[k + d]
  BY <1>1, CutIs
<1>3. v \in Path /\ Len(v) = Len(f) - d /\ \A k \in 1..(Len(f) - d) : v[k] = IF k <= i + 1 THEN f[k] ELSE f[k + d]
  <2>1. /\ v \in Path /\ Len(v) = Len(f) - ((j + 1) - (i + 1))
        /\ \A k \in 1..(Len(f) - ((j + 1) - (i + 1))) : v[k] = IF k <= i + 1 THEN f[k] ELSE f[k + ((j + 1) - (i + 1))]
    BY <1>1, CutIs
  <2> QED
    BY <1>1, <2>1
<1> HIDE DEF u, v
<1>4. d \in Nat /\ (i + 1) + d = j + 1
  BY <1>1
<1> HIDE DEF d
<1>5. ASSUME NEW k \in 1..(Len(f) - d)
      PROVE  u[k] = v[k]
  <2>1. CASE k = i + 1
    BY <1>1, <1>2, <1>3, <1>4, <2>1
  <2>2. CASE k # i + 1
    BY <1>1, <1>2, <1>3, <1>4, <2>2
  <2> QED
    BY <2>1, <2>2
<1>6. u = v
  BY <1>2, <1>3, <1>5, SeqEqual DEF Path
<1> QED
  BY <1>6 DEF u, v

(* "./" of "/./" goes.                                                     *)
LEMMA ElideDotsTurn ==
  ASSUME NEW f \in Path, Occurs(f, <<Slash, Dot, Slash>>)
  PROVE  \E i, j : /\ CutBehind(f, <<Slash, Dot, Slash>>, 0, 2) = Cut(f, i, j) /\ i > 0
                   /\ Clean(f, i, j) /\ Resolve(Cut(f, i, j)) = Resolve(f)
<1> DEFINE p == <<Slash, Dot, Slash>>
           o == Occurrence(f, p)
<1>1. p \in Path /\ Len(p) = 3 /\ p[1] = Slash /\ p[2] = Dot /\ p[3] = Slash
  BY TokenFacts
<1> HIDE DEF p
<1>2. o \in 1..(Len(f) + 1 - Len(p)) /\ OccursAt(f, p, o)
  BY <1>1, OccurrenceIs DEF p
<1>3. f[o] = Slash /\ f[o + 1] = Dot /\ f[o + 2] = Slash
  <2>1. \A k \in 1..3 : f[o + k - 1] = p[k]
    BY <1>1, <1>2, OccursAtIs
  <2>2. o + 1 - 1 = o /\ o + 2 - 1 = o + 1 /\ o + 3 - 1 = o + 2
    BY <1>2
  <2> QED
    BY <1>1, <2>1, <2>2
<1> HIDE DEF o
<1>4. Len(f) \in Nat /\ o \in 1..(Len(f) - 2)
  BY <1>1, <1>2 DEF Path
<1>5. CutBehind(f, p, 0, 2) = Cut(f, o, o + 2)
  <2>1. CutBehind(f, p, 0, 2) = Cut(f, o - 1, o + 1)
    BY <1>4 DEF CutBehind, o
  <2>2. o - 1 \in 0..(Len(f) - 1) /\ o + 1 \in (o - 1)..(Len(f) - 1)
    BY <1>4
  <2>3. (o - 1) + 1 = o /\ (o + 1) + 1 = o + 2
    BY <1>4
  <2>4. Cut(f, o - 1, o + 1) = Cut(f, (o - 1) + 1, (o + 1) + 1)
    BY <1>3, <2>2, <2>3, CutShift
  <2> QED
    BY <2>1, <2>3, <2>4
<1>6. Clean(f, o, o + 2) /\ o > 0
  BY <1>3, <1>4 DEF Clean
<1> DEFINE y == Go(<< >>, SubSeq(f, 1, o - 1))
<1>7. y \in Names
  <2>1. o \in 1..Len(f)
    BY <1>4
  <2> QED
    BY <2>1, BeforeType
<1>8. SubSeq(f, o + 1, (o + 2) - 1) = <<Dot>>
  <2>1. o + 1 \in 1..Len(f) /\ (o + 2) - 1 = o + 1
    BY <1>4
  <2> QED
    BY <1>3, <2>1, DotWords
<1>9. Go(y, <<Dot>>) = y
  <2>1. Go(y, <<Dot>>) = Step(y, <<Dot>>)
    BY GoWord, TokenFacts
  <2> QED
    BY <1>7, <2>1, StepFacts
<1>10. Resolve(Cut(f, o, o + 2)) = Resolve(f)
  <2>1. (o = 0 => y = << >>) /\ (o > 0 => y = Go(<< >>, SubSeq(f, 1, o - 1)))
    BY <1>4
  <2>2. Go(y, SubSeq(f, o + 1, (o + 2) - 1)) = y
    BY <1>8, <1>9
  <2> HIDE DEF y
  <2> QED
    BY <1>6, <2>1, <2>2, CutMeaning
<1> QED
  BY <1>5, <1>6, <1>10 DEF p

(* strncmp() with a prefix compares token by token.                        *)
LEMMA PrefixOccurs ==
  ASSUME NEW f \in Path, NEW p \in Path, p # << >>
  PROVE  IsPrefix(p, f) <=> Len(p) <= Len(f) /\ \A k \in 1..Len(p) : f[k] = p[k]
<1>1. SubSeq(p, 1, Len(p)) = p /\ Len(p) \in Nat /\ Len(f) \in Nat
  BY DEF Path
<1>2. ASSUME Len(p) <= Len(f)
      PROVE  SubSeq(f, 1, Len(p)) = p <=> \A k \in 1..Len(p) : f[k] = p[k]
  <2>1. 1 \in 1..(Len(f) + 1 - Len(p)) /\ 1 + Len(p) - 1 = Len(p)
    BY <1>1, <1>2
  <2>2. SubSeq(f, 1, Len(p)) = p <=> \A k \in 1..Len(p) : f[1 + k - 1] = p[k]
    BY <2>1, OccursAtIs DEF OccursAt
  <2>3. \A k \in 1..Len(p) : 1 + k - 1 = k
    BY <1>1
  <2> QED
    BY <2>2, <2>3
<1> QED
  BY <1>1, <1>2 DEF IsPrefix

(* What strncmp() finds at the front, told by the tokens.                  *)
LEMMA PrefixIs ==
  /\ \A f \in Path : IsPrefix(<<Dot, Slash>>, f) <=> ~NoLead(f)
  /\ \A f \in Path : IsPrefix(<<Dot, Dot, Slash>>, f) <=> ~NoUp(f)
<1> SUFFICES ASSUME NEW f \in Path
             PROVE  /\ IsPrefix(<<Dot, Slash>>, f) <=> ~NoLead(f)
                    /\ IsPrefix(<<Dot, Dot, Slash>>, f) <=> ~NoUp(f)
  OBVIOUS
<1> DEFINE p == <<Dot, Slash>>
           q == <<Dot, Dot, Slash>>
<1>1. p \in Path /\ Len(p) = 2 /\ p[1] = Dot /\ p[2] = Slash /\ p # << >>
  BY TokenFacts DEF Path
<1>2. q \in Path /\ Len(q) = 3 /\ q[1] = Dot /\ q[2] = Dot /\ q[3] = Slash /\ q # << >>
  BY TokenFacts DEF Path
<1>3. Len(f) \in Nat
  BY DEF Path
<1> HIDE DEF p, q
<1>4. IsPrefix(p, f) <=> ~NoLead(f)
  <2>1. IsPrefix(p, f) <=> 2 <= Len(f) /\ \A k \in 1..2 : f[k] = p[k]
    <3>1. IsPrefix(p, f) <=> Len(p) <= Len(f) /\ \A k \in 1..Len(p) : f[k] = p[k]
      BY <1>1, PrefixOccurs
    <3> QED
      BY <1>1, <3>1
  <2>2. (\A k \in 1..2 : f[k] = p[k]) <=> f[1] = Dot /\ f[2] = Slash
    BY <1>1
  <2> QED
    BY <1>3, <2>1, <2>2 DEF NoLead
<1>5. IsPrefix(q, f) <=> ~NoUp(f)
  <2>1. IsPrefix(q, f) <=> 3 <= Len(f) /\ \A k \in 1..3 : f[k] = q[k]
    <3>1. IsPrefix(q, f) <=> Len(q) <= Len(f) /\ \A k \in 1..Len(q) : f[k] = q[k]
      BY <1>2, PrefixOccurs
    <3> QED
      BY <1>2, <3>1
  <2>2. (\A k \in 1..3 : f[k] = q[k]) <=> f[1] = Dot /\ f[2] = Dot /\ f[3] = Slash
    BY <1>2
  <2> QED
    BY <1>3, <2>1, <2>2 DEF NoUp
<1> QED
  BY <1>4, <1>5 DEF p, q

(* "./" at the front goes.                                                 *)
LEMMA StripDotTurn ==
  ASSUME NEW f \in Path, ~NoLead(f)
  PROVE  Clean(f, 0, 2) /\ Resolve(Cut(f, 0, 2)) = Resolve(f)
<1>1. Len(f) \in Nat /\ Len(f) >= 2 /\ f[1] = Dot /\ f[2] = Slash
  BY DEF NoLead, Path
<1>2. Clean(f, 0, 2)
  BY <1>1 DEF Clean
<1>3. SubSeq(f, 0 + 1, 2 - 1) = <<Dot>>
  <2>1. 1 \in 1..Len(f) /\ 0 + 1 = 1 /\ 2 - 1 = 1 /\ 3 - 1 = 1 + 1 /\ 1 + 1 = 2
    BY <1>1
  <2> QED
    BY <1>1, <2>1, DotWords
<1>4. << >> \in Names
  BY DEF Names
<1>5. Go(<< >>, <<Dot>>) = << >>
  <2>1. Go(<< >>, <<Dot>>) = Step(<< >>, <<Dot>>)
    BY GoWord, TokenFacts
  <2> QED
    BY <1>4, <2>1, StepFacts
<1>6. (0 = 0 => << >> = << >>) /\ (0 > 0 => << >> = Go(<< >>, SubSeq(f, 1, 0 - 1)))
  OBVIOUS
<1> QED
  BY <1>2, <1>3, <1>5, <1>6, CutMeaning

(* "../" at the front goes.                                                *)
LEMMA StripDotDotTurn ==
  ASSUME NEW f \in Path, ~NoUp(f)
  PROVE  Clean(f, 0, 3) /\ Resolve(Cut(f, 0, 3)) = Resolve(f)
<1>1. Len(f) \in Nat /\ Len(f) >= 3 /\ f[1] = Dot /\ f[2] = Dot /\ f[3] = Slash
  BY DEF NoUp, Path
<1>2. Clean(f, 0, 3)
  BY <1>1 DEF Clean
<1>3. SubSeq(f, 0 + 1, 3 - 1) = <<Dot, Dot>>
  <2>1. 1 \in 1..Len(f) /\ 0 + 1 = 1 /\ 2 - 1 = 1 /\ 3 - 1 = 1 + 1 /\ 1 + 1 = 2
    BY <1>1
  <2> QED
    BY <1>1, <2>1, DotWords
<1>4. << >> \in Names
  BY DEF Names
<1>5. Go(<< >>, <<Dot, Dot>>) = << >>
  <2>1. Go(<< >>, <<Dot, Dot>>) = Step(<< >>, <<Dot, Dot>>)
    BY GoWord, TokenFacts
  <2> QED
    BY <1>4, <2>1, StepFacts
<1>6. (0 = 0 => << >> = << >>) /\ (0 > 0 => << >> = Go(<< >>, SubSeq(f, 1, 0 - 1)))
  OBVIOUS
<1> QED
  BY <1>2, <1>3, <1>5, <1>6, CutMeaning

(* "/../" at a place, told by its tokens.                                  *)
LEMMA ParentAt ==
  ASSUME NEW f \in Path, NEW i \in 1..(Len(f) - 3)
  PROVE  OccursAt(f, Parent, i)
           <=> f[i] = Slash /\ f[i + 1] = Dot /\ f[i + 2] = Dot /\ f[i + 3] = Slash
<1>1. Parent \in Path /\ Len(Parent) = 4 /\ Parent[1] = Slash /\ Parent[2] = Dot
      /\ Parent[3] = Dot /\ Parent[4] = Slash /\ Len(f) \in Nat
  BY TokenFacts DEF Path, Parent
<1>2. i \in 1..(Len(f) + 1 - Len(Parent))
  BY <1>1
<1>3. OccursAt(f, Parent, i) <=> \A k \in 1..4 : f[i + k - 1] = Parent[k]
  BY <1>1, <1>2, OccursAtIs
<1>4. i + 1 - 1 = i /\ i + 2 - 1 = i + 1 /\ i + 3 - 1 = i + 2 /\ i + 4 - 1 = i + 3
  OBVIOUS
<1>5. (\A k \in 1..4 : f[i + k - 1] = Parent[k])
        <=> /\ f[i + 1 - 1] = Parent[1] /\ f[i + 2 - 1] = Parent[2]
            /\ f[i + 3 - 1] = Parent[3] /\ f[i + 4 - 1] = Parent[4]
  OBVIOUS
<1> QED
  BY <1>1, <1>3, <1>4, <1>5

(* What strstr() finds, told by the tokens.                                *)
LEMMA OccursIs ==
  /\ \A f \in Path : Occurs(f, <<Slash, Slash>>) <=> ~NoDouble(f)
  /\ \A f \in Path : Occurs(f, <<Slash, Dot, Slash>>) <=> ~NoDot(f)
  /\ \A f \in Path : Occurs(f, Parent) <=> ~NoParent(f)
<1>1. ASSUME NEW f \in Path, NEW p \in Path, NEW i \in 1..(Len(f) + 1 - Len(p))
      PROVE  OccursAt(f, p, i) <=> \A k \in 1..Len(p) : f[i + k - 1] = p[k]
  BY OccursAtIs
<1>2. ASSUME NEW f \in Path
      PROVE  Occurs(f, <<Slash, Slash>>) <=> ~NoDouble(f)
  <2> DEFINE p == <<Slash, Slash>>
  <2>1. p \in Path /\ Len(p) = 2 /\ p[1] = Slash /\ p[2] = Slash /\ Len(f) \in Nat
    BY TokenFacts DEF Path
  <2> HIDE DEF p
  <2>2. ASSUME NEW i \in 1..(Len(f) - 1)
        PROVE  OccursAt(f, p, i) <=> f[i] = Slash /\ f[i + 1] = Slash
    <3>0. i \in 1..(Len(f) + 1 - Len(p))
      BY <2>1
    <3>1. OccursAt(f, p, i) <=> \A k \in 1..2 : f[i + k - 1] = p[k]
      BY <1>1, <2>1, <3>0
    <3>2. i + 1 - 1 = i /\ i + 2 - 1 = i + 1
      OBVIOUS
    <3>3. (\A k \in 1..2 : f[i + k - 1] = p[k]) <=> f[i + 1 - 1] = p[1] /\ f[i + 2 - 1] = p[2]
      OBVIOUS
    <3> QED
      BY <2>1, <3>1, <3>2, <3>3
  <2>3. Len(f) + 1 - Len(p) = Len(f) - 1
    BY <2>1
  <2> QED
    BY <2>2, <2>3 DEF Occurs, NoDouble, p
<1>3. ASSUME NEW f \in Path
      PROVE  Occurs(f, <<Slash, Dot, Slash>>) <=> ~NoDot(f)
  <2> DEFINE p == <<Slash, Dot, Slash>>
  <2>1. p \in Path /\ Len(p) = 3 /\ p[1] = Slash /\ p[2] = Dot /\ p[3] = Slash /\ Len(f) \in Nat
    BY TokenFacts DEF Path
  <2> HIDE DEF p
  <2>2. ASSUME NEW i \in 1..(Len(f) - 2)
        PROVE  OccursAt(f, p, i) <=> f[i] = Slash /\ f[i + 1] = Dot /\ f[i + 2] = Slash
    <3>0. i \in 1..(Len(f) + 1 - Len(p))
      BY <2>1
    <3>1. OccursAt(f, p, i) <=> \A k \in 1..3 : f[i + k - 1] = p[k]
      BY <1>1, <2>1, <3>0
    <3>2. i + 1 - 1 = i /\ i + 2 - 1 = i + 1 /\ i + 3 - 1 = i + 2
      OBVIOUS
    <3>3. (\A k \in 1..3 : f[i + k - 1] = p[k])
            <=> f[i + 1 - 1] = p[1] /\ f[i + 2 - 1] = p[2] /\ f[i + 3 - 1] = p[3]
      OBVIOUS
    <3> QED
      BY <2>1, <3>1, <3>2, <3>3
  <2>3. Len(f) + 1 - Len(p) = Len(f) - 2
    BY <2>1
  <2> QED
    BY <2>2, <2>3 DEF Occurs, NoDot, p
<1>4. ASSUME NEW f \in Path
      PROVE  Occurs(f, Parent) <=> ~NoParent(f)
  <2>1. Len(f) + 1 - Len(Parent) = Len(f) - 3
    BY TokenFacts DEF Path
  <2> QED
    BY <2>1, ParentAt DEF Occurs, NoParent
<1> QED
  BY <1>2, <1>3, <1>4

(* The last slash before a position.                                       *)
LEMMA SlashBeforeIs ==
  ASSUME NEW f \in Path, NEW cp \in 1..(Len(f) + 1)
  PROVE  /\ SlashBefore(f, cp) \in 0..(cp - 1)
         /\ SlashBefore(f, cp) > 0 => f[SlashBefore(f, cp)] = Slash
         /\ \A k \in (SlashBefore(f, cp) + 1)..(cp - 1) : f[k] # Slash
<1> DEFINE N == {k \in 1..(cp - 1) : f[k] = Slash}
<1>1. SlashBefore(f, cp) = IF N # {} THEN Max(N) ELSE 0
  BY DEF SlashBefore, SelectLastInSubSeq
<1>2. cp - 1 \in Nat /\ N \in SUBSET (0..(cp - 1))
  BY DEF Path
<1>3. CASE N = {}
  BY <1>1, <1>2, <1>3
<1>4. CASE N # {}
  <2>1. Max(N) \in N /\ \A k \in N : k <= Max(N)
    BY <1>2, <1>4, MaxIs
  <2> DEFINE x == Max(N)
  <2>2. x \in 1..(cp - 1) /\ f[x] = Slash
    BY <2>1
  <2>3. SlashBefore(f, cp) = x
    BY <1>1, <1>4
  <2>4. \A k \in 1..(cp - 1) : f[k] = Slash => k <= x
    BY <2>1
  <2> HIDE DEF x, N
  <2>5. \A k \in (x + 1)..(cp - 1) : f[k] # Slash
    BY <1>2, <2>2, <2>4
  <2> QED
    BY <1>2, <2>2, <2>3, <2>5
<1> QED
  BY <1>3, <1>4

Normal(f) == NoDouble(f) /\ NoDot(f) /\ NoLead(f) /\ NoUp(f)

(* The first "xxx/../" goes, and nothing of the meaning with it.           *)
LEMMA ParentTurn ==
  ASSUME NEW f \in Path, Occurs(f, Parent)
  PROVE  LET cp == Occurrence(f, Parent)
             sb == SlashBefore(f, cp)
         IN /\ CutParent(f, cp) = Cut(f, sb, cp + 3) /\ Clean(f, sb, cp + 3)
            /\ Normal(f) => Resolve(CutParent(f, cp)) = Resolve(f)
<1> DEFINE cp == Occurrence(f, Parent)
           sb == SlashBefore(f, cp)
<1>1. Parent \in Path /\ Len(Parent) = 4 /\ Parent[1] = Slash /\ Parent[2] = Dot
      /\ Parent[3] = Dot /\ Parent[4] = Slash /\ Len(f) \in Nat
  BY TokenFacts DEF Path, Parent
<1>2. /\ cp \in 1..(Len(f) + 1 - Len(Parent)) /\ OccursAt(f, Parent, cp)
      /\ \A i \in 1..(Len(f) + 1 - Len(Parent)) : OccursAt(f, Parent, i) => cp <= i
  BY <1>1, OccurrenceIs
<1> HIDE DEF cp
<1>3. ASSUME NEW i \in 1..(Len(f) - 3)
      PROVE  OccursAt(f, Parent, i)
               <=> f[i] = Slash /\ f[i + 1] = Dot /\ f[i + 2] = Dot /\ f[i + 3] = Slash
  BY ParentAt
<1>4. /\ cp \in 1..(Len(f) - 3) /\ f[cp] = Slash /\ f[cp + 1] = Dot /\ f[cp + 2] = Dot
      /\ f[cp + 3] = Slash
  <2>1. cp \in 1..(Len(f) - 3)
    BY <1>1, <1>2
  <2> QED
    BY <1>2, <1>3, <2>1
<1>5. cp \in 1..Len(f) /\ cp + 2 <= Len(f) /\ cp + 3 <= Len(f)
  BY <1>1, <1>4
<1>6. /\ sb \in 0..(cp - 1) /\ (sb > 0 => f[sb] = Slash)
      /\ \A k \in (sb + 1)..(cp - 1) : f[k] # Slash
  BY <1>5, SlashBeforeIs
<1>7. CutParent(f, cp) = Cut(f, sb, cp + 3)
  BY DEF CutParent
<1> HIDE DEF sb
<1>8. Clean(f, sb, cp + 3)
  BY <1>1, <1>4, <1>5, <1>6 DEF Clean
<1>9. (sb > 0 /\ sb + 3 <= Len(f)) =>
        ~(f[sb] = Slash /\ f[sb + 1] = Dot /\ f[sb + 2] = Dot /\ f[sb + 3] = Slash)
  <2> SUFFICES ASSUME sb > 0, sb + 3 <= Len(f),
                      f[sb] = Slash, f[sb + 1] = Dot, f[sb + 2] = Dot, f[sb + 3] = Slash
               PROVE  FALSE
    OBVIOUS
  <2>1. sb \in 1..(Len(f) - 3) /\ sb \in 1..(Len(f) + 1 - Len(Parent)) /\ ~(cp <= sb)
    BY <1>1, <1>4, <1>6
  <2> QED
    BY <1>2, <1>3, <2>1
<1> DEFINE y == IF sb = 0 THEN << >> ELSE Go(<< >>, SubSeq(f, 1, sb - 1))
<1>10. y \in Names
  <2>1. << >> \in Names
    BY DEF Names
  <2>2. sb # 0 => sb \in 1..Len(f)
    BY <1>5, <1>6
  <2> QED
    BY <2>1, <2>2, BeforeType
<1>11. (sb = 0 => y = << >>) /\ (sb > 0 => y = Go(<< >>, SubSeq(f, 1, sb - 1)))
  BY <1>6
<1> HIDE DEF y
<1>12. Normal(f) => Go(y, SubSeq(f, sb + 1, cp + 2)) = y
  BY <1>4, <1>5, <1>6, <1>9, <1>10, <1>11, UpMeaning DEF Normal
<1>13. (cp + 3) - 1 = cp + 2
  BY <1>5
<1>14. Normal(f) => Resolve(Cut(f, sb, cp + 3)) = Resolve(f)
  BY <1>8, <1>11, <1>12, <1>13, CutMeaning
<1> QED
  BY <1>7, <1>8, <1>14 DEF sb, cp

(* "xxx/.." at the end: what is left is the path before the slash.         *)
LEMMA SuffixIs ==
  ASSUME NEW f \in Path
  PROVE  IsSuffix(<<Slash, Dot, Dot>>, f) <=>
           Len(f) >= 3 /\ f[Len(f) - 2] = Slash /\ f[Len(f) - 1] = Dot /\ f[Len(f)] = Dot
<1> DEFINE r == Reverse(f)
           q == Reverse(<<Slash, Dot, Dot>>)
<1>1. Len(f) \in Nat
  BY DEF Path
<1>2. r \in Path /\ Len(r) = Len(f) /\ \A k \in 1..Len(f) : r[k] = f[(Len(f) - k) + 1]
  <2>1. \A k \in 1..Len(f) : (Len(f) - k) + 1 \in 1..Len(f) /\ f[(Len(f) - k) + 1] \in Tokens
    BY DEF Path
  <2> QED
    BY <1>1, <2>1 DEF Reverse, Path
<1>3. q = <<Dot, Dot, Slash>>
  BY DEF Reverse
<1>4. IsPrefix(<<Dot, Dot, Slash>>, r) <=> ~NoUp(r)
  BY <1>2, PrefixIs
<1> HIDE DEF r, q
<1>5. ASSUME Len(f) >= 3
      PROVE  r[1] = f[Len(f)] /\ r[2] = f[Len(f) - 1] /\ r[3] = f[Len(f) - 2]
  <2>1. 1 \in 1..Len(f) /\ 2 \in 1..Len(f) /\ 3 \in 1..Len(f)
        /\ (Len(f) - 1) + 1 = Len(f) /\ (Len(f) - 2) + 1 = Len(f) - 1
        /\ (Len(f) - 3) + 1 = Len(f) - 2
    BY <1>1, <1>5
  <2>2. /\ r[1] = f[(Len(f) - 1) + 1] /\ r[2] = f[(Len(f) - 2) + 1]
        /\ r[3] = f[(Len(f) - 3) + 1]
    BY <1>2, <2>1
  <2> QED
    BY <2>1, <2>2
<1>6. IsSuffix(<<Slash, Dot, Dot>>, f) <=> IsPrefix(q, r)
  BY DEF IsSuffix, q, r
<1>7. NoUp(r) <=> ~(Len(f) >= 3 /\ r[1] = Dot /\ r[2] = Dot /\ r[3] = Slash)
  BY <1>2 DEF NoUp
<1> QED
  BY <1>3, <1>4, <1>5, <1>6, <1>7

(* The beginning of a path has no detour that the path has not.            *)
LEMMA PrefixKeeps ==
  ASSUME NEW f \in Path, NEW n \in 0..Len(f), Normal(f), NoParent(f)
  PROVE  /\ SubSeq(f, 1, n) \in Path /\ Len(SubSeq(f, 1, n)) = n
         /\ Normal(SubSeq(f, 1, n)) /\ NoParent(SubSeq(f, 1, n))
<1> DEFINE g == SubSeq(f, 1, n)
<1>1. Len(f) \in Nat /\ n \in Nat /\ n <= Len(f)
  BY DEF Path
<1>2. g \in Path /\ Len(g) = n /\ \A k \in 1..n : g[k] = f[k]
  BY <1>1 DEF Path
<1> HIDE DEF g
<1>3. NoDouble(g)
  BY <1>1, <1>2 DEF Normal, NoDouble
<1>4. NoDot(g)
  BY <1>1, <1>2 DEF Normal, NoDot
<1>5. NoLead(g) /\ NoUp(g)
  BY <1>1, <1>2 DEF Normal, NoLead, NoUp
<1>6. NoParent(g)
  BY <1>1, <1>2 DEF NoParent
<1> QED
  BY <1>2, <1>3, <1>4, <1>5, <1>6 DEF g, Normal

(* So does "xxx/.." at the end.                                            *)
LEMMA LastTurn ==
  ASSUME NEW f \in Path, Normal(f), NoParent(f), Len(f) > 3,
         IsSuffix(<<Slash, Dot, Dot>>, f), SlashBefore(f, Len(f) - 2) > 0
  PROVE  LET g == SubSeq(f, 1, SlashBefore(f, Len(f) - 2) - 1)
         IN /\ g \in Path /\ Normal(g) /\ NoParent(g) /\ Len(g) < Len(f)
            /\ Resolve(g) = Resolve(f)
<1> DEFINE cp == Len(f) - 2
           sb == SlashBefore(f, cp)
           g == SubSeq(f, 1, sb - 1)
<1>1. Len(f) \in Nat /\ cp \in 1..Len(f) /\ cp + 2 = Len(f) /\ cp + 1 = Len(f) - 1
  BY DEF Path
<1>2. f[cp] = Slash /\ f[cp + 1] = Dot /\ f[cp + 2] = Dot
  BY <1>1, SuffixIs
<1>3. /\ sb \in 0..(cp - 1) /\ sb > 0 /\ f[sb] = Slash
      /\ \A k \in (sb + 1)..(cp - 1) : f[k] # Slash
  BY <1>1, SlashBeforeIs
<1>4. /\ sb \in 1..Len(f) /\ sb - 1 \in 0..Len(f) /\ sb - 1 < Len(f) /\ sb \in 0..(cp - 1)
      /\ sb - 1 \in Nat
  BY <1>1, <1>3
<1>5. g \in Path /\ Len(g) = sb - 1 /\ Normal(g) /\ NoParent(g)
  BY <1>4, PrefixKeeps
<1>6. f = g \o <<Slash>> \o SubSeq(f, sb + 1, cp + 2)
  BY <1>1, <1>3, <1>4, SplitPath
<1>7. SubSeq(f, sb + 1, cp + 2) \in Path
  <2>1. sb + 1 \in Nat \ {0} /\ cp + 2 \in Nat /\ cp + 2 <= Len(f)
    BY <1>1, <1>4
  <2> QED
    BY <2>1, SubPath
<1> DEFINE y == Go(<< >>, g)
<1>8. y \in Names
  BY <1>4, BeforeType
<1> HIDE DEF sb, cp, g, y
<1>9. Go(y, SubSeq(f, sb + 1, cp + 2)) = y
  <2>1. ~(sb + 3 <= Len(f) /\ f[sb] = Slash /\ f[sb + 1] = Dot /\ f[sb + 2] = Dot /\ f[sb + 3] = Slash)
    BY <1>1, <1>4 DEF NoParent
  <2>2. /\ cp \in 1..Len(f) /\ sb \in 0..(cp - 1) /\ cp + 2 <= Len(f) /\ ~(sb = 0)
    BY <1>1, <1>3
  <2>3. NoDouble(f) /\ NoDot(f) /\ NoLead(f) /\ NoUp(f)
    BY DEF Normal
  <2> QED
    BY <1>2, <1>3, <1>8, <2>1, <2>2, <2>3, UpMeaning
<1> DEFINE w == SubSeq(f, sb + 1, cp + 2)
<1>10. Go(<< >>, g \o <<Slash>> \o w) = Go(Go(<< >>, g), w)
  BY <1>5, <1>7, GoSlash
<1>11. Resolve(g) = Resolve(f)
  <2>1. f = g \o <<Slash>> \o w /\ Go(y, w) = y
    BY <1>6, <1>9
  <2> HIDE DEF w
  <2>2. Go(<< >>, f) = Go(Go(<< >>, g), w)
    BY <1>10, <2>1
  <2> QED
    BY <2>1, <2>2, ResolveIs DEF y
<1> QED
  BY <1>4, <1>5, <1>11 DEF g, sb, cp

-----------------------------------------------------------------------------
(* The loops.                                                              *)

(* The function that runs a loop and what it keeps.                        *)
LEMMA CollapseRuns ==
  LET T == {f \in Path : Occurs(f, <<Slash, Slash>>)}
      c == [f \in T |-> CutBehind(f, <<Slash, Slash>>, 1, 1)]
      m == [f \in Path |-> Len(f)]
  IN Turns(Path, T, c, m) /\ Loop(Path, T, c, Collapse)
<1> DEFINE T == {f \in Path : Occurs(f, <<Slash, Slash>>)}
           c == [f \in T |-> CutBehind(f, <<Slash, Slash>>, 1, 1)]
           m == [f \in Path |-> Len(f)]
<1>1. ASSUME NEW f \in T
      PROVE  c[f] \in Path /\ Len(c[f]) < Len(f)
  <2>1. PICK i, j : CutBehind(f, <<Slash, Slash>>, 1, 1) = Cut(f, i, j) /\ Clean(f, i, j)
    BY CollapseTurn
  <2>2. Cut(f, i, j) \in Path /\ Len(Cut(f, i, j)) < Len(f)
    BY <2>1, CleanCut
  <2> QED
    BY <2>1, <2>2
<1>2. Turns(Path, T, c, m)
  <2>1. T \subseteq Path /\ \A x \in Path : m[x] = Len(x) /\ Len(x) \in Nat
    BY DEF Path
  <2> HIDE DEF T, c, m
  <2> QED
    BY <1>1, <2>1 DEF Turns
<1>3. PICK g : Loop(Path, T, c, g)
  BY <1>2, LoopExists
<1>4. g = [f \in Path |-> IF Occurs(f, <<Slash, Slash>>)
                          THEN g[CutBehind(f, <<Slash, Slash>>, 1, 1)] ELSE f]
  BY <1>3 DEF Loop
<1>5. Collapse = [f \in Path |-> IF Occurs(f, <<Slash, Slash>>)
                          THEN Collapse[CutBehind(f, <<Slash, Slash>>, 1, 1)] ELSE f]
  BY <1>4 DEF Collapse, Path
<1>6. Loop(Path, T, c, Collapse)
  BY <1>5 DEF Loop
<1> QED
  BY <1>2, <1>6

LEMMA StripDotRuns ==
  LET T == {f \in Path : IsPrefix(<<Dot, Slash>>, f)}
      c == [f \in T |-> Cut(f, 0, 2)]
      m == [f \in Path |-> Len(f)]
  IN Turns(Path, T, c, m) /\ Loop(Path, T, c, StripDot)
<1> DEFINE T == {f \in Path : IsPrefix(<<Dot, Slash>>, f)}
           c == [f \in T |-> Cut(f, 0, 2)]
           m == [f \in Path |-> Len(f)]
<1>1. ASSUME NEW f \in T
      PROVE  c[f] \in Path /\ Len(c[f]) < Len(f)
  <2>1. Clean(f, 0, 2)
    BY PrefixIs, StripDotTurn
  <2>2. Cut(f, 0, 2) \in Path /\ Len(Cut(f, 0, 2)) < Len(f)
    BY <2>1, CleanCut
  <2> QED
    BY <2>2
<1>2. Turns(Path, T, c, m)
  <2>1. T \subseteq Path /\ \A x \in Path : m[x] = Len(x) /\ Len(x) \in Nat
    BY DEF Path
  <2> HIDE DEF T, c, m
  <2> QED
    BY <1>1, <2>1 DEF Turns
<1>3. PICK g : Loop(Path, T, c, g)
  BY <1>2, LoopExists
<1>4. g = [f \in Path |-> IF IsPrefix(<<Dot, Slash>>, f) THEN g[Cut(f, 0, 2)] ELSE f]
  BY <1>3 DEF Loop
<1>5. StripDot = [f \in Path |-> IF IsPrefix(<<Dot, Slash>>, f)
                                 THEN StripDot[Cut(f, 0, 2)] ELSE f]
  BY <1>4 DEF StripDot, Path
<1>6. Loop(Path, T, c, StripDot)
  BY <1>5 DEF Loop
<1> QED
  BY <1>2, <1>6

LEMMA ElideDotsRuns ==
  LET T == {f \in Path : Occurs(f, <<Slash, Dot, Slash>>)}
      c == [f \in T |-> CutBehind(f, <<Slash, Dot, Slash>>, 0, 2)]
      m == [f \in Path |-> Len(f)]
  IN Turns(Path, T, c, m) /\ Loop(Path, T, c, ElideDots)
<1> DEFINE T == {f \in Path : Occurs(f, <<Slash, Dot, Slash>>)}
           c == [f \in T |-> CutBehind(f, <<Slash, Dot, Slash>>, 0, 2)]
           m == [f \in Path |-> Len(f)]
<1>1. ASSUME NEW f \in T
      PROVE  c[f] \in Path /\ Len(c[f]) < Len(f)
  <2>1. PICK i, j : CutBehind(f, <<Slash, Dot, Slash>>, 0, 2) = Cut(f, i, j) /\ Clean(f, i, j)
    BY ElideDotsTurn
  <2>2. Cut(f, i, j) \in Path /\ Len(Cut(f, i, j)) < Len(f)
    BY <2>1, CleanCut
  <2> QED
    BY <2>1, <2>2
<1>2. Turns(Path, T, c, m)
  <2>1. T \subseteq Path /\ \A x \in Path : m[x] = Len(x) /\ Len(x) \in Nat
    BY DEF Path
  <2> HIDE DEF T, c, m
  <2> QED
    BY <1>1, <2>1 DEF Turns
<1>3. PICK g : Loop(Path, T, c, g)
  BY <1>2, LoopExists
<1>4. g = [f \in Path |-> IF Occurs(f, <<Slash, Dot, Slash>>)
                          THEN g[CutBehind(f, <<Slash, Dot, Slash>>, 0, 2)] ELSE f]
  BY <1>3 DEF Loop
<1>5. ElideDots = [f \in Path |-> IF Occurs(f, <<Slash, Dot, Slash>>)
                          THEN ElideDots[CutBehind(f, <<Slash, Dot, Slash>>, 0, 2)] ELSE f]
  BY <1>4 DEF ElideDots, Path
<1>6. Loop(Path, T, c, ElideDots)
  BY <1>5 DEF Loop
<1> QED
  BY <1>2, <1>6

LEMMA StripDotDotRuns ==
  LET T == {f \in Path : IsPrefix(<<Dot, Dot, Slash>>, f)}
      c == [f \in T |-> Cut(f, 0, 3)]
      m == [f \in Path |-> Len(f)]
  IN Turns(Path, T, c, m) /\ Loop(Path, T, c, StripDotDot)
<1> DEFINE T == {f \in Path : IsPrefix(<<Dot, Dot, Slash>>, f)}
           c == [f \in T |-> Cut(f, 0, 3)]
           m == [f \in Path |-> Len(f)]
<1>1. ASSUME NEW f \in T
      PROVE  c[f] \in Path /\ Len(c[f]) < Len(f)
  <2>1. Clean(f, 0, 3)
    BY PrefixIs, StripDotDotTurn
  <2>2. Cut(f, 0, 3) \in Path /\ Len(Cut(f, 0, 3)) < Len(f)
    BY <2>1, CleanCut
  <2> QED
    BY <2>2
<1>2. Turns(Path, T, c, m)
  <2>1. T \subseteq Path /\ \A x \in Path : m[x] = Len(x) /\ Len(x) \in Nat
    BY DEF Path
  <2> HIDE DEF T, c, m
  <2> QED
    BY <1>1, <2>1 DEF Turns
<1>3. PICK g : Loop(Path, T, c, g)
  BY <1>2, LoopExists
<1>4. g = [f \in Path |-> IF IsPrefix(<<Dot, Dot, Slash>>, f) THEN g[Cut(f, 0, 3)] ELSE f]
  BY <1>3 DEF Loop
<1>5. StripDotDot = [f \in Path |-> IF IsPrefix(<<Dot, Dot, Slash>>, f)
                                    THEN StripDotDot[Cut(f, 0, 3)] ELSE f]
  BY <1>4 DEF StripDotDot, Path
<1>6. Loop(Path, T, c, StripDotDot)
  BY <1>5 DEF Loop
<1> QED
  BY <1>2, <1>6

(* What each loop leaves: the meaning of the path, and one kind of         *)
(* detour less.                                                            *)
LEMMA CollapseKeeps ==
  ASSUME NEW x \in Path
  PROVE  /\ Collapse[x] \in Path /\ Resolve(Collapse[x]) = Resolve(x)
         /\ NoDouble(Collapse[x])
<1> DEFINE T == {f \in Path : Occurs(f, <<Slash, Slash>>)}
           c == [f \in T |-> CutBehind(f, <<Slash, Slash>>, 1, 1)]
           m == [f \in Path |-> Len(f)]
           J == {f \in Path : Resolve(f) = Resolve(x)}
<1>1. Turns(Path, T, c, m) /\ Loop(Path, T, c, Collapse)
  BY CollapseRuns
<1>2. ASSUME NEW f \in J \cap T
      PROVE  c[f] \in J
  <2>1. PICK i, j : /\ CutBehind(f, <<Slash, Slash>>, 1, 1) = Cut(f, i, j)
                    /\ Clean(f, i, j) /\ Resolve(Cut(f, i, j)) = Resolve(f)
    BY CollapseTurn
  <2>2. Cut(f, i, j) \in Path
    BY <2>1, CleanCut
  <2> QED
    BY <2>1, <2>2
<1>3. x \in J /\ J \in SUBSET Path
  OBVIOUS
<1> HIDE DEF T, c, m, J
<1>4. Collapse[x] \in J \ T
  BY <1>1, <1>2, <1>3, LoopKeeps
<1> QED
  BY <1>4, OccursIs DEF J, T

(* Then "./" at the front is gone, ...                                     *)
LEMMA StripDotKeeps ==
  ASSUME NEW x \in Path, NoDouble(x)
  PROVE  /\ StripDot[x] \in Path /\ Resolve(StripDot[x]) = Resolve(x)
         /\ NoDouble(StripDot[x]) /\ NoLead(StripDot[x])
<1> DEFINE T == {f \in Path : IsPrefix(<<Dot, Slash>>, f)}
           c == [f \in T |-> Cut(f, 0, 2)]
           m == [f \in Path |-> Len(f)]
           J == {f \in Path : Resolve(f) = Resolve(x) /\ NoDouble(f)}
<1>1. Turns(Path, T, c, m) /\ Loop(Path, T, c, StripDot)
  BY StripDotRuns
<1>2. ASSUME NEW f \in J \cap T
      PROVE  c[f] \in J
  <2>1. Clean(f, 0, 2) /\ Resolve(Cut(f, 0, 2)) = Resolve(f)
    BY PrefixIs, StripDotTurn
  <2>2. Cut(f, 0, 2) \in Path /\ NoDouble(Cut(f, 0, 2))
    BY <2>1, CleanCut, CutNoDouble
  <2> QED
    BY <2>1, <2>2
<1>3. x \in J /\ J \in SUBSET Path
  OBVIOUS
<1> HIDE DEF T, c, m, J
<1>4. StripDot[x] \in J \ T
  BY <1>1, <1>2, <1>3, LoopKeeps
<1> QED
  BY <1>4, PrefixIs DEF J, T

(* ... "/./" everywhere, ...                                               *)
LEMMA ElideDotsKeeps ==
  ASSUME NEW x \in Path, NoDouble(x), NoLead(x)
  PROVE  /\ ElideDots[x] \in Path /\ Resolve(ElideDots[x]) = Resolve(x)
         /\ NoDouble(ElideDots[x]) /\ NoLead(ElideDots[x]) /\ NoDot(ElideDots[x])
<1> DEFINE T == {f \in Path : Occurs(f, <<Slash, Dot, Slash>>)}
           c == [f \in T |-> CutBehind(f, <<Slash, Dot, Slash>>, 0, 2)]
           m == [f \in Path |-> Len(f)]
           J == {f \in Path : Resolve(f) = Resolve(x) /\ NoDouble(f) /\ NoLead(f)}
<1>1. Turns(Path, T, c, m) /\ Loop(Path, T, c, ElideDots)
  BY ElideDotsRuns
<1>2. ASSUME NEW f \in J \cap T
      PROVE  c[f] \in J
  <2>1. PICK i, j : /\ CutBehind(f, <<Slash, Dot, Slash>>, 0, 2) = Cut(f, i, j) /\ i > 0
                    /\ Clean(f, i, j) /\ Resolve(Cut(f, i, j)) = Resolve(f)
    BY ElideDotsTurn
  <2>2. Cut(f, i, j) \in Path /\ NoDouble(Cut(f, i, j)) /\ NoLead(Cut(f, i, j))
    BY <2>1, CleanCut, CutNoDouble, CutNoLead
  <2> QED
    BY <2>1, <2>2
<1>3. x \in J /\ J \in SUBSET Path
  OBVIOUS
<1> HIDE DEF T, c, m, J
<1>4. ElideDots[x] \in J \ T
  BY <1>1, <1>2, <1>3, LoopKeeps
<1> QED
  BY <1>4, OccursIs DEF J, T

(* StripDotDot makes no name longer.                                       *)
LEMMA StripDotDotShorter ==
  ASSUME NEW x \in Path
  PROVE  StripDotDot[x] \in Path /\ Len(StripDotDot[x]) <= Len(x)
<1> DEFINE T == {f \in Path : IsPrefix(<<Dot, Dot, Slash>>, f)}
           c == [f \in T |-> Cut(f, 0, 3)]
           m == [f \in Path |-> Len(f)]
           J == {f \in Path : Len(f) <= Len(x)}
<1>1. Turns(Path, T, c, m) /\ Loop(Path, T, c, StripDotDot)
  BY StripDotDotRuns
<1>2. ASSUME NEW f \in J \cap T
      PROVE  c[f] \in J
  <2>1. c[f] \in Path /\ Len(c[f]) < Len(f)
    BY <1>1 DEF Turns
  <2>2. Len(f) <= Len(x) /\ Len(f) \in Nat /\ Len(x) \in Nat /\ Len(c[f]) \in Nat
    BY <2>1 DEF Path
  <2> QED
    BY <2>1, <2>2
<1>3. x \in J /\ J \in SUBSET Path
  BY DEF Path
<1> HIDE DEF T, c, m, J
<1>4. StripDotDot[x] \in J \ T
  BY <1>1, <1>2, <1>3, LoopKeeps
<1> QED
  BY <1>4 DEF J, T

(* ... "../" at the front, ...                                             *)
LEMMA StripDotDotKeeps ==
  ASSUME NEW x \in Path, NoDouble(x), NoLead(x), NoDot(x)
  PROVE  /\ StripDotDot[x] \in Path /\ Resolve(StripDotDot[x]) = Resolve(x)
         /\ Normal(StripDotDot[x])
<1> DEFINE T == {f \in Path : IsPrefix(<<Dot, Dot, Slash>>, f)}
           c == [f \in T |-> Cut(f, 0, 3)]
           m == [f \in Path |-> Len(f)]
           J == {f \in Path : Resolve(f) = Resolve(x) /\ NoDouble(f) /\ NoLead(f) /\ NoDot(f)}
<1>1. Turns(Path, T, c, m) /\ Loop(Path, T, c, StripDotDot)
  BY StripDotDotRuns
<1>2. ASSUME NEW f \in J \cap T
      PROVE  c[f] \in J
  <2>1. Clean(f, 0, 3) /\ Resolve(Cut(f, 0, 3)) = Resolve(f)
    BY PrefixIs, StripDotDotTurn
  <2>2. /\ Cut(f, 0, 3) \in Path /\ NoDouble(Cut(f, 0, 3)) /\ NoLead(Cut(f, 0, 3))
        /\ NoDot(Cut(f, 0, 3))
    BY <2>1, CleanCut, CutNoDouble, CutNoLead, CutNoDot
  <2> QED
    BY <2>1, <2>2
<1>3. x \in J /\ J \in SUBSET Path
  OBVIOUS
<1> HIDE DEF T, c, m, J
<1>4. StripDotDot[x] \in J \ T
  BY <1>1, <1>2, <1>3, LoopKeeps
<1> QED
  BY <1>4, PrefixIs DEF J, T, Normal

(* Each turn of the last two loops makes the name shorter, too.            *)
LEMMA ElideParentsRuns ==
  LET T == {f \in Path : Occurs(f, Parent)}
      c == [f \in T |-> StripDotDot[CutParent(f, Occurrence(f, Parent))]]
      m == [f \in Path |-> Len(f)]
  IN Turns(Path, T, c, m) /\ Loop(Path, T, c, ElideParents)
<1> DEFINE T == {f \in Path : Occurs(f, Parent)}
           c == [f \in T |-> StripDotDot[CutParent(f, Occurrence(f, Parent))]]
           m == [f \in Path |-> Len(f)]
<1>1. ASSUME NEW f \in T
      PROVE  c[f] \in Path /\ Len(c[f]) < Len(f)
  <2> DEFINE g == CutParent(f, Occurrence(f, Parent))
  <2>1. PICK i, j : g = Cut(f, i, j) /\ Clean(f, i, j)
    BY ParentTurn
  <2>2. g \in Path /\ Len(g) < Len(f)
    BY <2>1, CleanCut
  <2>3. c[f] = StripDotDot[g]
    OBVIOUS
  <2> HIDE DEF g, c
  <2>4. StripDotDot[g] \in Path /\ Len(StripDotDot[g]) <= Len(g)
    BY <2>2, StripDotDotShorter
  <2>5. Len(g) \in Nat /\ Len(f) \in Nat /\ Len(StripDotDot[g]) \in Nat
    BY <2>2, <2>4 DEF Path
  <2> QED
    BY <2>2, <2>3, <2>4, <2>5
<1>2. Turns(Path, T, c, m)
  <2>1. T \subseteq Path /\ \A x \in Path : m[x] = Len(x) /\ Len(x) \in Nat
    BY DEF Path
  <2> HIDE DEF T, c, m
  <2> QED
    BY <1>1, <2>1 DEF Turns
<1>3. PICK g : Loop(Path, T, c, g)
  BY <1>2, LoopExists
<1>4. g = [f \in Path |-> IF Occurs(f, Parent)
             THEN g[StripDotDot[CutParent(f, Occurrence(f, Parent))]] ELSE f]
  BY <1>3 DEF Loop
<1>5. ElideParents = [f \in Path |-> IF Occurs(f, Parent)
             THEN ElideParents[StripDotDot[CutParent(f, Occurrence(f, Parent))]] ELSE f]
  BY <1>4 DEF ElideParents, Path
<1>6. Loop(Path, T, c, ElideParents)
  BY <1>5 DEF Loop
<1> QED
  BY <1>2, <1>6

(* ... and "/../" everywhere.                                              *)
LEMMA ElideParentsKeeps ==
  ASSUME NEW x \in Path, Normal(x)
  PROVE  /\ ElideParents[x] \in Path /\ Resolve(ElideParents[x]) = Resolve(x)
         /\ Normal(ElideParents[x]) /\ NoParent(ElideParents[x])
<1> DEFINE T == {f \in Path : Occurs(f, Parent)}
           c == [f \in T |-> StripDotDot[CutParent(f, Occurrence(f, Parent))]]
           m == [f \in Path |-> Len(f)]
           J == {f \in Path : Resolve(f) = Resolve(x) /\ Normal(f)}
<1>1. Turns(Path, T, c, m) /\ Loop(Path, T, c, ElideParents)
  BY ElideParentsRuns
<1>2. ASSUME NEW f \in J \cap T
      PROVE  c[f] \in J
  <2> DEFINE g == CutParent(f, Occurrence(f, Parent))
  <2>1. PICK i, j : g = Cut(f, i, j) /\ Clean(f, i, j) /\ Resolve(g) = Resolve(f)
    BY ParentTurn
  <2>2. g \in Path /\ NoDouble(g) /\ NoLead(g) /\ NoDot(g)
    BY <2>1, CleanCut, CutNoDouble, CutNoLead, CutNoDot DEF Normal
  <2>3. c[f] = StripDotDot[g]
    OBVIOUS
  <2> HIDE DEF g, c
  <2>4. /\ StripDotDot[g] \in Path /\ Resolve(StripDotDot[g]) = Resolve(g)
        /\ Normal(StripDotDot[g])
    BY <2>2, StripDotDotKeeps
  <2> QED
    BY <2>1, <2>3, <2>4
<1>3. x \in J /\ J \in SUBSET Path
  OBVIOUS
<1> HIDE DEF T, c, m, J
<1>4. ElideParents[x] \in J \ T
  BY <1>1, <1>2, <1>3, LoopKeeps
<1> QED
  BY <1>4, OccursIs DEF J, T

LEMMA ElideLastRuns ==
  LET T == {f \in Path : /\ Len(f) > 3 /\ IsSuffix(<<Slash, Dot, Dot>>, f)
                         /\ SlashBefore(f, Len(f) - 2) > 0}
      c == [f \in T |-> SubSeq(f, 1, SlashBefore(f, Len(f) - 2) - 1)]
      m == [f \in Path |-> Len(f)]
  IN Turns(Path, T, c, m) /\ Loop(Path, T, c, ElideLast)
<1> DEFINE T == {f \in Path : /\ Len(f) > 3 /\ IsSuffix(<<Slash, Dot, Dot>>, f)
                              /\ SlashBefore(f, Len(f) - 2) > 0}
           c == [f \in T |-> SubSeq(f, 1, SlashBefore(f, Len(f) - 2) - 1)]
           m == [f \in Path |-> Len(f)]
<1>1. ASSUME NEW f \in T
      PROVE  c[f] \in Path /\ Len(c[f]) < Len(f)
  <2> DEFINE cp == Len(f) - 2
             sb == SlashBefore(f, cp)
  <2>1. Len(f) \in Nat /\ cp \in 1..Len(f) /\ sb > 0
    BY DEF Path
  <2>2. sb \in 0..(cp - 1)
    BY <2>1, SlashBeforeIs
  <2>3. c[f] = SubSeq(f, 1, sb - 1)
    OBVIOUS
  <2> HIDE DEF c, sb
  <2>4. sb - 1 \in Nat /\ 1 \in Nat \ {0} /\ sb - 1 < Len(f) /\ sb - 1 <= Len(f)
    BY <2>1, <2>2
  <2>5. SubSeq(f, 1, sb - 1) \in Path /\ Len(SubSeq(f, 1, sb - 1)) = sb - 1
    <3>1. /\ SubSeq(f, 1, sb - 1) \in Path
          /\ Len(SubSeq(f, 1, sb - 1)) = IF 1 <= sb - 1 THEN (sb - 1) - 1 + 1 ELSE 0
      BY <2>4, SubPath
    <3> QED
      BY <2>4, <3>1
  <2> QED
    BY <2>3, <2>4, <2>5
<1>2. Turns(Path, T, c, m)
  <2>1. T \subseteq Path /\ \A x \in Path : m[x] = Len(x) /\ Len(x) \in Nat
    BY DEF Path
  <2> HIDE DEF T, c, m
  <2> QED
    BY <1>1, <2>1 DEF Turns
<1>3. PICK g : Loop(Path, T, c, g)
  BY <1>2, LoopExists
<1>4. g = [f \in Path |-> IF /\ Len(f) > 3 /\ IsSuffix(<<Slash, Dot, Dot>>, f)
                             /\ SlashBefore(f, Len(f) - 2) > 0
             THEN g[SubSeq(f, 1, SlashBefore(f, Len(f) - 2) - 1)] ELSE f]
  BY <1>3 DEF Loop
<1>5. ElideLast = [f \in Path |-> IF /\ Len(f) > 3 /\ IsSuffix(<<Slash, Dot, Dot>>, f)
                                     /\ SlashBefore(f, Len(f) - 2) > 0
             THEN ElideLast[SubSeq(f, 1, SlashBefore(f, Len(f) - 2) - 1)] ELSE f]
  BY <1>4 DEF ElideLast, Path
<1>6. Loop(Path, T, c, ElideLast)
  BY <1>5 DEF Loop
<1> QED
  BY <1>2, <1>6

(* Nothing of that comes back.                                             *)
LEMMA ElideLastKeeps ==
  ASSUME NEW x \in Path, Normal(x), NoParent(x)
  PROVE  /\ ElideLast[x] \in Path /\ Resolve(ElideLast[x]) = Resolve(x)
         /\ Normal(ElideLast[x]) /\ NoParent(ElideLast[x])
         /\ ~(/\ Len(ElideLast[x]) > 3 /\ IsSuffix(<<Slash, Dot, Dot>>, ElideLast[x])
              /\ SlashBefore(ElideLast[x], Len(ElideLast[x]) - 2) > 0)
<1> DEFINE T == {f \in Path : /\ Len(f) > 3 /\ IsSuffix(<<Slash, Dot, Dot>>, f)
                              /\ SlashBefore(f, Len(f) - 2) > 0}
           c == [f \in T |-> SubSeq(f, 1, SlashBefore(f, Len(f) - 2) - 1)]
           m == [f \in Path |-> Len(f)]
           J == {f \in Path : Resolve(f) = Resolve(x) /\ Normal(f) /\ NoParent(f)}
<1>1. Turns(Path, T, c, m) /\ Loop(Path, T, c, ElideLast)
  BY ElideLastRuns
<1>2. ASSUME NEW f \in J \cap T
      PROVE  c[f] \in J
  <2> DEFINE g == SubSeq(f, 1, SlashBefore(f, Len(f) - 2) - 1)
  <2>1. g \in Path /\ Normal(g) /\ NoParent(g) /\ Resolve(g) = Resolve(f)
    BY LastTurn
  <2> QED
    BY <2>1
<1>3. x \in J /\ J \in SUBSET Path
  OBVIOUS
<1> HIDE DEF T, c, m, J
<1>4. ElideLast[x] \in J \ T
  BY <1>1, <1>2, <1>3, LoopKeeps
<1> QED
  BY <1>4 DEF J, T

(* de_dotdot() keeps what a path means, and leaves no empty name, no "/./"  *)
(* and no "/../" in it, nor a "./" or "../" at its beginning.               *)
THEOREM DeDotDot ==
  ASSUME NEW x \in Path
  PROVE  /\ de_dotdot(x) \in Path /\ Resolve(de_dotdot(x)) = Resolve(x)
         /\ Normal(de_dotdot(x)) /\ NoParent(de_dotdot(x))
<1> DEFINE a == Collapse[x]
           b == StripDot[a]
           d == ElideDots[b]
           e == StripDotDot[d]
           f == ElideParents[e]
<1>1. a \in Path /\ Resolve(a) = Resolve(x) /\ NoDouble(a)
  BY CollapseKeeps
<1> HIDE DEF a
<1>2. b \in Path /\ Resolve(b) = Resolve(a) /\ NoDouble(b) /\ NoLead(b)
  BY <1>1, StripDotKeeps
<1> HIDE DEF b
<1>3. d \in Path /\ Resolve(d) = Resolve(b) /\ NoDouble(d) /\ NoLead(d) /\ NoDot(d)
  BY <1>2, ElideDotsKeeps
<1> HIDE DEF d
<1>4. e \in Path /\ Resolve(e) = Resolve(d) /\ Normal(e)
  BY <1>3, StripDotDotKeeps
<1> HIDE DEF e
<1>5. f \in Path /\ Resolve(f) = Resolve(e) /\ Normal(f) /\ NoParent(f)
  BY <1>4, ElideParentsKeeps
<1> HIDE DEF f
<1>6. /\ ElideLast[f] \in Path /\ Resolve(ElideLast[f]) = Resolve(f)
      /\ Normal(ElideLast[f]) /\ NoParent(ElideLast[f])
  BY <1>5, ElideLastKeeps
<1>7. de_dotdot(x) = ElideLast[f]
  BY DEF de_dotdot, f, e, d, b, a
<1> QED
  BY <1>1, <1>2, <1>3, <1>4, <1>5, <1>6, <1>7

-----------------------------------------------------------------------------
(* How far a path climbs.                                                  *)

DepthOp(n, seg) ==
  IF n < 0 THEN n
  ELSE CASE seg = <<Dot, Dot>> -> n - 1
         [] seg \in {<< >>, <<Dot>>} -> n
         [] OTHER -> n + 1
Dp == INSTANCE FoldFacts WITH Op <- DepthOp

Deep(f) == Dp!Fold(0, Segments(f))

(* Climbs is a fold.                                                       *)
LEMMA ClimbsIs ==
  ASSUME NEW f
  PROVE  Climbs(f) <=> Deep(f) < 0
BY DEF Climbs, Deep, DepthOp, Dp!Fold, Dp!FoldLeft, Dp!MapThenFoldSet, Dp!Max,
       FoldLeft, MapThenFoldSet, Max

(* How deep a path without a slash leads, ...                              *)
LEMMA DeepWord ==
  ASSUME NEW w \in Path, \A i \in 1..Len(w) : w[i] # Slash
  PROVE  Deep(w) = DepthOp(0, w)
<1>1. Segments(w) = Append(<< >>, w)
  BY SegmentsWord
<1>2. << >> \in Seq(Path)
  OBVIOUS
<1>3. Dp!Fold(0, Append(<< >>, w)) = DepthOp(Dp!Fold(0, << >>), w)
  BY <1>2, Dp!FoldAppend
<1> QED
  BY <1>1, <1>3, Dp!FoldEmpty DEF Deep

(* ... and one with a last slash.                                          *)
LEMMA DeepSlash ==
  ASSUME NEW p \in Path, NEW w \in Path, \A i \in 1..Len(w) : w[i] # Slash
  PROVE  Deep(p \o <<Slash>> \o w) = DepthOp(Deep(p), w)
<1>1. Segments(p \o <<Slash>> \o w) = Segments(p) \o <<w>>
  BY SegmentsConcat, SegmentsWord
<1>2. Segments(p) \in Seq(Path)
  BY SegmentsType DEF Names
<1>3. Segments(p) \o <<w>> = Append(Segments(p), w)
  BY <1>2
<1>4. Dp!Fold(0, Append(Segments(p), w)) = DepthOp(Dp!Fold(0, Segments(p)), w)
  BY <1>2, Dp!FoldAppend
<1> QED
  BY <1>1, <1>3, <1>4 DEF Deep

(* The path up to n: what is behind its last slash, and what is before.    *)
LEMMA LastWord ==
  ASSUME NEW g \in Path, NEW n \in 0..Len(g)
  PROVE  \E s \in 0..n :
           LET w == SubSeq(g, s + 1, n)
           IN /\ w \in Path /\ Len(w) = n - s
              /\ \A k \in 1..(n - s) : w[k] = g[s + k] /\ w[k] # Slash
              /\ s = 0 => SubSeq(g, 1, n) = w /\ Deep(w) = DepthOp(0, w)
              /\ s > 0 => /\ g[s] = Slash /\ s - 1 \in 0..Len(g)
                          /\ Deep(SubSeq(g, 1, n)) = DepthOp(Deep(SubSeq(g, 1, s - 1)), w)
<1>1. Len(g) \in Nat /\ n \in Nat /\ n <= Len(g) /\ n + 1 \in 1..(Len(g) + 1)
  BY DEF Path
<1> DEFINE s == SlashBefore(g, n + 1)
           w == SubSeq(g, s + 1, n)
<1>2. /\ s \in 0..n /\ (s > 0 => g[s] = Slash)
      /\ \A k \in (s + 1)..n : g[k] # Slash
  <2>1. (n + 1) - 1 = n
    BY <1>1
  <2> QED
    BY <1>1, <2>1, SlashBeforeIs
<1> HIDE DEF s
<1>3. w \in Path /\ Len(w) = n - s /\ \A k \in 1..(n - s) : w[k] = g[s + k]
  <2>1. s + 1 \in Nat \ {0} /\ n - (s + 1) + 1 = n - s /\ (s + 1 <= n <=> s < n)
    BY <1>1, <1>2
  <2>2. /\ w \in Path /\ Len(w) = IF s + 1 <= n THEN n - (s + 1) + 1 ELSE 0
        /\ \A k \in 1..(n - (s + 1) + 1) : w[k] = g[(s + 1) + k - 1]
    BY <1>1, <2>1, SubPath
  <2>3. \A k \in 1..(n - s) : (s + 1) + k - 1 = s + k
    BY <1>1, <1>2
  <2> HIDE DEF w
  <2> QED
    BY <1>1, <1>2, <2>1, <2>2, <2>3
<1>4. \A k \in 1..(n - s) : w[k] # Slash
  <2>1. \A k \in 1..(n - s) : s + k \in (s + 1)..n
    BY <1>1, <1>2
  <2> QED
    BY <1>2, <1>3, <2>1
<1>5. Deep(w) = DepthOp(0, w)
  BY <1>3, <1>4, DeepWord
<1>6. s = 0 => SubSeq(g, 1, n) = w
  OBVIOUS
<1>7. ASSUME s > 0
      PROVE  s - 1 \in 0..Len(g) /\ Deep(SubSeq(g, 1, n)) = DepthOp(Deep(SubSeq(g, 1, s - 1)), w)
  <2> DEFINE p == SubSeq(g, 1, s - 1)
  <2>1. s \in 1..Len(g) /\ g[s] = Slash /\ n \in s..Len(g)
    BY <1>1, <1>2, <1>7
  <2>2. SubSeq(g, 1, n) = p \o <<Slash>> \o w
    BY <2>1, SplitAt
  <2>3. p \in Path
    BY <2>1, BeforeType
  <2> HIDE DEF p, w
  <2>4. Deep(p \o <<Slash>> \o w) = DepthOp(Deep(p), w)
    BY <1>3, <1>4, <2>3, DeepSlash
  <2>5. s - 1 \in 0..Len(g)
    BY <1>1, <2>1
  <2>6. Deep(SubSeq(g, 1, n)) = DepthOp(Deep(p), w)
    BY <2>2, <2>4
  <2> QED
    BY <2>5, <2>6 DEF p
<1> QED
  BY <1>2, <1>3, <1>4, <1>5, <1>6, <1>7

(* Behind each of its slashes a cleaned path is below the root.            *)
LEMMA DeepInside ==
  ASSUME NEW g \in Path, Normal(g), NoParent(g), ~(Len(g) >= 1 /\ g[1] = Slash)
  PROVE  \A n \in Nat : (n < Len(g) /\ g[n + 1] = Slash) =>
           Deep(SubSeq(g, 1, n)) \in Nat \ {0}
<1> DEFINE H(n) == (n < Len(g) /\ g[n + 1] = Slash) => Deep(SubSeq(g, 1, n)) \in Nat \ {0}
           P == {n \in Nat : \A k \in Nat : k < n => H(k)}
<1>1. 0 \in P
  OBVIOUS
<1>2. ASSUME NEW n \in Nat, n \in P
      PROVE  n + 1 \in P
  <2> SUFFICES ASSUME n < Len(g), g[n + 1] = Slash
               PROVE  Deep(SubSeq(g, 1, n)) \in Nat \ {0}
    <3>1. \A k \in Nat : k < n + 1 => k < n \/ k = n
      OBVIOUS
    <3> QED
      BY <1>2, <3>1
  <2>0. Len(g) \in Nat /\ n \in 0..Len(g)
    BY DEF Path
  <2>1. PICK s \in 0..n :
           LET w == SubSeq(g, s + 1, n)
           IN /\ w \in Path /\ Len(w) = n - s
              /\ \A k \in 1..(n - s) : w[k] = g[s + k] /\ w[k] # Slash
              /\ s = 0 => SubSeq(g, 1, n) = w /\ Deep(w) = DepthOp(0, w)
              /\ s > 0 => /\ g[s] = Slash /\ s - 1 \in 0..Len(g)
                          /\ Deep(SubSeq(g, 1, n)) = DepthOp(Deep(SubSeq(g, 1, s - 1)), w)
    BY <2>0, LastWord
  <2> DEFINE w == SubSeq(g, s + 1, n)
  <2>2. ASSUME w = <<Dot, Dot>>
        PROVE  n - s = 2 /\ g[s + 1] = Dot /\ g[s + 2] = Dot
    <3>1. Len(w) = 2 /\ w[1] = Dot /\ w[2] = Dot
      <4> HIDE DEF w
      <4> QED
        BY <2>2
    <3>2. n - s = 2 /\ \A k \in 1..(n - s) : w[k] = g[s + k]
      BY <2>1, <3>1
    <3> HIDE DEF w
    <3> QED
      BY <3>1, <3>2
  <2>3. CASE s = 0
    <3>1. w # << >>
      <4>1. n # 0
        BY <2>0
      <4> QED
        BY <2>1, <2>3, <4>1
    <3>2. w # <<Dot, Dot>>
      <4>1. w = <<Dot, Dot>> => n = 2 /\ g[1] = Dot /\ g[2] = Dot
        BY <2>2, <2>3
      <4>2. ~(n = 2 /\ g[1] = Dot /\ g[2] = Dot)
        BY <2>0 DEF Normal, NoUp
      <4> QED
        BY <4>1, <4>2
    <3>3. w # <<Dot>>
      <4>1. ASSUME w = <<Dot>>
            PROVE  n = 1 /\ g[1] = Dot
        <5>1. Len(w) = 1 /\ w[1] = Dot
          <6> HIDE DEF w
          <6> QED
            BY <4>1
        <5>2. n = 1 /\ \A k \in 1..n : w[k] = g[k]
          BY <2>1, <2>3, <5>1
        <5> HIDE DEF w
        <5> QED
          BY <5>1, <5>2
      <4>2. ~(n = 1 /\ g[1] = Dot)
        BY <2>0 DEF Normal, NoLead
      <4> QED
        BY <4>1, <4>2
    <3>4. Deep(SubSeq(g, 1, n)) = DepthOp(0, w)
      BY <2>1, <2>3
    <3> HIDE DEF w
    <3>5. DepthOp(0, w) = 1
      BY <3>1, <3>2, <3>3 DEF DepthOp
    <3> QED
      BY <3>4, <3>5
  <2>4. CASE s > 0
    <3>1. s \in Nat /\ s <= n /\ s - 1 \in Nat /\ s - 1 < n /\ s - 1 < Len(g) /\ (s - 1) + 1 = s
      BY <2>0, <2>4
    <3>2. g[s] = Slash /\ Deep(SubSeq(g, 1, n)) = DepthOp(Deep(SubSeq(g, 1, s - 1)), w)
      BY <2>1, <2>4
    <3>3. Deep(SubSeq(g, 1, s - 1)) \in Nat \ {0}
      <4>1. H(s - 1)
        BY <1>2, <3>1
      <4> QED
        BY <3>1, <3>2, <4>1
    <3>4. w # <<Dot, Dot>>
      <4>1. ASSUME n - s = 2, g[s + 1] = Dot, g[s + 2] = Dot
            PROVE  FALSE
        <5>1. s \in 1..(Len(g) - 3) /\ s + 3 = n + 1
          BY <2>0, <3>1, <2>4, <4>1
        <5>2. g[s + 3] = Slash
          BY <5>1
        <5> QED
          BY <3>2, <4>1, <5>1, <5>2 DEF NoParent
      <4> QED
        BY <2>2, <4>1
    <3> DEFINE z == Deep(SubSeq(g, 1, s - 1))
    <3> HIDE DEF w, z
    <3>5. z \in Nat \ {0}
      BY <3>3 DEF z
    <3>6. DepthOp(z, w) \in Nat \ {0}
      BY <3>4, <3>5 DEF DepthOp
    <3> QED
      BY <3>2, <3>6 DEF z
  <2> QED
    BY <2>0, <2>3, <2>4
<1> HIDE DEF P
<1>3. \A n \in Nat : n \in P
  BY <1>1, <1>2, Sg!NatInd
<1>4. ASSUME NEW n \in Nat
      PROVE  H(n)
  <2>1. n + 1 \in P /\ n < n + 1
    BY <1>3
  <2> QED
    BY <2>1 DEF P
<1> QED
  BY <1>4

(* A file name that is not refused never leads above the root, at none of  *)
(* its steps.                                                              *)
THEOREM StaysInside ==
  ASSUME NEW g \in Path, Normal(g), NoParent(g), ~(Len(g) >= 1 /\ g[1] = Slash), g # <<Dot, Dot>>
  PROVE  ~Climbs(g)
<1>0. Len(g) \in Nat /\ Len(g) \in 0..Len(g) /\ SubSeq(g, 1, Len(g)) = g
  BY DEF Path
<1> DEFINE n == Len(g)
<1>1. PICK s \in 0..n :
           LET w == SubSeq(g, s + 1, n)
           IN /\ w \in Path /\ Len(w) = n - s
              /\ \A k \in 1..(n - s) : w[k] = g[s + k] /\ w[k] # Slash
              /\ s = 0 => SubSeq(g, 1, n) = w /\ Deep(w) = DepthOp(0, w)
              /\ s > 0 => /\ g[s] = Slash /\ s - 1 \in 0..Len(g)
                          /\ Deep(SubSeq(g, 1, n)) = DepthOp(Deep(SubSeq(g, 1, s - 1)), w)
  BY <1>0, LastWord
<1> DEFINE w == SubSeq(g, s + 1, n)
<1>2. CASE s = 0
  <2>1. g = w /\ Deep(g) = DepthOp(0, w)
    BY <1>0, <1>1, <1>2
  <2> HIDE DEF w
  <2>2. DepthOp(0, w) \in {0, 1}
    BY <2>1 DEF DepthOp
  <2> QED
    BY <2>1, <2>2, ClimbsIs
<1>3. CASE s > 0
  <2> DEFINE z == Deep(SubSeq(g, 1, s - 1))
  <2>1. Deep(g) = DepthOp(z, w) /\ g[s] = Slash
    BY <1>0, <1>1, <1>3
  <2>2. s - 1 \in Nat /\ s - 1 < Len(g) /\ (s - 1) + 1 = s
    BY <1>0, <1>3
  <2>3. z \in Nat \ {0}
    BY <2>1, <2>2, DeepInside
  <2> HIDE DEF w, z
  <2>4. DepthOp(z, w) \in Nat
    BY <2>3 DEF DepthOp
  <2> QED
    BY <2>1, <2>4, ClimbsIs
<1> QED
  BY <1>0, <1>2, <1>3

=============================================================================
