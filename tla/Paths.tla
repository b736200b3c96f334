------------------------------- MODULE Paths -------------------------------
(***************************************************************************)
(* The C strings of a request, as sequences of tokens, and de_dotdot() of  *)
(* libhttpd.c, which takes "//", "." and ".." out of a file name by        *)
(* repeated strstr() and ol_strcpy().  Resolve is what a path means.       *)
(***************************************************************************)
EXTENDS Integers, Sequences, SequencesExt

Slash == "/"
Dot == "."
Tokens == STRING \cup {Slash, Dot, "?", "NUL"}

-----------------------------------------------------------------------------
(* strpbrk(), strspn() and the terminating NUL.                            *)

Before(s, S) ==
  LET at == SelectInSeq(s, LAMBDA c : c \in S)
  IN IF at = 0 THEN s ELSE SubSeq(s, 1, at - 1)

From(s, S) == SubSeq(s, Len(Before(s, S)) + 1, Len(s))

TrimLeft(s, S) ==
  LET at == SelectInSeq(s, LAMBDA c : c \notin S)
  IN IF at = 0 THEN <<>> ELSE SubSeq(s, at, Len(s))

CString(s) == Before(s, {"NUL"})

-----------------------------------------------------------------------------
(* de_dotdot().                                                            *)

\* strstr(): whether p occurs in f, and where it does so first.
OccursAt(f, p, i) == SubSeq(f, i, i + Len(p) - 1) = p
Occurs(f, p) == \E i \in 1 .. Len(f) + 1 - Len(p) : OccursAt(f, p, i)
Occurrence(f, p) == Min({i \in 1 .. Len(f) + 1 - Len(p) : OccursAt(f, p, i)})

\* ol_strcpy(file + i, file + j), both counted from 0.
Cut(f, i, j) == SubSeq(f, 1, i) \o SubSeq(f, j + 1, Len(f))

\* ol_strcpy(cp, cp + n), cp being i bytes behind where p occurs first.
CutBehind(f, p, i, n) == Cut(f, Occurrence(f, p) - 1 + i, Occurrence(f, p) - 1 + i + n)

\* The last "/" before the position cp, 0 if none: the walk of cp2 downwards.
SlashBefore(f, cp) == SelectLastInSubSeq(f, 1, cp - 1, LAMBDA c : c = Slash)

\* A run of slashes goes one by one.
Collapse[f \in Seq(Tokens)] ==
  IF Occurs(f, <<Slash, Slash>>)
    THEN Collapse[CutBehind(f, <<Slash, Slash>>, 1, 1)] ELSE f

StripDot[f \in Seq(Tokens)] ==
  IF IsPrefix(<<Dot, Slash>>, f) THEN StripDot[Cut(f, 0, 2)] ELSE f

ElideDots[f \in Seq(Tokens)] ==
  IF Occurs(f, <<Slash, Dot, Slash>>)
    THEN ElideDots[CutBehind(f, <<Slash, Dot, Slash>>, 0, 2)] ELSE f

StripDotDot[f \in Seq(Tokens)] ==
  IF IsPrefix(<<Dot, Dot, Slash>>, f) THEN StripDotDot[Cut(f, 0, 3)] ELSE f

\* "xxx/../" at cp - 1, with the name before it.
Parent == <<Slash, Dot, Dot, Slash>>
CutParent(f, cp) == Cut(f, SlashBefore(f, cp), cp + 3)

ElideParents[f \in Seq(Tokens)] ==
  IF Occurs(f, Parent)
    THEN ElideParents[StripDotDot[CutParent(f, Occurrence(f, Parent))]] ELSE f

\* "xxx/.." at the end, unless it is all there is.
ElideLast[f \in Seq(Tokens)] ==
  IF Len(f) > 3 /\ IsSuffix(<<Slash, Dot, Dot>>, f) /\ SlashBefore(f, Len(f) - 2) > 0
    THEN ElideLast[SubSeq(f, 1, SlashBefore(f, Len(f) - 2) - 1)] ELSE f

\* Mutant: "/./" stays where it is.
de_dotdotKeepDots(f) == ElideLast[ElideParents[StripDotDot[StripDot[Collapse[f]]]]]

de_dotdot(f) == ElideLast[ElideParents[StripDotDot[ElideDots[StripDot[Collapse[f]]]]]]

-----------------------------------------------------------------------------
(* What a path means: the directories it goes down through from the root,  *)
(* ".." at the root staying there; and how far up it reaches when ".." is  *)
(* taken at its word.                                                      *)

Segments(f) ==
  FoldLeft(LAMBDA segs, c : IF c = Slash THEN Append(segs, <<>>)
                            ELSE [segs EXCEPT ![Len(segs)] = Append(@, c)],
           << <<>> >>, f)

Step(dirs, seg) ==
  IF seg = <<Dot, Dot>> THEN SubSeq(dirs, 1, Len(dirs) - 1)
  ELSE IF seg \in {<<>>, <<Dot>>} THEN dirs ELSE Append(dirs, seg)

Resolve(f) == FoldLeft(Step, <<>>, Segments(f))

Climbs(f) ==
  LET Depth(n, seg) ==
        IF n < 0 THEN n
        ELSE CASE seg = <<Dot, Dot>> -> n - 1
               [] seg \in {<<>>, <<Dot>>} -> n
               [] OTHER -> n + 1
  IN FoldLeft(Depth, 0, Segments(f)) < 0

=============================================================================
