------------------------------- MODULE MCMmc -------------------------------
(* Mmc with up to two users and three Maps; the files a and b collide. *)
EXTENDS Mmc, TLC

CONSTANTS u1, u2, m1, m2, m3, a, b, e, g

MCUsers == {u1, u2}
MCOneUser == {u1}
MCMaps == {m1, m2, m3}
MCTwoMaps == {m1, m2}
MCFiles == {a, b, e}
MCFullFiles == {a, b}
MCEmptyFiles == {a, e, g}

SizeOf(f) == IF f \in {a, b} THEN 1 ELSE 0
HashedTo(f) == IF f = g THEN 2 ELSE 0
MCSize == [f \in Files |-> SizeOf(f)]
MCHashOf == [f \in Files |-> HashedTo(f)]

Symmetry == Permutations(MCUsers) \cup Permutations(Maps)

=============================================================================
