------------------------------ MODULE MCThttpd ------------------------------
(* Thttpd with two connection slots and two listen sockets.                *)
EXTENDS Thttpd, TLC

CONSTANTS fd1, fd2, t1, t2

MCFds == {fd1, fd2}
MCTimerIds == {t1, t2}
MCWakeDelays == {1}
Symmetry == Permutations(MCFds) \cup Permutations(MCTimerIds)

=============================================================================
