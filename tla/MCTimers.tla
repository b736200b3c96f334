------------------------------ MODULE MCTimers ------------------------------
(* Timers with three Timer structs and two buckets.  A tick is half a     *)
(* millisecond and a second is two milliseconds: delays of 1 ms and 2 ms.  *)
EXTENDS Timers, TLC

CONSTANTS a, b, c

MCTimerIds == {a, b, c}
MCDelays == {2, 4}
MCTwoTimers == {a, b}
Symmetry == Permutations(MCTimerIds)

=============================================================================
