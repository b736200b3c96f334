------------------------------- MODULE MCLoop -------------------------------
(* An instance of the server's main loop: its descriptor watch (Fdwatch) and  *)
(* its children, kill timers and watchdog (Signals).  The two share no       *)
(* variable and each property speaks of one of them, so a step of one is     *)
(* taken only while the other is in its initial state: the behaviours of     *)
(* each are all there, and the product of their states is not.               *)
EXTENDS Fdwatch, Signals, TLC

CONSTANTS c1, p1, p2

MCClients == {c1}
MCPids == {p1, p2}
Symmetry == Permutations(MCPids)

Init == FdInit /\ SigInit

Next ==
  \/ SigInit /\ FdNext /\ UNCHANGED sigVars
  \/ FdInit /\ SigNext /\ UNCHANGED fdVars

Spec == Init /\ [][Next]_<< fdVars, sigVars >>

\* Every variable has its type, so no index of fdwatch.c leaves its array.
TypeOK == FdTypeOK /\ SigTypeOK
=============================================================================
