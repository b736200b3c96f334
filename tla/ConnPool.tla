------------------------------ MODULE ConnPool ------------------------------
(***************************************************************************)
(* What the connection engine of the HTTP server promises, without its     *)
(* data structures: at most one client per slot, a server that drains      *)
(* accepts nobody, and it ends either drained or because it was told to    *)
(* quit at a moment when it had no connection, or is aborted by its        *)
(* watchdog, which can only happen while it has one.                       *)
(***************************************************************************)
CONSTANT Slots

VARIABLES active,  \* the slots that hold a connection
          mode     \* "open", "quitting", "draining", "exited" or "aborted"

poolVars == << active, mode >>

Init == active = {} /\ mode = "open"

Accept(c) ==
  /\ mode \in {"open", "quitting"}
  /\ c \notin active
  /\ active' = active \cup {c}
  /\ UNCHANGED mode

Close(c) ==
  /\ mode \notin {"exited", "aborted"}
  /\ c \in active
  /\ active' = active \ {c}
  /\ UNCHANGED mode

Drain ==
  /\ mode = "open"
  /\ mode' = "draining"
  /\ UNCHANGED active

Quit ==
  /\ mode \in {"open", "draining"}
  /\ active = {}
  /\ mode' = "quitting"
  /\ UNCHANGED active

Exit ==
  /\ mode = "quitting" \/ (mode = "draining" /\ active = {})
  /\ mode' = "exited"
  /\ UNCHANGED active

Abort ==
  /\ mode \notin {"exited", "aborted"} /\ active # {}
  /\ mode' = "aborted"
  /\ UNCHANGED active

Next == (\E c \in Slots : Accept(c) \/ Close(c)) \/ Drain \/ Quit \/ Exit \/ Abort

Safety == Init /\ [][Next]_poolVars

=============================================================================
