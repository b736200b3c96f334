----------------------------- MODULE TimerQueue -----------------------------
(***************************************************************************)
(* What the timer package promises its clients: the procedure of a timer   *)
(* runs when the time of the timer has come, one procedure at a time, and  *)
(* a timer that is not scheduled, or was cancelled, never runs.            *)
(***************************************************************************)
EXTENDS Naturals

CONSTANTS Timers, None

VARIABLES pending,  \* the scheduled timers whose procedure is not running
          at,       \* when each of them is due
          firing,   \* the timer whose procedure is running
          clock

queueVars == << pending, at, firing, clock >>

Init ==
  /\ pending = {} /\ firing = None /\ clock = 0
  /\ at = [t \in Timers |-> 0]

(* The other timers keep the time they are due at.                         *)
OthersKept(t) == \A u \in pending \ {t} : at'[u] = at[u]

Schedule(t) ==
  /\ t \notin pending
  /\ pending' = pending \cup {t}
  /\ OthersKept(t)
  /\ UNCHANGED << firing, clock >>

Reset(t) ==
  /\ t \in pending
  /\ OthersKept(t)
  /\ UNCHANGED << pending, firing, clock >>

Cancel(t) ==
  /\ t \in pending
  /\ pending' = pending \ {t}
  /\ OthersKept(t)
  /\ UNCHANGED << firing, clock >>

CancelAll ==
  /\ pending' = {}
  /\ UNCHANGED << firing, clock >>

Fire(t) ==
  /\ firing = None
  /\ t \in pending /\ at[t] <= clock
  /\ firing' = t
  /\ pending' = pending \ {t}
  /\ UNCHANGED << at, clock >>

(* The procedure returns; its timer is scheduled again if it is periodic.  *)
Return ==
  /\ firing # None
  /\ firing' = None
  /\ \/ pending' = pending
     \/ pending' = pending \cup {firing} /\ at'[firing] > at[firing]
  /\ OthersKept(firing)
  /\ UNCHANGED clock

Pass ==
  /\ clock' > clock
  /\ UNCHANGED << pending, at, firing >>

Next ==
  \/ \E t \in Timers : Schedule(t) \/ Reset(t) \/ Cancel(t) \/ Fire(t)
  \/ CancelAll \/ Return \/ Pass

Safety == Init /\ [][Next]_queueVars

=============================================================================
