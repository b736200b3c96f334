------------------------------- MODULE Signals ------------------------------
(* The programs the server forks and the signals about them (thttpd.c and     *)
(* libhttpd.c): cgi() and the listing fork children and count them in the    *)
(* server's thread, handle_chld() reaps them and counts down in either       *)
(* thread, kill timers end the ones that run too long, and the watchdog ends *)
(* the process when the server's thread stopped running its timers.          *)
(*                                                                           *)
(* Times are ticks.  A tick passes while the thread waits in fdwatch() with  *)
(* no timer due, or while one of its handlers holds it.                      *)
EXTENDS Integers, FiniteSets

CONSTANTS
  Pids,             \* process ids; one is used again once its child is reaped
  CgiLimit,         \* hs->cgi_limit; 0 is no limit
  OccasionalTime,   \* OCCASIONAL_TIME
  CgiTimeLimit,     \* CGI_TIMELIMIT
  HardKillTime,     \* the five seconds between the two kills
  MaxStarts         \* bound: children counted in a run

ASSUME PidsAssumption == IsFiniteSet(Pids)
ASSUME TimesAssumption ==
  /\ CgiLimit \in Nat /\ MaxStarts \in Nat
  /\ {OccasionalTime, CgiTimeLimit, HardKillTime} \subseteq Nat \ {0}

AlarmTime == 3 * OccasionalTime

VARIABLES
  pc,             \* the server's thread
  cgi_count,      \* hs->cgi_count, which both threads change
  loaded,         \* the value the server's thread adds one to
  children,       \* [Pids -> "none", "running" or "zombie"]
  kills,          \* the kill timers: records [pid, hard, left]; of two that
                  \* are equal one is kept, for they act at the same instant
  chld_pending,   \* SIGCHLD is pending; there is one, however many exited
  handler,        \* each thread in handle_chld(), and
  held,           \* the value it takes one from there
  watchdog_flag, alarm_left, occasional_left, aborted,
  since,          \* ticks since a run of the timers was last done
  starts, failed, \* children counted so far; those that fork() did not make
  lost            \* updates of cgi_count that were overwritten, by either thread

countVars == << cgi_count, loaded, held, lost >>
childVars == << children, chld_pending >>
startVars == << starts, failed >>
clockVars == << watchdog_flag, alarm_left, occasional_left, aborted, since >>
sigVars == << pc, countVars, childVars, kills, handler, startVars, clockVars >>

\* A signal is delivered to a thread that does not block it, and handle_chld()
\* blocks SIGCHLD in its own thread only: both may be in it at once.
Threads == {"main", "http"}

Alive == ~aborted

\* A handler of a signal runs on the thread it interrupts.
At(place) == Alive /\ pc = place /\ handler["http"] = "idle"
In(th, place) == Alive /\ handler[th] = place
GoesTo(th, place) == handler' = [handler EXCEPT ![th] = place]
Soft(p) == [pid |-> p, hard |-> FALSE, left |-> CgiTimeLimit]
Hard(p) == [pid |-> p, hard |-> TRUE, left |-> HardKillTime]

----------------------------------------------------------------------------
(* The server's thread *)

\* cgi() and ls(): the limit is read, then the counter is read, and written
\* back, each on its own; 503 when the limit is reached changes nothing here.
CheckLimit ==
  /\ At("loop") /\ starts < MaxStarts
  /\ CgiLimit = 0 \/ cgi_count < CgiLimit
  /\ pc' = "load"
  /\ UNCHANGED << countVars, childVars, kills, handler, startVars, clockVars >>

LoadCount ==
  /\ At("load")
  /\ loaded' = cgi_count
  /\ pc' = "store"
  /\ UNCHANGED << cgi_count, held, lost, childVars, kills, handler, startVars, clockVars >>

\* What the other thread did to the counter since this one read it is lost,
\* and it all went one way.
Distance(a, b) == IF a < b THEN b - a ELSE a - b
Overwritten(seen) == lost + Distance(seen, cgi_count)

StoreCount ==
  /\ At("store")
  /\ lost' = Overwritten(loaded)
  /\ cgi_count' = loaded + 1
  /\ loaded' = 0
  /\ starts' = starts + 1
  /\ pc' = "fork"
  /\ UNCHANGED << held, failed, childVars, kills, handler, clockVars >>

Fork(p) ==
  /\ At("fork") /\ children[p] = "none"
  /\ children' = [children EXCEPT ![p] = "running"]
  /\ kills' = kills \cup {Soft(p)}
  /\ pc' = "loop"
  /\ UNCHANGED << chld_pending, countVars, handler, startVars, clockVars >>

\* The count stays as it is.
ForkFails ==
  /\ At("fork")
  /\ failed' = failed + 1
  /\ pc' = "loop"
  /\ UNCHANGED << starts, countVars, childVars, kills, handler, clockVars >>

\* httpd_write_fully(), or the body of a POST: the handler sleeps for as long
\* as the client neither takes nor sends a byte.
Stall ==
  /\ At("loop")
  /\ pc' = "stalled"
  /\ UNCHANGED << countVars, childVars, kills, handler, startVars, clockVars >>

GoesOn ==
  /\ At("stalled")
  /\ pc' = "loop"
  /\ UNCHANGED << countVars, childVars, kills, handler, startVars, clockVars >>

\* tmr_run(), when no descriptor was ready or after those that were.
RunTimers ==
  /\ At("loop")
  /\ pc' = "timers"
  /\ UNCHANGED << countVars, childVars, kills, handler, startVars, clockVars >>

\* The timer is periodic: its next time is one period after the one it had.
Occasional ==
  /\ At("timers") /\ occasional_left <= 0
  /\ watchdog_flag' = TRUE
  /\ occasional_left' = occasional_left + OccasionalTime
  /\ UNCHANGED << pc, alarm_left, aborted, since, countVars, childVars, kills, handler, startVars >>

\* kill() finds no process when the pid is of none, and a zombie takes any
\* signal without effect.  SIGINT may be ignored, SIGKILL may not.
Ends(p) ==
  /\ children' = [children EXCEPT ![p] = "zombie"]
  /\ chld_pending' = TRUE

\* Mutant: nothing follows a signal that may be ignored.
CgiKillOnce(k) ==
  /\ At("timers") /\ k \in kills /\ k.left = 0 /\ ~k.hard
  /\ kills' = kills \ {k}
  /\ \/ children[k.pid] = "running" /\ Ends(k.pid)
     \/ UNCHANGED childVars
  /\ UNCHANGED << pc, countVars, handler, startVars, clockVars >>

CgiKill(k) ==
  /\ At("timers") /\ k \in kills /\ k.left = 0 /\ ~k.hard
  /\ kills' = (kills \ {k}) \cup {Hard(q) : q \in {k.pid} \cap {p \in Pids : children[p] # "none"}}
  /\ \/ children[k.pid] = "running" /\ Ends(k.pid)
     \/ UNCHANGED childVars
  /\ UNCHANGED << pc, countVars, handler, startVars, clockVars >>

CgiKill2(k) ==
  /\ At("timers") /\ k \in kills /\ k.left = 0 /\ k.hard
  /\ kills' = kills \ {k}
  /\ IF children[k.pid] = "running" THEN Ends(k.pid) ELSE UNCHANGED childVars
  /\ UNCHANGED << pc, countVars, handler, startVars, clockVars >>

NothingDue == occasional_left > 0 /\ \A k \in kills : k.left > 0

TimersDone ==
  /\ At("timers") /\ NothingDue
  /\ pc' = "loop"
  /\ since' = 0
  /\ UNCHANGED << watchdog_flag, alarm_left, occasional_left, aborted, countVars, childVars,
                  kills, handler, startVars >>

----------------------------------------------------------------------------
(* The children, the main thread and the clock *)

Exit(p) ==
  /\ Alive /\ children[p] = "running"
  /\ Ends(p)
  /\ UNCHANGED << pc, countVars, kills, handler, startVars, clockVars >>

\* handle_chld() runs once for the signals that are pending, and reaps in a
\* loop.
HandleChld(th) ==
  /\ In(th, "idle") /\ chld_pending
  /\ chld_pending' = FALSE
  /\ GoesTo(th, "wait")
  /\ UNCHANGED << pc, countVars, children, kills, startVars, clockVars >>

Zombies == {p \in Pids : children[p] = "zombie"}

Reap(th, p) ==
  /\ In(th, "wait") /\ p \in Zombies
  /\ children' = [children EXCEPT ![p] = "none"]
  /\ GoesTo(th, "load")
  /\ UNCHANGED << pc, countVars, chld_pending, kills, startVars, clockVars >>

NoneLeft(th) ==
  /\ In(th, "wait") /\ Zombies = {}
  /\ GoesTo(th, "idle")
  /\ UNCHANGED << pc, countVars, childVars, kills, startVars, clockVars >>

LoadDown(th) ==
  /\ In(th, "load")
  /\ held' = [held EXCEPT ![th] = cgi_count]
  /\ GoesTo(th, "store")
  /\ UNCHANGED << pc, cgi_count, loaded, lost, childVars, kills, startVars, clockVars >>

StoreDown(th) ==
  /\ In(th, "store")
  /\ lost' = Overwritten(held[th])
  /\ cgi_count' = held[th] - 1
  /\ held' = [held EXCEPT ![th] = 0]
  /\ GoesTo(th, "clamp")
  /\ UNCHANGED << pc, loaded, childVars, kills, startVars, clockVars >>

\* Mutant: one child is reaped for each signal.
ClampOnce(th) ==
  /\ In(th, "clamp")
  /\ GoesTo(th, IF cgi_count < 0 THEN "zero" ELSE "idle")
  /\ UNCHANGED << pc, countVars, childVars, kills, startVars, clockVars >>

\* The counter is looked at, and set to 0 if it was below.
Clamp(th) ==
  /\ In(th, "clamp")
  /\ GoesTo(th, IF cgi_count < 0 THEN "zero" ELSE "wait")
  /\ UNCHANGED << pc, countVars, childVars, kills, startVars, clockVars >>

\* By then the other thread may have counted up: that is overwritten too.
ClampZero(th) ==
  /\ In(th, "zero")
  /\ lost' = lost + (IF cgi_count > 0 THEN cgi_count ELSE 0)
  /\ cgi_count' = 0
  /\ GoesTo(th, "wait")
  /\ UNCHANGED << pc, loaded, held, childVars, kills, startVars, clockVars >>

\* Mutant: the alarm is as frequent as what it watches.
RearmTimeShort == OccasionalTime

\* alarm() in the start-up code and in the handler.
RearmTime == AlarmTime

HandleAlrm ==
  /\ Alive /\ alarm_left = 0
  /\ IF watchdog_flag
       THEN watchdog_flag' = FALSE /\ alarm_left' = RearmTime /\ UNCHANGED aborted
       ELSE aborted' = TRUE /\ UNCHANGED << watchdog_flag, alarm_left >>
  /\ UNCHANGED << pc, occasional_left, since, countVars, childVars, kills, handler, startVars >>

Sooner(k) == [k EXCEPT !.left = IF @ = 0 THEN 0 ELSE @ - 1]

Tick ==
  /\ At("stalled") \/ (pc = "loop" /\ NothingDue)
  /\ alarm_left > 0 /\ ~chld_pending /\ \A th \in Threads : handler[th] = "idle"
  /\ alarm_left' = alarm_left - 1
  /\ occasional_left' = occasional_left - 1
  /\ kills' = {Sooner(k) : k \in kills}
  /\ since' = since + 1
  /\ UNCHANGED << pc, watchdog_flag, aborted, countVars, childVars, handler, startVars >>

Aborted == aborted /\ UNCHANGED sigVars

----------------------------------------------------------------------------
SigInit ==
  /\ pc = "loop" /\ aborted = FALSE
  /\ cgi_count = 0 /\ loaded = 0 /\ held = [th \in Threads |-> 0] /\ lost = 0
  /\ children = [p \in Pids |-> "none"] /\ chld_pending = FALSE
  /\ kills = {} /\ handler = [th \in Threads |-> "idle"]
  /\ starts = 0 /\ failed = 0
  /\ watchdog_flag = FALSE /\ alarm_left = RearmTime
  /\ occasional_left = OccasionalTime /\ since = 0

SigNext ==
  \/ CheckLimit \/ LoadCount \/ StoreCount \/ ForkFails
  \/ \E p \in Pids : Fork(p)
  \/ Stall \/ GoesOn
  \/ RunTimers \/ Occasional \/ TimersDone
  \/ \E k \in kills : CgiKill(k)
  \/ \E k \in kills : CgiKill2(k)
  \/ \E p \in Pids : Exit(p)
  \/ \E th \in Threads :
       \/ HandleChld(th) \/ NoneLeft(th) \/ LoadDown(th) \/ StoreDown(th)
       \/ Clamp(th) \/ ClampZero(th)
       \/ \E p \in Pids : Reap(th, p)
  \/ HandleAlrm
  \/ Tick
  \/ Aborted

SigSpec == SigInit /\ [][SigNext]_sigVars

----------------------------------------------------------------------------
SigTypeOK ==
  /\ pc \in {"loop", "load", "store", "fork", "stalled", "timers"}
  /\ cgi_count \in -MaxStarts .. MaxStarts /\ loaded \in -MaxStarts .. MaxStarts
  /\ held \in [Threads -> -MaxStarts .. MaxStarts]
  /\ children \in [Pids -> {"none", "running", "zombie"}]
  /\ \A k \in kills : /\ k.pid \in Pids /\ k.hard \in BOOLEAN
                      /\ k.left \in 0 .. CgiTimeLimit + HardKillTime
  /\ chld_pending \in BOOLEAN
  /\ handler \in [Threads -> {"idle", "wait", "load", "store", "clamp", "zero"}]
  /\ watchdog_flag \in BOOLEAN /\ aborted \in BOOLEAN
  /\ alarm_left \in 0 .. AlarmTime
  /\ occasional_left \in -2 * AlarmTime .. OccasionalTime
  /\ starts \in 0 .. MaxStarts /\ failed \in 0 .. starts
  /\ lost \in Nat

TakingOff(th) == IF handler[th] \in {"load", "store"} THEN 1 ELSE 0

\* What the counter stands for: the children not reaped, and the one that is
\* counted and not yet forked, or reaped and not yet taken off.
Counted ==
  Cardinality({p \in Pids : children[p] # "none"})
    + (IF pc = "fork" THEN 1 ELSE 0)
    + TakingOff("main") + TakingOff("http")

CountNear ==
  LET off == cgi_count - (Counted + failed) IN off \in -lost .. lost

\* A child that exited is reaped, though one SIGCHLD may stand for many: some
\* signal is pending or a handler still loops.
NoneForgotten ==
  Zombies # {} => chld_pending \/ \E th \in Threads : handler[th] # "idle"

\* cgi_count is off by no more than the updates that the server's thread and the
\* two handlers overwrote for each other, the store of 0 in the check for a
\* count below zero included, plus the forks that failed and are never taken
\* back; and every child that exited is going to be reaped, so the count does
\* not stay up for the dead (thttpd.c:181-227, libhttpd.c:3561).
ChildrenCounted == CountNear /\ NoneForgotten

\* A program that runs has a kill before it, due within its time limit or,
\* after the first, within five seconds, whatever the other timers of its
\* process id did: none runs for ever (libhttpd.c:2649-2673).
KillArmed ==
  \A p \in Pids : children[p] = "running" => \E k \in kills : k.pid = p

\* The watchdog ends the process only after the server's thread did not run
\* its timers for more than two periods of occasional(), and it never stays
\* away from them for more than two alarms (thttpd.c:282-302, 1697).
WatchdogExact ==
  /\ aborted => since > 2 * OccasionalTime
  /\ since <= 2 * AlarmTime
=============================================================================
