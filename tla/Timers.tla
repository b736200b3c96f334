------------------------------- MODULE Timers -------------------------------
(***************************************************************************)
(* The timer package (httpserver/src/timers.c), down to its pointers: the  *)
(* hash buckets of doubly linked lists sorted by time, the list of free    *)
(* Timer structs, and tmr_run(), whose procedures call back into the       *)
(* package while it walks a list with a `next' it has saved.               *)
(*                                                                         *)
(* The package runs in one thread.  Between two steps of tmr_run() a       *)
(* client acts only inside a timer procedure (pc = "proc").  Times are     *)
(* ticks, each a part of a millisecond (the code's is a microsecond), and  *)
(* hash() is the tick modulo the number of buckets.                        *)
(***************************************************************************)
EXTENDS Integers, FiniteSets

CONSTANTS
  TimerIds,       \* addresses malloc() can give a Timer
  Nil,            \* (Timer*) 0
  HashSize,       \* HASH_SIZE
  Delays,         \* values msecs takes, in ticks
  TicksPerMs,     \* ticks in a millisecond
  MsPerSec,       \* milliseconds in a second
  MaxNow,         \* bound: the last tick
  CancelSaved     \* whether a procedure may cancel (or reset) the timer that
                  \* is next in the list that tmr_run() walks

Buckets == 0 .. HashSize - 1

ASSUME NilAssumption == Nil \notin TimerIds
ASSUME TimerIdsAssumption == IsFiniteSet(TimerIds)
ASSUME HashSizeAssumption == HashSize \in Nat \ {0}
ASSUME DelaysAssumption == Delays \subseteq Nat \ {0}
ASSUME ResolutionAssumption ==
  TicksPerMs \in Nat \ {0} /\ MsPerSec \in Nat \ {0}
ASSUME MaxNowAssumption == MaxNow \in Nat
ASSUME CancelSavedAssumption == CancelSaved \in BOOLEAN

VARIABLES
  links,          \* timers[], and the next and prev of every Timer
  time, msecs, periodic, hash,          \* the other fields of every Timer
  free_timers, alloc,                   \* the free list; the malloc()ed Timers
  alloc_count, active_count, free_count,
  now,            \* *nowP
  pc, h, t, next, \* tmr_run(): where it is, and its three local variables
  owned           \* the clients' view: timers created and not yet cancelled
                  \* or run to their end

fields == << time, msecs, periodic, hash >>
heap == << free_timers, alloc, alloc_count, active_count, free_count >>
run == << pc, h, t, next >>
vars == << links, fields, heap, now, run, owned >>

-----------------------------------------------------------------------------
(* The lists                                                               *)

Hash(at) == at % HashSize

(* The Timers on the list that begins with u: the least set that holds u   *)
(* and the successor of each of its members.                               *)
Closed(nx, S) == \A v \in S : nx[v] \in S \cup {Nil}
ListFrom(nx, u) ==
  {v \in TimerIds :
     \A S \in SUBSET TimerIds : u \in S \cup {Nil} /\ Closed(nx, S) => v \in S}

(* u leaves the list of bucket b.                                          *)
LRemove(l, b, u) ==
  LET p == l.prev[u]
      n == l.next[u]
      forward == IF p = Nil THEN [l EXCEPT !.head[b] = n]
                            ELSE [l EXCEPT !.next[p] = n]
  IN IF n = Nil THEN forward ELSE [forward EXCEPT !.prev[n] = p]

(* u goes between p and n in bucket b; either may be Nil.                  *)
Between(l, b, p, u, n) ==
  LET own == [l EXCEPT !.prev[u] = p, !.next[u] = n]
      forward == IF p = Nil THEN [own EXCEPT !.head[b] = u]
                            ELSE [own EXCEPT !.next[p] = u]
  IN IF n = Nil THEN forward ELSE [forward EXCEPT !.prev[n] = u]

(* Mutant: the list is not kept sorted.                                    *)
LAddHead(l, b, u, tm) == Between(l, b, Nil, u, l.head[b])

(* l_add() goes past the timers of bucket b that are due before tm[u]: the  *)
(* least set that holds the first of the list, and the successor of each   *)
(* of its members, unless it is later.                                     *)
Later(v, u, tm) == v = Nil \/ tm[u] <= tm[v]
Passed(l, b, u, tm) ==
  {v \in TimerIds :
     \A S \in SUBSET TimerIds :
       (\A w \in {l.head[b]} \cup {l.next[x] : x \in S} : w \in S \/ Later(w, u, tm))
         => v \in S}

(* u goes in bucket b before the first timer that is not due before it.    *)
LAdd(l, b, u, tm) ==
  LET passed == Passed(l, b, u, tm)
      p == IF passed = {} THEN Nil
           ELSE CHOOSE v \in passed : Later(l.next[v], u, tm)
  IN Between(l, b, p, u, IF p = Nil THEN l.head[b] ELSE l.next[p])

(* Mutant: the timer stays in the bucket of its old time.                  *)
LResortSameBucket(u, at) ==
  LET tm == [time EXCEPT ![u] = at] IN
  /\ time' = tm
  /\ UNCHANGED hash
  /\ links' = LAdd(LRemove(links, hash[u], u), hash[u], u, tm)

(* u is given the time at and moves to where that belongs.                 *)
LResort(u, at) ==
  LET tm == [time EXCEPT ![u] = at] IN
  /\ time' = tm
  /\ hash' = [hash EXCEPT ![u] = Hash(at)]
  /\ links' = LAdd(LRemove(links, hash[u], u), Hash(at), u, tm)

(* tmr_cancel(): u goes to the front of the free list.                     *)
TmrCancel(u) ==
  /\ links' = [LRemove(links, hash[u], u) EXCEPT
                 !.next[u] = free_timers, !.prev[u] = Nil]
  /\ free_timers' = u
  /\ active_count' = active_count - 1
  /\ free_count' = free_count + 1
  /\ UNCHANGED << fields, alloc, alloc_count >>

-----------------------------------------------------------------------------
(* The clients: between runs, and from timer procedures                    *)

ClientRuns == pc \in {"idle", "proc"}

(* The Timer tmr_create() uses: the first free one, or a new one.          *)
Allocate(u) ==
  \/ /\ free_timers # Nil /\ u = free_timers
     /\ free_timers' = links.next[u]
     /\ free_count' = free_count - 1
     /\ UNCHANGED << alloc, alloc_count >>
  \/ /\ free_timers = Nil /\ u \notin alloc
     /\ alloc' = alloc \cup {u}
     /\ alloc_count' = alloc_count + 1
     /\ UNCHANGED << free_timers, free_count >>

Create(u) ==
  /\ ClientRuns
  /\ Allocate(u)
  /\ \E ms \in Delays, p \in BOOLEAN :
       LET tm == [time EXCEPT ![u] = now + ms] IN
       /\ time' = tm
       /\ msecs' = [msecs EXCEPT ![u] = ms]
       /\ periodic' = [periodic EXCEPT ![u] = p]
       /\ hash' = [hash EXCEPT ![u] = Hash(now + ms)]
       /\ links' = LAdd(links, Hash(now + ms), u, tm)
  /\ active_count' = active_count + 1
  /\ owned' = owned \cup {u}
  /\ UNCHANGED << now, run >>

(* Only one-shot timers have an owner who kept a pointer to cancel them.   *)
Cancel(u) ==
  /\ ClientRuns
  /\ u \in owned /\ ~ periodic[u]
  /\ CancelSaved \/ u # next
  /\ TmrCancel(u)
  /\ owned' = owned \ {u}
  /\ UNCHANGED << now, run >>

(* Mutant: the delay is taken off the time.                                *)
ResetBack(u) ==
  /\ ClientRuns
  /\ u \in owned \ {t}
  /\ CancelSaved \/ u # next
  /\ LResort(u, now - msecs[u])
  /\ UNCHANGED << msecs, periodic, heap, now, run, owned >>

(* tmr_reset().                                                            *)
Reset(u) ==
  /\ ClientRuns
  /\ u \in owned \ {t}
  /\ CancelSaved \/ u # next
  /\ LResort(u, now + msecs[u])
  /\ UNCHANGED << msecs, periodic, heap, now, run, owned >>

(* tmr_cleanup(): the free Timers go back to the heap, where their fields  *)
(* mean nothing.                                                           *)
Cleanup ==
  /\ ClientRuns
  /\ free_timers # Nil
  /\ LET gone == ListFrom(links.next, free_timers) IN
     /\ alloc' = alloc \ gone
     /\ alloc_count' = alloc_count - Cardinality(gone)
     /\ free_count' = free_count - Cardinality(gone)
  /\ free_timers' = Nil
  /\ UNCHANGED << links, fields, active_count, now, run, owned >>

(* tmr_term(): every active timer is cancelled, then tmr_cleanup().        *)
Term ==
  /\ pc = "idle"
  /\ LET active == UNION {ListFrom(links.next, links.head[b]) : b \in Buckets}
         gone == active \cup ListFrom(links.next, free_timers) IN
     /\ active_count' = active_count - Cardinality(active)
     /\ free_count' = free_count + Cardinality(active) - Cardinality(gone)
     /\ alloc_count' = alloc_count - Cardinality(gone)
     /\ alloc' = alloc \ gone
  /\ links' = [links EXCEPT !.head = [b \in Buckets |-> Nil]]
  /\ free_timers' = Nil
  /\ owned' = {}
  /\ UNCHANGED << fields, now, run >>

-----------------------------------------------------------------------------
(* tmr_run()                                                               *)

RunStart ==
  /\ pc = "idle"
  /\ pc' = "loop" /\ h' = 0 /\ t' = links.head[0]
  /\ UNCHANGED << links, fields, heap, now, next, owned >>

Due(u) == time[u] <= now

(* Mutant: the last list is not walked.                                    *)
NextBucketNotLast ==
  /\ pc = "loop"
  /\ IF t = Nil THEN TRUE ELSE ~ Due(t)
  /\ IF h + 1 >= HashSize - 1
       THEN pc' = "idle" /\ h' = 0 /\ t' = Nil
       ELSE h' = h + 1 /\ t' = links.head[h + 1] /\ UNCHANGED pc
  /\ UNCHANGED << links, fields, heap, now, next, owned >>

(* The end of a list, or a timer that is not due: on to the next list.     *)
NextBucket ==
  /\ pc = "loop"
  /\ IF t = Nil THEN TRUE ELSE ~ Due(t)
  /\ IF h = HashSize - 1
       THEN pc' = "idle" /\ h' = 0 /\ t' = Nil
       ELSE h' = h + 1 /\ t' = links.head[h + 1] /\ UNCHANGED pc
  /\ UNCHANGED << links, fields, heap, now, next, owned >>

(* The procedure of t is called.  The owner of a one-shot timer forgets it. *)
Proc ==
  /\ pc = "loop"
  /\ t # Nil /\ Due(t)
  /\ next' = links.next[t]
  /\ pc' = "proc"
  /\ owned' = IF periodic[t] THEN owned ELSE owned \ {t}
  /\ UNCHANGED << links, fields, heap, now, h, t >>

(* Mutant: a one-shot timer that has run stays in its list.                *)
DoneKeep(u) ==
  \/ periodic[u] /\ LResort(u, time[u] + msecs[u])
                 /\ UNCHANGED << msecs, periodic, heap >>
  \/ ~ periodic[u] /\ UNCHANGED << links, fields, heap >>

Done(u) ==
  \/ periodic[u] /\ LResort(u, time[u] + msecs[u])
                 /\ UNCHANGED << msecs, periodic, heap >>
  \/ ~ periodic[u] /\ TmrCancel(u)

(* It returns: reschedule or cancel, and on to the saved next.             *)
ProcReturn ==
  /\ pc = "proc"
  /\ Done(t)
  /\ t' = next /\ next' = Nil
  /\ pc' = "loop"
  /\ UNCHANGED << now, h, owned >>

Tick ==
  /\ pc = "idle" /\ now < MaxNow
  /\ now' = now + 1
  /\ UNCHANGED << links, fields, heap, run, owned >>

-----------------------------------------------------------------------------

Init ==
  /\ links = [head |-> [b \in Buckets |-> Nil],
              next |-> [u \in TimerIds |-> Nil],
              prev |-> [u \in TimerIds |-> Nil]]
  /\ time = [u \in TimerIds |-> 0] /\ msecs = [u \in TimerIds |-> 0]
  /\ periodic = [u \in TimerIds |-> FALSE] /\ hash = [u \in TimerIds |-> 0]
  /\ free_timers = Nil /\ alloc = {}
  /\ alloc_count = 0 /\ active_count = 0 /\ free_count = 0
  /\ now = 0
  /\ pc = "idle" /\ h = 0 /\ t = Nil /\ next = Nil
  /\ owned = {}

TmrRun == RunStart \/ NextBucket \/ Proc \/ ProcReturn

Client ==
  \/ \E u \in TimerIds : Create(u) \/ Cancel(u) \/ Reset(u)
  \/ Cleanup \/ Term

Next == TmrRun \/ Client \/ Tick

Spec == Init /\ [][Next]_vars

(* The main loop calls tmr_run() again and again, and procedures return.   *)
FairSpec ==
  /\ Spec
  /\ SF_vars(RunStart)
  /\ WF_vars(NextBucket \/ Proc)
  /\ WF_vars(ProcReturn)

-----------------------------------------------------------------------------
(* Properties                                                              *)

(* The timers on the lists: the clients' and the one that is running.      *)
Active == owned \cup (IF pc = "proc" THEN {t} ELSE {})

TypeOK ==
  /\ links \in [head : [Buckets -> TimerIds \cup {Nil}],
                next : [TimerIds -> TimerIds \cup {Nil}],
                prev : [TimerIds -> TimerIds \cup {Nil}]]
  /\ time \in [TimerIds -> Nat] /\ msecs \in [TimerIds -> Nat]
  /\ periodic \in [TimerIds -> BOOLEAN] /\ hash \in [TimerIds -> Buckets]
  /\ free_timers \in TimerIds \cup {Nil}
  /\ alloc \subseteq TimerIds /\ owned \subseteq alloc
  /\ alloc_count \in Int /\ active_count \in Int /\ free_count \in Int
  /\ now \in 0 .. MaxNow
  /\ pc \in {"idle", "loop", "proc"} /\ h \in Buckets
  /\ t \in TimerIds \cup {Nil} /\ next \in TimerIds \cup {Nil}

Linked ==
  /\ \A b \in Buckets : ListFrom(links.next, links.head[b]) = {u \in Active : hash[u] = b}
  /\ ListFrom(links.next, free_timers) = alloc \ Active
  /\ \A b \in Buckets : links.head[b] # Nil => links.prev[links.head[b]] = Nil
  /\ \A u \in Active :
       /\ hash[u] = Hash(time[u])
       /\ links.next[u] # Nil => /\ links.prev[links.next[u]] = u
                                 /\ time[u] <= time[links.next[u]]
       /\ links.prev[u] # Nil => links.next[links.prev[u]] = u

CountsAddUp ==
  /\ active_count + free_count = alloc_count
  /\ active_count = Cardinality(Active)
  /\ alloc_count = Cardinality(alloc)

(* Each bucket lists the active timers that hash to it, linked both ways   *)
(* and in the order of their times, and every other Timer that was         *)
(* allocated is on the free list: l_add(), l_remove() and the callbacks    *)
(* never lose a Timer, list it twice or leave it out of order; and the     *)
(* "timer counts don't add up!" of tmr_logstats() is never logged.         *)
ListsExact == Linked /\ CountsAddUp

MinOf(S) == CHOOSE x \in S : \A y \in S : x <= y

(* A time is kept as seconds and the rest, here in ticks.                  *)
TicksPerSec == TicksPerMs * MsPerSec
Sec(at) == at \div TicksPerSec
SubSec(at) == at % TicksPerSec

(* C divides toward zero.                                                  *)
Quotient(n, d) == IF n >= 0 THEN n \div d ELSE - ((- n) \div d)

(* The milliseconds from now to a time: the seconds and the rest are       *)
(* subtracted apart, so the rest may be negative when it is cut.           *)
MsUntil(at) ==
  (Sec(at) - Sec(now)) * MsPerSec + Quotient(SubSec(at) - SubSec(now), TicksPerMs)

(* tmr_mstimeout(), which looks at the head of each list only; INFTIM is -1. *)
MsTimeout ==
  LET heads == {links.head[b] : b \in Buckets} \ {Nil} IN
  IF heads = {} THEN -1
  ELSE LET m == MinOf({MsUntil(time[u]) : u \in heads}) IN
       IF m < 0 THEN 0 ELSE m

(* The timeout of fdwatch() is the time to the first timer of all, to less *)
(* than a millisecond either way: the loop is not woken a millisecond      *)
(* before the first timer, and sleeps less than a millisecond past any     *)
(* timer.  (It may sleep past one: 1 s less half a millisecond is a second *)
(* apart and a negative rest that is cut to 0, so 1000 ms.)                *)
TimeoutExact ==
  pc = "idle" =>
    /\ MsTimeout = -1 <=> owned = {}
    /\ \A u \in owned :
         MsTimeout > 0 => MsTimeout * TicksPerMs < time[u] - now + TicksPerMs
    /\ owned # {} =>
         \E u \in owned : time[u] - now < MsTimeout * TicksPerMs + TicksPerMs

(* A pass of tmr_run() runs every one-shot timer that was due.             *)
RunFiresAll ==
  [][pc = "loop" /\ pc' = "idle" =>
       \A u \in owned : Due(u) => periodic[u]]_vars

(* The package implements the queue it promises: only scheduled timers     *)
(* fire, none before its time, and one at a time.                          *)
Queue == INSTANCE TimerQueue
           WITH Timers <- TimerIds, None <- Nil, at <- time, clock <- now,
                pending <- owned \ (IF pc = "proc" THEN {t} ELSE {}),
                firing <- IF pc = "proc" THEN t ELSE Nil
QueueSafety == Queue!Safety

(* A timer that is due is run, or cancelled or reset by its owner.         *)
DueTimersRun ==
  \A u \in TimerIds :
    (u \in owned /\ Due(u)) ~>
      (u \notin owned \/ ~ Due(u) \/ (pc = "proc" /\ t = u))

(* "Deschedule a timer": a one-shot timer that was cancelled, or has run,  *)
(* does not run.                                                           *)
CancelledNeverRuns == [][pc = "loop" /\ pc' = "proc" => t \in owned]_vars

=============================================================================
