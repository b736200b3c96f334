------------------------------- MODULE Thttpd -------------------------------
(***************************************************************************)
(* The connection engine of the HTTP server (httpserver/src/thttpd.c): the *)
(* main loop, the table of connections with its free list, the fdwatch     *)
(* registrations, the wakeup and linger timers of each connection, the     *)
(* idle timer, and SIGUSR1 (exit when the connections are done).           *)
(*                                                                         *)
(* One action is one pass through a handler of the http thread.  Signal    *)
(* handlers run in the main thread, so they interleave between any two of  *)
(* these actions.  Requests and files are abstracted to `budget': how many *)
(* more reads fit in a connection's request buffer while it is READING,    *)
(* how many more writes its response takes once it is SENDING.  Time is a  *)
(* count of ticks that pass while the loop sits in fdwatch(), because all  *)
(* the handlers of one round use the time sampled when fdwatch() returned. *)
(* A handler that answers a request may be held by its client: the thread  *)
(* sleeps and retries without bound while the client takes no bytes, or    *)
(* sends no more of a POST body.  `writing` is the connection it is held   *)
(* for; only that client can let it go, or else the watchdog aborts the    *)
(* server.                                                                 *)
(***************************************************************************)
EXTENDS Integers, FiniteSets

CONSTANTS
  MaxConnects,    \* max_connects
  Fds,            \* descriptors accept() can return
  NoFd,           \* conn_fd == -1
  TimerIds,       \* addresses malloc() can give a Timer
  NoTimer,        \* (Timer*) 0
  ListenFds,      \* listen4_fd is 4, listen6_fd is 6
  MaxBacklog,     \* bound: clients waiting in one listen queue
  MaxIO,          \* bound: reads that fill the request buffer, writes of a file
  IdleReadLimit,  \* IDLE_READ_TIMELIMIT, in ticks
  IdleSendLimit,  \* IDLE_SEND_TIMELIMIT, in ticks
  IdlePeriod,     \* period of the idle timer, in ticks
  LingerTime,     \* LINGER_TIME, in ticks
  WakeDelays      \* values wouldblock_delay or coast can take, in ticks

Slots == 0 .. MaxConnects - 1
NoSlot == -1

ASSUME MaxConnectsAssumption == MaxConnects \in Nat \ {0}
ASSUME NoFdAssumption == NoFd \notin Fds
ASSUME NoTimerAssumption == NoTimer \notin TimerIds
ASSUME ListenFdsAssumption == ListenFds \subseteq {4, 6}
ASSUME BoundsAssumption == MaxBacklog \in Nat /\ MaxIO \in Nat \ {0}
ASSUME TimesAssumption ==
  /\ IdleReadLimit \in Nat \ {0} /\ IdleSendLimit \in Nat \ {0}
  /\ IdlePeriod \in Nat \ {0} /\ LingerTime \in Nat \ {0}
  /\ WakeDelays \subseteq Nat \ {0}

VARIABLES
  \* connects[]: one function per field of connecttab and of its httpd_conn
  conn_state, conn_fd, budget, idle_for, should_linger, file_address,
  wakeup_timer, linger_timer, next_free_connect,
  first_free_connect, num_connects,
  \* fdwatch: what each descriptor is watched for, and for which connection
  fd_rw, fd_data,
  \* the one-shot timers, and the ticks left before the idle timer is due
  timer, idle_left,
  \* the http thread: where it is, where tmr_run() returns to, idle()'s index,
  \* the listen sockets and connections this round of the loop has yet to serve
  pc, ret, cnum, lready, rfdset, wfdset,
  \* the listen sockets still open and the clients waiting on each
  listening, backlog,
  \* signals: quitting is handle_usr1() between its test and its exit()
  got_usr1, terminate, quitting,
  \* the connection whose client holds the http thread inside a handler
  writing

slotVars == << conn_state, conn_fd, budget, idle_for, should_linger,
               file_address, wakeup_timer, linger_timer, next_free_connect,
               first_free_connect, num_connects, fd_rw, fd_data, timer >>
roundVars == << lready, rfdset, wfdset >>
netVars == << listening, backlog >>
sigVars == << got_usr1, terminate, quitting >>

engineVars ==
  << slotVars, idle_left, pc, ret, cnum, roundVars, netVars, sigVars >>

vars == << engineVars, writing >>

States == {"FREE", "READING", "SENDING", "PAUSING", "LINGERING"}
Timing == {"READING", "SENDING", "PAUSING"}  \* the states idle() looks at

MaxIdle == IdleReadLimit + IdleSendLimit
NoProc == [proc |-> "none", conn |-> 0, left |-> 0]

-----------------------------------------------------------------------------
(* Clearing a connection                                                   *)

(* Mutant: the timer is left in its list.                                  *)
CancelTimerNot(tm, t) == tm

CancelTimer(tm, t) ==
  IF t = NoTimer THEN tm ELSE [tm EXCEPT ![t] = NoProc]

CreateTimer(tm, t, proc, c, delay) ==
  /\ t \in TimerIds
  /\ tm[t] = NoProc
  /\ timer' = [tm EXCEPT ![t] = [proc |-> proc, conn |-> c, left |-> delay]]

(* fdwatch_add_fd() refuses a descriptor that is watched already;          *)
(* ReplaceFd() is fdwatch_del_fd() followed by fdwatch_add_fd().           *)
ReplaceFd(fd, c, rw) ==
  /\ fd_rw' = [fd_rw EXCEPT ![fd] = rw]
  /\ fd_data' = [fd_data EXCEPT ![fd] = c]

AddFd(fd, c, rw) ==
  IF fd_rw[fd] = "none" THEN ReplaceFd(fd, c, rw)
                        ELSE UNCHANGED << fd_rw, fd_data >>

DelFd(fd) ==
  /\ fd_rw' = [fd_rw EXCEPT ![fd] = "none"]
  /\ fd_data' = [fd_data EXCEPT ![fd] = NoSlot]

(* Mutants: the connections that read stay watched; the file stays mapped. *)
UnwatchSendingOnly(c) ==
  IF conn_state[c] = "SENDING" THEN DelFd(conn_fd[c])
                               ELSE UNCHANGED << fd_rw, fd_data >>
CloseConnKeepFile(c) ==
  /\ conn_fd' = [conn_fd EXCEPT ![c] = NoFd]
  /\ UNCHANGED file_address

(* A PAUSING connection is not watched, so only the others are removed.    *)
UnwatchUnlessPausing(c) ==
  IF conn_state[c] = "PAUSING" THEN UNCHANGED << fd_rw, fd_data >>
                               ELSE DelFd(conn_fd[c])

(* httpd_close_conn(): the file is unmapped, the descriptor closed.         *)
CloseConn(c) ==
  /\ conn_fd' = [conn_fd EXCEPT ![c] = NoFd]
  /\ file_address' = [file_address EXCEPT ![c] = FALSE]

(* Mutants: the old list is dropped; the count is not taken down.          *)
PushFreeNoLink(c) ==
  /\ next_free_connect' = [next_free_connect EXCEPT ![c] = NoSlot]
  /\ first_free_connect' = c
  /\ num_connects' = num_connects - 1
PushFreeNoCount(c) ==
  /\ next_free_connect' = [next_free_connect EXCEPT ![c] = first_free_connect]
  /\ first_free_connect' = c
  /\ UNCHANGED num_connects

PushFree(c) ==
  /\ next_free_connect' = [next_free_connect EXCEPT ![c] = first_free_connect]
  /\ first_free_connect' = c
  /\ num_connects' = num_connects - 1

(* really_clear_connection(), with the timers tm and the linger timer lt   *)
(* that its caller has left.  The budget and idle time of a FREE slot are  *)
(* dead values.                                                            *)
ReallyClearConnection(c, tm, lt) ==
  /\ UnwatchUnlessPausing(c)
  /\ CloseConn(c)
  /\ timer' = CancelTimer(tm, lt)
  /\ linger_timer' = [linger_timer EXCEPT ![c] = NoTimer]
  /\ conn_state' = [conn_state EXCEPT ![c] = "FREE"]
  /\ budget' = [budget EXCEPT ![c] = 0]
  /\ idle_for' = [idle_for EXCEPT ![c] = 0]
  /\ PushFree(c)

StartLinger(c, tm, mapped) ==
  /\ IF conn_state[c] = "PAUSING" THEN AddFd(conn_fd[c], c, "read")
                                  ELSE ReplaceFd(conn_fd[c], c, "read")
  /\ conn_state' = [conn_state EXCEPT ![c] = "LINGERING"]
  /\ \E t \in TimerIds :
       /\ CreateTimer(tm, t, "linger", c, LingerTime)
       /\ linger_timer' = [linger_timer EXCEPT ![c] = t]
  /\ should_linger' = [should_linger EXCEPT ![c] = TRUE]
  /\ file_address' = [file_address EXCEPT ![c] = mapped]
  /\ budget' = [budget EXCEPT ![c] = 0]
  /\ idle_for' = [idle_for EXCEPT ![c] = 0]
  /\ UNCHANGED << conn_fd, next_free_connect, first_free_connect, num_connects >>

(* clear_connection(), and finish_connection() once the response buffer is *)
(* written: linger and mapped are the connection's should_linger and       *)
(* whether it holds a file, as the handler that clears it has set them.    *)
ClearConnection(c, linger, mapped) ==
  LET tm == CancelTimer(timer, wakeup_timer[c]) IN
  /\ wakeup_timer' = [wakeup_timer EXCEPT ![c] = NoTimer]
  /\ \/ /\ linger /\ conn_state[c] # "LINGERING"
        /\ StartLinger(c, tm, mapped)
     \/ /\ ~ (linger /\ conn_state[c] # "LINGERING")
        /\ ReallyClearConnection(c, tm, linger_timer[c])
        /\ should_linger' = [should_linger EXCEPT ![c] = FALSE]

-----------------------------------------------------------------------------
(* The handlers of a ready connection                                      *)

(* handle_read(): no data yet, part of a request, a request (or an error)  *)
(* that needs no file, or a file to send.                                  *)
ReadNothing(c) ==
  budget[c] > 0 /\ UNCHANGED slotVars

ReadPart(c) ==
  /\ budget[c] > 0
  /\ budget' = [budget EXCEPT ![c] = @ - 1]
  /\ idle_for' = [idle_for EXCEPT ![c] = 0]
  /\ UNCHANGED << conn_state, conn_fd, should_linger, file_address,
                  wakeup_timer, linger_timer, next_free_connect,
                  first_free_connect, num_connects, fd_rw, fd_data, timer >>

ReadAnswer(c) ==
  \E linger, mapped \in BOOLEAN :
    /\ budget[c] = 0 => ~ linger /\ ~ mapped  \* request buffer full: error 400
    /\ ClearConnection(c, linger, mapped)

ReadFile(c) ==
  /\ budget[c] > 0
  /\ \E n \in 1 .. MaxIO : budget' = [budget EXCEPT ![c] = n]
  /\ \E linger \in BOOLEAN :
       should_linger' = [should_linger EXCEPT ![c] = linger]
  /\ conn_state' = [conn_state EXCEPT ![c] = "SENDING"]
  /\ idle_for' = [idle_for EXCEPT ![c] = 0]
  /\ file_address' = [file_address EXCEPT ![c] = TRUE]
  /\ ReplaceFd(conn_fd[c], c, "write")
  /\ UNCHANGED << conn_fd, wakeup_timer, linger_timer, next_free_connect,
                  first_free_connect, num_connects, timer >>

HandleRead(c) ==
  ReadNothing(c) \/ ReadPart(c) \/ ReadAnswer(c) \/ ReadFile(c)

(* Stop watching the connection until its wakeup timer fires.              *)
Pause(c) ==
  /\ conn_state' = [conn_state EXCEPT ![c] = "PAUSING"]
  /\ DelFd(conn_fd[c])
  /\ \E t \in TimerIds, delay \in WakeDelays :
       /\ CreateTimer(timer, t, "wakeup", c, delay)
       /\ wakeup_timer' = [wakeup_timer EXCEPT ![c] = t]
  /\ UNCHANGED << conn_fd, should_linger, file_address, linger_timer,
                  next_free_connect, first_free_connect, num_connects >>

(* handle_send(): interrupted, would block (no progress, active_at is not  *)
(* touched), failed, all sent, or part sent; a connection over its limit   *)
(* pauses after the part it sent.                                          *)
SendBlocked(c) == Pause(c) /\ UNCHANGED << budget, idle_for >>

SendPart(c) ==
  /\ budget[c] > 1
  /\ budget' = [budget EXCEPT ![c] = @ - 1]
  /\ idle_for' = [idle_for EXCEPT ![c] = 0]
  /\ \/ Pause(c)
     \/ UNCHANGED << conn_state, conn_fd, should_linger, file_address,
                     wakeup_timer, linger_timer, next_free_connect,
                     first_free_connect, num_connects, fd_rw, fd_data, timer >>

SendEnd(c) == ClearConnection(c, should_linger[c], file_address[c])

HandleSend(c) ==
  UNCHANGED slotVars \/ SendBlocked(c) \/ SendPart(c) \/ SendEnd(c)

(* handle_linger(): bytes are thrown away; an error or the end closes.     *)
HandleLinger(c) ==
  \/ UNCHANGED slotVars
  \/ /\ ReallyClearConnection(c, timer, linger_timer[c])
     /\ UNCHANGED << should_linger, wakeup_timer >>

-----------------------------------------------------------------------------
(* The main loop: fdwatch()                                                *)

DueTimers == {t \in TimerIds : timer[t].proc # "none" /\ timer[t].left = 0}

Watched(rw) == {fd \in Fds : fd_rw[fd] = rw}

(* fdwatch() returns with descriptors ready: all the listen sockets with a *)
(* client waiting, and any of the connections it watches.                  *)
FdwatchReady ==
  /\ pc = "fdwatch"
  /\ ~ terminate \/ num_connects > 0
  /\ lready' = {l \in listening : backlog[l] > 0}
  /\ rfdset' \in SUBSET Watched("read")
  /\ wfdset' \in SUBSET Watched("write")
  /\ lready' \cup rfdset' \cup wfdset' # {}
  /\ pc' = IF lready' = {} THEN "dispatch" ELSE "accept"
  /\ UNCHANGED << slotVars, idle_left, ret, cnum, netVars, sigVars >>

(* fdwatch() returns 0, the timeout of the first timer having passed.      *)
FdwatchTimeout ==
  /\ pc = "fdwatch"
  /\ ~ terminate \/ num_connects > 0
  /\ \A l \in listening : backlog[l] = 0
  /\ DueTimers # {} \/ idle_left = 0
  /\ pc' = "tmr_run" /\ ret' = "fdwatch"
  /\ lready' = {} /\ rfdset' = {} /\ wfdset' = {}
  /\ UNCHANGED << slotVars, idle_left, cnum, netVars, sigVars >>

(* The loop ends: shut_down() and exit(0).                                 *)
LoopExit ==
  /\ pc = "fdwatch"
  /\ terminate /\ num_connects = 0
  /\ pc' = "exited"
  /\ UNCHANGED << slotVars, idle_left, ret, cnum, roundVars, netVars, sigVars >>

-----------------------------------------------------------------------------
(* handle_newconnect()                                                     *)

(* The listen sockets are served in the order listen6_fd, listen4_fd.      *)
Listener == CHOOSE l \in lready : \A k \in lready : k <= l

(* handle_newconnect() returns 0 after tmr_run(): on to the next socket,   *)
(* then to the connections.                                                *)
RunTimersThenReturn0 == pc' = "tmr_run" /\ ret' = "listen"

TableFull ==
  /\ pc = "accept"
  /\ num_connects >= MaxConnects
  /\ RunTimersThenReturn0
  /\ UNCHANGED << slotVars, idle_left, cnum, roundVars, netVars, sigVars >>

FreeListMessedUp ==
  \/ first_free_connect = NoSlot
  \/ conn_state[first_free_connect] # "FREE"

(* Mutant: the free slots are taken in a row.                              *)
PopFreeInARow(c) ==
  /\ first_free_connect' = c + 1
  /\ next_free_connect' = [next_free_connect EXCEPT ![c] = NoSlot]
  /\ num_connects' = num_connects + 1

PopFree(c) ==
  /\ first_free_connect' = next_free_connect[c]
  /\ next_free_connect' = [next_free_connect EXCEPT ![c] = NoSlot]
  /\ num_connects' = num_connects + 1

Accept(c, fd) ==
  /\ conn_state' = [conn_state EXCEPT ![c] = "READING"]
  /\ PopFree(c)
  /\ conn_fd' = [conn_fd EXCEPT ![c] = fd]
  /\ budget' = [budget EXCEPT ![c] = MaxIO]
  /\ idle_for' = [idle_for EXCEPT ![c] = 0]
  /\ should_linger' = [should_linger EXCEPT ![c] = FALSE]
  /\ file_address' = [file_address EXCEPT ![c] = FALSE]
  /\ wakeup_timer' = [wakeup_timer EXCEPT ![c] = NoTimer]
  /\ linger_timer' = [linger_timer EXCEPT ![c] = NoTimer]
  /\ AddFd(fd, c, "read")
  /\ UNCHANGED timer

OpenFds == {conn_fd[c] : c \in Slots}

(* GC_OK, or exit(1) when the connects free list is messed up.             *)
AcceptOK ==
  /\ pc = "accept"
  /\ num_connects < MaxConnects
  /\ backlog[Listener] > 0
  /\ IF FreeListMessedUp
       THEN pc' = "crit" /\ UNCHANGED << slotVars, backlog >>
       ELSE /\ \E fd \in Fds \ OpenFds : Accept(first_free_connect, fd)
            /\ backlog' = [backlog EXCEPT ![Listener] = @ - 1]
            /\ UNCHANGED pc
  /\ UNCHANGED << idle_left, ret, cnum, roundVars, listening, sigVars >>

(* GC_FAIL: accept() failed; the client may or may not be gone.            *)
AcceptFail ==
  /\ pc = "accept"
  /\ num_connects < MaxConnects
  /\ backlog[Listener] > 0
  /\ RunTimersThenReturn0
  /\ \/ backlog' = [backlog EXCEPT ![Listener] = @ - 1]
     \/ UNCHANGED backlog
  /\ UNCHANGED << slotVars, idle_left, cnum, roundVars, listening, sigVars >>

(* GC_NO_MORE: return 1, and the loop goes back to fdwatch().              *)
AcceptNoMore ==
  /\ pc = "accept"
  /\ num_connects < MaxConnects
  /\ backlog[Listener] = 0
  /\ pc' = "fdwatch"
  /\ lready' = {} /\ rfdset' = {} /\ wfdset' = {}
  /\ UNCHANGED << slotVars, idle_left, ret, cnum, netVars, sigVars >>

-----------------------------------------------------------------------------
(* Serving the connections fdwatch_get_next_client_data() returns          *)

CheckFd(fd) ==
  /\ fd \in Fds
  /\ \/ fd_rw[fd] = "read" /\ fd \in rfdset
     \/ fd_rw[fd] = "write" /\ fd \in wfdset

(* Mutant: the ready list does not move on.                                *)
ServeAgain(fd) ==
  /\ pc = "dispatch"
  /\ fd \in rfdset \cup wfdset
  /\ UNCHANGED << idle_left, pc, ret, cnum, roundVars, netVars, sigVars >>

Serve(fd) ==
  /\ pc = "dispatch"
  /\ fd \in rfdset \cup wfdset
  /\ rfdset' = rfdset \ {fd}
  /\ wfdset' = wfdset \ {fd}
  /\ UNCHANGED << idle_left, pc, ret, cnum, lready, netVars, sigVars >>

(* The descriptor was closed since fdwatch() returned: no client data.     *)
ServeGone(fd) ==
  Serve(fd) /\ fd_data[fd] = NoSlot /\ UNCHANGED slotVars

(* It is now watched for something else, or by another connection.         *)
ServeNotReady(fd) ==
  /\ Serve(fd)
  /\ fd_data[fd] # NoSlot /\ ~ CheckFd(conn_fd[fd_data[fd]])
  /\ LET c == fd_data[fd] IN
     ClearConnection(c, should_linger[c], file_address[c])

ServeConnection(fd) ==
  /\ Serve(fd)
  /\ fd_data[fd] # NoSlot /\ CheckFd(conn_fd[fd_data[fd]])
  /\ LET c == fd_data[fd] IN
     \/ conn_state[c] = "READING" /\ HandleRead(c)
     \/ conn_state[c] = "SENDING" /\ HandleSend(c)
     \/ conn_state[c] = "LINGERING" /\ HandleLinger(c)

(* All the ready connections are served: tmr_run().                        *)
DispatchDone ==
  /\ pc = "dispatch"
  /\ rfdset \cup wfdset = {}
  /\ pc' = "tmr_run" /\ ret' = "round"
  /\ UNCHANGED << slotVars, idle_left, cnum, roundVars, netVars, sigVars >>

-----------------------------------------------------------------------------
(* tmr_run() and the timer procedures                                      *)

(* wakeup_connection(); tmr_run() then cancels the timer.                  *)
Wakeup(t) ==
  LET c == timer[t].conn IN
  /\ pc = "tmr_run"
  /\ t \in DueTimers /\ timer[t].proc = "wakeup"
  /\ wakeup_timer' = [wakeup_timer EXCEPT ![c] = NoTimer]
  /\ IF conn_state[c] = "PAUSING"
       THEN /\ conn_state' = [conn_state EXCEPT ![c] = "SENDING"]
            /\ AddFd(conn_fd[c], c, "write")
       ELSE UNCHANGED << conn_state, fd_rw, fd_data >>
  /\ timer' = CancelTimer(timer, t)
  /\ UNCHANGED << conn_fd, budget, idle_for, should_linger, file_address,
                  linger_timer, next_free_connect, first_free_connect,
                  num_connects >>
  /\ UNCHANGED << idle_left, pc, ret, cnum, roundVars, netVars, sigVars >>

(* linger_clear_connection(); tmr_run() then cancels the timer.            *)
LingerClear(t) ==
  /\ pc = "tmr_run"
  /\ t \in DueTimers /\ timer[t].proc = "linger"
  /\ ReallyClearConnection(timer[t].conn, CancelTimer(timer, t), NoTimer)
  /\ UNCHANGED << should_linger, wakeup_timer >>
  /\ UNCHANGED << idle_left, pc, ret, cnum, roundVars, netVars, sigVars >>

IdleStart ==
  /\ pc = "tmr_run" /\ idle_left = 0
  /\ pc' = "idle" /\ cnum' = 0
  /\ UNCHANGED << slotVars, idle_left, ret, roundVars, netVars, sigVars >>

(* Mutant: a connection that reads has no timeout.                         *)
IdledOutSending(c) ==
  conn_state[c] \in {"SENDING", "PAUSING"} /\ idle_for[c] >= IdleSendLimit

IdledOut(c) ==
  \/ conn_state[c] = "READING" /\ idle_for[c] >= IdleReadLimit
  \/ conn_state[c] \in {"SENDING", "PAUSING"} /\ idle_for[c] >= IdleSendLimit

(* One turn of the loop of idle().                                         *)
IdleStep ==
  /\ pc = "idle" /\ cnum < MaxConnects
  /\ cnum' = cnum + 1
  /\ IF IdledOut(cnum)
       THEN ClearConnection(cnum, should_linger[cnum], file_address[cnum])
       ELSE UNCHANGED slotVars
  /\ UNCHANGED << idle_left, pc, ret, roundVars, netVars, sigVars >>

(* idle() returns and tmr_run() reschedules its timer.                     *)
IdleDone ==
  /\ pc = "idle" /\ cnum = MaxConnects
  /\ pc' = "tmr_run" /\ cnum' = 0
  /\ idle_left' = IdlePeriod
  /\ UNCHANGED << slotVars, ret, roundVars, netVars, sigVars >>

NothingDue == DueTimers = {} /\ idle_left # 0

(* tmr_run() returns to handle_newconnect(), which returns 0.              *)
ReturnToListen ==
  /\ pc = "tmr_run" /\ ret = "listen" /\ NothingDue
  /\ lready' = lready \ {Listener}
  /\ pc' = IF lready' = {} THEN "dispatch" ELSE "accept"
  /\ UNCHANGED << slotVars, idle_left, ret, cnum, rfdset, wfdset, netVars,
                  sigVars >>

(* tmr_run() returns to the loop after a timeout: continue.                *)
ReturnToFdwatch ==
  /\ pc = "tmr_run" /\ ret = "fdwatch" /\ NothingDue
  /\ pc' = "fdwatch"
  /\ UNCHANGED << slotVars, idle_left, ret, cnum, roundVars, netVars, sigVars >>

(* Mutant: the listen sockets stay open.                                   *)
UnlistenNot == UNCHANGED netVars

(* httpd_unlisten(): the sockets are closed, the clients waiting refused.  *)
Unlisten ==
  /\ listening' = {}
  /\ backlog' = [l \in ListenFds |-> 0]

(* tmr_run() returns to the end of a round, which looks at got_usr1.       *)
ReturnToRoundEnd ==
  /\ pc = "tmr_run" /\ ret = "round" /\ NothingDue
  /\ pc' = "fdwatch"
  /\ IF got_usr1 /\ ~ terminate
       THEN terminate' = TRUE /\ Unlisten
       ELSE UNCHANGED << terminate, netVars >>
  /\ UNCHANGED << slotVars, idle_left, ret, cnum, roundVars, got_usr1, quitting >>

-----------------------------------------------------------------------------
(* The environment: clients, time, and SIGUSR1 in the main thread          *)

Ended == pc \in {"exited", "aborted"}

Connect(l) ==
  /\ ~ Ended
  /\ l \in listening /\ backlog[l] < MaxBacklog
  /\ backlog' = [backlog EXCEPT ![l] = @ + 1]
  /\ UNCHANGED << slotVars, idle_left, pc, ret, cnum, roundVars, listening,
                  sigVars >>

Older(c) ==
  IF conn_state[c] \in Timing /\ idle_for[c] < MaxIdle
    THEN idle_for[c] + 1 ELSE idle_for[c]

Tick ==
  /\ pc = "fdwatch"
  /\ idle_for' = [c \in Slots |-> Older(c)]
  /\ timer' = [t \in TimerIds |->
                 IF timer[t].left > 0
                   THEN [timer[t] EXCEPT !.left = @ - 1] ELSE timer[t]]
  /\ idle_left' = IF idle_left > 0 THEN idle_left - 1 ELSE 0
  /\ UNCHANGED << conn_state, conn_fd, budget, should_linger, file_address,
                  wakeup_timer, linger_timer, next_free_connect,
                  first_free_connect, num_connects, fd_rw, fd_data >>
  /\ UNCHANGED << pc, ret, cnum, roundVars, netVars, sigVars >>

(* handle_usr1(): with no connections it goes on to shut_down() and        *)
(* exit(0), with the http thread still running meanwhile.                  *)
Usr1 ==
  /\ ~ Ended /\ pc # "crit" /\ ~ quitting
  /\ IF num_connects = 0 THEN quitting' = TRUE /\ UNCHANGED got_usr1
                         ELSE got_usr1' = TRUE /\ UNCHANGED quitting
  /\ UNCHANGED << slotVars, idle_left, pc, ret, cnum, roundVars, netVars,
                  terminate >>

(* shut_down() closes the sockets and unmaps the files while the http      *)
(* thread may still be in its loop.  Only its end, the exit of the whole   *)
(* process, is a step here: what the http thread does on the structures    *)
(* being taken down is not modelled.                                       *)
Usr1Exit ==
  /\ quitting /\ ~ Ended /\ pc # "crit"
  /\ pc' = "exited"
  /\ UNCHANGED << slotVars, idle_left, ret, cnum, roundVars, netVars, sigVars >>

(* handle_alrm() finds that occasional() has not run since the alarm       *)
(* before, which takes a handler that is held: Signals has the clocks.     *)
Watchdog ==
  /\ writing # NoSlot /\ ~ Ended
  /\ pc' = "aborted"
  /\ UNCHANGED << slotVars, idle_left, ret, cnum, roundVars, netVars, sigVars >>

Exited == Ended /\ UNCHANGED engineVars

-----------------------------------------------------------------------------
(* A handler that its client holds                                         *)

(* The http thread is about to answer c: in handle_read(), or in idle()    *)
(* with the page that says the time to send a request is over.             *)
AtRead(c) ==
  /\ pc = "dispatch"
  /\ \E fd \in rfdset \cup wfdset :
       fd_data[fd] = c /\ conn_state[c] = "READING" /\ CheckFd(conn_fd[c])

AtTimeout(c) ==
  pc = "idle" /\ cnum = c /\ conn_state[c] = "READING" /\ IdledOut(c)

(* httpd_write_fully() of the answer, or the read of the rest of a POST    *)
(* body, finds nothing to do, sleeps and tries again.                      *)
Hold(c) ==
  /\ AtRead(c) \/ AtTimeout(c)
  /\ writing' = c
  /\ UNCHANGED engineVars

(* The client takes the bytes, sends the body or goes away, and the        *)
(* handler ends as it would have.                                          *)
EndRead(c) ==
  \E fd \in Fds :
    /\ Serve(fd)
    /\ fd_data[fd] = c /\ conn_state[c] = "READING" /\ CheckFd(conn_fd[c])
    /\ ReadAnswer(c)

EndTimeout(c) == AtTimeout(c) /\ IdleStep

LetGo(c) ==
  /\ writing = c
  /\ EndRead(c) \/ EndTimeout(c)
  /\ writing' = NoSlot

-----------------------------------------------------------------------------

Init ==
  /\ conn_state = [c \in Slots |-> "FREE"]
  /\ conn_fd = [c \in Slots |-> NoFd]
  /\ budget = [c \in Slots |-> 0]
  /\ idle_for = [c \in Slots |-> 0]
  /\ should_linger = [c \in Slots |-> FALSE]
  /\ file_address = [c \in Slots |-> FALSE]
  /\ wakeup_timer = [c \in Slots |-> NoTimer]
  /\ linger_timer = [c \in Slots |-> NoTimer]
  /\ next_free_connect =
       [c \in Slots |-> IF c = MaxConnects - 1 THEN NoSlot ELSE c + 1]
  /\ first_free_connect = 0 /\ num_connects = 0
  /\ fd_rw = [fd \in Fds |-> "none"]
  /\ fd_data = [fd \in Fds |-> NoSlot]
  /\ timer = [t \in TimerIds |-> NoProc]
  /\ idle_left = IdlePeriod
  /\ pc = "fdwatch" /\ ret = "fdwatch" /\ cnum = 0
  /\ lready = {} /\ rfdset = {} /\ wfdset = {}
  /\ listening = ListenFds
  /\ backlog = [l \in ListenFds |-> 0]
  /\ got_usr1 = FALSE /\ terminate = FALSE /\ quitting = FALSE
  /\ writing = NoSlot

(* A step of the http thread in which no client holds it.                  *)
Handler ==
  \/ FdwatchReady \/ FdwatchTimeout \/ LoopExit
  \/ TableFull \/ AcceptOK \/ AcceptFail \/ AcceptNoMore
  \/ \E fd \in Fds : ServeGone(fd) \/ ServeNotReady(fd) \/ ServeConnection(fd)
  \/ DispatchDone
  \/ \E t \in TimerIds : Wakeup(t) \/ LingerClear(t)
  \/ IdleStart \/ IdleStep \/ IdleDone
  \/ ReturnToListen \/ ReturnToFdwatch \/ ReturnToRoundEnd

HttpThread ==
  /\ writing = NoSlot
  /\ \/ Handler /\ UNCHANGED writing
     \/ \E c \in Slots : Hold(c)

(* What goes on whether the http thread is held or not.                    *)
Environment ==
  \/ \E l \in ListenFds : Connect(l)
  \/ Tick
  \/ Usr1 \/ Usr1Exit \/ Watchdog
  \/ Exited

Next ==
  \/ HttpThread
  \/ \E c \in Slots : LetGo(c)
  \/ Environment /\ UNCHANGED writing

Spec == Init /\ [][Next]_vars

(* The scheduler runs the http thread and a signal handler that has begun, *)
(* and time passes in fdwatch() again and again.  Nothing makes a client   *)
(* let go of the http thread, so LetGo has no fairness; but the alarm that *)
(* thttpd_start_main() and handle_alrm() arm rings meanwhile.              *)
FairSpec ==
  Spec /\ WF_vars(HttpThread) /\ WF_vars(Usr1Exit /\ UNCHANGED writing)
       /\ WF_vars(Watchdog /\ UNCHANGED writing)
       /\ SF_vars(Tick /\ UNCHANGED writing)

-----------------------------------------------------------------------------
(* Properties                                                              *)

TimerRecords ==
  [proc : {"none", "wakeup", "linger"}, conn : Slots, left : Nat]

SlotTypeOK ==
  /\ conn_state \in [Slots -> States]
  /\ conn_fd \in [Slots -> Fds \cup {NoFd}]
  /\ budget \in [Slots -> 0 .. MaxIO]
  /\ idle_for \in [Slots -> 0 .. MaxIdle]
  /\ should_linger \in [Slots -> BOOLEAN]
  /\ file_address \in [Slots -> BOOLEAN]
  /\ wakeup_timer \in [Slots -> TimerIds \cup {NoTimer}]
  /\ linger_timer \in [Slots -> TimerIds \cup {NoTimer}]
  /\ next_free_connect \in [Slots -> Slots \cup {NoSlot}]
  /\ first_free_connect \in Slots \cup {NoSlot}
  /\ num_connects \in Int
  /\ fd_rw \in [Fds -> {"none", "read", "write"}]
  /\ fd_data \in [Fds -> Slots \cup {NoSlot}]
  /\ timer \in [TimerIds -> TimerRecords]

LoopTypeOK ==
  /\ idle_left \in Nat
  /\ pc \in {"fdwatch", "accept", "dispatch", "tmr_run", "idle", "exited",
             "aborted", "crit"}
  /\ ret \in {"fdwatch", "listen", "round"}
  /\ cnum \in 0 .. MaxConnects
  /\ rfdset \subseteq Fds /\ wfdset \subseteq Fds
  /\ lready \subseteq ListenFds /\ listening \subseteq ListenFds
  /\ pc = "accept" => lready # {}
  /\ pc \in {"tmr_run", "idle"} /\ ret = "listen" => lready # {}
  /\ backlog \in [ListenFds -> 0 .. MaxBacklog]
  /\ got_usr1 \in BOOLEAN /\ terminate \in BOOLEAN /\ quitting \in BOOLEAN

HoldTypeOK ==
  /\ writing \in Slots \cup {NoSlot}
  /\ writing # NoSlot => /\ pc \in {"dispatch", "idle"} \/ Ended
                         /\ conn_state[writing] = "READING"

(* Every variable stays in its type: each slot, descriptor and timer, and  *)
(* the main loop is never at a listen socket with none left to serve.      *)
TypeOK == SlotTypeOK /\ LoopTypeOK /\ HoldTypeOK

FreeSlots == {c \in Slots : conn_state[c] = "FREE"}

(* The free list threaded through connects[] holds every FREE slot exactly *)
(* once and nothing else: it stays inside the FREE slots, no two slots     *)
(* have one successor, nothing precedes the head, and it has no cycle.     *)
FreeListExact ==
  /\ first_free_connect \in FreeSlots \cup {NoSlot}
  /\ first_free_connect = NoSlot => FreeSlots = {}
  /\ \A c \in FreeSlots : /\ next_free_connect[c] \in FreeSlots \cup {NoSlot}
                          /\ next_free_connect[c] # first_free_connect
  /\ \A c, d \in FreeSlots :
       next_free_connect[c] = next_free_connect[d] => c = d
  /\ \A S \in SUBSET FreeSlots :
       S # {} => \E c \in S : next_free_connect[c] \notin S

(* num_connects counts the slots in use, and the server never takes the    *)
(* "connects free list is messed up" exit of handle_newconnect().          *)
CountExact ==
  /\ num_connects = Cardinality(Slots \ FreeSlots)
  /\ pc # "crit"

WatchFor(c) == IF conn_state[c] = "SENDING" THEN "write" ELSE "read"

(* A connection that reads, sends or lingers is watched, for itself and    *)
(* for the right direction; a pausing or freed one is not; a descriptor    *)
(* belongs to one connection, so readiness is never given to a wrong one.  *)
WatchExact ==
  /\ \A c \in Slots : conn_state[c] = "FREE" <=> conn_fd[c] = NoFd
  /\ \A c \in Slots :
       conn_state[c] \in {"READING", "SENDING", "LINGERING"} =>
         /\ fd_rw[conn_fd[c]] = WatchFor(c)
         /\ fd_data[conn_fd[c]] = c
  /\ \A fd \in Fds : fd_rw[fd] = "none" <=> fd_data[fd] = NoSlot
  /\ \A fd \in Fds : fd_rw[fd] # "none" =>
       /\ conn_fd[fd_data[fd]] = fd
       /\ conn_state[fd_data[fd]] # "PAUSING"
  /\ \A c, d \in Slots : conn_fd[c] = conn_fd[d] /\ conn_fd[c] # NoFd => c = d

(* A connection has a pending wakeup timer exactly while it is PAUSING and *)
(* a pending linger timer exactly while it is LINGERING, and there is no   *)
(* other one-shot timer: no timer outlives its connection to fire on the   *)
(* next client of the slot, and no paused connection sleeps for ever.      *)
TimersExact ==
  /\ \A c \in Slots : conn_state[c] = "PAUSING" <=> wakeup_timer[c] # NoTimer
  /\ \A c \in Slots : conn_state[c] = "LINGERING" <=> linger_timer[c] # NoTimer
  /\ \A c \in Slots : wakeup_timer[c] # NoTimer =>
       timer[wakeup_timer[c]].proc = "wakeup" /\ timer[wakeup_timer[c]].conn = c
  /\ \A c \in Slots : linger_timer[c] # NoTimer =>
       timer[linger_timer[c]].proc = "linger" /\ timer[linger_timer[c]].conn = c
  /\ \A t \in TimerIds :
       /\ timer[t].proc = "wakeup" => wakeup_timer[timer[t].conn] = t
       /\ timer[t].proc = "linger" => linger_timer[timer[t].conn] = t

(* A connection that still has to send holds its mapped file, and a slot   *)
(* given back holds none (its mapping has been released).                  *)
FileHeld ==
  \A c \in Slots :
    /\ conn_state[c] \in {"SENDING", "PAUSING"} => file_address[c]
    /\ conn_state[c] = "FREE" => ~ file_address[c]

(* "Something went wrong" in the main loop, the fdwatch_check_fd() that    *)
(* fails on stale readiness, never cuts a connection that is sending.      *)
SendingNotCut ==
  \A fd \in rfdset \cup wfdset :
    fd_data[fd] # NoSlot =>
      (conn_state[fd_data[fd]] = "SENDING" => CheckFd(conn_fd[fd_data[fd]]))

(* The engine implements the pool: a server that drains accepts nobody,    *)
(* and it exits only drained, or told to quit when it had no connection;   *)
(* the watchdog aborts no server that is idle.                             *)
Mode ==
  IF Ended THEN pc ELSE
  IF quitting THEN "quitting" ELSE
  IF terminate THEN "draining" ELSE "open"

Pool == INSTANCE ConnPool WITH active <- Slots \ FreeSlots, mode <- Mode
PoolSafety == Pool!Safety

(* Every client that is accepted is let go, or the server ends: a timeout  *)
(* covers each state, and new clients, which are always served first, do   *)
(* not keep the loop from its timers and connections.  When one of them    *)
(* holds the http thread in a handler for ever, it is the watchdog that    *)
(* ends them all.                                                          *)
EveryConnectionEnds ==
  \A c \in Slots : conn_state[c] # "FREE" ~> (conn_state[c] = "FREE" \/ Ended)

(* Once the main loop has seen got_usr1 the server ends: it exits, or is   *)
(* aborted while a client holds the http thread.                           *)
DrainEnds == terminate ~> Ended

(* "SIGUSR1 says to exit as soon as all current connections are done."     *)
Usr1Exits == got_usr1 ~> Ended

=============================================================================
