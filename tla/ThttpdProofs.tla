---------------------------- MODULE ThttpdProofs ----------------------------
(***************************************************************************)
(* Proofs about the connection engine, for every table size, set of        *)
(* descriptors and choice of limits: the types, the free list, the count   *)
(* of connections, the fdwatch registrations, the timers, the mappings,    *)
(* and that the engine implements ConnPool.                                *)
(***************************************************************************)
EXTENDS Thttpd, FiniteSetTheorems, WellFoundedInduction, TLAPS

USE DEF States, Timing

(* The engine without the variable that says who holds its thread.         *)
EngineNext == Handler \/ Environment
EngineTypeOK == SlotTypeOK /\ LoopTypeOK

-----------------------------------------------------------------------------
(* Type correctness                                                        *)

(* The table has a slot 0, and no slot is the end of a list.               *)
LEMMA SlotsFacts == 0 \in Slots /\ NoSlot \notin Slots
BY MaxConnectsAssumption DEF Slots, NoSlot

(* The record of a timer that is not scheduled is a timer record.          *)
LEMMA NoProcType == NoProc \in TimerRecords
BY SlotsFacts DEF NoProc, TimerRecords

(* The empty budget, the full budget and no idle time are in their ranges. *)
LEMMA RangeFacts ==
  /\ 0 \in 0 .. MaxIO /\ 0 \in 0 .. MaxIdle
  /\ 1 .. MaxIO \subseteq 0 .. MaxIO /\ MaxIO \in 0 .. MaxIO
BY BoundsAssumption, TimesAssumption DEF MaxIdle

(* The initial state is well typed.                                        *)
LEMMA InitTypeOK == Init => EngineTypeOK
<1> SUFFICES ASSUME Init PROVE EngineTypeOK
  OBVIOUS
<1>1. timer \in [TimerIds -> TimerRecords]
  BY NoProcType DEF Init
<1>2. next_free_connect \in [Slots -> Slots \cup {NoSlot}]
  BY MaxConnectsAssumption DEF Init, Slots
<1>3. /\ budget \in [Slots -> 0 .. MaxIO]
      /\ idle_for \in [Slots -> 0 .. MaxIdle]
  BY RangeFacts DEF Init
<1>4. SlotTypeOK
  BY <1>1, <1>2, <1>3, SlotsFacts DEF Init, SlotTypeOK
<1>5. /\ cnum \in 0 .. MaxConnects /\ idle_left \in Nat
      /\ backlog \in [ListenFds -> 0 .. MaxBacklog]
  BY MaxConnectsAssumption, TimesAssumption, BoundsAssumption DEF Init
<1>6. LoopTypeOK
  BY <1>5 DEF Init, LoopTypeOK
<1>7. QED
  BY <1>4, <1>6 DEF EngineTypeOK

(* Cancelling a timer leaves every timer with a record.                    *)
LEMMA CancelType ==
  ASSUME NEW tm \in [TimerIds -> TimerRecords], NEW t
  PROVE  CancelTimer(tm, t) \in [TimerIds -> TimerRecords]
BY NoProcType DEF CancelTimer

(* Scheduling a timer leaves every timer with a record.                    *)
LEMMA CreateType ==
  ASSUME NEW tm \in [TimerIds -> TimerRecords], NEW t, NEW c \in Slots,
         NEW proc \in {"wakeup", "linger"}, NEW delay \in Nat,
         CreateTimer(tm, t, proc, c, delay)
  PROVE  timer' \in [TimerIds -> TimerRecords]
BY DEF CreateTimer, TimerRecords

(* Closing a connection, whatever timers its caller has left.              *)
LEMMA ReallyClearType ==
  ASSUME SlotTypeOK, NEW c \in Slots, NEW lt,
         NEW tm \in [TimerIds -> TimerRecords],
         ReallyClearConnection(c, tm, lt),
         wakeup_timer' \in [Slots -> TimerIds \cup {NoTimer}],
         should_linger' \in [Slots -> BOOLEAN]
  PROVE  SlotTypeOK'
<1>1. timer' \in [TimerIds -> TimerRecords]
  BY CancelType DEF ReallyClearConnection
<1>2. /\ fd_rw' \in [Fds -> {"none", "read", "write"}]
      /\ fd_data' \in [Fds -> Slots \cup {NoSlot}]
  BY DEF SlotTypeOK, ReallyClearConnection, UnwatchUnlessPausing, DelFd
<1>3. /\ next_free_connect' \in [Slots -> Slots \cup {NoSlot}]
      /\ first_free_connect' \in Slots \cup {NoSlot}
      /\ num_connects' \in Int
  BY DEF SlotTypeOK, ReallyClearConnection, PushFree
<1>4. QED
  BY <1>1, <1>2, <1>3, RangeFacts DEF SlotTypeOK, ReallyClearConnection, CloseConn

(* Letting a connection linger, or closing it.                             *)
LEMMA ClearType ==
  ASSUME SlotTypeOK, NEW c \in Slots, NEW linger \in BOOLEAN,
         NEW mapped \in BOOLEAN, ClearConnection(c, linger, mapped)
  PROVE  SlotTypeOK'
<1> DEFINE tm == CancelTimer(timer, wakeup_timer[c])
<1>1. tm \in [TimerIds -> TimerRecords]
  BY CancelType DEF SlotTypeOK
<1>2. wakeup_timer' \in [Slots -> TimerIds \cup {NoTimer}]
  BY DEF SlotTypeOK, ClearConnection
<1>3. CASE linger /\ conn_state[c] # "LINGERING"
  <2>1. StartLinger(c, tm, mapped)
    BY <1>3 DEF ClearConnection
  <2> HIDE DEF tm
  <2>2. timer' \in [TimerIds -> TimerRecords]
    BY <1>1, <2>1, CreateType, TimesAssumption DEF StartLinger
  <2>3. linger_timer' \in [Slots -> TimerIds \cup {NoTimer}]
    BY <2>1 DEF StartLinger, SlotTypeOK
  <2>4. QED
    BY <1>2, <2>1, <2>2, <2>3, RangeFacts
    DEF SlotTypeOK, StartLinger, AddFd, ReplaceFd
<1>4. CASE ~ (linger /\ conn_state[c] # "LINGERING")
  <2>1. /\ ReallyClearConnection(c, tm, linger_timer[c])
        /\ should_linger' = [should_linger EXCEPT ![c] = FALSE]
    BY <1>4 DEF ClearConnection
  <2>2. should_linger' \in [Slots -> BOOLEAN]
    BY <2>1 DEF SlotTypeOK
  <2> HIDE DEF tm
  <2>3. QED
    BY <1>1, <1>2, <2>1, <2>2, ReallyClearType
<1>5. QED
  BY <1>3, <1>4

(* Pausing a connection until its wakeup timer fires.                      *)
LEMMA PauseType ==
  ASSUME SlotTypeOK, NEW c \in Slots, Pause(c),
         budget' \in [Slots -> 0 .. MaxIO], idle_for' \in [Slots -> 0 .. MaxIdle]
  PROVE  SlotTypeOK'
<1>1. timer' \in [TimerIds -> TimerRecords]
  <2>1. PICK t \in TimerIds, delay \in WakeDelays :
          CreateTimer(timer, t, "wakeup", c, delay)
    BY DEF Pause
  <2>2. QED
    BY <2>1, CreateType, TimesAssumption DEF SlotTypeOK
<1>2. wakeup_timer' \in [Slots -> TimerIds \cup {NoTimer}]
  BY DEF Pause, SlotTypeOK
<1>3. QED
  BY <1>1, <1>2 DEF SlotTypeOK, Pause, DelFd

(* Reading a request: every outcome of handle_read().                      *)
LEMMA ReadType ==
  ASSUME SlotTypeOK, NEW c \in Slots, HandleRead(c)
  PROVE  SlotTypeOK'
<1>1. CASE ReadNothing(c)
  BY <1>1 DEF ReadNothing, SlotTypeOK, slotVars
<1>2. CASE ReadPart(c)
  <2>1. budget' \in [Slots -> 0 .. MaxIO]
    BY <1>2, BoundsAssumption DEF ReadPart, SlotTypeOK
  <2>2. QED
    BY <1>2, <2>1, RangeFacts DEF ReadPart, SlotTypeOK
<1>3. CASE ReadAnswer(c)
  BY <1>3, ClearType DEF ReadAnswer
<1>4. CASE ReadFile(c)
  BY <1>4, RangeFacts DEF ReadFile, SlotTypeOK, ReplaceFd
<1>5. QED
  BY <1>1, <1>2, <1>3, <1>4 DEF HandleRead

(* Writing a part of a file: every outcome of handle_send().               *)
LEMMA SendType ==
  ASSUME SlotTypeOK, NEW c \in Slots, HandleSend(c)
  PROVE  SlotTypeOK'
<1>1. CASE UNCHANGED slotVars
  BY <1>1 DEF SlotTypeOK, slotVars
<1>2. CASE SendBlocked(c)
  BY <1>2, PauseType DEF SendBlocked, SlotTypeOK
<1>3. CASE SendPart(c)
  <2>1. /\ budget' \in [Slots -> 0 .. MaxIO]
        /\ idle_for' \in [Slots -> 0 .. MaxIdle]
    BY <1>3, BoundsAssumption, RangeFacts DEF SendPart, SlotTypeOK
  <2>2. CASE Pause(c)
    BY <2>1, <2>2, PauseType
  <2>3. CASE ~ Pause(c)
    BY <1>3, <2>1, <2>3 DEF SendPart, SlotTypeOK
  <2>4. QED
    BY <2>2, <2>3
<1>4. CASE SendEnd(c)
  <2>1. should_linger[c] \in BOOLEAN /\ file_address[c] \in BOOLEAN
    BY DEF SlotTypeOK
  <2>2. QED
    BY <1>4, <2>1, ClearType DEF SendEnd
<1>5. QED
  BY <1>1, <1>2, <1>3, <1>4 DEF HandleSend

(* Throwing bytes away, or closing a connection that lingers.              *)
LEMMA LingerType ==
  ASSUME SlotTypeOK, NEW c \in Slots, HandleLinger(c)
  PROVE  SlotTypeOK'
<1>1. CASE UNCHANGED slotVars
  BY <1>1 DEF SlotTypeOK, slotVars
<1>2. CASE /\ ReallyClearConnection(c, timer, linger_timer[c])
           /\ UNCHANGED << should_linger, wakeup_timer >>
  BY <1>2, ReallyClearType DEF SlotTypeOK
<1>3. QED
  BY <1>1, <1>2 DEF HandleLinger

(* Serving a descriptor that fdwatch() said is ready.                      *)
LEMMA ServeType ==
  ASSUME SlotTypeOK, NEW fd \in Fds,
         ServeGone(fd) \/ ServeNotReady(fd) \/ ServeConnection(fd)
  PROVE  SlotTypeOK'
<1>1. CASE ServeGone(fd)
  BY <1>1 DEF ServeGone, SlotTypeOK, slotVars
<1>2. CASE ServeNotReady(fd)
  <2>1. fd_data[fd] \in Slots
    BY <1>2 DEF ServeNotReady, SlotTypeOK
  <2>2. /\ should_linger[fd_data[fd]] \in BOOLEAN
        /\ file_address[fd_data[fd]] \in BOOLEAN
    BY <2>1 DEF SlotTypeOK
  <2>3. QED
    BY <1>2, <2>1, <2>2, ClearType DEF ServeNotReady
<1>3. CASE ServeConnection(fd)
  <2>1. fd_data[fd] \in Slots
    BY <1>3 DEF ServeConnection, SlotTypeOK
  <2>2. \/ HandleRead(fd_data[fd])
        \/ HandleSend(fd_data[fd])
        \/ HandleLinger(fd_data[fd])
    BY <1>3 DEF ServeConnection
  <2>3. QED
    BY <2>1, <2>2, ReadType, SendType, LingerType
<1>4. QED
  BY <1>1, <1>2, <1>3

(* Taking a client into the first slot of the free list.                   *)
LEMMA AcceptType ==
  ASSUME SlotTypeOK, NEW c \in Slots, NEW fd \in Fds, Accept(c, fd)
  PROVE  SlotTypeOK'
<1>1. /\ next_free_connect' \in [Slots -> Slots \cup {NoSlot}]
      /\ first_free_connect' \in Slots \cup {NoSlot}
      /\ num_connects' \in Int
  BY DEF SlotTypeOK, Accept, PopFree
<1>2. QED
  BY <1>1, RangeFacts DEF SlotTypeOK, Accept, AddFd, ReplaceFd

(* A timer procedure.                                                      *)
LEMMA TimerType ==
  ASSUME SlotTypeOK, NEW t \in TimerIds, Wakeup(t) \/ LingerClear(t)
  PROVE  SlotTypeOK'
<1>1. timer[t].conn \in Slots
  BY DEF SlotTypeOK, TimerRecords
<1>2. CancelTimer(timer, t) \in [TimerIds -> TimerRecords]
  BY CancelType DEF SlotTypeOK
<1>3. CASE Wakeup(t)
  BY <1>1, <1>2, <1>3 DEF SlotTypeOK, Wakeup, AddFd, ReplaceFd
<1>4. CASE LingerClear(t)
  BY <1>1, <1>2, <1>4, ReallyClearType DEF LingerClear, SlotTypeOK
<1>5. QED
  BY <1>3, <1>4

(* Time passing.                                                           *)
LEMMA TickType ==
  ASSUME SlotTypeOK, Tick
  PROVE  SlotTypeOK'
<1>1. idle_for' \in [Slots -> 0 .. MaxIdle]
  BY TimesAssumption DEF Tick, Older, SlotTypeOK, MaxIdle
<1>2. timer' \in [TimerIds -> TimerRecords]
  BY DEF Tick, SlotTypeOK, TimerRecords
<1>3. QED
  BY <1>1, <1>2 DEF Tick, SlotTypeOK

(* Every step keeps the types of the slots.                                *)
LEMMA NextSlotType ==
  ASSUME EngineTypeOK, [EngineNext]_engineVars
  PROVE  SlotTypeOK'
<1> USE DEF EngineTypeOK
<1>1. CASE UNCHANGED slotVars
  BY <1>1 DEF SlotTypeOK, slotVars
<1>2. CASE AcceptOK
  <2>1. CASE FreeListMessedUp
    BY <1>1, <1>2, <2>1 DEF AcceptOK
  <2>2. CASE ~ FreeListMessedUp
    BY <1>2, <2>2, AcceptType DEF AcceptOK, FreeListMessedUp, SlotTypeOK
  <2>3. QED
    BY <2>1, <2>2
<1>3. CASE \E fd \in Fds :
             ServeGone(fd) \/ ServeNotReady(fd) \/ ServeConnection(fd)
  BY <1>3, ServeType
<1>4. CASE \E t \in TimerIds : Wakeup(t) \/ LingerClear(t)
  BY <1>4, TimerType
<1>5. CASE IdleStep
  <2>1. CASE IdledOut(cnum)
    <3>1. cnum \in Slots
      BY <1>5, MaxConnectsAssumption DEF IdleStep, LoopTypeOK, Slots
    <3>2. should_linger[cnum] \in BOOLEAN /\ file_address[cnum] \in BOOLEAN
      BY <3>1 DEF SlotTypeOK
    <3>3. QED
      BY <1>5, <2>1, <3>1, <3>2, ClearType DEF IdleStep
  <2>2. CASE ~ IdledOut(cnum)
    BY <1>1, <1>5, <2>2 DEF IdleStep
  <2>3. QED
    BY <2>1, <2>2
<1>6. CASE Tick
  BY <1>6, TickType
<1>7. QED
  <2>1. CASE UNCHANGED engineVars
    BY <1>1, <2>1 DEF engineVars
  <2>2. CASE Handler
    BY <1>1, <1>2, <1>3, <1>4, <1>5, <2>2
    DEF Handler, FdwatchReady, FdwatchTimeout, LoopExit, TableFull,
        AcceptFail, AcceptNoMore, DispatchDone, IdleStart, IdleDone,
        ReturnToListen, ReturnToFdwatch, ReturnToRoundEnd
  <2>3. CASE Usr1 \/ Usr1Exit \/ Watchdog \/ Exited \/ \E l \in ListenFds : Connect(l)
    BY <1>1, <2>1, <2>3 DEF Usr1, Usr1Exit, Watchdog, Exited, Connect
  <2>4. QED
    BY <1>6, <2>1, <2>2, <2>3 DEF EngineNext, Environment

(* Serving, timer procedures and signals leave the listen sockets alone.   *)
LEMMA LoopKept ==
  ASSUME LoopTypeOK,
         UNCHANGED << idle_left, cnum, listening, backlog, terminate >>,
         UNCHANGED << pc, ret, lready >>,
         rfdset' \subseteq Fds, wfdset' \subseteq Fds,
         got_usr1' \in BOOLEAN, quitting' \in BOOLEAN
  PROVE  LoopTypeOK'
BY DEF LoopTypeOK

(* The listen socket that is served is one of those fdwatch() found ready. *)
LEMMA ListenerReady ==
  ASSUME lready \subseteq ListenFds, lready # {}
  PROVE  Listener \in lready
<1>1. lready \subseteq {4, 6}
  BY ListenFdsAssumption
<1>2. \E l \in lready : \A k \in lready : k <= l
  <2>1. CASE 6 \in lready
    <3>1. \A k \in lready : k <= 6
      BY <1>1
    <3>2. QED
      BY <2>1, <3>1
  <2>2. CASE 6 \notin lready
    <3>1. lready = {4}
      BY <1>1, <2>2
    <3>2. QED
      BY <3>1
  <2>3. QED
    BY <2>1, <2>2
<1>3. QED
  BY <1>2 DEF Listener

(* A client leaves a listen queue.                                         *)
LEMMA LeaveQueue ==
  ASSUME LoopTypeOK, NEW l \in ListenFds, backlog[l] > 0
  PROVE  [backlog EXCEPT ![l] = @ - 1] \in [ListenFds -> 0 .. MaxBacklog]
BY BoundsAssumption DEF LoopTypeOK

(* Every step keeps the types of the main loop and its environment.        *)
LEMMA NextLoopType ==
  ASSUME EngineTypeOK, [EngineNext]_engineVars
  PROVE  LoopTypeOK'
<1> USE DEF EngineTypeOK
<1>1. CASE UNCHANGED engineVars
  BY <1>1 DEF LoopTypeOK, engineVars, roundVars, netVars, sigVars
<1>2. CASE FdwatchReady
  BY <1>2 DEF FdwatchReady, LoopTypeOK, Watched, netVars, sigVars
<1>3. CASE FdwatchTimeout
  BY <1>3 DEF FdwatchTimeout, LoopTypeOK, netVars, sigVars
<1>4. CASE LoopExit
  BY <1>4 DEF LoopExit, LoopTypeOK, roundVars, netVars, sigVars
<1>5. CASE TableFull
  BY <1>5 DEF TableFull, RunTimersThenReturn0, LoopTypeOK, roundVars, netVars,
              sigVars
<1>6. CASE AcceptOK
  <2>1. Listener \in ListenFds
    BY <1>6, ListenerReady DEF AcceptOK, LoopTypeOK
  <2>2. backlog' \in [ListenFds -> 0 .. MaxBacklog]
    BY <1>6, <2>1, LeaveQueue DEF AcceptOK, LoopTypeOK
  <2>3. QED
    BY <1>6, <2>2 DEF AcceptOK, LoopTypeOK, roundVars, sigVars
<1>7. CASE AcceptFail
  <2>1. Listener \in ListenFds
    BY <1>7, ListenerReady DEF AcceptFail, LoopTypeOK
  <2>2. backlog' \in [ListenFds -> 0 .. MaxBacklog]
    BY <1>7, <2>1, LeaveQueue DEF AcceptFail, LoopTypeOK
  <2>3. QED
    BY <1>7, <2>2 DEF AcceptFail, RunTimersThenReturn0, LoopTypeOK, roundVars,
                      sigVars
<1>8. CASE AcceptNoMore
  BY <1>8 DEF AcceptNoMore, LoopTypeOK, netVars, sigVars
<1>9. CASE \E fd \in Fds :
             ServeGone(fd) \/ ServeNotReady(fd) \/ ServeConnection(fd)
  BY <1>9, LoopKept
  DEF ServeGone, ServeNotReady, ServeConnection, Serve, LoopTypeOK, netVars,
      sigVars
<1>10. CASE DispatchDone
  BY <1>10 DEF DispatchDone, LoopTypeOK, roundVars, netVars, sigVars
<1>11. CASE \E t \in TimerIds : Wakeup(t) \/ LingerClear(t)
  BY <1>11, LoopKept
  DEF Wakeup, LingerClear, LoopTypeOK, roundVars, netVars, sigVars
<1>12. CASE IdleStart \/ IdleStep \/ IdleDone
  <2>1. cnum' \in 0 .. MaxConnects
    BY <1>12, MaxConnectsAssumption DEF IdleStart, IdleStep, IdleDone, LoopTypeOK
  <2>2. idle_left' \in Nat
    BY <1>12, TimesAssumption DEF IdleStart, IdleStep, IdleDone, LoopTypeOK
  <2>3. QED
    BY <1>12, <2>1, <2>2
    DEF IdleStart, IdleStep, IdleDone, LoopTypeOK, roundVars, netVars, sigVars
<1>13. CASE ReturnToListen
  BY <1>13 DEF ReturnToListen, LoopTypeOK, netVars, sigVars
<1>14. CASE ReturnToFdwatch
  BY <1>14 DEF ReturnToFdwatch, LoopTypeOK, roundVars, netVars, sigVars
<1>15. CASE ReturnToRoundEnd
  <2>1. backlog' \in [ListenFds -> 0 .. MaxBacklog]
    BY <1>15, BoundsAssumption
    DEF ReturnToRoundEnd, Unlisten, LoopTypeOK, netVars
  <2>2. QED
    BY <1>15, <2>1
    DEF ReturnToRoundEnd, Unlisten, LoopTypeOK, roundVars, netVars
<1>16. CASE \E l \in ListenFds : Connect(l)
  <2>1. backlog' \in [ListenFds -> 0 .. MaxBacklog]
    BY <1>16, BoundsAssumption DEF Connect, LoopTypeOK
  <2>2. QED
    BY <1>16, <2>1 DEF Connect, LoopTypeOK, roundVars, sigVars
<1>17. CASE Tick
  <2>1. idle_left' \in Nat
    BY <1>17 DEF Tick, LoopTypeOK
  <2>2. QED
    BY <1>17, <2>1 DEF Tick, LoopTypeOK, roundVars, netVars, sigVars
<1>18. CASE Usr1
  BY <1>18, LoopKept DEF Usr1, LoopTypeOK, roundVars, netVars
<1>19. CASE Usr1Exit
  BY <1>19 DEF Usr1Exit, LoopTypeOK, roundVars, netVars, sigVars
<1>20. CASE Watchdog
  BY <1>20 DEF Watchdog, LoopTypeOK, roundVars, netVars, sigVars
<1>21. QED
  BY <1>1, <1>2, <1>3, <1>4, <1>5, <1>6, <1>7, <1>8, <1>9, <1>10, <1>11,
     <1>12, <1>13, <1>14, <1>15, <1>16, <1>17, <1>18, <1>19, <1>20
  DEF EngineNext, Handler, Environment, Exited

(* A step is one of the engine, held or let go of by a client or not.      *)
LEMMA EngineStep == [Next]_vars => [EngineNext]_engineVars
<1> SUFFICES ASSUME [Next]_vars PROVE [EngineNext]_engineVars
  OBVIOUS
<1>1. CASE UNCHANGED vars
  BY <1>1 DEF vars
<1>2. CASE HttpThread
  BY <1>2 DEF HttpThread, Hold, EngineNext
<1>3. ASSUME NEW c \in Slots, LetGo(c) PROVE EngineNext
  <2>1. CASE EndRead(c)
    <3>1. PICK fd \in Fds :
            /\ Serve(fd)
            /\ fd_data[fd] = c /\ conn_state[c] = "READING"
            /\ CheckFd(conn_fd[c])
            /\ ReadAnswer(c)
      BY <2>1 DEF EndRead
    <3>2. fd_data[fd] # NoSlot
      BY <3>1, SlotsFacts
    <3>3. ServeConnection(fd)
      BY <3>1, <3>2 DEF ServeConnection, HandleRead
    <3>4. QED
      BY <3>3 DEF EngineNext, Handler
  <2>2. CASE EndTimeout(c)
    BY <2>2 DEF EndTimeout, EngineNext, Handler
  <2>3. QED
    BY <1>3, <2>1, <2>2 DEF LetGo
<1>4. CASE Environment /\ UNCHANGED writing
  BY <1>4 DEF EngineNext
<1>5. QED
  BY <1>1, <1>2, <1>3, <1>4 DEF Next

(* The thread is only held inside a handler.                               *)
LEMMA NextHoldType == HoldTypeOK /\ [Next]_vars => HoldTypeOK'
<1> SUFFICES ASSUME HoldTypeOK, [Next]_vars PROVE HoldTypeOK'
  OBVIOUS
<1>1. CASE UNCHANGED vars
  BY <1>1 DEF vars, engineVars, slotVars, Ended, HoldTypeOK
<1>2. CASE HttpThread
  <2>1. CASE UNCHANGED writing /\ writing = NoSlot
    BY <2>1 DEF HoldTypeOK
  <2>2. CASE \E c \in Slots : Hold(c)
    BY <2>2 DEF Hold, AtRead, AtTimeout, engineVars, slotVars, HoldTypeOK
  <2>3. QED
    BY <1>2, <2>1, <2>2 DEF HttpThread
<1>3. CASE \E c \in Slots : LetGo(c)
  BY <1>3 DEF LetGo, HoldTypeOK
<1>4. CASE Environment /\ UNCHANGED writing
  <2>1. CASE Exited
    BY <1>4, <2>1 DEF Exited, Ended, engineVars, slotVars, HoldTypeOK
  <2>2. CASE ~ Exited
    BY <1>4, <2>2
    DEF Environment, Connect, Tick, Usr1, Usr1Exit, Watchdog, Ended, slotVars,
        HoldTypeOK
  <2>3. QED
    BY <2>1, <2>2
<1>5. QED
  BY <1>1, <1>2, <1>3, <1>4 DEF Next

(* In every reachable state each slot, descriptor, timer and loop variable *)
(* has its type, whatever the size of the table and of the queues.         *)
THEOREM TypeCorrect == Spec => []TypeOK
<1>1. TypeOK /\ [Next]_vars => TypeOK'
  BY EngineStep, NextSlotType, NextLoopType, NextHoldType
  DEF TypeOK, EngineTypeOK
<1>2. Init => TypeOK
  BY InitTypeOK DEF Init, TypeOK, EngineTypeOK, HoldTypeOK
<1>3. QED
  BY <1>1, <1>2, PTL DEF Spec

-----------------------------------------------------------------------------
(* The inductive invariant                                                 *)

(* The part of the inductive invariant that only speaks of the table, of   *)
(* the registrations and of the timers.                                    *)
SlotInv ==
  /\ SlotTypeOK
  /\ FreeListExact
  /\ WatchExact
  /\ TimersExact
  /\ FileHeld

(* A connection found ready in this round is not PAUSING, and if it is     *)
(* SENDING then it was found ready to be written.                          *)
RoundExact ==
  \A c \in Slots :
    conn_fd[c] \in rfdset \cup wfdset =>
      /\ conn_state[c] # "PAUSING"
      /\ conn_state[c] = "SENDING" => conn_fd[c] \in wfdset

(* A server that drains has closed its listen sockets.                     *)
DrainClosed ==
  terminate => listening = {} /\ \A l \in ListenFds : backlog[l] = 0

Inv == LoopTypeOK /\ SlotInv /\ CountExact /\ RoundExact /\ DrainClosed

-----------------------------------------------------------------------------
(* The free list                                                           *)

(* The free list only depends on which slots are FREE and on its links.    *)
LEMMA FreeListKept ==
  ASSUME FreeListExact, FreeSlots' = FreeSlots,
         UNCHANGED << first_free_connect, next_free_connect >>
  PROVE  FreeListExact'
BY DEF FreeListExact

(* Taking the first free slot leaves a list of the others.                 *)
LEMMA PopFreeList ==
  ASSUME SlotTypeOK, FreeListExact, NEW c \in Slots,
         c = first_free_connect, PopFree(c), FreeSlots' = FreeSlots \ {c}
  PROVE  FreeListExact'
<1> DEFINE next == next_free_connect
<1>1. c \in FreeSlots /\ c # NoSlot
  BY SlotsFacts DEF FreeListExact
<1>2. \A d \in FreeSlots \ {c} : next_free_connect'[d] = next[d]
  BY DEF PopFree, SlotTypeOK, FreeSlots
<1>3. \A d \in FreeSlots \ {c} :
        next[d] \in (FreeSlots \ {c}) \cup {NoSlot} /\ next[d] # next[c]
  BY <1>1 DEF FreeListExact
<1>4. next[c] \in (FreeSlots \ {c}) \cup {NoSlot}
  BY <1>1 DEF FreeListExact
<1>5. next[c] = NoSlot => FreeSlots \ {c} = {}
  <2> SUFFICES ASSUME next[c] = NoSlot, FreeSlots \ {c} # {} PROVE FALSE
    OBVIOUS
  <2>1. PICK d \in FreeSlots \ {c} : next[d] \notin FreeSlots \ {c}
    BY DEF FreeListExact
  <2>2. QED
    BY <1>3, <2>1
<1>6. \A S \in SUBSET (FreeSlots \ {c}) :
        S # {} => \E d \in S : next_free_connect'[d] \notin S
  <2> SUFFICES ASSUME NEW S \in SUBSET (FreeSlots \ {c}), S # {}
               PROVE  \E d \in S : next_free_connect'[d] \notin S
    OBVIOUS
  <2>1. \E d \in S : next[d] \notin S
    BY DEF FreeListExact
  <2>2. QED
    BY <1>2, <2>1
<1>7. first_free_connect' = next[c]
  BY DEF PopFree
<1>8. \A d, e \in FreeSlots \ {c} : next[d] = next[e] => d = e
  BY DEF FreeListExact
<1> HIDE DEF next
<1>9. QED
  BY <1>2, <1>3, <1>4, <1>5, <1>6, <1>7, <1>8 DEF FreeListExact

(* Giving back a slot that is in use puts it in front of the list.         *)
LEMMA PushFreeList ==
  ASSUME SlotTypeOK, FreeListExact, NEW c \in Slots, c \notin FreeSlots,
         PushFree(c), FreeSlots' = FreeSlots \cup {c}
  PROVE  FreeListExact'
<1>1. /\ first_free_connect' = c
      /\ next_free_connect'[c] = first_free_connect
      /\ \A d \in FreeSlots : next_free_connect'[d] = next_free_connect[d]
  BY DEF PushFree, SlotTypeOK, FreeSlots
<1>2. c # NoSlot
  BY SlotsFacts
<1>3. \A d \in FreeSlots \cup {c} :
        /\ next_free_connect'[d] \in FreeSlots \cup {NoSlot}
        /\ next_free_connect'[d] # c
  BY <1>1, <1>2 DEF FreeListExact
<1>4. \A d, e \in FreeSlots \cup {c} :
        next_free_connect'[d] = next_free_connect'[e] => d = e
  BY <1>1 DEF FreeListExact
<1>5. ASSUME NEW S \in SUBSET (FreeSlots \cup {c}), S # {}
      PROVE  \E d \in S : next_free_connect'[d] \notin S
  <2>1. CASE S \ {c} = {}
    <3>1. S = {c}
      BY <1>5, <2>1
    <3>2. QED
      BY <1>3, <3>1
  <2>2. CASE S \ {c} # {}
    <3>1. S \ {c} \in SUBSET FreeSlots
      OBVIOUS
    <3>2. PICK d \in S \ {c} : next_free_connect[d] \notin S \ {c}
      BY <2>2, <3>1 DEF FreeListExact
    <3>3. d \in FreeSlots /\ next_free_connect'[d] \notin S
      BY <1>1, <1>3, <3>1, <3>2
    <3>4. QED
      BY <3>2, <3>3
  <2>3. QED
    BY <2>1, <2>2
<1>6. QED
  BY <1>1, <1>2, <1>3, <1>4, <1>5 DEF FreeListExact

-----------------------------------------------------------------------------
(* Registrations, timers and mappings, operation by operation              *)

(* Closing a connection: what really_clear_connection() and the            *)
(* cancellation of the connection's timers do together.                    *)
Closes(c) ==
  /\ UnwatchUnlessPausing(c)
  /\ conn_fd' = [conn_fd EXCEPT ![c] = NoFd]
  /\ file_address' = [file_address EXCEPT ![c] = FALSE]
  /\ conn_state' = [conn_state EXCEPT ![c] = "FREE"]
  /\ PushFree(c)
  /\ wakeup_timer' = [wakeup_timer EXCEPT ![c] = NoTimer]
  /\ linger_timer' = [linger_timer EXCEPT ![c] = NoTimer]
  /\ timer' = CancelTimer(CancelTimer(timer, wakeup_timer[c]), linger_timer[c])

(* A slot in use has a descriptor of its own.                              *)
LEMMA OwnFd ==
  ASSUME SlotTypeOK, WatchExact, NEW c \in Slots, conn_state[c] # "FREE"
  PROVE  conn_fd[c] \in Fds /\ conn_fd[c] # NoFd
BY NoFdAssumption DEF SlotTypeOK, WatchExact

(* A PAUSING connection is not watched, nor is a descriptor that no        *)
(* connection has: fdwatch_add_fd() accepts it.                            *)
LEMMA Unwatched ==
  ASSUME SlotTypeOK, WatchExact, NEW fd \in Fds,
         \A c \in Slots : conn_fd[c] = fd => conn_state[c] = "PAUSING",
         NEW d, NEW rw, AddFd(fd, d, rw)
  PROVE  fd_rw[fd] = "none" /\ ReplaceFd(fd, d, rw)
<1>1. fd_rw[fd] = "none"
  BY DEF WatchExact, SlotTypeOK
<1>2. QED
  BY <1>1 DEF AddFd

(* A closed connection is watched no more, and no other one is disturbed.  *)
LEMMA ClosesWatch ==
  ASSUME SlotTypeOK, WatchExact, NEW c \in Slots, conn_state[c] # "FREE",
         Closes(c)
  PROVE  WatchExact'
<1>1. conn_fd[c] \in Fds /\ conn_fd[c] # NoFd
  BY OwnFd
<1>2. /\ conn_state'[c] = "FREE" /\ conn_fd'[c] = NoFd
      /\ \A d \in Slots \ {c} :
           conn_state'[d] = conn_state[d] /\ conn_fd'[d] = conn_fd[d]
  BY DEF Closes, SlotTypeOK
<1>3. /\ fd_rw'[conn_fd[c]] = "none" /\ fd_data'[conn_fd[c]] = NoSlot
      /\ \A fd \in Fds \ {conn_fd[c]} :
           fd_rw'[fd] = fd_rw[fd] /\ fd_data'[fd] = fd_data[fd]
  <2>1. CASE conn_state[c] = "PAUSING"
    <3>1. fd_rw[conn_fd[c]] = "none"
      BY <1>1, <2>1, SlotsFacts DEF WatchExact, SlotTypeOK
    <3>2. QED
      BY <1>1, <2>1, <3>1 DEF Closes, UnwatchUnlessPausing, WatchExact
  <2>2. CASE conn_state[c] # "PAUSING"
    BY <1>1, <2>2 DEF Closes, UnwatchUnlessPausing, DelFd, SlotTypeOK
  <2>3. QED
    BY <2>1, <2>2
<1>4. \A d \in Slots \ {c} : conn_fd[d] # conn_fd[c]
  BY <1>1 DEF WatchExact
<1>5. \A d \in Slots : conn_state'[d] = "FREE" <=> conn_fd'[d] = NoFd
  BY <1>2 DEF WatchExact
<1>6. \A d \in Slots :
        conn_state'[d] \in {"READING", "SENDING", "LINGERING"} =>
          /\ fd_rw'[conn_fd'[d]] = WatchFor(d)'
          /\ fd_data'[conn_fd'[d]] = d
  <2> SUFFICES ASSUME NEW d \in Slots \ {c},
                      conn_state[d] \in {"READING", "SENDING", "LINGERING"}
               PROVE  /\ fd_rw'[conn_fd[d]] = WatchFor(d)
                      /\ fd_data'[conn_fd[d]] = d
    BY <1>2 DEF WatchFor
  <2>1. conn_fd[d] \in Fds \ {conn_fd[c]}
    BY <1>4, OwnFd
  <2>2. QED
    BY <1>3, <2>1 DEF WatchExact
<1>7. \A fd \in Fds : fd_rw'[fd] = "none" <=> fd_data'[fd] = NoSlot
  BY <1>3 DEF WatchExact
<1>8. \A fd \in Fds : fd_rw'[fd] # "none" =>
        conn_fd'[fd_data'[fd]] = fd /\ conn_state'[fd_data'[fd]] # "PAUSING"
  <2> SUFFICES ASSUME NEW fd \in Fds \ {conn_fd[c]}, fd_rw[fd] # "none"
               PROVE  /\ conn_fd'[fd_data[fd]] = fd
                      /\ conn_state'[fd_data[fd]] # "PAUSING"
    BY <1>3
  <2>1. fd_data[fd] \in Slots \ {c}
    BY DEF WatchExact, SlotTypeOK
  <2>2. QED
    BY <1>2, <2>1 DEF WatchExact
<1>9. \A d, e \in Slots :
        conn_fd'[d] = conn_fd'[e] /\ conn_fd'[d] # NoFd => d = e
  BY <1>2 DEF WatchExact
<1>10. QED
  BY <1>5, <1>6, <1>7, <1>8, <1>9 DEF WatchExact

(* A connection may be watched for its new state: the others are not       *)
(* disturbed.                                                              *)
LEMMA RewatchWatch ==
  ASSUME SlotTypeOK, WatchExact, NEW c \in Slots, conn_state[c] # "FREE",
         NEW s \in {"READING", "SENDING", "LINGERING"},
         conn_state' = [conn_state EXCEPT ![c] = s],
         ReplaceFd(conn_fd[c], c, IF s = "SENDING" THEN "write" ELSE "read"),
         conn_fd' = conn_fd
  PROVE  WatchExact'
<1>1. conn_fd[c] \in Fds /\ conn_fd[c] # NoFd
  BY OwnFd
<1>2. /\ conn_state'[c] = s
      /\ \A d \in Slots \ {c} : conn_state'[d] = conn_state[d]
  BY DEF SlotTypeOK
<1>3. /\ fd_rw'[conn_fd[c]] = IF s = "SENDING" THEN "write" ELSE "read"
      /\ fd_data'[conn_fd[c]] = c
      /\ \A fd \in Fds \ {conn_fd[c]} :
           fd_rw'[fd] = fd_rw[fd] /\ fd_data'[fd] = fd_data[fd]
  BY <1>1 DEF ReplaceFd, SlotTypeOK
<1>4. \A d \in Slots \ {c} : conn_fd[d] # conn_fd[c]
  BY <1>1 DEF WatchExact
<1>5. \A d \in Slots : conn_state'[d] = "FREE" <=> conn_fd'[d] = NoFd
  BY <1>1, <1>2 DEF WatchExact
<1>6. \A d \in Slots :
        conn_state'[d] \in {"READING", "SENDING", "LINGERING"} =>
          fd_rw'[conn_fd'[d]] = WatchFor(d)' /\ fd_data'[conn_fd'[d]] = d
  <2>1. fd_rw'[conn_fd'[c]] = WatchFor(c)' /\ fd_data'[conn_fd'[c]] = c
    BY <1>2, <1>3 DEF WatchFor
  <2>2. ASSUME NEW d \in Slots \ {c},
               conn_state[d] \in {"READING", "SENDING", "LINGERING"}
        PROVE  fd_rw'[conn_fd[d]] = WatchFor(d) /\ fd_data'[conn_fd[d]] = d
    <3>1. conn_fd[d] \in Fds \ {conn_fd[c]}
      BY <1>4, <2>2, OwnFd
    <3>2. QED
      BY <1>3, <2>2, <3>1 DEF WatchExact
  <2>3. QED
    BY <1>2, <2>1, <2>2 DEF WatchFor
<1>7. \A fd \in Fds : fd_rw'[fd] = "none" <=> fd_data'[fd] = NoSlot
  BY <1>3, SlotsFacts DEF WatchExact
<1>8. \A fd \in Fds : fd_rw'[fd] # "none" =>
        conn_fd'[fd_data'[fd]] = fd /\ conn_state'[fd_data'[fd]] # "PAUSING"
  <2>1. ASSUME NEW fd \in Fds \ {conn_fd[c]}, fd_rw[fd] # "none"
        PROVE  conn_fd[fd_data[fd]] = fd /\ conn_state'[fd_data[fd]] # "PAUSING"
    <3>1. fd_data[fd] \in Slots /\ conn_fd[fd_data[fd]] = fd
      BY <2>1 DEF WatchExact, SlotTypeOK
    <3>2. QED
      BY <1>2, <2>1, <3>1 DEF WatchExact
  <2>2. QED
    BY <1>2, <1>3, <2>1
<1>9. \A d, e \in Slots :
        conn_fd'[d] = conn_fd'[e] /\ conn_fd'[d] # NoFd => d = e
  BY DEF WatchExact
<1>10. QED
  BY <1>5, <1>6, <1>7, <1>8, <1>9 DEF WatchExact

(* A connection that pauses is watched no more.                            *)
LEMMA PauseWatch ==
  ASSUME SlotTypeOK, WatchExact, NEW c \in Slots, conn_state[c] # "FREE",
         conn_state' = [conn_state EXCEPT ![c] = "PAUSING"],
         DelFd(conn_fd[c]), conn_fd' = conn_fd
  PROVE  WatchExact'
<1>1. conn_fd[c] \in Fds /\ conn_fd[c] # NoFd
  BY OwnFd
<1>2. /\ conn_state'[c] = "PAUSING"
      /\ \A d \in Slots \ {c} : conn_state'[d] = conn_state[d]
  BY DEF SlotTypeOK
<1>3. /\ fd_rw'[conn_fd[c]] = "none" /\ fd_data'[conn_fd[c]] = NoSlot
      /\ \A fd \in Fds \ {conn_fd[c]} :
           fd_rw'[fd] = fd_rw[fd] /\ fd_data'[fd] = fd_data[fd]
  BY <1>1 DEF DelFd, SlotTypeOK
<1>4. \A d \in Slots : conn_state'[d] = "FREE" <=> conn_fd'[d] = NoFd
  BY <1>1, <1>2 DEF WatchExact
<1>5. ASSUME NEW d \in Slots,
             conn_state'[d] \in {"READING", "SENDING", "LINGERING"}
      PROVE  fd_rw'[conn_fd'[d]] = WatchFor(d)' /\ fd_data'[conn_fd'[d]] = d
  <2>1. d # c /\ conn_state'[d] = conn_state[d]
    BY <1>2, <1>5
  <2>2. conn_fd[d] \in Fds \ {conn_fd[c]}
    BY <1>1, <1>5, <2>1, OwnFd DEF WatchExact
  <2>3. QED
    BY <1>3, <1>5, <2>1, <2>2 DEF WatchExact, WatchFor
<1>6. \A fd \in Fds : fd_rw'[fd] = "none" <=> fd_data'[fd] = NoSlot
  BY <1>3 DEF WatchExact
<1>7. ASSUME NEW fd \in Fds, fd_rw'[fd] # "none"
      PROVE  /\ conn_fd'[fd_data'[fd]] = fd
             /\ conn_state'[fd_data'[fd]] # "PAUSING"
  <2>1. fd # conn_fd[c] /\ fd_rw[fd] # "none" /\ fd_data'[fd] = fd_data[fd]
    BY <1>3, <1>7
  <2>2. fd_data[fd] \in Slots \ {c}
    BY <2>1 DEF WatchExact, SlotTypeOK
  <2>3. QED
    BY <1>2, <2>1, <2>2 DEF WatchExact
<1>8. \A d, e \in Slots :
        conn_fd'[d] = conn_fd'[e] /\ conn_fd'[d] # NoFd => d = e
  BY DEF WatchExact
<1>9. QED
  BY <1>4, <1>5, <1>6, <1>7, <1>8 DEF WatchExact

(* A new connection is watched for reading on a descriptor of its own.     *)
LEMMA AcceptWatch ==
  ASSUME SlotTypeOK, WatchExact, NEW c \in Slots, conn_state[c] = "FREE",
         NEW fd \in Fds \ OpenFds, Accept(c, fd)
  PROVE  WatchExact'
<1>1. fd # NoFd /\ \A d \in Slots : conn_fd[d] # fd
  BY NoFdAssumption DEF OpenFds
<1>2. /\ conn_state'[c] = "READING" /\ conn_fd'[c] = fd
      /\ \A d \in Slots \ {c} :
           conn_state'[d] = conn_state[d] /\ conn_fd'[d] = conn_fd[d]
  BY DEF Accept, SlotTypeOK
<1>3. /\ fd_rw'[fd] = "read" /\ fd_data'[fd] = c
      /\ \A g \in Fds \ {fd} : fd_rw'[g] = fd_rw[g] /\ fd_data'[g] = fd_data[g]
  <2>1. ReplaceFd(fd, c, "read")
    BY <1>1, Unwatched DEF Accept
  <2>2. QED
    BY <2>1 DEF ReplaceFd, SlotTypeOK
<1>4. \A d \in Slots : conn_state'[d] = "FREE" <=> conn_fd'[d] = NoFd
  BY <1>1, <1>2 DEF WatchExact
<1>5. ASSUME NEW d \in Slots,
             conn_state'[d] \in {"READING", "SENDING", "LINGERING"}
      PROVE  fd_rw'[conn_fd'[d]] = WatchFor(d)' /\ fd_data'[conn_fd'[d]] = d
  <2>1. CASE d = c
    BY <1>2, <1>3, <2>1 DEF WatchFor
  <2>2. CASE d # c
    <3>1. conn_state'[d] = conn_state[d] /\ conn_fd'[d] = conn_fd[d]
      BY <1>2, <2>2
    <3>2. conn_fd[d] \in Fds \ {fd}
      BY <1>1, <1>5, <3>1, OwnFd
    <3>3. QED
      BY <1>3, <1>5, <3>1, <3>2 DEF WatchExact, WatchFor
  <2>3. QED
    BY <2>1, <2>2
<1>6. \A g \in Fds : fd_rw'[g] = "none" <=> fd_data'[g] = NoSlot
  BY <1>3, SlotsFacts DEF WatchExact
<1>7. ASSUME NEW g \in Fds, fd_rw'[g] # "none"
      PROVE  /\ conn_fd'[fd_data'[g]] = g
             /\ conn_state'[fd_data'[g]] # "PAUSING"
  <2>1. CASE g = fd
    BY <1>2, <1>3, <2>1
  <2>2. CASE g # fd
    <3>1. fd_rw[g] # "none" /\ fd_data'[g] = fd_data[g]
      BY <1>3, <1>7, <2>2
    <3>2. fd_data[g] \in Slots /\ conn_fd[fd_data[g]] = g
      BY <3>1 DEF WatchExact, SlotTypeOK
    <3>3. fd_data[g] # c
      BY <3>2, NoFdAssumption DEF WatchExact
    <3>4. QED
      BY <1>2, <3>1, <3>2, <3>3 DEF WatchExact
  <2>3. QED
    BY <2>1, <2>2
<1>8. \A d, e \in Slots :
        conn_fd'[d] = conn_fd'[e] /\ conn_fd'[d] # NoFd => d = e
  BY <1>1, <1>2 DEF WatchExact
<1>9. QED
  BY <1>4, <1>5, <1>6, <1>7, <1>8 DEF WatchExact

(* A closed connection leaves no timer behind, and the timers of the       *)
(* others stay.                                                            *)
LEMMA ClosesTimers ==
  ASSUME SlotTypeOK, TimersExact, NEW c \in Slots, Closes(c)
  PROVE  TimersExact'
<1>1. /\ conn_state'[c] = "FREE"
      /\ wakeup_timer'[c] = NoTimer /\ linger_timer'[c] = NoTimer
      /\ \A d \in Slots \ {c} : /\ conn_state'[d] = conn_state[d]
                               /\ wakeup_timer'[d] = wakeup_timer[d]
                               /\ linger_timer'[d] = linger_timer[d]
  BY DEF Closes, SlotTypeOK
<1>2. /\ wakeup_timer[c] \in TimerIds => timer'[wakeup_timer[c]] = NoProc
      /\ linger_timer[c] \in TimerIds => timer'[linger_timer[c]] = NoProc
      /\ \A t \in TimerIds : t \notin {wakeup_timer[c], linger_timer[c]} =>
                             timer'[t] = timer[t]
  BY NoTimerAssumption DEF Closes, CancelTimer, SlotTypeOK
<1>3. NoProc.proc = "none"
  BY DEF NoProc
<1>4. \A d \in Slots : conn_state'[d] = "PAUSING" <=> wakeup_timer'[d] # NoTimer
  BY <1>1 DEF TimersExact
<1>5. \A d \in Slots :
        conn_state'[d] = "LINGERING" <=> linger_timer'[d] # NoTimer
  BY <1>1 DEF TimersExact
<1>6. ASSUME NEW d \in Slots, wakeup_timer'[d] # NoTimer
      PROVE  /\ timer'[wakeup_timer'[d]].proc = "wakeup"
             /\ timer'[wakeup_timer'[d]].conn = d
  <2>1. d # c /\ wakeup_timer'[d] = wakeup_timer[d]
    BY <1>1, <1>6
  <2>2. /\ timer[wakeup_timer[d]].proc = "wakeup"
        /\ timer[wakeup_timer[d]].conn = d
    BY <1>6, <2>1 DEF TimersExact
  <2>3. wakeup_timer[d] \in TimerIds
    BY <1>6, <2>1 DEF SlotTypeOK
  <2>4. wakeup_timer[d] \notin {wakeup_timer[c], linger_timer[c]}
    BY <2>1, <2>2, <2>3, NoTimerAssumption DEF TimersExact
  <2>5. QED
    BY <1>2, <2>1, <2>2, <2>3, <2>4
<1>7. ASSUME NEW d \in Slots, linger_timer'[d] # NoTimer
      PROVE  /\ timer'[linger_timer'[d]].proc = "linger"
             /\ timer'[linger_timer'[d]].conn = d
  <2>1. d # c /\ linger_timer'[d] = linger_timer[d]
    BY <1>1, <1>7
  <2>2. /\ timer[linger_timer[d]].proc = "linger"
        /\ timer[linger_timer[d]].conn = d
    BY <1>7, <2>1 DEF TimersExact
  <2>3. linger_timer[d] \in TimerIds
    BY <1>7, <2>1 DEF SlotTypeOK
  <2>4. linger_timer[d] \notin {wakeup_timer[c], linger_timer[c]}
    BY <2>1, <2>2, <2>3, NoTimerAssumption DEF TimersExact
  <2>5. QED
    BY <1>2, <2>1, <2>2, <2>3, <2>4
<1>8. ASSUME NEW t \in TimerIds
      PROVE  /\ timer'[t].proc = "wakeup" => wakeup_timer'[timer'[t].conn] = t
             /\ timer'[t].proc = "linger" => linger_timer'[timer'[t].conn] = t
  <2>1. CASE t \in {wakeup_timer[c], linger_timer[c]}
    BY <1>2, <1>3, <2>1
  <2>2. CASE t \notin {wakeup_timer[c], linger_timer[c]}
    <3>1. timer'[t] = timer[t] /\ timer[t].conn \in Slots
      BY <1>2, <2>2 DEF SlotTypeOK, TimerRecords
    <3>2. QED
      BY <1>1, <2>2, <3>1 DEF TimersExact
  <2>3. QED
    BY <2>1, <2>2
<1>9. QED
  BY <1>4, <1>5, <1>6, <1>7, <1>8 DEF TimersExact

(* The timers of the connections that a step leaves alone stay exact when  *)
(* the step schedules the timer t for connection c in place of its others. *)
LEMMA ScheduleTimers ==
  ASSUME SlotTypeOK, TimersExact, NEW c \in Slots, NEW t \in TimerIds,
         NEW proc \in {"wakeup", "linger"}, NEW delay,
         conn_state[c] \notin {"PAUSING", "LINGERING"} \/
           (conn_state[c] = "PAUSING" /\ proc = "linger"),
         CreateTimer(CancelTimer(timer, wakeup_timer[c]), t, proc, c, delay),
         conn_state' = [conn_state EXCEPT
                          ![c] = IF proc = "wakeup" THEN "PAUSING" ELSE "LINGERING"],
         wakeup_timer' = [wakeup_timer EXCEPT
                            ![c] = IF proc = "wakeup" THEN t ELSE NoTimer],
         linger_timer' = [linger_timer EXCEPT
                            ![c] = IF proc = "linger" THEN t ELSE NoTimer]
  PROVE  TimersExact'
<1> DEFINE tm == CancelTimer(timer, wakeup_timer[c])
<1>1. t # NoTimer /\ tm[t] = NoProc /\ NoProc.proc = "none"
  BY NoTimerAssumption DEF CreateTimer, NoProc
<1>2. /\ wakeup_timer[c] \in TimerIds => tm[wakeup_timer[c]] = NoProc
      /\ \A u \in TimerIds : u # wakeup_timer[c] => tm[u] = timer[u]
  BY NoTimerAssumption DEF CancelTimer, SlotTypeOK
<1>3. tm \in [TimerIds -> TimerRecords]
  BY CancelType DEF SlotTypeOK
<1>4. /\ timer'[t] = [proc |-> proc, conn |-> c, left |-> delay]
      /\ \A u \in TimerIds \ {t} : timer'[u] = tm[u]
  BY <1>3 DEF CreateTimer
<1> HIDE DEF tm
<1>5. linger_timer[c] = NoTimer
  BY DEF TimersExact
<1>6. /\ conn_state'[c] = IF proc = "wakeup" THEN "PAUSING" ELSE "LINGERING"
      /\ wakeup_timer'[c] = IF proc = "wakeup" THEN t ELSE NoTimer
      /\ linger_timer'[c] = IF proc = "linger" THEN t ELSE NoTimer
      /\ \A d \in Slots \ {c} : /\ conn_state'[d] = conn_state[d]
                               /\ wakeup_timer'[d] = wakeup_timer[d]
                               /\ linger_timer'[d] = linger_timer[d]
  BY DEF SlotTypeOK
<1>7. \A d \in Slots : conn_state'[d] = "PAUSING" <=> wakeup_timer'[d] # NoTimer
  BY <1>1, <1>6 DEF TimersExact
<1>8. \A d \in Slots :
        conn_state'[d] = "LINGERING" <=> linger_timer'[d] # NoTimer
  BY <1>1, <1>6 DEF TimersExact
<1>9. ASSUME NEW d \in Slots \ {c}, NEW u \in TimerIds,
             timer[u].proc # "none", timer[u].conn = d
      PROVE  timer'[u] = timer[u]
  <2>1. u # wakeup_timer[c]
    BY <1>9, NoTimerAssumption DEF TimersExact
  <2>2. u # t
    BY <1>1, <1>2, <1>9, <2>1
  <2>3. QED
    BY <1>2, <1>4, <2>1, <2>2
<1>10. ASSUME NEW d \in Slots, wakeup_timer'[d] # NoTimer
       PROVE  /\ timer'[wakeup_timer'[d]].proc = "wakeup"
              /\ timer'[wakeup_timer'[d]].conn = d
  <2>1. CASE d = c
    BY <1>4, <1>6, <1>10, <2>1
  <2>2. CASE d # c
    BY <1>6, <1>9, <1>10, <2>2 DEF TimersExact, SlotTypeOK
  <2>3. QED
    BY <2>1, <2>2
<1>11. ASSUME NEW d \in Slots, linger_timer'[d] # NoTimer
       PROVE  /\ timer'[linger_timer'[d]].proc = "linger"
              /\ timer'[linger_timer'[d]].conn = d
  <2>1. CASE d = c
    BY <1>4, <1>6, <1>11, <2>1
  <2>2. CASE d # c
    BY <1>6, <1>9, <1>11, <2>2 DEF TimersExact, SlotTypeOK
  <2>3. QED
    BY <2>1, <2>2
<1>12. ASSUME NEW u \in TimerIds
       PROVE  /\ timer'[u].proc = "wakeup" => wakeup_timer'[timer'[u].conn] = u
              /\ timer'[u].proc = "linger" => linger_timer'[timer'[u].conn] = u
  <2>1. CASE u = t
    BY <1>4, <1>6, <2>1
  <2>2. CASE u # t /\ u = wakeup_timer[c]
    BY <1>1, <1>2, <1>4, <2>2
  <2>3. CASE u # t /\ u # wakeup_timer[c]
    <3>1. timer'[u] = timer[u] /\ timer[u].conn \in Slots
      BY <1>2, <1>4, <2>3 DEF SlotTypeOK, TimerRecords
    <3>2. timer[u].proc # "none" => timer[u].conn # c
      BY <1>5, <2>3, NoTimerAssumption DEF TimersExact, SlotTypeOK, TimerRecords
    <3>3. QED
      BY <1>6, <3>1, <3>2 DEF TimersExact
  <2>4. QED
    BY <2>1, <2>2, <2>3
<1>13. QED
  BY <1>7, <1>8, <1>10, <1>11, <1>12 DEF TimersExact

-----------------------------------------------------------------------------
(* The slot invariant, handler by handler                                  *)

(* A handler of connection c leaves the others alone; it keeps the slots   *)
(* in use, or gives back the slot of c.                                    *)
Touches(c) ==
  /\ \A d \in Slots \ {c} :
       conn_state'[d] = conn_state[d] /\ conn_fd'[d] = conn_fd[d]
  /\ conn_fd'[c] \in {conn_fd[c], NoFd}
  /\ \/ FreeSlots' = FreeSlots /\ num_connects' = num_connects
     \/ /\ c \notin FreeSlots /\ FreeSlots' = FreeSlots \cup {c}
        /\ num_connects' = num_connects - 1

(* What a step that changes nothing the invariant speaks of preserves.     *)
LEMMA SlotsKept ==
  ASSUME SlotInv, SlotTypeOK',
         UNCHANGED << conn_state, conn_fd, file_address, wakeup_timer,
                      linger_timer, next_free_connect, first_free_connect,
                      num_connects, fd_rw, fd_data >>,
         \A t \in TimerIds : /\ timer'[t].proc = timer[t].proc
                             /\ timer'[t].conn = timer[t].conn
  PROVE  SlotInv' /\ \A c \in Slots : Touches(c)
<1>1. FreeSlots' = FreeSlots
  BY DEF FreeSlots
<1>2. FreeListExact'
  BY <1>1, FreeListKept DEF SlotInv
<1>3. WatchExact'
  BY DEF SlotInv, WatchExact, WatchFor
<1>4. TimersExact'
  BY NoTimerAssumption DEF SlotInv, TimersExact, SlotTypeOK
<1>5. FileHeld'
  BY DEF SlotInv, FileHeld
<1>6. \A c \in Slots : Touches(c)
  BY <1>1 DEF Touches
<1>7. QED
  BY <1>2, <1>3, <1>4, <1>5, <1>6 DEF SlotInv

(* Closing a connection.                                                   *)
LEMMA ClosesInv ==
  ASSUME SlotInv, SlotTypeOK', NEW c \in Slots, conn_state[c] # "FREE",
         Closes(c)
  PROVE  SlotInv' /\ Touches(c) /\ conn_state'[c] = "FREE"
<1>1. /\ conn_state'[c] = "FREE" /\ conn_fd'[c] = NoFd
      /\ \A d \in Slots \ {c} :
           conn_state'[d] = conn_state[d] /\ conn_fd'[d] = conn_fd[d]
  BY DEF Closes, SlotInv, SlotTypeOK
<1>2. c \notin FreeSlots /\ FreeSlots' = FreeSlots \cup {c}
  BY <1>1 DEF FreeSlots
<1>3. FreeListExact'
  BY <1>2, PushFreeList DEF SlotInv, Closes
<1>4. WatchExact'
  BY ClosesWatch DEF SlotInv
<1>5. TimersExact'
  BY ClosesTimers DEF SlotInv
<1>6. FileHeld'
  BY <1>1 DEF SlotInv, FileHeld, Closes, SlotTypeOK
<1>7. Touches(c)
  BY <1>1, <1>2 DEF Touches, Closes, PushFree
<1>8. QED
  BY <1>1, <1>3, <1>4, <1>5, <1>6, <1>7 DEF SlotInv

(* clear_connection(), whatever the handler says of lingering and the file. *)
LEMMA ClearInv ==
  ASSUME SlotInv, NEW c \in Slots, conn_state[c] # "FREE",
         NEW linger \in BOOLEAN, NEW mapped \in BOOLEAN,
         ClearConnection(c, linger, mapped)
  PROVE  /\ SlotInv' /\ Touches(c)
         /\ conn_state'[c] \in {"FREE", "LINGERING"}
<1> DEFINE tm == CancelTimer(timer, wakeup_timer[c])
<1>1. SlotTypeOK'
  BY ClearType DEF SlotInv
<1>2. CASE linger /\ conn_state[c] # "LINGERING"
  <2>1. StartLinger(c, tm, mapped)
    BY <1>2 DEF ClearConnection
  <2>2. conn_state' = [conn_state EXCEPT ![c] = "LINGERING"]
    BY <2>1 DEF StartLinger
  <2>3. /\ conn_state'[c] = "LINGERING"
        /\ \A d \in Slots \ {c} : conn_state'[d] = conn_state[d]
    BY <2>2 DEF SlotInv, SlotTypeOK
  <2>4. FreeSlots' = FreeSlots
    BY <2>3 DEF FreeSlots
  <2>5. FreeListExact'
    BY <2>1, <2>4, FreeListKept DEF SlotInv, StartLinger
  <2>6. WatchExact'
    <3>1. ReplaceFd(conn_fd[c], c, "read")
      BY <2>1, OwnFd, Unwatched DEF SlotInv, WatchExact, StartLinger
    <3>2. QED
      BY <2>1, <2>2, <3>1, RewatchWatch DEF SlotInv, StartLinger
  <2>7. TimersExact'
    <3>1. PICK t \in TimerIds :
            /\ CreateTimer(tm, t, "linger", c, LingerTime)
            /\ linger_timer' = [linger_timer EXCEPT ![c] = t]
      BY <2>1 DEF StartLinger
    <3>2. wakeup_timer' = [wakeup_timer EXCEPT ![c] = NoTimer]
      BY DEF ClearConnection
    <3>3. conn_state[c] \notin {"PAUSING", "LINGERING"} \/ conn_state[c] = "PAUSING"
      BY <1>2
    <3>4. QED
      BY <2>2, <3>1, <3>2, <3>3, ScheduleTimers DEF SlotInv
  <2>8. FileHeld'
    BY <2>1, <2>3 DEF SlotInv, FileHeld, StartLinger, SlotTypeOK
  <2>9. Touches(c)
    BY <2>1, <2>3, <2>4 DEF Touches, StartLinger
  <2>10. QED
    BY <1>1, <2>3, <2>5, <2>6, <2>7, <2>8, <2>9 DEF SlotInv
<1>3. CASE ~ (linger /\ conn_state[c] # "LINGERING")
  <2>1. Closes(c)
    BY <1>3 DEF ClearConnection, ReallyClearConnection, Closes, CloseConn
  <2>2. QED
    BY <1>1, <2>1, ClosesInv
<1>4. QED
  BY <1>2, <1>3

(* A connection that stops sending until its wakeup timer fires.           *)
LEMMA PauseInv ==
  ASSUME SlotInv, SlotTypeOK', NEW c \in Slots, conn_state[c] = "SENDING",
         Pause(c)
  PROVE  SlotInv' /\ Touches(c)
<1>1. conn_state' = [conn_state EXCEPT ![c] = "PAUSING"]
  BY DEF Pause
<1>2. /\ conn_state'[c] = "PAUSING"
      /\ \A d \in Slots \ {c} : conn_state'[d] = conn_state[d]
  BY <1>1 DEF SlotInv, SlotTypeOK
<1>3. FreeSlots' = FreeSlots
  BY <1>2 DEF FreeSlots
<1>4. FreeListExact'
  BY <1>3, FreeListKept DEF SlotInv, Pause
<1>5. WatchExact'
  BY <1>1, PauseWatch DEF SlotInv, Pause
<1>6. TimersExact'
  <2>1. PICK t \in TimerIds, delay \in WakeDelays :
          /\ CreateTimer(timer, t, "wakeup", c, delay)
          /\ wakeup_timer' = [wakeup_timer EXCEPT ![c] = t]
    BY DEF Pause
  <2>2. wakeup_timer[c] = NoTimer /\ linger_timer[c] = NoTimer
    BY DEF SlotInv, TimersExact
  <2>3. CancelTimer(timer, wakeup_timer[c]) = timer
    BY <2>2 DEF CancelTimer
  <2>4. linger_timer' = [linger_timer EXCEPT ![c] = NoTimer]
    BY <2>2 DEF Pause, SlotInv, SlotTypeOK
  <2>5. QED
    BY <1>1, <2>1, <2>3, <2>4, ScheduleTimers DEF SlotInv
<1>7. FileHeld'
  BY <1>2 DEF SlotInv, FileHeld, Pause
<1>8. Touches(c)
  BY <1>2, <1>3 DEF Touches, Pause
<1>9. QED
  BY <1>4, <1>5, <1>6, <1>7, <1>8 DEF SlotInv

(* handle_read().                                                          *)
LEMMA ReadInv ==
  ASSUME SlotInv, NEW c \in Slots, conn_state[c] = "READING", HandleRead(c)
  PROVE  SlotInv' /\ Touches(c) /\ conn_state'[c] # "PAUSING"
<1>1. SlotTypeOK'
  BY ReadType DEF SlotInv
<1>2. CASE ReadNothing(c)
  BY <1>1, <1>2, SlotsKept DEF ReadNothing, slotVars
<1>3. CASE ReadPart(c)
  BY <1>1, <1>3, SlotsKept DEF ReadPart
<1>4. CASE ReadAnswer(c)
  BY <1>4, ClearInv DEF ReadAnswer
<1>5. CASE ReadFile(c)
  <2>1. conn_state' = [conn_state EXCEPT ![c] = "SENDING"]
    BY <1>5 DEF ReadFile
  <2>2. /\ conn_state'[c] = "SENDING"
        /\ \A d \in Slots \ {c} : conn_state'[d] = conn_state[d]
    BY <2>1 DEF SlotInv, SlotTypeOK
  <2>3. FreeSlots' = FreeSlots
    BY <2>2 DEF FreeSlots
  <2>4. FreeListExact'
    BY <1>5, <2>3, FreeListKept DEF SlotInv, ReadFile
  <2>5. WatchExact'
    BY <1>5, <2>1, RewatchWatch DEF SlotInv, ReadFile
  <2>6. TimersExact'
    BY <1>5, <2>2 DEF ReadFile, SlotInv, TimersExact
  <2>7. FileHeld'
    BY <1>5, <2>2 DEF ReadFile, SlotInv, FileHeld, SlotTypeOK
  <2>8. Touches(c)
    BY <1>5, <2>2, <2>3 DEF ReadFile, Touches
  <2>9. QED
    BY <1>1, <2>2, <2>4, <2>5, <2>6, <2>7, <2>8 DEF SlotInv
<1>6. QED
  BY <1>2, <1>3, <1>4, <1>5 DEF HandleRead

(* handle_send().                                                          *)
LEMMA SendInv ==
  ASSUME SlotInv, NEW c \in Slots, conn_state[c] = "SENDING", HandleSend(c)
  PROVE  SlotInv' /\ Touches(c)
<1>1. SlotTypeOK'
  BY SendType DEF SlotInv
<1>2. CASE UNCHANGED slotVars
  BY <1>1, <1>2, SlotsKept DEF slotVars
<1>3. CASE SendBlocked(c)
  BY <1>1, <1>3, PauseInv DEF SendBlocked
<1>4. CASE SendPart(c)
  <2>1. CASE Pause(c)
    BY <1>1, <2>1, PauseInv
  <2>2. CASE ~ Pause(c)
    BY <1>1, <1>4, <2>2, SlotsKept DEF SendPart
  <2>3. QED
    BY <2>1, <2>2
<1>5. CASE SendEnd(c)
  <2>1. should_linger[c] \in BOOLEAN /\ file_address[c] \in BOOLEAN
    BY DEF SlotInv, SlotTypeOK
  <2>2. QED
    BY <1>5, <2>1, ClearInv DEF SendEnd
<1>6. QED
  BY <1>2, <1>3, <1>4, <1>5 DEF HandleSend

(* handle_linger().                                                        *)
LEMMA LingerInv ==
  ASSUME SlotInv, NEW c \in Slots, conn_state[c] = "LINGERING",
         HandleLinger(c)
  PROVE  SlotInv' /\ Touches(c) /\ conn_state'[c] # "PAUSING"
<1>1. SlotTypeOK'
  BY LingerType DEF SlotInv
<1>2. CASE UNCHANGED slotVars
  BY <1>1, <1>2, SlotsKept DEF slotVars
<1>3. CASE /\ ReallyClearConnection(c, timer, linger_timer[c])
           /\ UNCHANGED << should_linger, wakeup_timer >>
  <2>1. wakeup_timer[c] = NoTimer
    BY DEF SlotInv, TimersExact
  <2>2. /\ CancelTimer(timer, wakeup_timer[c]) = timer
        /\ wakeup_timer' = [wakeup_timer EXCEPT ![c] = NoTimer]
    BY <1>3, <2>1 DEF CancelTimer, SlotInv, SlotTypeOK
  <2>3. Closes(c)
    BY <1>3, <2>2 DEF Closes, ReallyClearConnection, CloseConn
  <2>4. QED
    BY <1>1, <2>3, ClosesInv
<1>4. QED
  BY <1>2, <1>3 DEF HandleLinger

(* A client taken into the first free slot.                                *)
LEMMA AcceptInv ==
  ASSUME SlotInv, NEW c \in Slots, c = first_free_connect,
         NEW fd \in Fds \ OpenFds, Accept(c, fd)
  PROVE  /\ SlotInv'
         /\ c \in FreeSlots /\ FreeSlots' = FreeSlots \ {c}
<1>1. SlotTypeOK'
  BY AcceptType DEF SlotInv
<1>2. c \in FreeSlots /\ conn_state[c] = "FREE"
  BY SlotsFacts DEF SlotInv, FreeListExact, FreeSlots
<1>3. /\ conn_state'[c] = "READING"
      /\ \A d \in Slots \ {c} : conn_state'[d] = conn_state[d]
  BY DEF Accept, SlotInv, SlotTypeOK
<1>4. FreeSlots' = FreeSlots \ {c}
  BY <1>3 DEF FreeSlots
<1>5. FreeListExact'
  BY <1>4, PopFreeList DEF SlotInv, Accept
<1>6. WatchExact'
  BY <1>2, AcceptWatch DEF SlotInv
<1>7. wakeup_timer[c] = NoTimer /\ linger_timer[c] = NoTimer
  BY <1>2 DEF SlotInv, TimersExact
<1>8. wakeup_timer' = wakeup_timer /\ linger_timer' = linger_timer
  BY <1>7 DEF Accept, SlotInv, SlotTypeOK
<1>9. TimersExact'
  BY <1>3, <1>7, <1>8 DEF Accept, SlotInv, TimersExact
<1>10. FileHeld'
  BY <1>3 DEF Accept, SlotInv, FileHeld, SlotTypeOK
<1>11. QED
  BY <1>1, <1>2, <1>4, <1>5, <1>6, <1>9, <1>10 DEF SlotInv

(* A wakeup timer fires on the PAUSING connection it was made for.         *)
LEMMA WakeupInv ==
  ASSUME SlotInv, NEW t \in TimerIds, Wakeup(t)
  PROVE  /\ SlotInv' /\ timer[t].conn \in Slots /\ Touches(timer[t].conn)
         /\ conn_state[timer[t].conn] = "PAUSING" /\ UNCHANGED conn_fd
<1> DEFINE c == timer[t].conn
<1>1. SlotTypeOK'
  BY TimerType DEF SlotInv
<1>2. c \in Slots /\ wakeup_timer[c] = t /\ t # NoTimer
  BY NoTimerAssumption DEF SlotInv, TimersExact, SlotTypeOK, TimerRecords, Wakeup
<1>3. conn_state[c] = "PAUSING" /\ linger_timer[c] = NoTimer
  BY <1>2 DEF SlotInv, TimersExact
<1>4. conn_state' = [conn_state EXCEPT ![c] = "SENDING"]
  BY <1>3 DEF Wakeup
<1>5. /\ conn_state'[c] = "SENDING"
      /\ \A d \in Slots \ {c} : conn_state'[d] = conn_state[d]
  BY <1>2, <1>4 DEF SlotInv, SlotTypeOK
<1>6. FreeSlots' = FreeSlots
  BY <1>3, <1>5 DEF FreeSlots
<1>7. FreeListExact'
  BY <1>6, FreeListKept DEF SlotInv, Wakeup
<1>8. WatchExact'
  <2>1. ReplaceFd(conn_fd[c], c, "write")
    BY <1>2, <1>3, OwnFd, Unwatched DEF SlotInv, WatchExact, Wakeup
  <2>2. QED
    BY <1>2, <1>3, <1>4, <2>1, RewatchWatch DEF SlotInv, Wakeup
<1>9. TimersExact'
  <2>1. /\ wakeup_timer'[c] = NoTimer
        /\ \A d \in Slots \ {c} : wakeup_timer'[d] = wakeup_timer[d]
        /\ linger_timer' = linger_timer
    BY <1>2 DEF Wakeup, SlotInv, SlotTypeOK
  <2>2. /\ timer'[t] = NoProc /\ NoProc.proc = "none"
        /\ \A u \in TimerIds \ {t} : timer'[u] = timer[u]
    BY <1>2 DEF Wakeup, CancelTimer, NoProc, SlotInv, SlotTypeOK
  <2>3. /\ \A u \in TimerIds : timer[u].conn \in Slots
        /\ \A d \in Slots : /\ wakeup_timer[d] \in TimerIds \cup {NoTimer}
                            /\ linger_timer[d] \in TimerIds \cup {NoTimer}
    BY DEF SlotInv, SlotTypeOK, TimerRecords
  <2>4. \A u \in TimerIds \ {t} : timer[u].proc = "wakeup" => timer[u].conn # c
    BY <1>2 DEF SlotInv, TimersExact
  <2>5. \A d \in Slots \ {c} : wakeup_timer[d] # t /\ linger_timer[d] # t
    BY <1>2 DEF SlotInv, TimersExact
  <2> HIDE DEF c
  <2>6. QED
    BY <1>2, <1>3, <1>5, <2>1, <2>2, <2>3, <2>4, <2>5
    DEF SlotInv, TimersExact
<1>10. FileHeld'
  BY <1>2, <1>3, <1>5 DEF Wakeup, SlotInv, FileHeld
<1>11. Touches(c) /\ UNCHANGED conn_fd
  BY <1>5, <1>6 DEF Touches, Wakeup
<1>12. QED
  BY <1>1, <1>2, <1>3, <1>7, <1>8, <1>9, <1>10, <1>11 DEF SlotInv

(* A linger timer fires on the LINGERING connection it was made for.       *)
LEMMA LingerClearInv ==
  ASSUME SlotInv, NEW t \in TimerIds, LingerClear(t)
  PROVE  /\ SlotInv' /\ timer[t].conn \in Slots /\ Touches(timer[t].conn)
         /\ conn_state'[timer[t].conn] = "FREE"
<1> DEFINE c == timer[t].conn
<1>1. SlotTypeOK'
  BY TimerType DEF SlotInv
<1>2. c \in Slots /\ linger_timer[c] = t /\ t # NoTimer
  BY NoTimerAssumption
  DEF SlotInv, TimersExact, SlotTypeOK, TimerRecords, LingerClear
<1>3. conn_state[c] = "LINGERING" /\ wakeup_timer[c] = NoTimer
  BY <1>2 DEF SlotInv, TimersExact
<1>4. wakeup_timer' = [wakeup_timer EXCEPT ![c] = NoTimer]
  BY <1>3 DEF LingerClear, SlotInv, SlotTypeOK
<1>5. timer' = CancelTimer(CancelTimer(timer, wakeup_timer[c]), linger_timer[c])
  BY <1>2, <1>3 DEF LingerClear, ReallyClearConnection, CancelTimer
<1>6. Closes(c)
  BY <1>4, <1>5 DEF Closes, LingerClear, ReallyClearConnection, CloseConn
<1> HIDE DEF c
<1>7. SlotInv' /\ Touches(c) /\ conn_state'[c] = "FREE"
  BY <1>1, <1>2, <1>3, <1>6, ClosesInv
<1>8. QED
  BY <1>2, <1>7 DEF c

-----------------------------------------------------------------------------
(* The whole step                                                          *)

(* The count of the slots in use.                                          *)
Counted == num_connects = Cardinality(Slots \ FreeSlots)

(* The slots in use are finitely many, at most the size of the table.      *)
LEMMA SlotsFinite ==
  /\ IsFiniteSet(Slots) /\ Cardinality(Slots) = MaxConnects
  /\ \A S \in SUBSET Slots : IsFiniteSet(S) /\ Cardinality(S) \in Nat
<1>1. IsFiniteSet(Slots) /\ Cardinality(Slots) = MaxConnects
  BY MaxConnectsAssumption, FS_Interval DEF Slots
<1>2. QED
  BY <1>1, FS_Subset, FS_CardinalityType

(* A handler keeps the count exact.                                        *)
LEMMA TouchesCounted ==
  ASSUME Counted, NEW c \in Slots, Touches(c)
  PROVE  Counted'
<1>1. CASE FreeSlots' = FreeSlots /\ num_connects' = num_connects
  BY <1>1 DEF Counted
<1>2. CASE /\ c \notin FreeSlots /\ FreeSlots' = FreeSlots \cup {c}
           /\ num_connects' = num_connects - 1
  <2>1. /\ Slots \ FreeSlots' = (Slots \ FreeSlots) \ {c}
        /\ c \in Slots \ FreeSlots
    BY <1>2
  <2>2. IsFiniteSet(Slots \ FreeSlots)
    BY SlotsFinite
  <2>3. Cardinality((Slots \ FreeSlots) \ {c}) = Cardinality(Slots \ FreeSlots) - 1
    BY <2>1, <2>2, FS_RemoveElement
  <2>4. QED
    BY <1>2, <2>1, <2>3 DEF Counted
<1>3. QED
  BY <1>1, <1>2 DEF Touches

(* An accepted client is counted.                                          *)
LEMMA AcceptCounted ==
  ASSUME Counted, NEW c \in Slots, c \in FreeSlots, PopFree(c),
         FreeSlots' = FreeSlots \ {c}
  PROVE  Counted'
<1>1. /\ Slots \ FreeSlots' = (Slots \ FreeSlots) \cup {c}
      /\ c \notin Slots \ FreeSlots
  OBVIOUS
<1>2. IsFiniteSet(Slots \ FreeSlots)
  BY SlotsFinite
<1>3. Cardinality((Slots \ FreeSlots) \cup {c}) = Cardinality(Slots \ FreeSlots) + 1
  BY <1>1, <1>2, FS_AddElement
<1>4. QED
  BY <1>1, <1>3 DEF Counted, PopFree

(* While there is room in the table the free list has a FREE head.         *)
LEMMA RoomInTable ==
  ASSUME SlotInv, Counted, num_connects < MaxConnects
  PROVE  ~ FreeListMessedUp /\ first_free_connect \in FreeSlots
<1>1. FreeSlots # {}
  <2> SUFFICES ASSUME FreeSlots = {} PROVE FALSE
    OBVIOUS
  <2>1. Slots \ FreeSlots = Slots
    OBVIOUS
  <2>2. QED
    BY <2>1, SlotsFinite, MaxConnectsAssumption DEF Counted
<1>2. QED
  BY <1>1, SlotsFacts DEF SlotInv, FreeListExact, FreeListMessedUp, FreeSlots

(* Serving a ready descriptor.                                             *)
LEMMA ServeInv ==
  ASSUME SlotInv, RoundExact, rfdset \subseteq Fds, wfdset \subseteq Fds,
         NEW fd \in Fds,
         ServeGone(fd) \/ ServeNotReady(fd) \/ ServeConnection(fd)
  PROVE  SlotInv' /\ RoundExact' /\ \E c \in Slots : Touches(c)
<1>1. /\ rfdset' = rfdset \ {fd} /\ wfdset' = wfdset \ {fd}
  BY DEF ServeGone, ServeNotReady, ServeConnection, Serve
<1>2. SlotTypeOK'
  BY ServeType DEF SlotInv
<1>3. CASE ServeGone(fd)
  <2>1. SlotInv' /\ \A c \in Slots : Touches(c)
    BY <1>2, <1>3, SlotsKept DEF ServeGone, slotVars
  <2>2. RoundExact'
    BY <1>1, <1>3 DEF RoundExact, ServeGone, slotVars
  <2>3. QED
    BY <2>1, <2>2, SlotsFacts
<1>4. CASE fd_data[fd] # NoSlot /\ ~ ServeGone(fd)
  <2> DEFINE c == fd_data[fd]
  <2>1. c \in Slots /\ conn_fd[c] = fd /\ conn_state[c] # "FREE"
    BY <1>4, NoFdAssumption DEF SlotInv, WatchExact, SlotTypeOK
  <2>2. SlotInv' /\ Touches(c)
    <3>1. CASE ServeNotReady(fd)
      <4>1. should_linger[c] \in BOOLEAN /\ file_address[c] \in BOOLEAN
        BY <2>1 DEF SlotInv, SlotTypeOK
      <4>2. ClearConnection(c, should_linger[c], file_address[c])
        BY <3>1 DEF ServeNotReady
      <4> HIDE DEF c
      <4>3. QED
        BY <2>1, <4>1, <4>2, ClearInv
    <3>2. CASE ServeConnection(fd)
      <4>1. \/ conn_state[c] = "READING" /\ HandleRead(c)
            \/ conn_state[c] = "SENDING" /\ HandleSend(c)
            \/ conn_state[c] = "LINGERING" /\ HandleLinger(c)
        BY <3>2 DEF ServeConnection
      <4> HIDE DEF c
      <4>2. QED
        BY <2>1, <4>1, ReadInv, SendInv, LingerInv
    <3>3. QED
      BY <1>4, <3>1, <3>2
  <2>3. RoundExact'
    <3> HIDE DEF c
    <3> SUFFICES ASSUME NEW d \in Slots,
                        conn_fd'[d] \in rfdset' \cup wfdset'
                 PROVE  /\ conn_state'[d] # "PAUSING"
                        /\ conn_state'[d] = "SENDING" => conn_fd'[d] \in wfdset'
      BY DEF RoundExact
    <3>1. conn_fd'[c] \in {fd, NoFd}
      BY <2>1, <2>2 DEF Touches
    <3>2. d # c
      BY <1>1, <3>1, NoFdAssumption
    <3>3. conn_state'[d] = conn_state[d] /\ conn_fd'[d] = conn_fd[d]
      BY <2>2, <3>2 DEF Touches
    <3>4. QED
      BY <1>1, <3>3 DEF RoundExact
  <2>4. QED
    BY <2>1, <2>2, <2>3
<1>5. QED
  BY <1>3, <1>4 DEF ServeNotReady, ServeConnection

-----------------------------------------------------------------------------
(* The initial state                                                       *)

(* A set of naturals has a least element.                                  *)
LEMMA LeastNat ==
  ASSUME NEW T \in SUBSET Nat, T # {}
  PROVE  \E x \in T : \A y \in T : x <= y
<1>1. PICK x \in T : \A y \in T : ~ (<< y, x >> \in OpToRel(<, Nat))
  BY NatLessThanWellFounded, WFMin
<1>2. \A y \in T : ~ (y < x)
  BY <1>1 DEF OpToRel
<1>3. QED
  BY <1>2

(* A set of slots has a last one.                                          *)
LEMMA LastSlot ==
  ASSUME NEW S \in SUBSET Slots, S # {}
  PROVE  \E c \in S : \A d \in S : d <= c
<1> DEFINE T == {MaxConnects - c : c \in S}
<1>1. T \in SUBSET Nat /\ T # {}
  BY MaxConnectsAssumption DEF Slots
<1>2. PICK x \in T : \A y \in T : x <= y
  BY <1>1, LeastNat
<1>3. PICK c \in S : x = MaxConnects - c
  BY <1>2
<1>4. \A d \in S : MaxConnects - c <= MaxConnects - d
  BY <1>2, <1>3
<1>5. QED
  BY <1>3, <1>4, MaxConnectsAssumption DEF Slots

(* Initially the free list holds all the slots, in a row.                  *)
LEMMA InitFreeList == Init => FreeListExact
<1> SUFFICES ASSUME Init PROVE FreeListExact
  OBVIOUS
<1>1. FreeSlots = Slots
  BY DEF Init, FreeSlots
<1>2. \A c \in Slots :
        next_free_connect[c] = IF c = MaxConnects - 1 THEN NoSlot ELSE c + 1
  BY DEF Init
<1>3. \A c \in Slots : /\ next_free_connect[c] \in Slots \cup {NoSlot}
                      /\ next_free_connect[c] # first_free_connect
  BY <1>2, MaxConnectsAssumption DEF Init, Slots, NoSlot
<1>4. \A c, d \in Slots :
        next_free_connect[c] = next_free_connect[d] => c = d
  BY <1>2, MaxConnectsAssumption DEF Slots, NoSlot
<1>5. ASSUME NEW S \in SUBSET Slots, S # {}
      PROVE  \E c \in S : next_free_connect[c] \notin S
  <2>1. PICK c \in S : \A d \in S : d <= c
    BY <1>5, LastSlot
  <2>2. next_free_connect[c] \notin S
    BY <1>2, <2>1, MaxConnectsAssumption DEF Slots, NoSlot
  <2>3. QED
    BY <2>2
<1>6. first_free_connect \in Slots
  BY SlotsFacts DEF Init
<1>7. QED
  BY <1>1, <1>3, <1>4, <1>5, <1>6, SlotsFacts DEF FreeListExact

(* The initial state satisfies the inductive invariant.                    *)
LEMMA InitInv == Init => Inv
<1> SUFFICES ASSUME Init PROVE Inv
  OBVIOUS
<1>1. SlotTypeOK /\ LoopTypeOK
  BY InitTypeOK DEF EngineTypeOK
<1>2. FreeListExact
  BY InitFreeList
<1>3. WatchExact
  BY NoFdAssumption DEF Init, WatchExact
<1>4. TimersExact
  BY DEF Init, TimersExact, NoProc
<1>5. FileHeld
  BY DEF Init, FileHeld
<1>6. Counted /\ pc # "crit"
  <2>1. Slots \ FreeSlots = {}
    BY DEF Init, FreeSlots
  <2>2. QED
    BY <2>1, FS_EmptySet DEF Init, Counted
<1>7. RoundExact /\ DrainClosed
  BY DEF Init, RoundExact, DrainClosed
<1>8. QED
  BY <1>1, <1>2, <1>3, <1>4, <1>5, <1>6, <1>7
  DEF Inv, SlotInv, CountExact, Counted

-----------------------------------------------------------------------------
(* The step                                                                *)

(* What one step of the engine does to its table, seen from the pool: it   *)
(* keeps the slots in use, gives one back, or takes a client off the queue *)
(* of an open listen socket into a free slot.                              *)
TableStep ==
  \/ FreeSlots' = FreeSlots
  \/ /\ ~ Ended
     /\ \E c \in Slots \ FreeSlots : FreeSlots' = FreeSlots \cup {c}
  \/ /\ pc = "accept" /\ ~ terminate
     /\ \E c \in FreeSlots : FreeSlots' = FreeSlots \ {c}

(* A step of the main loop that does not reach into the table.             *)
LEMMA OutsideInv ==
  ASSUME Inv, UNCHANGED slotVars
  PROVE  SlotInv' /\ Counted' /\ TableStep
<1>1. SlotTypeOK'
  BY DEF Inv, SlotInv, SlotTypeOK, slotVars
<1>2. SlotInv' /\ \A c \in Slots : Touches(c)
  BY <1>1, SlotsKept DEF Inv, slotVars
<1>3. FreeSlots' = FreeSlots /\ num_connects' = num_connects
  BY DEF FreeSlots, slotVars
<1>4. QED
  BY <1>2, <1>3 DEF Inv, CountExact, Counted, TableStep

(* A handler that touches one connection.                                  *)
LEMMA HandlerInv ==
  ASSUME Inv, ~ Ended, NEW c \in Slots, Touches(c)
  PROVE  Counted' /\ TableStep
<1>1. Counted'
  BY TouchesCounted DEF Inv, CountExact, Counted
<1>2. QED
  BY <1>1 DEF Touches, TableStep

(* A handler outside the dispatch keeps the round exact if it neither      *)
(* pauses its connection nor starts to send to one that was watched.       *)
LEMMA RoundKept ==
  ASSUME RoundExact, NEW c \in Slots, Touches(c), UNCHANGED roundVars,
         rfdset \subseteq Fds, wfdset \subseteq Fds,
         \/ conn_state'[c] \in {"FREE", "LINGERING"}
         \/ conn_state[c] = "PAUSING" /\ UNCHANGED conn_fd
  PROVE  RoundExact'
BY NoFdAssumption DEF RoundExact, Touches, roundVars

(* Accepting a client.                                                     *)
LEMMA AcceptOKInv ==
  ASSUME Inv, AcceptOK
  PROVE  /\ SlotInv' /\ Counted' /\ RoundExact' /\ TableStep
         /\ pc' # "crit" /\ DrainClosed'
<1> DEFINE c == first_free_connect
<1>1. c \in Slots /\ ~ FreeListMessedUp
  BY RoomInTable DEF Inv, CountExact, Counted, AcceptOK, FreeSlots
<1>2. PICK fd \in Fds \ OpenFds : Accept(c, fd)
  BY <1>1 DEF AcceptOK
<1> HIDE DEF c
<1>3. SlotInv' /\ c \in FreeSlots /\ FreeSlots' = FreeSlots \ {c}
  BY <1>1, <1>2, AcceptInv DEF Inv, c
<1>4. Counted'
  BY <1>1, <1>2, <1>3, AcceptCounted DEF Inv, CountExact, Counted, Accept
<1>5. /\ conn_state'[c] = "READING"
      /\ \A d \in Slots \ {c} :
           conn_state'[d] = conn_state[d] /\ conn_fd'[d] = conn_fd[d]
  BY <1>1, <1>2 DEF Accept, Inv, SlotInv, SlotTypeOK
<1>6. RoundExact'
  BY <1>5 DEF Inv, RoundExact, AcceptOK, roundVars
<1>7. pc = "accept" /\ Listener \in ListenFds /\ backlog[Listener] > 0
  BY ListenerReady DEF AcceptOK, Inv, LoopTypeOK
<1>8. ~ terminate
  BY <1>7 DEF Inv, DrainClosed, LoopTypeOK
<1>9. TableStep
  BY <1>3, <1>7, <1>8 DEF TableStep
<1>10. pc' # "crit" /\ DrainClosed'
  BY <1>1, <1>7, <1>8 DEF AcceptOK, DrainClosed, sigVars
<1>11. QED
  BY <1>3, <1>4, <1>6, <1>9, <1>10

(* A timer procedure.                                                      *)
LEMMA TimerInv ==
  ASSUME Inv, NEW t \in TimerIds, Wakeup(t) \/ LingerClear(t)
  PROVE  SlotInv' /\ Counted' /\ RoundExact' /\ TableStep
<1> DEFINE c == timer[t].conn
<1>1. /\ SlotInv' /\ c \in Slots /\ Touches(c)
      /\ \/ conn_state'[c] = "FREE"
         \/ conn_state[c] = "PAUSING" /\ UNCHANGED conn_fd
  BY WakeupInv, LingerClearInv DEF Inv
<1>2. ~ Ended /\ UNCHANGED roundVars
  BY DEF Wakeup, LingerClear, Ended
<1> HIDE DEF c
<1>3. QED
  BY <1>1, <1>2, HandlerInv, RoundKept DEF Inv, LoopTypeOK

(* A turn of the loop of idle().                                           *)
LEMMA IdleInv ==
  ASSUME Inv, IdleStep
  PROVE  SlotInv' /\ Counted' /\ RoundExact' /\ TableStep
<1>1. cnum \in Slots /\ ~ Ended /\ UNCHANGED roundVars
  BY MaxConnectsAssumption DEF Inv, LoopTypeOK, IdleStep, Slots, Ended
<1>2. CASE IdledOut(cnum)
  <2>1. /\ conn_state[cnum] # "FREE"
        /\ ClearConnection(cnum, should_linger[cnum], file_address[cnum])
    BY <1>2 DEF IdleStep, IdledOut
  <2>2. should_linger[cnum] \in BOOLEAN /\ file_address[cnum] \in BOOLEAN
    BY <1>1 DEF Inv, SlotInv, SlotTypeOK
  <2>3. /\ SlotInv' /\ Touches(cnum)
        /\ conn_state'[cnum] \in {"FREE", "LINGERING"}
    BY <1>1, <2>1, <2>2, ClearInv DEF Inv
  <2>4. QED
    BY <1>1, <2>3, HandlerInv, RoundKept DEF Inv, LoopTypeOK
<1>3. CASE ~ IdledOut(cnum)
  <2>1. UNCHANGED slotVars
    BY <1>3 DEF IdleStep
  <2>2. RoundExact'
    BY <1>1, <2>1 DEF Inv, RoundExact, slotVars, roundVars
  <2>3. QED
    BY <2>1, <2>2, OutsideInv
<1>4. QED
  BY <1>2, <1>3

(* Time passing.                                                           *)
LEMMA TickInv ==
  ASSUME Inv, Tick
  PROVE  SlotInv' /\ Counted' /\ RoundExact' /\ TableStep
<1>1. SlotTypeOK'
  BY TickType DEF Inv, SlotInv
<1>2. \A t \in TimerIds : /\ timer'[t].proc = timer[t].proc
                         /\ timer'[t].conn = timer[t].conn
  BY DEF Tick, Inv, SlotInv, SlotTypeOK, TimerRecords
<1>3. SlotInv'
  BY <1>1, <1>2, SlotsKept DEF Inv, Tick
<1>4. FreeSlots' = FreeSlots /\ num_connects' = num_connects
  BY DEF Tick, FreeSlots
<1>5. RoundExact'
  BY DEF Inv, RoundExact, Tick, roundVars
<1>6. QED
  BY <1>3, <1>4, <1>5 DEF Inv, CountExact, Counted, TableStep

(* A new round only finds ready what is watched.                           *)
LEMMA RoundInv ==
  ASSUME SlotInv, FdwatchReady
  PROVE  RoundExact'
<1>1. \A fd \in rfdset' : fd \in Fds /\ fd_rw[fd] = "read"
  BY DEF FdwatchReady, Watched
<1>2. \A fd \in wfdset' : fd \in Fds /\ fd_rw[fd] = "write"
  BY DEF FdwatchReady, Watched
<1>3. ASSUME NEW c \in Slots, conn_fd[c] \in rfdset' \cup wfdset'
      PROVE  /\ conn_state[c] # "PAUSING"
             /\ conn_state[c] = "SENDING" => conn_fd[c] \in wfdset'
  <2>1. fd_rw[conn_fd[c]] # "none" /\ conn_fd[c] \in Fds
    BY <1>1, <1>2, <1>3
  <2>2. /\ conn_fd[fd_data[conn_fd[c]]] = conn_fd[c] /\ conn_fd[c] # NoFd
        /\ fd_data[conn_fd[c]] \in Slots
        /\ conn_state[fd_data[conn_fd[c]]] # "PAUSING"
    BY <2>1, NoFdAssumption DEF SlotInv, WatchExact, SlotTypeOK
  <2>3. fd_data[conn_fd[c]] = c
    BY <2>2 DEF SlotInv, WatchExact
  <2>4. conn_state[c] = "SENDING" => fd_rw[conn_fd[c]] = "write"
    BY DEF SlotInv, WatchExact, WatchFor
  <2>5. QED
    BY <1>1, <1>3, <2>2, <2>3, <2>4
<1>4. QED
  BY <1>3 DEF RoundExact, FdwatchReady, slotVars

(* The steps of the main loop and of its environment that do not reach     *)
(* into the table.                                                         *)
Outside ==
  \/ FdwatchReady \/ FdwatchTimeout \/ LoopExit
  \/ TableFull \/ AcceptFail \/ AcceptNoMore \/ DispatchDone
  \/ IdleStart \/ IdleDone
  \/ ReturnToListen \/ ReturnToFdwatch \/ ReturnToRoundEnd
  \/ \E l \in ListenFds : Connect(l)
  \/ Usr1 \/ Usr1Exit \/ Watchdog \/ UNCHANGED engineVars

(* They keep the round exact, and none of them is the exit of a free list  *)
(* that is messed up.                                                      *)
LEMMA OutsideRound ==
  ASSUME Inv, Outside
  PROVE  UNCHANGED slotVars /\ RoundExact' /\ pc' # "crit"
<1>1. UNCHANGED slotVars
  BY DEF Outside, FdwatchReady, FdwatchTimeout, LoopExit, TableFull, AcceptFail,
         AcceptNoMore, DispatchDone, IdleStart, IdleDone, ReturnToListen,
         ReturnToFdwatch, ReturnToRoundEnd, Connect, Usr1, Usr1Exit, Watchdog,
         engineVars
<1>2. pc' # "crit"
  BY DEF Inv, CountExact, RunTimersThenReturn0,
         Outside, FdwatchReady, FdwatchTimeout, LoopExit, TableFull, AcceptFail,
         AcceptNoMore, DispatchDone, IdleStart, IdleDone, ReturnToListen,
         ReturnToFdwatch, ReturnToRoundEnd, Connect, Usr1, Usr1Exit, Watchdog,
         engineVars
<1>3. CASE ~ FdwatchReady
  <2>1. (rfdset' = rfdset /\ wfdset' = wfdset) \/ (rfdset' = {} /\ wfdset' = {})
    BY <1>3
    DEF roundVars,
        Outside, FdwatchTimeout, LoopExit, TableFull, AcceptFail,
        AcceptNoMore, DispatchDone, IdleStart, IdleDone, ReturnToListen,
        ReturnToFdwatch, ReturnToRoundEnd, Connect, Usr1, Usr1Exit, Watchdog,
         engineVars
  <2>2. QED
    BY <1>1, <1>2, <2>1 DEF Inv, RoundExact, slotVars
<1>4. CASE FdwatchReady
  BY <1>1, <1>2, <1>4, RoundInv DEF Inv
<1>5. QED
  BY <1>1, <1>2, <1>3, <1>4

(* The listen sockets of a server that drains stay closed.                 *)
LEMMA OutsideDrain ==
  ASSUME Inv, Outside
  PROVE  DrainClosed'
<1>1. CASE /\ listening' = listening /\ terminate' = terminate
           /\ \A l \in ListenFds : backlog[l] = 0 => backlog'[l] = 0
  BY <1>1 DEF Inv, DrainClosed
<1>2. CASE AcceptFail
  <2>1. Listener \in ListenFds /\ backlog[Listener] > 0
    BY <1>2, ListenerReady DEF AcceptFail, Inv, LoopTypeOK
  <2>2. QED
    BY <1>2, <2>1 DEF Inv, DrainClosed, AcceptFail, sigVars
<1>3. CASE \E l \in ListenFds : Connect(l)
  BY <1>3 DEF Inv, DrainClosed, Connect, sigVars
<1>4. CASE ReturnToRoundEnd
  BY <1>4 DEF Inv, DrainClosed, ReturnToRoundEnd, Unlisten, netVars
<1>5. CASE Usr1 \/ Usr1Exit \/ Watchdog \/ UNCHANGED engineVars
  BY <1>1, <1>5 DEF Usr1, Usr1Exit, Watchdog, engineVars, netVars, sigVars
<1>6. QED
  BY <1>1, <1>2, <1>3, <1>4, <1>5
  DEF Outside, FdwatchReady, FdwatchTimeout, LoopExit, TableFull, AcceptNoMore,
      DispatchDone, IdleStart, IdleDone, ReturnToListen, ReturnToFdwatch,
      netVars, sigVars

(* The steps that reach into the table.                                    *)
Inside ==
  \/ AcceptOK
  \/ \E fd \in Fds : ServeGone(fd) \/ ServeNotReady(fd) \/ ServeConnection(fd)
  \/ \E t \in TimerIds : Wakeup(t) \/ LingerClear(t)
  \/ IdleStep \/ Tick

(* A step is of one kind or of the other.                                  *)
LEMMA NextSplit == [EngineNext]_engineVars => Inside \/ Outside
BY DEF EngineNext, Handler, Environment, Inside, Outside, Exited

(* They keep the invariant and the mode of the server.                     *)
LEMMA InsideInv ==
  ASSUME Inv, Inside
  PROVE  /\ SlotInv' /\ Counted' /\ RoundExact' /\ TableStep
         /\ pc' # "crit" /\ DrainClosed'
         /\ Mode' = Mode
<1>1. CASE AcceptOK
  <2>1. /\ SlotInv' /\ Counted' /\ RoundExact' /\ TableStep
        /\ pc' # "crit" /\ DrainClosed'
    BY <1>1, AcceptOKInv
  <2>2. Mode' = Mode
    BY <1>1, <2>1 DEF AcceptOK, Mode, Ended, sigVars
  <2>3. QED
    BY <2>1, <2>2
<1>2. CASE ~ AcceptOK
  <2>1. SlotInv' /\ Counted' /\ RoundExact' /\ TableStep
    <3>1. CASE \E fd \in Fds :
                 ServeGone(fd) \/ ServeNotReady(fd) \/ ServeConnection(fd)
      <4>1. SlotInv' /\ RoundExact' /\ \E c \in Slots : Touches(c)
        BY <3>1, ServeInv DEF Inv, LoopTypeOK
      <4>2. ~ Ended
        BY <3>1 DEF ServeGone, ServeNotReady, ServeConnection, Serve, Ended
      <4>3. QED
        BY <4>1, <4>2, HandlerInv
    <3>2. QED
      BY <1>2, <3>1, TimerInv, IdleInv, TickInv DEF Inside
  <2>2. UNCHANGED << listening, backlog, sigVars >> /\ ~ Ended'
        /\ ~ Ended /\ pc' # "crit"
    BY <1>2
    DEF Inside, ServeGone, ServeNotReady, ServeConnection, Serve, Wakeup,
        LingerClear, IdleStep, Tick, netVars, Ended
  <2>3. QED
    BY <2>1, <2>2 DEF Inv, DrainClosed, sigVars, Mode
<1>3. QED
  BY <1>1, <1>2

(* The invariant is inductive.                                             *)
LEMMA NextInv == Inv /\ [EngineNext]_engineVars => Inv'
<1> SUFFICES ASSUME Inv, [EngineNext]_engineVars PROVE Inv'
  OBVIOUS
<1>1. LoopTypeOK'
  BY NextLoopType DEF Inv, SlotInv, EngineTypeOK
<1>2. CASE Inside
  BY <1>1, <1>2, InsideInv DEF Inv, CountExact, Counted
<1>3. CASE Outside
  <2>1. SlotInv' /\ Counted'
    BY <1>3, OutsideRound, OutsideInv
  <2>2. QED
    BY <1>1, <1>3, <2>1, OutsideRound, OutsideDrain
    DEF Inv, CountExact, Counted
<1>4. QED
  BY <1>2, <1>3, NextSplit

(* The engine with its queue of timers, its registrations and its free     *)
(* list never leaves the inductive invariant.                              *)
THEOREM InvCorrect == Spec => []Inv
BY InitInv, NextInv, EngineStep, PTL DEF Spec

(* Every FREE slot is on the free list exactly once and nothing else is:   *)
(* really_clear_connection() never puts a slot there twice.                *)
THEOREM FreeListCorrect == Spec => []FreeListExact
<1>1. Inv => FreeListExact
  BY DEF Inv, SlotInv
<1>2. QED
  BY <1>1, InvCorrect, PTL

(* num_connects is the number of slots in use, and handle_newconnect()     *)
(* never finds the connects free list messed up.                           *)
THEOREM CountCorrect == Spec => []CountExact
<1>1. Inv => CountExact
  BY DEF Inv
<1>2. QED
  BY <1>1, InvCorrect, PTL

(* Each connection is watched for what its state waits for, on a           *)
(* descriptor of its own, and nothing else is watched.                     *)
THEOREM WatchCorrect == Spec => []WatchExact
<1>1. Inv => WatchExact
  BY DEF Inv, SlotInv
<1>2. QED
  BY <1>1, InvCorrect, PTL

(* The one-shot timers are those of the PAUSING and of the LINGERING       *)
(* connections: none outlives its connection.                              *)
THEOREM TimersCorrect == Spec => []TimersExact
<1>1. Inv => TimersExact
  BY DEF Inv, SlotInv
<1>2. QED
  BY <1>1, InvCorrect, PTL

(* A connection that has to send holds its file, a free slot holds none.   *)
THEOREM FileCorrect == Spec => []FileHeld
<1>1. Inv => FileHeld
  BY DEF Inv, SlotInv
<1>2. QED
  BY <1>1, InvCorrect, PTL

(* Readiness that is stale when it is used never cuts a connection that    *)
(* is sending.                                                             *)
THEOREM SendingCorrect == Spec => []SendingNotCut
<1>1. Inv => SendingNotCut
  <2> SUFFICES ASSUME Inv, NEW fd \in rfdset \cup wfdset,
                      fd_data[fd] # NoSlot, conn_state[fd_data[fd]] = "SENDING"
               PROVE  CheckFd(conn_fd[fd_data[fd]])
    BY DEF SendingNotCut
  <2>1. fd \in Fds /\ fd_data[fd] \in Slots
    BY DEF Inv, LoopTypeOK, SlotInv, SlotTypeOK
  <2>2. conn_fd[fd_data[fd]] = fd /\ fd_rw[fd] = "write"
    BY <2>1 DEF Inv, SlotInv, WatchExact, WatchFor
  <2>3. fd \in wfdset
    BY <2>1, <2>2 DEF Inv, RoundExact
  <2>4. QED
    BY <2>1, <2>2, <2>3 DEF CheckFd
<1>2. QED
  BY <1>1, InvCorrect, PTL

-----------------------------------------------------------------------------
(* The engine implements the pool                                          *)

(* Signals and the end of a round move the mode as the pool allows.        *)
LEMMA OutsidePool ==
  ASSUME Inv, HoldTypeOK, Outside
  PROVE  [Pool!Next]_(Pool!poolVars)
<1>1. FreeSlots' = FreeSlots
  BY OutsideRound DEF slotVars, FreeSlots
<1>2. num_connects = 0 => Slots \ FreeSlots = {}
  <2>1. IsFiniteSet(Slots \ FreeSlots)
    BY SlotsFinite
  <2>2. QED
    BY <2>1, FS_EmptySet DEF Inv, CountExact
<1>3. CASE Mode' = Mode
  BY <1>1, <1>3 DEF Pool!poolVars
<1>4. CASE LoopExit
  <2>1. Slots \ FreeSlots = {} /\ Mode \in {"quitting", "draining"}
    BY <1>2, <1>4 DEF LoopExit, Mode, Ended
  <2>2. Mode' = "exited"
    BY <1>4 DEF LoopExit, Mode, Ended
  <2>3. QED
    BY <1>1, <2>1, <2>2 DEF Pool!Next, Pool!Exit
<1>5. CASE ReturnToRoundEnd /\ Mode' # Mode
  <2>1. Mode = "open" /\ Mode' = "draining"
    BY <1>5 DEF ReturnToRoundEnd, Mode, Ended
  <2>2. QED
    BY <1>1, <2>1 DEF Pool!Next, Pool!Drain
<1>6. CASE Usr1 /\ Mode' # Mode
  <2>1. num_connects = 0 /\ Mode \in {"open", "draining"} /\ Mode' = "quitting"
    BY <1>6 DEF Usr1, Mode, Ended
  <2>2. QED
    BY <1>1, <1>2, <2>1 DEF Pool!Next, Pool!Quit
<1>7. CASE Usr1Exit
  <2>1. Mode = "quitting" /\ Mode' = "exited"
    BY <1>7 DEF Usr1Exit, Mode, Ended
  <2>2. QED
    BY <1>1, <2>1 DEF Pool!Next, Pool!Exit
<1>8. ASSUME Mode' # Mode
      PROVE  LoopExit \/ ReturnToRoundEnd \/ Usr1 \/ Usr1Exit \/ Watchdog
  BY <1>8
  DEF Mode, Ended, sigVars, RunTimersThenReturn0,
      Outside, FdwatchReady, FdwatchTimeout, TableFull, AcceptFail,
      AcceptNoMore, DispatchDone, IdleStart, IdleDone, ReturnToListen,
      ReturnToFdwatch, Connect, engineVars
<1>9. CASE Watchdog
  <2>1. Mode \notin {"exited", "aborted"} /\ Mode' = "aborted"
    BY <1>9 DEF Watchdog, Mode, Ended
  <2>2. writing \in Slots \ FreeSlots
    BY <1>9 DEF Watchdog, HoldTypeOK, FreeSlots
  <2>3. QED
    BY <1>1, <2>1, <2>2 DEF Pool!Next, Pool!Abort
<1>10. QED
  BY <1>3, <1>4, <1>5, <1>6, <1>7, <1>8, <1>9

(* A step that takes or gives back a slot is a step of the pool.           *)
LEMMA InsidePool ==
  ASSUME Inv, Inside
  PROVE  [Pool!Next]_(Pool!poolVars)
<1>1. TableStep /\ Mode' = Mode
  BY InsideInv
<1>2. CASE FreeSlots' = FreeSlots
  BY <1>1, <1>2 DEF Pool!poolVars
<1>3. CASE /\ ~ Ended
           /\ \E c \in Slots \ FreeSlots : FreeSlots' = FreeSlots \cup {c}
  <2>1. PICK c \in Slots \ FreeSlots : FreeSlots' = FreeSlots \cup {c}
    BY <1>3
  <2>2. Slots \ FreeSlots' = (Slots \ FreeSlots) \ {c}
    BY <2>1
  <2>3. Mode \notin {"exited", "aborted"}
    BY <1>3 DEF Mode, Ended
  <2>4. Pool!Close(c)
    BY <1>1, <2>1, <2>2, <2>3 DEF Pool!Close
  <2>5. QED
    BY <2>4 DEF Pool!Next
<1>4. CASE /\ pc = "accept" /\ ~ terminate
           /\ \E c \in FreeSlots : FreeSlots' = FreeSlots \ {c}
  <2>1. PICK c \in FreeSlots : FreeSlots' = FreeSlots \ {c}
    BY <1>4
  <2>2. c \in Slots /\ Slots \ FreeSlots' = (Slots \ FreeSlots) \cup {c}
    BY <2>1 DEF FreeSlots
  <2>3. Mode \in {"open", "quitting"}
    BY <1>4 DEF Mode, Ended
  <2>4. Pool!Accept(c)
    BY <1>1, <2>1, <2>2, <2>3 DEF Pool!Accept
  <2>5. QED
    BY <2>2, <2>4 DEF Pool!Next
<1>5. QED
  BY <1>1, <1>2, <1>3, <1>4 DEF TableStep

(* The engine implements the pool of connections: a client per slot, no    *)
(* client accepted while it drains, and no exit but a drained one or the   *)
(* one that found no connection, or the abort of a server that has one.    *)
THEOREM PoolCorrect == Spec => PoolSafety
<1>1. Init => Pool!Init
  BY DEF Init, FreeSlots, Mode, Ended, Pool!Init
<1>2. Inv /\ HoldTypeOK /\ [Next]_vars => [Pool!Next]_(Pool!poolVars)
  BY EngineStep, NextSplit, InsidePool, OutsidePool
<1>3. TypeOK => HoldTypeOK
  BY DEF TypeOK
<1>4. QED
  BY <1>1, <1>2, <1>3, InvCorrect, TypeCorrect, PTL
  DEF Spec, PoolSafety, Pool!Safety

=============================================================================
