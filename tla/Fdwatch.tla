------------------------------ MODULE Fdwatch ------------------------------
(* The descriptor watch over select() (fdwatch.c): which descriptors are      *)
(* watched (fd_rw, fd_data), the dense array of them with its inverse, the   *)
(* descriptor sets given to select(), and the list of those found ready,     *)
(* which the main loop walks while its handlers add and remove descriptors.  *)
EXTENDS Integers, Sequences, FiniteSets

CONSTANTS Nfiles,   \* the size of the tables
          Clients   \* the connections; 0 is the null pointer of a listener

ASSUME FdwatchAssumption == Nfiles \in Nat \ {0} /\ Clients \cap Int = {}

VARIABLES
  fd_rw, fd_data,              \* by descriptor; "none" is -1
  select_fds, nselect_fds,     \* the watched descriptors, -1 past their number
  select_fdidx,                \* by descriptor, its place in select_fds, or -1
  maxfd, maxfd_changed,
  master_rfdset, master_wfdset,
  working_rfdset, working_wfdset,
  select_rfdidx,               \* the nreturned descriptors found ready
  next_ridx,
  given                        \* what the last call returned; 0 if nothing

tableVars == << fd_rw, fd_data, select_fds, nselect_fds, select_fdidx,
                master_rfdset, master_wfdset >>
maxVars == << maxfd, maxfd_changed >>
readyVars == << working_rfdset, working_wfdset, select_rfdidx, next_ridx >>
fdVars == << tableVars, maxVars, readyVars, given >>

Fds == 0 .. Nfiles - 1
Directions == {"read", "write"}

----------------------------------------------------------------------------
\* select_add_fd() and fdwatch_add_fd(): a descriptor already watched is an
\* error in the log and no more.
AddFd(fd, c, rw) ==
  /\ fd_rw[fd] = "none"
  /\ nselect_fds < Nfiles
  /\ select_fds' = [select_fds EXCEPT ![nselect_fds] = fd]
  /\ master_rfdset' = IF rw = "read" THEN master_rfdset \cup {fd} ELSE master_rfdset
  /\ master_wfdset' = IF rw = "write" THEN master_wfdset \cup {fd} ELSE master_wfdset
  /\ maxfd' = IF fd > maxfd THEN fd ELSE maxfd
  /\ select_fdidx' = [select_fdidx EXCEPT ![fd] = nselect_fds]
  /\ nselect_fds' = nselect_fds + 1
  /\ fd_rw' = [fd_rw EXCEPT ![fd] = rw]
  /\ fd_data' = [fd_data EXCEPT ![fd] = c]
  /\ given' = 0
  /\ UNCHANGED << maxfd_changed, readyVars >>

\* The last descriptor fills the hole at idx, in both arrays; the order of the
\* assignments is the code's, for the case that idx is the last place itself.
Moved(fds, idx, last) == [fds EXCEPT ![idx] = fds[last], ![last] = -1]
\* Mutant: the place of the descriptor that was moved is not noted.
RenumberedNot(fdidx, fd, idx, last) == [fdidx EXCEPT ![fd] = -1]

Renumbered(fdidx, fd, idx, last) == [fdidx EXCEPT ![select_fds[last]] = idx, ![fd] = -1]

DelFd(fd) ==
  LET idx == select_fdidx[fd]
      last == nselect_fds - 1
  IN
  /\ fd_rw[fd] # "none"
  /\ idx \in Fds
  /\ nselect_fds' = last
  /\ select_fds' = Moved(select_fds, idx, last)
  /\ select_fdidx' = Renumbered(select_fdidx, fd, idx, last)
  /\ master_rfdset' = master_rfdset \ {fd}
  /\ master_wfdset' = master_wfdset \ {fd}
  /\ maxfd_changed' = (maxfd_changed \/ fd >= maxfd)
  /\ fd_rw' = [fd_rw EXCEPT ![fd] = "none"]
  /\ fd_data' = [fd_data EXCEPT ![fd] = 0]
  /\ given' = 0
  /\ UNCHANGED << maxfd, readyVars >>

----------------------------------------------------------------------------
Filled == {select_fds[i] : i \in 0 .. nselect_fds - 1}

GetMaxfd ==
  IF ~maxfd_changed THEN maxfd
  ELSE IF Filled = {} THEN -1
  ELSE CHOOSE fd \in Filled : \A other \in Filled : other <= fd

\* What select() may leave in the sets: it sees the descriptors up to nfds - 1.
Seen(S) == {fd \in S : fd <= GetMaxfd}

IsSet(fd, rfdset, wfdset) ==
  CASE fd_rw[fd] = "read" -> fd \in rfdset
    [] fd_rw[fd] = "write" -> fd \in wfdset
    [] OTHER -> FALSE

\* The places of select_fds whose descriptor is set, and the place in
\* select_rfdidx that the one at idx gets: as many as were set before it.
Hits(rfdset, wfdset) ==
  {idx \in 0 .. nselect_fds - 1 : IsSet(select_fds[idx], rfdset, wfdset)}
Ridx(hits, idx) == Cardinality({j \in hits : j < idx})
Listed(hits) ==
  [k \in 1 .. Cardinality(hits) |->
     select_fds[CHOOSE idx \in hits : Ridx(hits, idx) = k - 1]]

\* The descriptors that are set, in the order of select_fds; the loop over it
\* stops after r of them.
Ready(rfdset, wfdset) ==
  LET hits == Hits(rfdset, wfdset)
      r == Cardinality(rfdset) + Cardinality(wfdset)
  IN Listed({idx \in hits : Ridx(hits, idx) < r})

\* Mutant: the list is walked from where the last walk stopped.
ReturnedAgain == next_ridx' = IF next_ridx <= Len(select_rfdidx') THEN next_ridx ELSE 0

\* Mutant: the list is walked from the same place.
ReturnedNot == UNCHANGED next_ridx

Returned == next_ridx' = 0

\* fdwatch(): select_watch() returned the number of descriptors found ready.
WatchReady ==
  /\ \E R \in SUBSET Seen(master_rfdset), W \in SUBSET Seen(master_wfdset) :
       /\ working_rfdset' = R /\ working_wfdset' = W
       /\ select_rfdidx' = Ready(R, W)
  /\ given' = Len(select_rfdidx')
  /\ maxfd' = GetMaxfd /\ maxfd_changed' = FALSE
  /\ Returned
  /\ UNCHANGED tableVars

\* fdwatch(): select() failed (a signal), and left the sets as they were.
WatchError ==
  /\ working_rfdset' = master_rfdset /\ working_wfdset' = master_wfdset
  /\ select_rfdidx' = << >>
  /\ given' = -1
  /\ maxfd' = GetMaxfd /\ maxfd_changed' = FALSE
  /\ Returned
  /\ UNCHANGED tableVars

\* fdwatch_check_fd() of a watched descriptor.
CheckFd(fd) ==
  /\ fd_rw[fd] # "none"
  /\ given' = IF IsSet(fd, working_rfdset, working_wfdset) THEN 1 ELSE 0
  /\ UNCHANGED << tableVars, maxVars, readyVars >>

NextFd == select_rfdidx[next_ridx + 1]

GetNextClientData ==
  /\ IF next_ridx >= Len(select_rfdidx)
       THEN given' = -1 /\ UNCHANGED next_ridx
       ELSE given' = fd_data[NextFd] /\ next_ridx' = next_ridx + 1
  /\ UNCHANGED << tableVars, maxVars, working_rfdset, working_wfdset, select_rfdidx >>

----------------------------------------------------------------------------
\* fdwatch_get_nfiles() and select_init().  fd_data is not initialised, and is
\* written before it is read: 0 stands for any value.
FdInit ==
  /\ fd_rw = [fd \in Fds |-> "none"]
  /\ fd_data = [fd \in Fds |-> 0]
  /\ select_fds = [i \in Fds |-> -1] /\ nselect_fds = 0
  /\ select_fdidx = [fd \in Fds |-> -1]
  /\ maxfd = -1 /\ maxfd_changed = FALSE
  /\ master_rfdset = {} /\ master_wfdset = {}
  /\ working_rfdset = {} /\ working_wfdset = {}
  /\ select_rfdidx = << >> /\ next_ridx = 0
  /\ given = 0

\* A connection has one descriptor, so it is watched under one at a time.
NewClient(c) == c = 0 \/ \A fd \in Fds : fd_data[fd] # c

FdNext ==
  \/ \E fd \in Fds, c \in Clients \cup {0}, rw \in Directions :
       NewClient(c) /\ AddFd(fd, c, rw)
  \/ \E fd \in Fds : DelFd(fd)
  \/ \E fd \in Fds : CheckFd(fd)
  \/ WatchReady
  \/ WatchError
  \/ GetNextClientData

FdSpec == FdInit /\ [][FdNext]_fdVars

----------------------------------------------------------------------------
FdTypeOK ==
  /\ fd_rw \in [Fds -> Directions \cup {"none"}]
  /\ fd_data \in [Fds -> Clients \cup {0}]
  /\ select_fds \in [Fds -> Fds \cup {-1}]
  /\ nselect_fds \in 0 .. Nfiles
  /\ select_fdidx \in [Fds -> Fds \cup {-1}]
  /\ maxfd \in -1 .. Nfiles - 1
  /\ maxfd_changed \in BOOLEAN
  /\ master_rfdset \subseteq Fds /\ master_wfdset \subseteq Fds
  /\ working_rfdset \subseteq Fds /\ working_wfdset \subseteq Fds
  /\ select_rfdidx \in Seq(Fds)
  /\ next_ridx \in 0 .. Len(select_rfdidx)
  /\ given \in Clients \cup -1 .. Nfiles

Watching == {fd \in Fds : fd_rw[fd] # "none"}

IndexExact ==
  /\ \A i \in 0 .. nselect_fds - 1 :
       select_fds[i] \in Fds /\ select_fdidx[select_fds[i]] = i
  /\ \A i \in nselect_fds .. Nfiles - 1 : select_fds[i] = -1
  /\ \A fd \in Fds : \/ select_fdidx[fd] = -1
                     \/ /\ select_fdidx[fd] \in 0 .. nselect_fds - 1
                        /\ select_fds[select_fdidx[fd]] = fd

SetsExact ==
  /\ master_rfdset = {fd \in Fds : fd_rw[fd] = "read"}
  /\ master_wfdset = {fd \in Fds : fd_rw[fd] = "write"}

MaxExact ==
  /\ \A fd \in Watching : fd <= maxfd
  /\ ~maxfd_changed => maxfd \in Watching \cup {-1}

\* The two index arrays are each other's inverse after every sequence of calls,
\* list exactly the watched descriptors, agree with the sets given to select(),
\* and the highest descriptor select() is told of is never below a watched one,
\* though it is only brought down by the next watch (fdwatch.c:728, 753).
ArraysExact ==
  /\ IndexExact
  /\ Filled = Watching
  /\ SetsExact
  /\ MaxExact

Hot == ({<< fd, "read" >> : fd \in working_rfdset}
         \cup {<< fd, "write" >> : fd \in working_wfdset})
Todo == {select_rfdidx[i + 1] : i \in next_ridx .. Len(select_rfdidx) - 1}

FdSet == INSTANCE FdSet WITH watch <- fd_rw, data <- fd_data, hot <- Hot,
                             todo <- Todo, ret <- given

\* Every descriptor select() found ready is handed out once and no other is,
\* with the data it has by then, though descriptors are added, removed and
\* turned between the watch and the calls that hand it out (fdwatch.c:769-803,
\* 261): the array package implements a set.
IsFdSet == FdSet!Spec
=============================================================================
