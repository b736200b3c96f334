------------------------------- MODULE FdSet -------------------------------
(* What fdwatch.c promises its caller, whatever system call is under it: a   *)
(* set of descriptors, each with a direction and the caller's data, and,     *)
(* after a watch, the descriptors found ready, each handed out once with the *)
(* data it has by then.                                                      *)
EXTENDS Integers, FiniteSets

CONSTANTS Fds,      \* the descriptors
          Clients   \* the caller's data; 0 is a null pointer

VARIABLES
  watch,  \* [Fds -> "none", "read" or "write"]
  data,   \* [Fds -> data]
  hot,    \* the <<descriptor, direction>> pairs the last watch found ready
  todo,   \* the descriptors of the last watch that were not handed out yet
  ret     \* what the last call returned; 0 of a call that returns nothing

vars == << watch, data, hot, todo, ret >>

Watched == {fd \in Fds : watch[fd] # "none"}
Ends == -1

Add(fd, c, rw) ==
  /\ watch[fd] = "none"
  /\ watch' = [watch EXCEPT ![fd] = rw]
  /\ data' = [data EXCEPT ![fd] = c]
  /\ ret' = 0
  /\ UNCHANGED << hot, todo >>

Del(fd) ==
  /\ watch[fd] # "none"
  /\ watch' = [watch EXCEPT ![fd] = "none"]
  /\ data' = [data EXCEPT ![fd] = 0]
  /\ ret' = 0
  /\ UNCHANGED << hot, todo >>

\* The watch finds the set S ready, each for the direction it is watched for.
Watch(S) ==
  /\ S \subseteq Watched
  /\ hot' = {<< fd, watch[fd] >> : fd \in S}
  /\ todo' = S
  /\ ret' = Cardinality(S)
  /\ UNCHANGED << watch, data >>

\* The system call failed: nothing is handed out.
WatchFails ==
  /\ hot' = {<< fd, watch[fd] >> : fd \in Watched}
  /\ todo' = {}
  /\ ret' = Ends
  /\ UNCHANGED << watch, data >>

\* A descriptor that was removed since the watch is handed out as null.
HandOut(fd) ==
  /\ fd \in todo
  /\ todo' = todo \ {fd}
  /\ ret' = data[fd]
  /\ UNCHANGED << watch, data, hot >>

HandOutEnds ==
  /\ todo = {}
  /\ ret' = Ends
  /\ UNCHANGED << watch, data, hot, todo >>

Check(fd) ==
  /\ watch[fd] # "none"
  /\ ret' = IF << fd, watch[fd] >> \in hot THEN 1 ELSE 0
  /\ UNCHANGED << watch, data, hot, todo >>

Init ==
  /\ watch = [fd \in Fds |-> "none"]
  /\ data \in [Fds -> Clients \cup {0}]  \* malloc()ed, not set
  /\ hot = {} /\ todo = {} /\ ret = 0

Next ==
  \/ \E fd \in Fds, c \in Clients \cup {0}, rw \in {"read", "write"} : Add(fd, c, rw)
  \/ \E fd \in Fds : Del(fd) \/ HandOut(fd) \/ Check(fd)
  \/ \E S \in SUBSET Fds : Watch(S)
  \/ WatchFails
  \/ HandOutEnds

Spec == Init /\ [][Next]_vars
=============================================================================
