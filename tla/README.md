# Verification of the embedded HTTP server

This directory holds TLA+ models of the HTTP server in `src/httpserver`, TLC
configurations that check them, and proofs that the TLAPS proof system checks.
The server is a fork of thttpd 2.x for a camera: one thread serves all the
connections with non-blocking sockets, `select()` and a timer queue, and an
"internal CGI" layer turns some requests into camera commands. The rest of the
repository is notes, datasheets and a socket exercise.

    tlc -config MCThttpd.cfg MCThttpd         # model-check
    tlapm ThttpdProofs.tla                    # check the proofs of a module

## Inventory

| Component | Code | State | Operations |
|---|---|---|---|
| Connection engine | `thttpd.c` | `connects[]`, its free list, `num_connects`, `terminate` | main loop, `handle_newconnect`, `handle_read/send/linger`, `clear_connection`, `idle`, `wakeup_connection`, `linger_clear_connection` |
| Timer package | `timers.c` | 67 sorted lists, a free list, three counters | `tmr_create`, `tmr_run`, `tmr_cancel`, `tmr_reset`, `tmr_mstimeout`, `tmr_cleanup`, `tmr_term` |
| Descriptor watching | `fdwatch.c` | `fd_rw`, `fd_data`, the `select()` sets and index arrays, the ready list | add, delete, watch, check, next client data |
| File cache | `mmc.c` | the maps with their reference counts, a free list, a hash table, `expire_age` | `mmc_map`, `mmc_unmap`, `mmc_cleanup`, `mmc_term` |
| Signals, watchdog, shutdown | `thttpd.c` | `got_hup`, `got_usr1`, `watchdog_flag`, `hs->cgi_count` | the seven handlers, `shut_down` |
| Throttling | `thttpd.c` | `throttles[]`, the limits of each connection | `check/clear/update_throttles` |
| Request scanner and parser | `libhttpd.c` | `read_buf`, `checked_state`, the fields of `httpd_conn` | `httpd_got_request`, `httpd_parse_request`, `bufgets`, `de_dotdot` |
| Request execution | `libhttpd.c`, `thttpd.c`, `match.c`, `tdate_parse.c` | the response buffer, the range, the mapping | `expand_symlinks`, `really_start_request`, `send_mime`, `ls`, `handle_send` |
| External CGI | `libhttpd.c` | `cgi_count`, child processes, kill timers | `cgi`, `cgi_child`, the interposers |
| Internal CGI dispatcher | `SPS_HTTPManager.c`, `cmdproc.c` | the `cgi_cmd` table, a callback | `HISNET_ICGI_CommandProc`, `HI_CGI_CommandProc`, `ARG_Parser`, the handlers |
| Socket demo, notes | `net/`, `README.md`, ... | none kept | two sequential programs |

How they interact. `main()` starts the http thread (`thttpd_start_main`) and
then sleeps, so a signal usually runs its handler in the main thread, at any
point of the http thread's work. The http thread alternates `fdwatch()`, with a
timeout from `tmr_mstimeout()`, and handlers. A handler calls the other parts as
functions: it adds and removes descriptors, creates and cancels timers, maps and
unmaps files, and runs the request code. `tmr_run()` calls back into the engine,
from the main loop and from inside `handle_newconnect()`.

What is hard in it, and the properties that make each part correct:

* *Engine.* A connection is cleared on a dozen paths. Each must give back its
  slot, descriptor, registration, timers and mapping exactly once. Readiness is
  sampled once per round and used after timers and accepts have changed the
  table. New clients have priority over old ones, and still every connection
  must end.
* *Timers.* Procedures change the lists that `tmr_run()` walks.
* *Descriptor watching.* Deletion moves an entry between two index arrays.
* *File cache.* Deleting from an open-addressing hash table breaks probe chains;
  reference counts must survive that, a growing table, and empty files that
  share one address.
* *Signals.* Handlers share unprotected variables with the http thread, and
  SIGTERM frees the tables under it.
* *Blocking calls.* A response that is not file data is written by
  `httpd_write_fully()`, and the body of a POST is read in the handler; both sleep
  and retry while nothing moves: one client can stop the loop.
* *Children.* The child count has two writers, one `SIGCHLD` stands for many
  exits, a program may ignore the first kill.
* *Requests.* The scanner keeps its state between reads, the parser's fields
  outlive their connection, and the end of a request is looked for twice, by the
  scanner and by `bufgets()`, which must agree.
* *Responses.* The file is looked at by `stat()`, found again by `mmc_map()` and
  may change in between; the range is patched after its size is known. A dozen
  error paths must answer once each.
* *Dispatcher.* Commands are found by substring, their arguments by name or by
  position, and a file list is printed between calls that may fail.

`PROJECT.json` lists these hazards line by line with the properties that watch
them, or why none does.

## Modules

| Module | What it is |
|---|---|
| `Thttpd` | the connection engine, with what it sees of fdwatch, timers, mappings and SIGUSR1 |
| `ConnPool` | what the engine promises, without its data structures |
| `ThttpdProofs` | the types and the inductive invariant of the engine, the theorems that follow, and that it implements `ConnPool` |
| `MCThttpd` | small instance: two slots, two descriptors, two timers |
| `Timers` | the timer package, down to its pointers |
| `TimerQueue` | what the timer package promises |
| `TimersProofs` | proofs about the timer package: lists, timeout, passes, and that it implements `TimerQueue` |
| `MCTimers` | small instance: three timers, two buckets |
| `Mmc` | the file cache: maps, hash table, expiry |
| `MmcProofs` | proofs about the file cache: table, counters, contents held, references |
| `MCMmc` | small instance: two users, three maps, files whose hashes collide |
| `Paths` | the strings of a request, `de_dotdot()`, and what a path means |
| `Request` | a connection's bytes, scanned and parsed; its entry used again |
| `FoldFacts` | what `FoldLeft` computes, for every operator; induction over numbers |
| `PathsProofs` | proofs about `de_dotdot()`: it ends, keeps the meaning, leaves no way out |
| `RequestProofs` | proofs about the read buffer, the scanner, the parser and the path |
| `MCRequest` | request lines, line endings, paths and pairs of headers |
| `Symlinks` | `expand_symlinks()` over a tree, and what the kernel finds there |
| `ArgParser` | the arguments of an internal command |
| `CgiCommand` | the internal CGI: text, table, handlers, replies |
| `Respond` | a parsed request answered; extends `Symlinks` and `CgiCommand` |
| `RespondProofs` | proofs about an answer: one head, the right bytes, honest commands, file lists |
| `MCRespond` | a tree with every kind of node and link, requests, commands |
| `Fdwatch` | the arrays and sets of the `select()` backend |
| `FdSet` | what the descriptor watch promises |
| `Signals` | children, `SIGCHLD`, kill timers, `SIGALRM` and the watchdog |
| `MCLoop` | an instance of `Fdwatch` and of `Signals` |
| `LoopProofs` | proofs that the arrays of fdwatch are exact and implement `FdSet`, about the child count, the kill timers and the watchdog, and of both together |

### `Thttpd`

One action is one pass through a handler of the http thread. `pc` says where the
main loop is: `fdwatch`, `accept` (inside `handle_newconnect`), `dispatch` (the
`while` over ready connections), `tmr_run`, `idle` (one step per turn of the loop of
`idle()`), `exited`, `aborted` (by the watchdog), and `crit` (the `exit(1)` of "the
connects free list is messed up"). `ret` is where `tmr_run()` returns to: it has
three call sites.

Each field of `connecttab` and `httpd_conn` that the control depends on is a
function on slots. Data are abstracted to what the control tells apart:

* a request is `budget` more reads before the request buffer is full, and then
  one of four outcomes of `handle_read()`; a file is `budget` more writes;
* `active_at` is kept as its distance to now (`idle_for`), up to the larger of
  the two time limits, and a timer as the ticks left;
* a mapping is one bit per connection (`file_address`): that the caches behind it
  count references is the business of `Mmc`;
* `rfdset` and `wfdset` are the working sets of `select()`, less the descriptors
  that the round has already served.

Time passes only in `fdwatch()`, because all the handlers of a round use the time
sampled when it returned. Signals interleave anywhere: `Usr1` is the handler's
test of `num_connects`, and `Usr1Exit` its `exit()`, with the http thread running
in between. A timer procedure is run by its contract here (each due timer runs
once, in any order); `Timers` looks at whether the package keeps that contract.
That the loops inside `handle_newconnect` and `tmr_run` are split into actions
only adds interleavings with signals and clients, which the code has too.

Two loops inside a handler have no bound. `httpd_write_fully()`
(`libhttpd.c:4235-4250`) sleeps and retries while the client takes nothing, and so
does the read of a POST body (`SPS_HTTPManager.c:1494-1508`) while it sends nothing.
`Hold` is the http thread getting stuck in one of them, when it answers a request in
`handle_read()` or a timed-out one in `idle()`; `writing` is the connection. Then the
thread does nothing until that client moves or goes away (`LetGo`, the rest of the
handler) or the watchdog aborts the server (`Watchdog`, whose clocks are in
`Signals`). Connections, signals and time go on meanwhile.

`Usr1Exit` is one step: that `shut_down()` takes the tables down in the main thread
while the http thread still runs is left out, and only its end, the exit of the
process, is seen.

Left out: the exits on lack of memory, throttling (a connection may pause after
any part it sent, whatever the reason), logging, statistics, and SIGTERM.

### `Timers`

`links` has the heads of the buckets and the `next` and `prev` of every `Timer`;
`LRemove`, `LAdd` and `LResort` are `l_remove`, `l_add` and `l_resort` on these
pointers. `tmr_run()` is four actions around its three local variables, so that
clients act inside a procedure (`pc = "proc"`) with `next` already saved. The heap
is `alloc`; the fields of a `Timer` that was freed keep stale values, as in the
code. What a list holds is the least set that is closed under `next` from its head
(`ListFrom`), so that it means something in every state. `tmr_reset()` has no
caller in the repository; it is modelled because it is part of the package.

A time is a count of ticks, `TicksPerMs` of them to a millisecond and
`MsPerSec` of those to a second. `MsTimeout` converts as `tmr_mstimeout()` does: the
seconds and the rest are subtracted apart, and the division of the rest, which may be
negative, is cut toward zero (`Quotient`). So 1 s less half a millisecond, across the
turn of a second, is 1000 ms: the loop sleeps up to a millisecond past a timer.

`CancelSaved` says whether a procedure may cancel or reset the `Timer` that
`tmr_run()` has saved as `next`. The package is only correct without it.

### `Mmc`

A call of `mmc_map()`, `mmc_unmap()`, `mmc_cleanup()` or `mmc_term()` is one
action: the cache is only used by the http thread. The list of active maps is kept
as the set of maps `ahead` of each, which is enough for the order in which a new
table is filled and for the first entry that a search finds. The free list is a
set. The sizes of the table are `HashSizes`, each twice the one before, and a slot
is searched from the hash in the order of the probes (`Probe`). A file stands for
what `stat()` says of it, with its size and its hash, and the contents of a file
have an address named after its map, unless the file is empty: then the address is
1, as in the code. `reftime` is kept as `unused_for`, its distance to now, up to
the largest expiry age.

`mmc_map()` has four outcomes: the file is found, `open()` fails, the file is
read, or reading fails. In the last two memory may have run out first, so that
`panic()` has unmapped everything unused. Each of the four may follow a rehash.
A user of the cache is a connection: it maps one file at a time and gives back
the address with the file's `stat` (`httpd_close_conn()`).

### `Paths` and `Request`

A byte string is a sequence of tokens: blank, CR, LF, NUL, a character, or a word
that nothing takes apart (`GET`, `Host:`, `%2F`). `Table` is the switch of
`httpd_got_request()`; `BufGets` and `LineEnd` are what repeated calls of
`bufgets()` give; `httpd_parse_request` returns the fields it fills in and where
it stopped. `Accept` is `handle_newconnect()`'s `httpd_get_conn()` on an entry
that another connection may have used, `ReadSome` a `read()` of any size with all
that follows from it. An answer that refuses the request is its status: what is
sent is the business of `Respond`.

`Paths` has the four loops of `de_dotdot()` as they are, as recursive functions on
sequences, with `strstr()` and `ol_strcpy()`, and next to them `Resolve` and
`Climbs`, which read a path from left to right.

### `Symlinks`, `Respond`, `ArgParser` and `CgiCommand`

`Respond` goes from the fields of `Request` to the last byte. One action is one
stretch between system calls whose results another process can change: `Resolve`
(symbolic links), `StartRequest` (`stat()`), `FindIndex`, `ExpandIndex`, `Serve` or
`List`, `Map` (`open()` and `read()` of `mmc_map()`), then one `HandleSend` for each
`writev()`. `Rewrite` and `Unlink` are the other processes. The contents of a file
are its offsets; the text of a head or page is its length, since only its being sent
whole is at issue. `Flush` is `httpd_write_response()`: it ignores what
`httpd_write_fully()` returns and empties the buffer, so that a client that has gone
may miss the rest of an answer (`wire.gone`). `Spawn` is what the parent does when a
child is to answer.

`Symlinks` has `expand_symlinks()` over a tree, and `Walk`, the kernel's lookup.
With the build's shortcut, a path that `stat()` finds, and one with the internal
CGI prefix in it, comes back unexpanded (`Unexpanded`). A link to "/" leaves nothing
in `rest` but the slashes taken off, and nothing in `checked`. `Reach` walks the same
path from left to right, links before names, without the two strings.

`CgiCommand` is the callback between the head of an internal CGI response and its
writing. `Begin`, `ReadBody` and `EndBody` put the text of a command together,
`Dispatch` looks it up in `cgi_cmd` (the table is whole), has its arguments
parsed (`ArgParser`) and the handler run up to its first call of the camera
(`Handle`), and the `List...` actions are the loops of the file list, one camera
call each. A handler
is its options, its operations and what a "set" cannot do without; the camera
behind `MscCmdExecute()` answers anything.

Text keeps its digits, so a value reaches the camera through all that changes it:
the escapes, the buffers for the query (`MAX_CNT_CGI`), the command (`MAX_CNT_CMD`,
what does not fit is refused: `Fits`) and a piece (`MAX_CNT_EVERYCMD`, what does not
fit is cut: `Close`), the buffer for a time, and for numbers `Atoi`: a sign, the
digits up to something else, cut off at the largest `long` and then cast to `int`.
`index` is a byte that the parser stores as an `int`: the camera gets its low byte,
and the rest goes over the bytes above it (`Spilt`). What lies there, and how many of
its bytes, depends on the build (`spill`); its value is changed if it was set before.
`ToCamera` is the camera's own numbers for two of the exposure modes.

### `Fdwatch` and `FdSet`

One action is one call: `select_add_fd` under `fdwatch_add_fd`, and so on. A
descriptor that is watched twice or deleted without being watched is a logged
error that changes nothing, and is no action. `WatchReady` lets `select()` leave
any subset of what it can see in the two sets, `WatchError` is a call that a signal
interrupts. The engine's handlers are the arbitrary calls between a watch and the
hand-outs. `FdSet` has no arrays: a function from descriptors to directions, and
the set still to be handed out.

### `Signals`

The http thread is `pc`: in its loop, in the three steps of counting a child
(read the limit, read the counter, write it back), forking, stalled in a blocking
write or read, or in `tmr_run()`. `handler` is where each of the two threads is in
`handle_chld()`: the signal goes to either, and its mask is per thread, so that both
may be in the handler at once; the http thread's own work waits while its handler
runs. The decrement of the count is two steps, and so is the check for a count below
zero: `Clamp` compares, `ClampZero` stores. `lost` counts what one store overwrites
of another thread's, for the properties only. `kills` are the timers of `cgi_kill()`
and `cgi_kill2()`, which know a pid and no child. A program may ignore the first
signal (`SIGINT`), not the second. Time passes while the thread waits or is stalled.

`MCLoop` is the sum of the two modules, which share no variable: a step of one is
taken only while the other is in its initial state. Every property speaks of one
of them, and the behaviours of each are all there.

## Runs

| Run | Instance | Shows | States |
|---|---|---|---|
| `engine` | 2 slots, 2 descriptors, 2 listen sockets, queues of 1, 2 reads or writes | 7 invariants, and that the engine implements `ConnPool` | 772 761 |
| `engine_live` | the same with 1 listen socket, 1 read or write | every connection ends; a server that drains ends | 195 602 |
| `engine_usr1` | as `engine_live` | **violated**: SIGUSR1 may never make the server exit | |
| `timers` | 3 timers, 2 buckets, delays 1 and 2, 4 ticks, 2 of them to a ms and 2 ms to a second | 3 invariants, that a pass of `tmr_run()` misses nothing, and that the package implements `TimerQueue` | 1 094 414 |
| `timers_live` | 2 timers | a due timer runs | 61 244 |
| `timers_cancel` | as `timers`, `CancelSaved` | **violated**: a cancelled timer runs | |
| `cache` | 2 users, 3 maps, 3 files, tables of 4 and 16 slots | 5 invariants: contents, references, table, counters | 160 593 |
| `cache_live` | 1 user, 2 maps, 2 files, age 40 | unused files leave; the age limit recovers | 53 664 |
| `cache_empty` | as `cache`, two empty files | **violated**: an entry's reference is taken for another's | |
| `request` | first lines of 5 tokens, endings of 5, paths of 6, 15 headers in pairs, every cut into reads, a second client | 5 invariants: requests are taken whole, from their own bytes, with safe paths | 203 382 |
| `respond` | 23 names in a directory with 15 links, 2 changes by others, 2 bytes per write; every command, up to 3 arguments | 6 invariants: one answer, the right bytes, links, commands, file lists | 1 199 368 |
| `loop` | 3 descriptors, 1 connection; 2 threads, 2 pids, 2 children, every time 1 tick | 5 invariants, and that `Fdwatch` implements `FdSet` | 695 227 |

`respond` runs without the deadlock check, since each behaviour is one request and
ends with it.

What the invariants say:

* `FreeListExact`: the list through `next_free_connect` holds each FREE slot once
  and nothing else (stated without recursion: closed, injective, headed and
  without a cycle).
* `CountExact`: `num_connects` is right, and the "messed up" exit is unreachable.
* `WatchExact`: what is registered with fdwatch is what the states wait for.
* `TimersExact`: a one-shot timer exists exactly for the PAUSING and the
  LINGERING connections.
* `FileHeld`, `SendingNotCut`: mappings, and stale readiness.
* `ListsExact`, `TimeoutExact`, `RunFiresAll`: the buckets are sorted and
  complete and "timer counts don't add up!" cannot be logged; the timeout of
  `fdwatch()` is the time to the first timer to less than a millisecond, early or
  late, which is as exact as its conversion allows; no due one-shot timer is missed
  by a pass.
* `TableExact`, `HalfEmpty`: the hash table points to live maps only, each knows
  its slot, the counters add up, and lookups end.
* `HeldValid`, `RefsExact`: contents in use stay in memory, and their users are
  counted exactly, although the same file may be mapped several times.
* `AgeRecovers`: the rounding of the age limit does not hold it down.
* `GotExactly`: a request whose newlines are of one kind is taken the moment it is
  complete, and not before, told from its lines and not from the scanner's table.
* `OwnBytesOnly`: what the parser finds depends on the bytes of this request only,
  and the body starts right behind them.
* `PathsInside`: an accepted name never climbs above the root, and
  `de_dotdot()` does not change which file is meant.
* `BufferGrows`: a client is refused for length only when the buffer has its full
  size, and each read has room.
* `EveryConnectionEnds`, `DrainEnds`: whatever the clients do, a connection is let go
  or the server ends. When a client holds the http thread, only the watchdog does it.
* `OneAnswer`: each request gets one head, sent whole and before the file; a part may
  be missing only when the client has gone, and then no file follows.
* `BodyExact`: a file's bytes are those of the clipped range, as many as told,
  although the file changes on the way.
* `ExpandExact`: a path is expanded to the node it leads to, as far as there is
  anything, with the rest in `rest`, and it is given up exactly when it goes through
  too many links. Three cases are apart, where `expand_symlinks()` takes a ".." its
  own way: a relative link that leads above the web directory (the ".." is dropped,
  `libhttpd.c:1531`), and "." or a file before "..". Of these the property says only
  that the result exists and has no link in it.
* `CommandExact`: the camera is asked for what the text says, and success is
  printed only if it never failed. It is told without the parser, from the last
  value of each name: the number `atoi()` reads of it, of `index` the low byte
  (`-index=257` asks for 1), of a time as many characters as its buffer takes. The
  option that shares its memory with `index` is left out, and requests with more than
  `MAX_NUM_CMD` pieces.
* `ListWellFormed`: brackets and commas of a file list match, unless some group is
  empty, and never then.
* `ArraysExact`, `IsFdSet`: the index arrays are inverse to each other, `select()`
  is told of all watched descriptors, and each ready one is handed out once.
* `ChildrenCounted`: `cgi_count` is off by at most what stores overwrote and the failed
  forks, and no dead child is forgotten when signals coalesce.
* `KillArmed`: a running program always has a kill timer before it, even when its
  pid was used before.
* `WatchdogExact`: the watchdog does not end a server that runs its timers, and
  ends one that does not within two alarms.

### Bounds

Two slots are enough for every shape a step can meet: an empty, a partly filled and
a full table, a free list with and without a tail, two connections that exchange a
descriptor. There are as many descriptors as slots, so a descriptor that is freed is
reused at once, and as many timers, since a connection never has both kinds. Two
listen sockets matter because the second accept of a round comes after the timers
have run for the first. A queue of one client refills at any time. Two reads or
writes separate the first, a middle and the last part of a transfer. The limits are
the least that keep their order (reading before sending, both longer than nothing).
Three timers give a list a middle element, and two buckets make timers move between
lists; four ticks let a periodic timer fall behind and run twice in a pass, and are
one second, so that times are compared across its turn with every fraction of a
millisecond. The proofs remove these bounds for what they prove (see Proofs).

For the cache, two files with the same hash make the shortest chain that can
break. Three maps are a chain with a middle, or a file mapped twice next to
another, and two mapped files make a table of four slots grow at the next
`mmc_map()`. The limits on files, bytes and free maps are set so that two maps
meet or exceed them. An age limit of 4 exercises its cuts down to 0. The live run
takes 40, whose tenth is 4 (the code has 600 and 60): from 3 or less the limit
could not grow again, since `3 * 5 / 4` is 3. Empty files can gather references
without end (finding 3), so `MaxRefs` bounds them, above the number of users.

For requests, five tokens are a line of three words with its two blanks, and also
every malformed line up to there, cut anywhere; five tokens after a request line
are two CR LF pairs and one more byte. Six path tokens hold `/../` with a name on
one side, `//` and `/./` in a row, and a `..` at either end. Pairs of headers show
whether one disturbs another. `ReadInit`, `ReadMore` and `ReadMax` of 2, 2 and 12
make the buffer grow several times, and refuse the longest inputs. A second client
meets every field that the first can leave.

For responses, `MAX_LINKS` is 2, with chains of one to three links, a loop, links
that are absolute, that lead outside, up, above the web directory and to "/", and
with "." and a file before "..". A file of three bytes has
ranges that are inside, cut, at the end, beyond it and reversed; two bytes per
write end in the head, at the border and in the file. Two changes let a file
shrink and vanish, or change twice, between any two system calls. All the entries
of `cgi_cmd` are asked for; three arguments can contradict, repeat and displace
each other, in three commands that between them have each kind of option.
The buffers are scaled with the tokens: a piece has 4 of them, so that `99999` is cut
to `9999`; `MAX_NUM_CMD` is 8, so that long texts lose pieces; 29 tokens of query and
30 of command let one be cut and the other refused. `Byte` is 4, so an `int` is -128
to 127 and a number of three digits leaves it; `LongMax` is 32767, the `long` of eight
such bytes. Two groups of up to two works give a list its first, middle and last
elements, and its empty ones.

For the loop, three descriptors are a hole, a last entry and one between, all
places that `select_del_fd()` treats differently. Two pids and two children let two
run at once, let their `SIGCHLD`s become one, and make a pid be used again while the
kill timer of its first owner runs. With all times at one tick the alarm is at three,
and every order of the timers occurs; the handlers of a signal are assumed to be done
before the next tick. Two children are not refused by the limit of 2 (the build has 0,
which is none), and a third makes 3.9 million states, in which the same properties
hold; the proofs are for any number of children and any limit.

### Fairness

* `WF_vars(HttpThread)`: the thread is scheduled when no client holds it.
  `LetGo` has no fairness: the loops in `httpd_write_fully()` and around the read of a
  POST body end only if the client takes the bytes, sends the body or goes away.
* `WF_vars(Watchdog)`: while the thread is held, time passes, no timer runs, and the
  alarm rings a second time (`WatchdogExact` in `Signals`: at the latest within two
  alarms of `3 * OCCASIONAL_TIME`). What is lost of the server then is everything, so
  "ends" in `EveryConnectionEnds` and `DrainEnds` includes the abort.
* `WF_vars(Usr1Exit)`: a handler that has begun goes on.
* `SF_vars(Tick)`: time passes while the loop sits in `fdwatch()`, although
  clients may wake it at once every time: rounds cannot all take no time.
  Nothing is assumed of the clients, who may connect for ever and never send,
  read or close.
* `Timers`: the main loop calls `tmr_run()` again and again (`SF`, as clients
  act in between), and procedures return.
* `Mmc`: time passes, and `occasional()`, whose timer is periodic, keeps calling
  `mmc_cleanup()`. `UnusedExpire` and `AgeRecovers` are about files that have
  contents; finding 3 shows why.

## Findings

1. `thttpd.c:245` says "SIGUSR1 says to exit as soon as all current connections
   are done." The flag is only examined at line 766, after a round that served
   ready descriptors. If the last connections end by their timers the loop is
   back in `fdwatch()` with the flag set and nobody to wake it. It takes another
   client to make the server exit (`engine_usr1`).
2. `tmr_run()` (`timers.c:258`) saves `next` before it calls a procedure. One
   that cancels that timer makes it run after "Deschedule a timer" (`timers.h:95`)
   and be cancelled twice: `active_count` drops twice and a `Timer` on top of the
   free list gets linked to itself. `idle()` can do this when it times out a
   PAUSING connection whose wakeup timer follows the idle timer in its bucket
   (`timers_cancel`).
3. `mmc.c:390` says that a broken hash chain is harmless, because "the unmapping
   code that searches the hash table knows to keep searching". The search is by
   address, and all the empty files have the address 1: with two of them mapped
   and a chain broken, one file's reference is taken off the other's entry
   (`cache_empty`). The other's user finds "zero or negative refcount", and the
   first entry never expires. Files that have contents are not affected
   (`RefsExact`).

Seen while modelling, and true of the models, but against no line of the
repository's docs that a run could refute:

* `config.h:90-91` says of `IDLE_READ_TIMELIMIT` "How many seconds to allow for reading
  the initial request on a new connection." `idle()` enforces it in the http thread,
  which may itself be held in the read of a POST body or in the writing of an answer
  (`Hold`). No limit ends that connection then, or any other: only the watchdog does,
  with the server.
* The scanner takes CR, LF and CR LF as it goes, `bufgets()` line by line. With
  mixed newlines (LF CR, CR LF CR) they do not end a request at the same byte. The
  request parsed is still the bytes taken (`OwnBytesOnly`), but the body may start
  one byte late; `GotExactly` and the last part of `OwnBytesOnly` ask for uniform
  newlines.
* A `Range:` header is patched only for files (`Clip`). On an internal command or a
  listing, `send_mime()` tells a 206 with the length of the range. A second
  open-ended `Range:` header keeps the last byte of the first.
* `expand_symlinks()` takes the last name off for `..`, also where the kernel would
  go to the parent of what a link led to; the result is still a place without links
  (`ExpandExact`).
* The status of an internal command comes after the head was made with 200, and
  its failures are only in the text. `cgi/hi3559A/` with nothing behind it gets 500.
* `Lookup` runs the first entry that contains the name: part of a name, or none
  at all, runs a command. The full names are safe, because none is part of an
  earlier one (`CommandExact`).
* The template puts `-act` before what the client gave, so `-?` always fails, and
  `-act=set` turns a "get" command into a "set". A "set" of the time or the interval
  without a value sends 0. Missing exposure arguments fail without any text.
* `index` is stored as an `int` over a byte and its three neighbours (`spill`), and
  the camera gets it modulo 256.
* `tmr_mstimeout()` may be up to a millisecond late: the rest of a second is cut toward
  zero also when it is negative (`TimeoutExact`).
* The file list closes a group with its last work: an empty group stays open
  (`ListWellFormed`). A failure on the way leaves a list cut off, and a failure of
  the first call is reported as success.
* A kill timer is not cancelled when its child is reaped, so a pid used again
  within its time limit is killed early. No program runs without one
  (`KillArmed`).
* `thttpd.c:213` says that a CGI may involve two or three children that are counted
  one by one; the interposers are children of the child, and the server reaps one.

## Proofs

TLC checks the instances above; the theorems hold for every value of the
constants, from the assumptions named in the module that declares them. A
component has an inductive invariant, checked by TLC on the run of the component
before it was proved, and one theorem for each property that follows from it.
Where a component is a computation, the theorem about the computation comes
first, for inputs of any length, and the invariant carries it through the steps.

| Module | For every | Theorems (the property of the runs) |
|---|---|---|
| `ThttpdProofs` | table size, set of descriptors and timers, queue bound, limits | `TypeCorrect`, `InvCorrect`, `FreeListCorrect`, `CountCorrect`, `WatchCorrect`, `TimersCorrect`, `FileCorrect`, `SendingCorrect`, `PoolCorrect` (the engine implements `ConnPool`) |
| `TimersProofs` | number of timers and buckets, delays, if no procedure cancels the saved timer | `TmrInvariant`, `TmrTypeCorrect`, `TmrListsExact`, `TmrTimeoutExact`, `TmrRunFiresAll`, `TmrQueue` (the package implements `TimerQueue`) |
| `MmcProofs` | users, files, maps, hash values, limits, first table size that is even | `MmcInvariant`, `MmcTypeCorrect`, `MmcTableExact`, `MmcHalfEmpty`, `MmcHeldValid`, `MmcRefsExact` |
| `LoopProofs` | `Nfiles`, client data; process ids, child limit, times | `FdInvariant`, `FdTypeCorrect`, `FdArraysExact`, `FdErrorsNotMet`, `FdImplements` (the arrays implement `FdSet`); `SigInvariant`, `SigTypeCorrect`, `SigChildrenCounted`, `SigKillArmed`, `SigWatchdogExact`; `LoopTypeCorrect` |
| `PathsProofs` | path | `DeDotDot`, `StaysInside` |
| `RequestProofs` | inputs, sizes of the buffers | `ReqFits`, `ReqBufferGrows`, `ReqOwnFields`, `ReqTypeCorrect`, `ReqPathsInside`, `ReqOwnBytesOnly`, `ReqGotExactly` |
| `RespondProofs` | requests, trees, numbers of changes, lengths of heads and writes, lengths of file lists, widths of bytes and longs, buffers | `RspInvariant`, `RspTypeCorrect`, `RspOneAnswer`, `RspBodyExact`, `RspSuccessHonest`, `RspCommandExact`, `RspListWellFormed` |

### The engine

    Inv == LoopTypeOK /\ SlotInv /\ CountExact /\ RoundExact /\ DrainClosed

The proof first leaves `writing` out: a step with it is a step of the handlers and
their environment without it, or leaves them alone (`EngineStep`). That an abort meets
a connection, as `ConnPool` wants, is in the type invariant (`HoldTypeOK`).

* `SlotInv` joins the types of the table with `FreeListExact`, `WatchExact`,
  `TimersExact` and `FileHeld`. They depend on each other: that a slot is not
  pushed twice follows from its state, that `fdwatch_add_fd()` accepts a
  descriptor follows from `WatchExact`, that a wakeup finds a PAUSING connection
  from `TimersExact`.
* `FreeListExact` alone is not inductive without its last part (every non-empty
  set of free slots has a member whose successor is outside it): a separate cycle
  would be closed under `next_free_connect` and never reach the head.
* `RoundExact` relates the ready sets to the states they were sampled from: a
  connection that is still to be served does not pause, and if it sends it was
  found writable. `SendingNotCut` needs it, because an accept of the same round
  may give a ready descriptor to a new connection.
* `DrainClosed` says that a server that drains has no listen socket, so no accept
  can follow.

Lemmas about one connection (`ClosesInv`, `ClearInv`, `PauseInv`, ...) carry the
argument, on top of lemmas about lists (`PopFreeList`, `PushFreeList`), the
registrations (`ClosesWatch`, `RewatchWatch`, ...) and the timers
(`ClosesTimers`, `ScheduleTimers`). Steps are then of two kinds: inside the
table, where the mode of the pool does not change, and outside, where no slot is
taken or given back. The refinement uses the same split.

### Timers

The theorems have the hypothesis `~CancelSaved`. Finding 2 is why: with it false
they are false, and `timers_cancel` shows how. Which calls the hypothesis allows
is in `Cancel` and `Reset`; it says nothing of what else a procedure does.

`TmrInv` says that the Timers of each bucket are a list from its head, without a
circle, doubly linked and sorted (`Lists`), that those allocated and not active
are the free list (`Chain`), that the counters are the sizes of these sets, and
where `tmr_run()` is. Two parts are there for the walk. `RunExact` says that the
saved `next` belongs to a client, so it cannot have been freed and given to
another list. `Walked` says that each one-shot timer that is due is in a later
bucket or behind the saved `next`. It needs the order of the lists, because a
bucket is left at the first timer that is not due.

`l_add()` and `l_remove()` are proved on the pointers (`Joined`, `Left`), and from
there on only the sets matter.

### File cache

    MmcInv == /\ TypeOK /\ SlotsExact /\ CountsAddUp /\ HalfEmpty
              /\ OrderExact /\ SizeExact /\ FilesKnown
              /\ HeldExact /\ RefsExact

`HalfEmpty` carries the rest: a search that meets an empty slot ends, so
`add_hash()` gives a slot that was free and `SlotsExact` holds in the new table.
It needs `SizeExact`, since a table grows by doubling. `OrderExact` says that the
active list is one; a growing table is filled in its order. `HeldExact` is
`HeldValid` with what `Unmap` needs to find the entry: contents have an address of
their own, so that the search by address cannot stop at another file's entry. Of
empty files only their address is said, and finding 3 is about them; `RefsExact`
is silent on them for the same reason.

`HashSizesAssumption` stands for the doubling, and for the `int` that holds the
size being large enough for the number of maps. Every size is even, as "at most
half full" needs.

### Descriptor watching

`FdInv` is `FdTypeOK`, `ArraysExact` and that the ready list has no descriptor
twice. That a deletion moves the last entry into the hole and keeps the two arrays
inverse is `DelArrays`; that the ready list, which skips what is not ready, is in
order and complete rests on the ranks of the ready places (`RidxLess`,
`RidxOnto`). The refinement maps what the ready list holds beyond the index to
`FdSet`'s set still to be handed out. `FdErrorsNotMet` says that `select_add_fd()`
always finds room: the array of `Nfiles` entries is as large as the number of
descriptors.

### Children and watchdog

`ChildrenCounted` is inductive with `CountBounds`: a thread that has loaded the
counter is within reach of it, be it the http thread or either handler. `lost` is
how far the two stores may have taken the counter off, by as much as each store
overwrites.

`ClockExact` relates three clocks: the ticks since the timers were run, the alarm,
and the timer of `occasional()`. While the flag is down, the alarm is two periods
behind `occasional()`, so that when it rings again the thread has periods. Without
this part, `aborted => since > 2 * OccasionalTime` is not inductive.

`LoopTypeCorrect` is about `MCLoop`, whose behaviours are each one of `Fdwatch` and
one of `Signals`, by its definition.

### Answers and requests

`RspInv` follows an answer from `Asked` (nothing is written) over its head to its
last byte. `Unanswered` says that the range is still the request's until `Serve`
clips it; `Balanced` that what was written of the head and what waits to be
written add up; `Windowed` that the body is the bytes from the start of the range
to `next_byte_index`, and that no byte of it went out before the head. `CmdSane`
says of a command that no failed call of the camera is followed by another, or by
a claim of success. Which bytes of a file are in the window is told from the
request and the `stat()` (`First`, `End`), not from the fields that the code
patches.

`Requests` are assumed to have a range only with a head, clipped at 0, which is
what the parser gives (`libhttpd.c:2188-2214`).

`RspCommandExact` is about text of any length. Its invariant `Exact` says of every
state that the first call of the camera, if there was one, is the one the text asks
for (`FirstExact`); later steps leave the text and that call alone, so the work is in
`Dispatch`. There are two parts:

* The command. Seen as a set of words, no name of `cgi_cmd` is contained in another
  one's (`NamesApart`, entry by entry), so the first entry whose name has a full name
  in it is the entry of that name, and each entry has a handler (`LookupExact`).
* The arguments. `Pieces` and the loop over `argv` are folds. By induction over the
  arguments read, an option that was named has what the last value given to it sets
  (`ArgsTaken`): a value without a name goes to an option that has none, and only the
  neighbour of `index` may be changed by another's value. The template's `-act` is in
  front, so a later one replaces it (`ValuesNamed`). That the pieces of template and
  text are those of the template followed by those of the text, each cut for itself,
  is `CommandPieces` and `ArgumentsAre`.

`WidthAssumption` and `BuffersAssumption` say that the widths and the buffers are
positive numbers, and a piece has room for "-" and a name; requests are assumed to be
made of `Tokens`, which is any text.

`ListWellFormed` is about a list of any length, printed by loops that close a group
with its last work. `Printed(reply, open, last)` says of what is printed so far
that its pieces follow one another as in JSON, that it ends in `last`, and that
what is open is `open`. `Listing` says that between two groups one pair of brackets
is open, and in a group two (`Opened`), and one pair more for each group that had
no works: nothing closes those, and `NoneEmpty` tells whether there was one. With
the numbers of calls next to it, this is inductive (`ListStartListing` to
`ListEndListing`), and at the end it is the property.

### Requests and paths

`ReqFits` says that `read_idx` stays within `read_size`, also from one connection
of an entry to the next, and `ReqBufferGrows` follows: it is what keeps `read()`
from being asked for 0 bytes.

`ReqInv` says that an entry that reads has the fields of an `httpd_conn` never
used, and that the scanner's state is that of one pass over all that was read
(`FoldConcat`: where the reads cut it makes no difference). Once taken, the fields
are what the parser makes of it. `Places` adds where the scanner is.
`ReqTypeCorrect` is both with `ReqFits`.

`ReqPathsInside` rests on `PathsProofs`. Each of the four loops of `de_dotdot()` is a
recursive function whose argument gets shorter (`Turns`), so it is defined
everywhere and keeps what a turn keeps (`LoopKeeps`). One turn of each loop keeps
`Resolve`, what the path means, and the form that the loops before it have
established: no `//`, no `/./`, no `./` in front, no `../` in front and no `/../`
(`DeDotDot`). A path of that form which is neither absolute nor `..` climbs at none
of its steps (`StaysInside`). The tests behind `de_dotdot()` refuse the rest.

`ReqOwnBytesOnly` and `ReqGotExactly` compare three readings of the same bytes: the
scanner's states, the lines that `bufgets()` cuts, and the words of the first line.
Each is a fold over the bytes (`V`, `A` and `W` of a prefix). On the first line,
`Shape` relates the state to the words so far; below it, `Knows` says what the
state knows of the lines and of the last two bytes. So `GOT` means a first line of
two words, or three and an empty line below; the parser stops at that line, and
nothing behind it is looked at (`ParsedAt` for the position). Where newlines are of
one kind the scanner is never behind the lines, which gives `ReqGotExactly`.

### Induction over data

The library's induction theorems take an operator, which no prover here can
instantiate. `FoldFacts` goes around this: `NatInd` is induction with a *set* of
numbers for the property, from the least element of its complement (`WFMin`).
`FoldRun` shows that `FoldLeft` is the last value of a run over the sequence;
`FoldAppend`, `FoldConcat` and `FoldClosed` follow, for an `Op` that is a constant
of the module, and each fold of the models is an instance. `PathsProofs` does the
same for a loop with a decreasing measure.

### What proving changed

* `ChildrenCounted` first bounded the error by the number of lost updates. With
  three children one store can overwrite several, so this was false; `lost` now
  counts what was overwritten.
* Lists of `Timers` and the loops of `Paths` and `Symlinks` were RECURSIVE
  operators. They are least sets and recursive functions now, and mean the same:
  the runs did not change.
* The sizes of `Mmc`'s table are a set now, with the doubling as an assumption, and
  the probes wrap around by a comparison: growing needs no recursion, and the
  arithmetic stays linear.
* `Inputs` are assumed to be strings of `Tokens`, and `MaxGroups` and `MaxWorks` to be
  numbers: types the runs had given them and no assumption did.
* The loop over the arguments carries the table it looks in, so that it is a fold of one
  operator, `ParseArg`; `Pieces` is a fold too.
* Some guards of a CASE overlapped, and which branch TLC takes is not defined.
  They are disjoint now; none of the values changed.
* A command whose `act` is neither "get" nor "set" had no operation, as a function
  applied outside its domain. `Operation` answers as the handlers do, with
  `CMD_INVALID`.
* `LineEnd`, `WordCount` and the calls of a list are told by folds and functions
  instead of `SelectSeq`, which the prover cannot expand. The brackets, braces and
  commas of a file list are named by words: the prover fails on such characters in
  strings.

### Only model-checked

* Liveness, under fairness: `EveryConnectionEnds`, `DrainEnds`, `DueTimersRun`,
  `UnusedExpire`, `AgeRecovers`. It is out of the prover's reach.
* `ExpandExact`, with the exceptions it names. Its proof would take an induction over
  the links and then over the names that are left.

## Not modelled

* Throttling. `throttlefile` is null (`thttpd.c:825`) and no option sets it, so
  `numthrottles` stays 0 and every limit is "none". The engine lets a connection
  pause whenever it could.
* SIGTERM and SIGINT: `shut_down()` in the main thread frees what the http thread
  uses. Any outcome is possible, so a model would say nothing. SIGHUP leads to
  nothing (`logfile` is null, `thttpd.c:827`), SIGUSR2 prints statistics.
* The child processes of CGI: environment, interposers, `exec()`; and the listing
  that the child of `ls()` prints.
* What is not compiled or switched off: the kqueue, `/dev/poll` and `poll()`
  backends, `mmap()`, virtual hosts, `~user`, password files.
* Exits on lack of memory, except where the code recovers (`panic()` in `Mmc`).
* Text and tables: pages, heads, MIME types, dates, patterns of `match()`, the log.
* The socket demo, two sequential programs without state, and the notes.

## Plan

The models are there, and every safety property but `ExpandExact` is proved. What
is left:

1. `ExpandExact` for every tree, by induction over the links left and then the names.
2. A module of what the cache promises for files that have contents, without hash
   table and lists, implemented by `Mmc`: a user gets the contents the file had
   when it was read, and they stay until he gives them back.
