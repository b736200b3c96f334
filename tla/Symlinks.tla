------------------------------ MODULE Symlinks ------------------------------
(***************************************************************************)
(* expand_symlinks() of libhttpd.c over a tree of files, and what stat()   *)
(* and readlink() find there.                                              *)
(*                                                                         *)
(* A tree maps the absolute path of every node, a sequence of names, to a  *)
(* record with its kind; a link also has a target.  A C path is [abs,      *)
(* segs]: whether it starts with "/", and the names between the slashes.   *)
(***************************************************************************)
EXTENDS Integers, Sequences, SequencesExt

CONSTANTS Cwd,           \* the absolute path of the web directory
          MAX_LINKS,     \* 32
          InternalCgi    \* "cgi/hi3559A/", the names of PRIVATE_CGI_ENTER

CPaths == [abs : BOOLEAN, segs : Seq(STRING)]
Nodes == [kind : {"dir", "file", "link"}, size : Nat, mtime : Nat,
          r : BOOLEAN, x : BOOLEAN, to : CPaths]

Path(segs) == [abs |-> FALSE, segs |-> segs]
Root == [abs |-> TRUE, segs |-> <<>>]
Pop(p) == [p EXCEPT !.segs = SubSeq(@, 1, Len(@) - 1)]
Push(p, name) == [p EXCEPT !.segs = Append(@, name)]
IsEmpty(p) == ~p.abs /\ p.segs = <<>>

-----------------------------------------------------------------------------
(* The kernel's lookup: the node a path leads to, "none" (ENOENT, ENOTDIR) *)
(* or "loop" (more than fuel links).                                       *)

NoNode == [found |-> "none", at |-> <<>>]
Loop == [found |-> "loop", at |-> <<>>]

Walk(tree, from, path, links) ==
  LET walk[at \in Seq(STRING), segs \in Seq(STRING), fuel \in 0..links] ==
        LET name == Head(segs)
            rest == Tail(segs)
            next == Append(at, name)
        IN CASE segs = <<>> -> [found |-> "node", at |-> at]
             [] segs # <<>> /\ tree[at].kind # "dir" -> NoNode
             [] OTHER ->
                  IF name = "." THEN walk[at, rest, fuel]
                  ELSE IF name = ".." THEN walk[SubSeq(at, 1, Len(at) - 1), rest, fuel]
                  ELSE IF next \notin DOMAIN tree THEN NoNode
                  ELSE IF tree[next].kind # "link" THEN walk[next, rest, fuel]
                  ELSE IF fuel = 0 THEN Loop
                  ELSE walk[IF tree[next].to.abs THEN <<>> ELSE at,
                            tree[next].to.segs \o rest, fuel - 1]
  IN walk[from, path, links]

Start(p) == IF p.abs THEN <<>> ELSE Cwd

KernelLinks == MAX_LINKS + 8
stat(tree, p) ==
  IF IsEmpty(p) THEN NoNode ELSE Walk(tree, Start(p), p.segs, KernelLinks)

\* "none", "einval" for what is no link, or "link".
readlink(tree, p) ==
  LET dir == Walk(tree, Start(p), Pop(p).segs, KernelLinks)
      node == Append(dir.at, Last(p.segs))
  IN CASE p.segs = <<>> -> "einval"
       [] p.segs # <<>> /\ (dir.found # "node" \/ tree[dir.at].kind # "dir") -> "none"
       [] OTHER -> IF Last(p.segs) \in {".", ".."} THEN "einval"
                   ELSE IF node \notin DOMAIN tree THEN "none"
                   ELSE IF tree[node].kind = "link" THEN "link" ELSE "einval"

LinkTo(tree, p) ==
  tree[Append(Walk(tree, Start(p), Pop(p).segs, KernelLinks).at, Last(p.segs))].to

-----------------------------------------------------------------------------
(* expand_symlinks().  The file server is built so that a path that        *)
(* stat() finds, and that of an internal CGI command, is returned as it is *)
(* (with trailing slashes trimmed); any other is walked name by name to    *)
(* see how far it leads.  segs has no trailing slash; slash tells if the   *)
(* path had one.                                                           *)

\* check_internal_cgi(): "cgi/hi3559A/" is in the path.
check_internal_cgi(segs, slash) ==
  \E i \in DOMAIN segs : \E j \in i..Len(segs) :
     /\ SubSeq(segs, i, j) = InternalCgi
     /\ j < Len(segs) \/ slash

\* Mutant: the rest starts after the name that is not there.
FoundPast(checked, rest) ==
  [ok |-> TRUE, path |-> IF IsEmpty(checked) THEN Path(<<".">>) ELSE checked,
   rest |-> IF rest = <<>> THEN rest ELSE Tail(rest)]

Found(checked, rest) ==
  [ok |-> TRUE, path |-> IF IsEmpty(checked) THEN Path(<<".">>) ELSE checked,
   rest |-> rest]
NotFound == [ok |-> FALSE, path |-> Path(<<>>), rest |-> <<>>]

\* A target of "/" is trimmed to nothing: with nothing behind it, what was
\* checked before the link is the result.
Expand(tree, path) ==
  LET expand[checked \in CPaths, rest \in Seq(STRING), nlinks \in 0..MAX_LINKS] ==
        LET next == IF Head(rest) = ".." THEN Pop(checked) ELSE Push(checked, Head(rest))
            link == LinkTo(tree, next)
        IN CASE rest = <<>> -> Found(checked, <<>>)
             [] rest # <<>> /\ (IsEmpty(next) \/ readlink(tree, next) = "einval") ->
                  expand[next, Tail(rest), nlinks]
             [] rest # <<>> /\ ~IsEmpty(next) /\ readlink(tree, next) = "none" ->
                  Found(checked, rest)
             [] OTHER ->
                  IF nlinks + 1 > MAX_LINKS THEN NotFound
                  ELSE IF link = Root /\ Tail(rest) = <<>> THEN Found(checked, <<>>)
                  ELSE expand[IF link.abs THEN Root ELSE checked,
                              link.segs \o Tail(rest), nlinks + 1]
  IN expand[Path(<<>>), path, 0]

\* The paths that are returned as they are.
Unexpanded(tree, segs, slash) ==
  LET node == stat(tree, Path(segs))
      isFile == node.found = "node" /\ tree[node.at].kind = "file"
  IN \/ check_internal_cgi(segs, slash)
     \/ node.found = "node" /\ ~(slash /\ isFile)

expand_symlinks(tree, segs, slash) ==
  IF Unexpanded(tree, segs, slash)
  THEN [ok |-> TRUE, path |-> Path(segs), rest |-> <<>>]
  ELSE Expand(tree, segs)

-----------------------------------------------------------------------------
(* How far a path in the web directory leads: the last node and the names  *)
(* left, with the links on the way replaced.  "none" if the next name is   *)
(* not there, "loop" after MAX_LINKS links, and "apart" at a ".." that is  *)
(* more than the name before it taken off: at the web directory, unless an *)
(* absolute link led there, after a "." and after a file.                  *)
Reach(tree, path) ==
  LET reach[at \in Seq(STRING), rest \in Seq(STRING), left \in 0..MAX_LINKS,
            relative \in BOOLEAN, dots \in BOOLEAN] ==
        LET name == Head(rest)
            next == Append(at, name)
            to == tree[next].to
            dir == tree[at].kind = "dir"
            Ends(how) == [end |-> how, at |-> at, rest |-> rest]
        IN IF rest = <<>> THEN Ends("node")
           ELSE IF name = ".." /\ (~dir \/ dots \/ (relative /\ at = Cwd)) THEN Ends("apart")
           ELSE IF ~dir THEN Ends("none")
           ELSE IF name = "." THEN reach[at, Tail(rest), left, relative, TRUE]
           ELSE IF name = ".." THEN
                  reach[SubSeq(at, 1, Len(at) - 1), Tail(rest), left, relative, dots]
           ELSE IF next \notin DOMAIN tree THEN Ends("none")
           ELSE IF tree[next].kind # "link" THEN
                  reach[next, Tail(rest), left, relative, dots]
           ELSE IF left = 0 THEN Ends("loop")
           ELSE reach[IF to.abs THEN <<>> ELSE at, to.segs \o Tail(rest), left - 1,
                      relative /\ ~to.abs, dots /\ ~to.abs]
  IN reach[Cwd, path, MAX_LINKS, TRUE, FALSE]

\* The node a path names if no link and no ".." is in it.
NodeOf(p) == Start(p) \o SelectSeq(p.segs, LAMBDA name : name # ".")

=============================================================================
