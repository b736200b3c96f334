----------------------------- MODULE MCRespond -----------------------------
(* Respond on a tree with files, directories with and without an index,    *)
(* and links: chains, a loop, one to nothing, ones into, out of and above  *)
(* the web directory, to "/", and with "." and ".." in them.               *)
EXTENDS Respond, TLC

MCCwd == <<"w">>
MCInternal == <<"cgi", "hi">>
MCIndexNames == <<"index.html", "index.cgi">>

Node(kind, size, r, x) ==
  [kind |-> kind, size |-> size, mtime |-> 5, r |-> r, x |-> x, to |-> Path(<<>>)]
Dir == Node("dir", 0, TRUE, TRUE)
File(size) == Node("file", size, TRUE, FALSE)
Link(to) == [Node("link", 0, TRUE, TRUE) EXCEPT !.to = to]
Abs(segs) == [abs |-> TRUE, segs |-> segs]

Web ==
  "f" :> File(3) @@ "empty" :> File(0) @@ "p" :> Node("file", 1, FALSE, FALSE)
  @@ "x" :> Node("file", 1, FALSE, TRUE) @@ "d" :> Dir @@ "i" :> Dir
  @@ "c" :> Dir @@ "n" :> Node("dir", 0, FALSE, TRUE)
  @@ "one" :> Link(Path(<<"d", "g">>)) @@ "two" :> Link(Path(<<"one">>))
  @@ "three" :> Link(Path(<<"two">>)) @@ "self" :> Link(Path(<<"self">>))
  @@ "gone" :> Link(Path(<<"nothing">>)) @@ "in" :> Link(Abs(<<"w", "d">>))
  @@ "out" :> Link(Abs(<<"e">>)) @@ "up" :> Link(Path(<<"d", "..", "i">>))
  @@ "above" :> Link(Path(<<"..", "e">>)) @@ "dots" :> Link(Path(<<".", "..", "e">>))
  @@ "dot" :> Link(Path(<<".", "d">>)) @@ "past" :> Link(Path(<<"f", "..", "d">>))
  @@ "root" :> Link(Root) @@ "over" :> Link(Path(<<"f", "..", "root">>))
  @@ "back" :> Link(Abs(<<"w", "d", "..", "..", "e">>))

MCTree ==
  [p \in {<<w>> : w \in {"w", "e"}} \cup {<<>>} |-> Dir]
  @@ [p \in {<<"w", n>> : n \in DOMAIN Web} |-> Web[p[2]]]
  @@ <<"w", "d", "g">> :> File(1) @@ <<"e", "h">> :> File(1)
  @@ <<"w", "i", "index.html">> :> File(2)
  @@ <<"w", "c", "index.cgi">> :> Node("file", 1, FALSE, FALSE)

\* Commands: with any three arguments, with any two as the body of a POST,
\* and every entry of the table with none.
Input(name, query) ==
  [name |-> name, query |-> query, buffered |-> <<>>, arriving |-> <<>>, contentlength |-> -1]
NoInput == Input(<<"get", "version">>, <<>>)

\* Numbers that fit a byte or not, an int or not, or a long; text after one.
Value(o, v) == <<"-", o, "=">> \o v
Arguments ==
  {Value("act", <<"set">>), Value("act", <<"get">>), Value("index", <<"1">>),
   Value("index", <<"-", "9">>), Value("exptime", <<"5", "0", "x">>),
   <<"-", "expgain", "%3D", "SP", "-", "5">>, Value("interval", <<"9", "9", "9", "9", "9">>),
   Value("expmode", <<"1">>), <<"-", "index">>, <<"-", "?">>, <<"-", "bad">>, <<"-">>,
   <<"3", "0", "0">>, <<"set">>}
Queries == {<<>>} \cup Arguments
             \cup {x \o <<"&">> \o y : x \in Arguments, y \in Arguments}
             \cup {x \o <<"&", "&">> \o y \o <<"%26">> \o z :
                      x \in Arguments, y \in Arguments, z \in Arguments}
ShortQueries ==
  {<<>>} \cup Arguments
    \cup {Value("time", <<"1", "2", "+", "5", "0">>), Value("expmode", <<"0">>), Value("expmode", <<"2">>),
          <<"/", "act", "=", "get", "x">>, <<"/", "5">>}
CommandNames == {<<"set", "exposureattr">>, <<"set", "timeinterval">>, <<"get", "exposuremode">>}
PartNames == {<<"snap">>, <<"snap", "calibration">>, <<"task">>, <<>>, <<"none">>,
            <<"set", "x", "y", "z", "w", "v">>, <<"get">>}

\* Longer than the text of a command may be, before and after its own is added.
Long(n) == [k \in 1..n |-> IF k % 3 = 1 THEN "&" ELSE "5"]
LongInputs == {Input(<<"set", "timeinterval", ".cgi">>, Long(n)) : n \in {22, 23, 26, 27, 30}}

GetInputs ==
  {Input(n \o <<".cgi">>, q) : n \in CommandNames, q \in Queries}
    \cup {Input(n \o <<".cgi">>, q) :
            n \in {cgi_cmd[k].cgi : k \in DOMAIN cgi_cmd} \cup PartNames, q \in ShortQueries}
    \cup {Input(n, <<"&">> \o q) : n \in {<<"get", "timeinterval">>, <<"none">>}, q \in ShortQueries}
    \cup {Input(n, <<"5">>) : n \in PartNames} \cup LongInputs

Body == <<"-", "interval", "=", "5", "&", "-", "act", "=", "get">>
PostInputs ==
  {[Input(<<"set", "timeinterval", ".cgi">>, <<>>) EXCEPT
      !.buffered = SubSeq(Body, 1, n), !.arriving = SubSeq(Body, n + 1, 9),
      !.contentlength = length] : n \in {0, 2, 9}, length \in {-1, 4, 9}}
    \cup {[in EXCEPT !.query = <<>>, !.buffered = in.query] : in \in LongInputs}

Get(path, slash) ==
  [method |-> "GET", mime_flag |-> TRUE, path |-> path, slash |-> slash,
   got_range |-> FALSE, first |-> 0, last |-> -1, ims |-> -1, range_if |-> -1,
   referrer |-> "none", icgi |-> NoInput]

FileNames == DOMAIN Web \cup {"g", "index.html", "..", "nothing"}
Paths == {<<>>, <<".">>, MCInternal, MCInternal \o <<"cmd">>, <<"out", "h", "g">>,
          <<"in", "g", "f">>, <<"three", "x", "y">>, <<"root", "w", "f", "x">>, <<"back", "h", "x">>,
          <<"dot", "g", "..">>}
           \cup {<<n>> : n \in FileNames \ {".."}} \cup {<<n, m>> : n \in FileNames \ {".."}, m \in FileNames}

PathRequests == {Get(p, slash) : p \in Paths, slash \in BOOLEAN}

Ranged(path) ==
  {[Get(path, FALSE) EXCEPT !.got_range = TRUE, !.first = first, !.last = last,
                            !.range_if = range_if, !.method = method] :
     first \in 0..3, last \in -1..4, range_if \in {-1, 5, 6}, method \in {"GET", "HEAD"}}

Others(path) ==
  {[Get(path, TRUE) EXCEPT !.method = method, !.mime_flag = mime, !.ims = ims,
                           !.referrer = referrer] :
     method \in {"GET", "HEAD", "POST", "PUT"}, mime \in BOOLEAN,
     ims \in {-1, 4, 5}, referrer \in {"none", "local", "foreign"}}

CommandRequests ==
  LET r == Get(MCInternal \o <<"cmd">>, FALSE)
  IN {[r EXCEPT !.icgi = in] : in \in GetInputs}
       \cup {[r EXCEPT !.method = method, !.icgi = in] :
               method \in {"POST", "HEAD"}, in \in PostInputs}

MCRequests ==
  CommandRequests \cup PathRequests \cup Ranged(<<"f">>) \cup Ranged(<<"empty">>)
    \cup UNION {Others(p) : p \in {<<"f">>, <<"d">>, <<"i">>, <<"x">>, <<"n">>}}

MCVolatile == {<<"w", "f">>, <<"w", "i", "index.html">>}
MCSizes == {0, 2, 4}
MCCgiFiles == {<<"x">>}
MCUrlFiles == {<<"f">>, <<"d">>}
MCAnswers == {0, 69, 1}
MCSpills == {[onto |-> "none", bytes |-> 1], [onto |-> "exptime", bytes |-> 3],
             [onto |-> "expgain", bytes |-> 2]}

=============================================================================
