------------------------------ MODULE Request ------------------------------
(***************************************************************************)
(* One entry of connects[] from accept() to a parsed request:              *)
(* httpd_get_conn() clears what the previous connection left in the        *)
(* httpd_conn, handle_read() reads what the client sent in pieces of any   *)
(* size into a buffer it grows, httpd_got_request() looks for the end of   *)
(* the request as the bytes come, and httpd_parse_request() takes it apart.*)
(*                                                                         *)
(* A byte string is a sequence of tokens: "SP" (blank or tab), "CR", "LF", *)
(* "NUL", one character, or a word nothing takes apart ("GET", "Host:",    *)
(* "http://", "%2F").  Sizes count tokens.                                 *)
(***************************************************************************)
EXTENDS Paths

CONSTANTS Inputs,      \* what a client may send
          NextInputs,  \* what the clients of a used entry may send
          ReadInit, ReadMore, ReadMax,  \* 500, 1000 and 5000 bytes
          StrMin, StrMore,              \* 200 and 100 bytes
          AcceptMax                     \* 5000 bytes

ASSUME SizesAssumption ==
  /\ {ReadInit, ReadMax, StrMin, StrMore, AcceptMax} \subseteq Nat
  /\ ReadMore \in Nat \ {0}

ASSUME InputsAssumption == Inputs \cup NextInputs \subseteq Seq(Tokens)

VARIABLES pc,        \* "free", "reading", "failed", "parsed"
          sent,      \* the client's bytes, read_buf[1..read_idx] being read
          read_idx, read_size,
          checked_idx, checked_state,  \* where the scanner is
          hc         \* the fields of httpd_conn that the parser fills in

vars == <<pc, sent, read_idx, read_size, checked_idx, checked_state, hc>>

Blank == {"SP"}
Newline == {"CR", "LF"}
Methods == {"GET", "HEAD", "POST", "PUT", "DELETE", "TRACE"}
Number == [d \in {"0", "1", "2", "3", "5", "9"} |->
             CASE d = "0" -> 0 [] d = "1" -> 1 [] d = "2" -> 2
               [] d = "3" -> 3 [] d = "5" -> 5 [] OTHER -> 9]
Atoi(s) == IF s # <<>> /\ s[1] \in DOMAIN Number THEN Number[s[1]] ELSE 0

\* tdate_parse(): "date" is a date it understands, anything else is not.
tdate_parse(s) == IF s = <<"date">> THEN 7 ELSE -1

\* Headers whose value is only kept.
TextHeaders == {"Referer:", "User-Agent:", "Accept-Language:", "Cookie:",
                "Content-Type:", "Authorization:"}

-----------------------------------------------------------------------------
(* httpd_got_request(): two words make a request of HTTP/0.9, three need a *)
(* blank line.  A row is <<blank, LF, CR, any other>>.                     *)

Table ==
  [FIRSTWORD  |-> <<"FIRSTWS",  "BAD",  "BAD",    "FIRSTWORD">>,
   FIRSTWS    |-> <<"FIRSTWS",  "BAD",  "BAD",    "SECONDWORD">>,
   SECONDWORD |-> <<"SECONDWS", "GOT",  "GOT",    "SECONDWORD">>,
   SECONDWS   |-> <<"SECONDWS", "BAD",  "BAD",    "THIRDWORD">>,
   THIRDWORD  |-> <<"THIRDWS",  "LF",   "CR",     "THIRDWORD">>,
   THIRDWS    |-> <<"THIRDWS",  "LF",   "CR",     "BAD">>,
   LINE       |-> <<"LINE",     "LF",   "CR",     "LINE">>,
   LF         |-> <<"LINE",     "GOT",  "CR",     "LINE">>,
   CR         |-> <<"LINE",     "CRLF", "GOT",    "LINE">>,
   CRLF       |-> <<"LINE",     "GOT",  "CRLFCR", "LINE">>,
   CRLFCR     |-> <<"LINE",     "GOT",  "GOT",    "LINE">>]

Verdicts == {"GOT", "BAD"}

Class(c) == CASE c = "SP" -> 1 [] c = "LF" -> 2 [] c = "CR" -> 3 [] OTHER -> 4

\* Mutant: every read starts over.
GotRequestAnew(state, s) ==
  FoldLeft(LAMBDA st, c : IF st \in Verdicts THEN st ELSE Table[st][Class(c)],
           "FIRSTWORD", s)

GotRequest(state, s) ==
  FoldLeft(LAMBDA st, c : IF st \in Verdicts THEN st ELSE Table[st][Class(c)],
           state, s)

\* How many of the bytes come before the one that settles it.
Scanned(state, s) ==
  LET at == SelectInSeq([n \in DOMAIN s |-> GotRequest(state, SubSeq(s, 1, n))],
                        LAMBDA st : st \in Verdicts)
  IN IF at = 0 THEN Len(s) ELSE at - 1

-----------------------------------------------------------------------------
(* bufgets(): the lines of the buffer; CR, LF and CR LF end one, and what  *)
(* no newline ends yet is not a line.                                      *)

BufGets(s) ==
  LET Add(acc, c) ==
        CASE c = "LF" /\ acc.cr -> [acc EXCEPT !.cr = FALSE]
          [] c \in Newline /\ ~(c = "LF" /\ acc.cr) ->
               [lines |-> Append(acc.lines, CString(acc.line)), line |-> <<>>, cr |-> c = "CR"]
          [] OTHER -> [acc EXCEPT !.line = Append(@, c), !.cr = FALSE]
  IN FoldLeft(Add, [lines |-> <<>>, line |-> <<>>, cr |-> FALSE], s).lines

\* Where checked_idx is after n lines: a CR takes the LF after it along.
LineEnd(s, n) ==
  LET k == SelectInSeq([i \in DOMAIN s |-> Len(BufGets(SubSeq(s, 1, i)))],
                       LAMBDA lines : lines >= n)
  IN IF k < Len(s) /\ s[k] = "CR" /\ s[k + 1] = "LF" THEN k + 1 ELSE k

-----------------------------------------------------------------------------
(* httpd_parse_request().                                                  *)

\* httpd_send_err(), as far as the parser goes: it answers and gives up.
Fail(h, code) == [h EXCEPT !.status = code]

\* strdecode() of one token.
Decoded == [t \in {"%2E", "%2F", "%3F", "%00"} |->
              CASE t = "%2E" -> Dot [] t = "%2F" -> Slash
                [] t = "%3F" -> "?" [] OTHER -> "NUL"]
strdecode(s) ==
  [i \in DOMAIN s |-> IF s[i] \in DOMAIN Decoded THEN Decoded[s[i]] ELSE s[i]]

Outside(f) == IsPrefix(<<Slash>>, f) \/ f = <<Dot, Dot>>
                \/ IsPrefix(<<Dot, Dot, Slash>>, f)

\* The file name and the query.
ParsePath(h) ==
  LET name == Tail(CString(strdecode(h.encodedurl)))
      orig == IF name = <<>> THEN <<Dot>> ELSE name
      query == From(h.encodedurl, {"?"})
      file == de_dotdot(IF query = <<>> THEN orig ELSE Before(orig, {"?"}))
      h1 == [h EXCEPT !.origfilename = file,
                      !.query = IF query = <<>> THEN @ ELSE Tail(query)]
  IN IF Outside(file) THEN Fail(h1, 400) ELSE h1

\* The host of an absolute URL, the path and the method.
ParseTarget(h, method_str, url) ==
  LET absolute == IsPrefix(<<"http://">>, url)
      host == Before(Tail(url), {Slash})
      path == IF absolute THEN From(Tail(url), {Slash}) ELSE url
      badHost == ~h.one_one \/ path = <<>> \/ IsPrefix(<<Dot>>, host)
      h1 == IF absolute THEN [h EXCEPT !.reqhost = host] ELSE h
  IN IF absolute /\ badHost THEN Fail(h, 400)
     ELSE IF ~IsPrefix(<<Slash>>, path) THEN Fail(h1, 400)
     ELSE IF method_str \notin {<<m>> : m \in Methods} THEN Fail(h1, 501)
     ELSE ParsePath([h1 EXCEPT !.method = method_str[1], !.encodedurl = path])

ParseFirstLine(h, line) ==
  LET rest == TrimLeft(From(line, Blank), Blank)
      bare == From(rest, Blank) = <<>>
      protocol == IF bare THEN <<"HTTP/0.9">>
                  ELSE Before(TrimLeft(From(rest, Blank), Blank), Blank)
      h1 == [h EXCEPT !.protocol = protocol,
                      !.mime_flag = @ /\ ~bare,
                      !.one_one = @ \/ (~bare /\ protocol \notin {<<>>, <<"HTTP/1.0">>})]
  IN IF From(line, Blank) = <<>> THEN Fail(h, 400)
     ELSE ParseTarget(h1, Before(line, Blank), Before(rest, Blank))

\* "Range: bytes=first-" and "first-last"; anything else is ignored.
ParseRange(h, buf) ==
  LET spec == From(buf, {"="})
      first == Before(Tail(spec), {"-"})
      dash == From(Tail(spec), {"-"})
      last == Tail(dash)
  IN IF Contains(buf, ",") \/ spec = <<>> \/ dash = <<>> \/ first = <<>> THEN h
     ELSE [h EXCEPT !.got_range = TRUE, !.first = Atoi(first),
                    !.last = IF last # <<>> /\ last[1] \in DOMAIN Number
                             THEN Atoi(last) ELSE @]

\* Accept: headers add up, unless they are too long already.
ParseAccept(h, value) ==
  IF Len(h.accept) > AcceptMax THEN h
  ELSE [h EXCEPT !.accept = IF @ = <<>> THEN value ELSE @ \o <<",", "SP">> \o value]

ParseHost(h, value) ==
  LET host == Before(value, {":"})
      h1 == [h EXCEPT !.hdrhost = host]
  IN IF Contains(host, Slash) \/ IsPrefix(<<Dot>>, host) THEN Fail(h1, 400) ELSE h1

ParseHeader(h, buf) ==
  LET name == buf[1]
      value == TrimLeft(Tail(buf), Blank)
  IN CASE name \in TextHeaders -> [h EXCEPT !.text[name] = value]
       [] name = "Host:" -> ParseHost(h, value)
       [] name = "Accept:" -> ParseAccept(h, value)
       [] name = "Accept-Encoding:" ->
            IF Len(h.accepte) > AcceptMax THEN h ELSE [h EXCEPT !.accepte = value]
       [] name = "If-Modified-Since:" -> [h EXCEPT !.ims = tdate_parse(value)]
       [] name = "Range:" -> ParseRange(h, buf)
       [] name \in {"If-Range:", "Range-If:"} -> [h EXCEPT !.range_if = tdate_parse(value)]
       [] name = "Content-Length:" -> [h EXCEPT !.contentlength = Atoi(value)]
       [] name = "Connection:" ->
            [h EXCEPT !.keep_alive = @ \/ value = <<"keep-alive">>]
       [] OTHER -> h

\* One more line below the first; read counts the lines, over tells whether
\* it was the blank one, or one that is refused.
HeaderRead(acc, buf, h1) ==
  [h |-> h1, read |-> acc.read + 1, over |-> buf = <<>> \/ h1.status # 0]

ParseLine(acc, buf) ==
  IF acc.over THEN acc
  ELSE HeaderRead(acc, buf, IF buf = <<>> THEN acc.h ELSE ParseHeader(acc.h, buf))

ParseHeaders(h, lines) ==
  IF h.mime_flag /\ h.status = 0
  THEN FoldLeft(ParseLine, [h |-> h, read |-> 1, over |-> FALSE], lines)
  ELSE [h |-> h, read |-> 1, over |-> TRUE]

\* HTTP/1.1 needs a host; keep-alive makes the close a lingering one.
CheckHost(h) ==
  CASE h.status # 0 \/ ~h.one_one -> h
    [] h.one_one /\ h.reqhost = <<>> /\ h.hdrhost = <<>> -> Fail(h, 400)
    [] OTHER -> [h EXCEPT !.should_linger = @ \/ h.keep_alive]

ParseLines(h, lines) == ParseHeaders(ParseFirstLine(h, Head(lines)), Tail(lines))

\* The fields, and where bufgets() stopped: the body starts there.
Parsed(acc, s) ==
  [hc |-> CheckHost(acc.h),
   checked_idx |-> IF acc.over THEN LineEnd(s, acc.read) ELSE Len(s)]

httpd_parse_request(h, s) == Parsed(ParseLines(h, BufGets(s)), s)

-----------------------------------------------------------------------------
(* httpd_realloc_str(), httpd_get_conn() and handle_read().                *)

Larger(a, b) == IF a > b THEN a ELSE b

Realloc(max, size) ==
  CASE max = 0 -> Larger(StrMin, size + StrMore)
    [] max # 0 /\ size > max -> Larger(max * 2, (size * 5) \div 4)
    [] OTHER -> max

NewText == [n \in TextHeaders |-> <<>>]

\* A httpd_conn never used.
FreshConn ==
  [method |-> "UNKNOWN", status |-> 0, encodedurl |-> <<>>,
   protocol |-> <<"UNKNOWN">>, origfilename |-> <<>>, query |-> <<>>,
   text |-> NewText, accept |-> <<>>, accepte |-> <<>>, reqhost |-> <<>>,
   hdrhost |-> <<>>, ims |-> -1, range_if |-> -1, contentlength |-> -1,
   mime_flag |-> TRUE, one_one |-> FALSE, got_range |-> FALSE, first |-> 0,
   last |-> -1, keep_alive |-> FALSE, should_linger |-> FALSE]

\* Mutant: the range of the last connection stays.
GetConnKeepRange(h) == [FreshConn EXCEPT !.got_range = h.got_range]

\* The fields httpd_get_conn() sets, each whatever it was before.
httpd_get_conn(h) ==
  [h EXCEPT !.method = "UNKNOWN", !.status = 0, !.encodedurl = <<>>,
            !.protocol = <<"UNKNOWN">>, !.origfilename = <<>>, !.query = <<>>,
            !.text = NewText, !.accept = <<>>, !.accepte = <<>>,
            !.reqhost = <<>>, !.hdrhost = <<>>, !.ims = -1, !.range_if = -1,
            !.contentlength = -1, !.mime_flag = TRUE, !.one_one = FALSE,
            !.got_range = FALSE, !.first = 0, !.last = -1,
            !.keep_alive = FALSE, !.should_linger = FALSE]

Init ==
  /\ pc = "free"
  /\ sent = <<>>
  /\ read_idx = 0 /\ read_size = 0
  /\ checked_idx = 0 /\ checked_state = "FIRSTWORD"
  /\ hc = FreshConn

\* Mutant: the scanner goes on where the last connection left it.
AcceptKeepIdx ==
  /\ pc # "reading"
  /\ pc' = "reading"
  /\ sent' \in IF pc = "free" THEN Inputs ELSE NextInputs
  /\ read_size' = IF read_size = 0 THEN Realloc(0, ReadInit) ELSE read_size
  /\ read_idx' = 0
  /\ checked_state' = "FIRSTWORD"
  /\ hc' = httpd_get_conn(hc)
  /\ UNCHANGED checked_idx

Accept ==
  /\ pc # "reading"
  /\ pc' = "reading"
  /\ sent' \in IF pc = "free" THEN Inputs ELSE NextInputs
  /\ read_size' = IF read_size = 0 THEN Realloc(0, ReadInit) ELSE read_size
  /\ read_idx' = 0
  /\ checked_idx' = 0
  /\ checked_state' = "FIRSTWORD"
  /\ hc' = httpd_get_conn(hc)

Full == read_idx >= read_size
TooLong == Full /\ read_size > ReadMax
\* Mutant: the buffer grows one byte late.
RoomLate == IF read_idx > read_size THEN Realloc(read_size, read_size + ReadMore)
            ELSE read_size

Room == IF Full THEN Realloc(read_size, read_size + ReadMore) ELSE read_size

\* The buffer is full and may not grow any more.
ReadTooLong ==
  /\ pc = "reading" /\ TooLong
  /\ pc' = "failed"
  /\ hc' = Fail(hc, 400)
  /\ UNCHANGED <<sent, read_idx, read_size, checked_idx, checked_state>>

\* read() fails, or returns 0 once the client has closed and all is read.
ReadFails ==
  /\ pc = "reading" /\ ~TooLong
  /\ pc' = "failed"
  /\ read_size' = Room
  /\ hc' = Fail(hc, 400)
  /\ UNCHANGED <<sent, read_idx, checked_idx, checked_state>>

\* EINTR, EAGAIN, EWOULDBLOCK: only the buffer may have grown.
ReadNothing ==
  /\ pc = "reading" /\ ~TooLong
  /\ read_size' = Room
  /\ UNCHANGED <<pc, sent, read_idx, checked_idx, checked_state, hc>>

\* Where the scanner has come to, the fields, and what follows from them.
Settle(checked, h) ==
  /\ checked_state' = checked
  /\ hc' = h
  /\ pc' = IF checked \notin Verdicts THEN "reading"
           ELSE IF h.status # 0 THEN "failed" ELSE "parsed"

\* The request is parsed once the new bytes have ended it.
Look(checked, new, s) ==
  CASE checked = "GOT" -> \E parse \in {httpd_parse_request(hc, s)} :
                            /\ Settle(checked, parse.hc)
                            /\ checked_idx' = parse.checked_idx
    [] checked # "GOT" -> /\ Settle(checked, IF checked = "BAD" THEN Fail(hc, 400) ELSE hc)
                          /\ checked_idx' = checked_idx + Scanned(checked_state, new)

CheckNew(new, s) == Look(GotRequest(checked_state, new), new, s)

\* sz bytes come: look for the end of the request and parse it.
ReadSome(sz) ==
  /\ pc = "reading" /\ ~TooLong
  /\ sz <= Room - read_idx /\ read_idx + sz <= Len(sent)
  /\ read_size' = Room
  /\ read_idx' = read_idx + sz
  /\ CheckNew(SubSeq(sent, checked_idx + 1, read_idx + sz), SubSeq(sent, 1, read_idx + sz))
  /\ UNCHANGED sent

handle_read ==
  \/ ReadTooLong
  \/ ReadFails
  \/ ReadNothing
  \/ \E sz \in 1..Len(sent) : ReadSome(sz)

Next == Accept \/ handle_read

Spec == Init /\ [][Next]_vars

-----------------------------------------------------------------------------
TypeOK ==
  /\ pc \in {"free", "reading", "failed", "parsed"}
  /\ read_idx \in 0..Len(sent)
  /\ checked_idx \in 0..read_idx
  /\ read_size \in Nat
  /\ checked_state \in DOMAIN Table \cup Verdicts
  /\ DOMAIN hc = DOMAIN FreshConn
  /\ hc.status \in {0, 400, 501}

(* What a request is, told from its lines and not from the scanner.        *)

Words(line) ==
  FoldLeft(LAMBDA ws, c : IF c # "SP" THEN [ws EXCEPT ![Len(ws)] = Append(@, c)]
                          ELSE IF ws[Len(ws)] = <<>> /\ Len(ws) > 1 THEN ws
                          ELSE Append(ws, <<>>),
           << <<>> >>, line)

FirstLine(s) == Before(s, Newline)
WordCount(s) ==
  LET ws == Words(FirstLine(s))
  IN IF Len(ws) > 1 /\ ws[Len(ws)] = <<>> THEN Len(ws) - 1 ELSE Len(ws)

\* The first line is over, and is none of a request.
Malformed(s) ==
  /\ FirstLine(s) # s
  /\ \/ WordCount(s) \notin {2, 3}
     \/ WordCount(s) = 2 /\ Last(FirstLine(s)) = "SP"

\* Newlines are of one kind: LF, CR, or CR LF.
Uniform(s) ==
  \/ ~Contains(s, "CR")
  \/ ~Contains(s, "LF")
  \/ \A i \in DOMAIN s : (s[i] = "CR" /\ i < Len(s)) <=> (i < Len(s) /\ s[i + 1] = "LF")

\* Where lines end in CR LF, a CR at the end is half a newline.
Settled(s) == IF Contains(s, "LF") /\ Last(s) = "CR" THEN Front(s) ELSE s

Complete(s) ==
  /\ FirstLine(s) # s
  /\ ~Malformed(s)
  /\ WordCount(s) = 3 => \E i \in DOMAIN BufGets(s) : i > 1 /\ BufGets(s)[i] = <<>>

-----------------------------------------------------------------------------
(* A request whose newlines are of one kind is taken as soon as it is      *)
(* complete, however the reads cut it up: while the entry reads, nothing   *)
(* complete or malformed is in the buffer, and what was taken is complete. *)
(* (httpd_got_request() keeps its state from one read to the next.)        *)
GotExactly ==
  LET got == SubSeq(sent, 1, read_idx)
  IN (Uniform(got) /\ ~Contains(got, "NUL")) =>
       /\ pc = "reading" => ~Complete(Settled(got)) /\ ~Malformed(got)
       /\ pc = "parsed" => Complete(got)

(* Whatever the newlines, a request that is taken has a first line of two  *)
(* words, or of three and a blank line below it; and the parser looks at   *)
(* the bytes up to there only: neither what the entry's last connection    *)
(* left in the httpd_conn, nor the cuts between the reads, nor bytes that  *)
(* came after the request make a difference to what it finds.  The body of *)
(* a request whose newlines are of one kind starts right behind it         *)
(* (hc->checked_idx, from where the CGI handlers read it).                 *)
Taken(s) ==
  SubSeq(s, 1, CHOOSE n \in 0..Len(s) :
                 /\ GotRequest("FIRSTWORD", SubSeq(s, 1, n)) = "GOT"
                 /\ \A m \in 0..(n - 1) :
                      GotRequest("FIRSTWORD", SubSeq(s, 1, m)) # "GOT")

OwnBytesOnly ==
  (checked_state = "GOT") =>
    LET taken == Taken(SubSeq(sent, 1, read_idx))
    IN /\ WordCount(taken) \in {2, 3}
       /\ WordCount(taken) = 3 => Contains(Tail(BufGets(taken)), <<>>)
       /\ pc # "reading" => hc = httpd_parse_request(FreshConn, taken).hc
       /\ (pc = "parsed" /\ hc.mime_flag /\ Uniform(SubSeq(sent, 1, read_idx))
             /\ ~Contains(taken, "NUL")) => checked_idx = Len(taken)

(* A file name the parser accepts stays below the root at each of its      *)
(* steps, and is the file the URL asked for, ".." at the root staying      *)
(* there: de_dotdot() rewrites the name without changing what it means.    *)
PathsInside ==
  pc = "parsed" =>
    LET path == CString(strdecode(hc.encodedurl))
        asked == IF Contains(hc.encodedurl, "?") THEN Before(path, {"?"}) ELSE path
    IN /\ ~Climbs(hc.origfilename)
       /\ ~IsPrefix(<<Slash>>, hc.origfilename)
       /\ Resolve(hc.origfilename) = Resolve(asked)

(* A client is never told 400 for the length of a request that is not      *)
(* longer than ReadMax: the buffer grows before it is full for good, and   *)
(* its size, kept for the next connection, never shrinks below what is     *)
(* read.                                                                   *)
BufferGrows ==
  pc = "reading" => /\ read_idx <= read_size
                    /\ TooLong => read_idx > ReadMax
                    /\ ~TooLong => Room > read_idx

=============================================================================
