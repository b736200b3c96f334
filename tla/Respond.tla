------------------------------ MODULE Respond ------------------------------
(***************************************************************************)
(* A parsed request answered: the end of httpd_parse_request(), which      *)
(* finds the file, httpd_start_request(), which decides what to answer,    *)
(* the end of handle_read() and handle_send(), which send the file, and    *)
(* finish_connection().  Other processes may change or remove the file     *)
(* between any two of the system calls.                                    *)
(*                                                                         *)
(* A request is what Request leaves in hc.  Contents are their offsets;    *)
(* the text of a response is its length.  The internal CGI callback is     *)
(* CgiCommand, run between the head of the response and its writing.       *)
(***************************************************************************)
EXTENDS Symlinks, CgiCommand, FiniteSets

CONSTANTS Requests,      \* the parsed requests
          Tree,          \* the files at the start
          Volatile, Sizes, MaxChanges,  \* what other processes do to which
          INDEX_NAMES,
          CgiFiles,      \* the paths cgi_pattern matches
          UrlFiles,      \* the paths url_pattern matches
          no_empty_referrers,
          HeadLen, PageLen,     \* the length of a head, of an error page
          MaxBytes              \* what one writev() takes of the file

\* Headers are read of a request with a head only; the range was clipped at 0
\* by the parser, and ends at -1 if no end was given.
ASSUME RequestsAssumption ==
  \A r \in Requests :
    /\ r.mime_flag \in BOOLEAN /\ r.got_range \in BOOLEAN
    /\ r.got_range => r.mime_flag
    /\ r.first \in Nat /\ r.last \in Nat \cup {-1}
    /\ {r.icgi.name, r.icgi.query, r.icgi.buffered, r.icgi.arriving} \subseteq Seq(Tokens)
ASSUME TreeAssumption == Tree \in [DOMAIN Tree -> Nodes]
ASSUME SizesAssumption == Sizes \subseteq Nat
ASSUME MaxChangesAssumption == MaxChanges \in Nat
ASSUME LengthsAssumption == HeadLen \in Nat /\ PageLen \in Nat /\ MaxBytes \in Nat \ {0}

VARIABLES pc, req, tree, changes,
          expn,   \* what expand_symlinks() made of the path
          sb,     \* hc->sb
          hc,     \* status, bytes_to_send, bytes_sent, the range, the map
          conn,   \* next_byte_index and end_byte_index of the entry
          wire    \* what the client is told and sent

vars == <<pc, req, tree, changes, expn, sb, hc, conn, wire, cmd>>

Closed == {"closed", "aborted"}
Null == -1
NoStat == [kind |-> "none", size |-> 0, mtime |-> 0, r |-> FALSE, x |-> FALSE]
Smaller(a, b) == IF a < b THEN a ELSE b

\* What stat() tells of a node.
StatOf(node) == [k \in DOMAIN NoStat |-> node[k]]
StatAt(p) ==
  LET node == stat(tree, p)
  IN IF node.found = "node" /\ node.at \in DOMAIN tree THEN StatOf(tree[node.at]) ELSE NoStat

-----------------------------------------------------------------------------
(* send_mime(), httpd_send_err() and send_dirredirect().                   *)

Partial(h, status, length) ==
  /\ status = 200 /\ h.got_range
  /\ h.last >= h.first
  /\ h.last # length - 1 \/ h.first # 0
  /\ req.range_if \in {-1, sb.mtime}

\* The pair <<hc, wire>> after send_mime(): one head, telling the length.
SendMime(h, w, status, length) ==
  LET part == Partial(h, status, length)
      h1 == [h EXCEPT !.status = status, !.bytes_to_send = length]
      told == IF part THEN h.last - h.first + 1 ELSE length
  IN IF ~req.mime_flag THEN << h1, [w EXCEPT !.answers = @ + 1] >>
     ELSE << [h1 EXCEPT !.status = IF part THEN 206 ELSE @,
                        !.got_range = part,
                        !.responselen = @ + HeadLen],
             [w EXCEPT !.answers = @ + 1, !.told = told, !.text = @ + HeadLen] >>

\* An error page, from a file or built in, after its head.
SendErr(h, w, status) ==
  LET s == SendMime(h, w, status, -1)
  IN << [s[1] EXCEPT !.responselen = @ + PageLen], [s[2] EXCEPT !.text = @ + PageLen] >>

Set(s) == hc' = s[1] /\ wire' = s[2]

\* finish_connection(), httpd_write_response(): what waits is written in full,
\* unless the client is gone before its end; no one looks at which.
Flush(s) ==
  \E n \in 0..s[1].responselen :
    /\ Set(<< [s[1] EXCEPT !.responselen = 0],
              [s[2] EXCEPT !.sent = @ + n, !.gone = n < s[1].responselen] >>)
    /\ pc' = "closed"

Refuse(status) == Flush(SendErr(hc, wire, status))
Answer(status, length) == Flush(SendMime(hc, wire, status, length))

-----------------------------------------------------------------------------
Init ==
  /\ pc = "parsed"
  /\ req \in Requests
  /\ tree = Tree
  /\ changes = 0
  /\ expn = NotFound
  /\ sb = NoStat
  /\ hc = [status |-> 0, bytes_to_send |-> 0, bytes_sent |-> 0,
           got_range |-> req.got_range, first |-> req.first, last |-> req.last,
           file |-> Null, responselen |-> 0]
  /\ conn = [next |-> 0, end |-> 0]
  /\ wire = [answers |-> 0, told |-> -1, text |-> 0, sent |-> 0,
             gone |-> FALSE, body |-> <<>>]
  /\ cmd = NoCmd

(* The end of httpd_parse_request(), and check_throttles().  readlink()    *)
(* may fail where there is something: an I/O error.                        *)

Outside(p) == p.abs /\ ~IsStrictPrefix(Cwd, p.segs)
Inside(p) == IF p.abs THEN Path(SubSeq(p.segs, Len(Cwd) + 1, Len(p.segs))) ELSE p

Resolve ==
  LET x == expand_symlinks(tree, req.path, req.slash)
  IN /\ pc = "parsed"
     /\ expn' = [x EXCEPT !.path = Inside(@)]
     /\ CASE ~x.ok -> Refuse(500)
          [] x.ok /\ Outside(x.path) -> Refuse(403)
          [] OTHER -> \/ pc' = "start" /\ UNCHANGED <<hc, wire>>
                      \/ Refuse(503)
                      \/ ~Unexpanded(tree, req.path, req.slash) /\ Refuse(500)
     /\ UNCHANGED <<req, tree, changes, sb, conn, cmd>>

(* really_start_request(), up to the kind of the file.                     *)

StartRequest ==
  LET st == StatAt(expn.path)
      internal == check_internal_cgi(expn.path.segs, FALSE)
      redirect == ~req.slash /\ req.path \notin {<<>>, <<".">>}
  IN /\ pc = "start"
     /\ sb' = IF internal THEN sb ELSE st
     /\ CASE req.method \notin {"GET", "HEAD", "POST"} -> Refuse(501)
          [] req.method \in {"GET", "HEAD", "POST"} /\ internal ->
               pc' = "internal" /\ UNCHANGED <<hc, wire>>
          [] OTHER ->
               CASE st.kind = "none" -> Refuse(500)
                 [] st.kind # "none" /\ ~(st.r \/ st.x) -> Refuse(403)
                 [] st.kind = "file" /\ (st.r \/ st.x) ->
                      pc' = "serve" /\ UNCHANGED <<hc, wire>>
                 [] OTHER -> IF expn.rest # <<>> THEN Refuse(404)
                             ELSE IF redirect THEN Refuse(302)
                             ELSE pc' = "index" /\ UNCHANGED <<hc, wire>>
     /\ UNCHANGED <<req, tree, changes, expn, conn, cmd>>

\* A head that says 200, then the callback: it puts its text into the
\* response, and what it makes of the status is not looked at.
InternalStart ==
  /\ pc = "internal"
  /\ Set(SendMime(hc, wire, 200, -1))
  /\ Begin(req.method, req.icgi)
  /\ pc' = "command"
  /\ UNCHANGED <<req, tree, changes, expn, sb, conn>>

InternalStep ==
  /\ pc = "command"
  /\ CgiNext
  /\ UNCHANGED <<pc, req, tree, changes, expn, sb, hc, conn, wire>>

InternalReply ==
  /\ pc = "command" /\ cmd.pc = "done"
  /\ Flush(<< [hc EXCEPT !.responselen = @ + Len(cmd.reply)],
               [wire EXCEPT !.text = @ + Len(cmd.reply)] >>)
  /\ UNCHANGED <<req, tree, changes, expn, sb, conn, cmd>>

IndexPath(name) ==
  IF expn.path.segs = <<".">> THEN Path(<<name>>) ELSE Push(expn.path, name)

\* The first index file that exists; its stat() is the one that counts.
FindIndex ==
  LET i == SelectInSeq(INDEX_NAMES, LAMBDA name : StatAt(IndexPath(name)).kind # "none")
  IN /\ pc = "index"
     /\ IF i = 0 THEN pc' = "list" /\ UNCHANGED <<expn, sb>>
        ELSE /\ sb' = StatAt(IndexPath(INDEX_NAMES[i]))
             /\ expn' = [expn EXCEPT !.path = IndexPath(INDEX_NAMES[i])]
             /\ pc' = "index_found"
     /\ UNCHANGED <<req, tree, changes, hc, conn, wire, cmd>>

ExpandIndex ==
  LET x == expand_symlinks(tree, expn.path.segs, FALSE)
  IN /\ pc = "index_found"
     /\ expn' = IF x.ok THEN x ELSE expn
     /\ CASE ~x.ok \/ x.rest # <<>> -> Refuse(500)
          [] x.ok /\ x.rest = <<>> /\ ~(sb.r \/ sb.x) -> Refuse(403)
          [] OTHER -> pc' = "serve" /\ UNCHANGED <<hc, wire>>
     /\ UNCHANGED <<req, tree, changes, sb, conn, cmd>>

\* hc->origfilename without the pathinfo.
OrigFilename ==
  IF IsStrictSuffix(expn.rest, req.path)
  THEN SubSeq(req.path, 1, Len(req.path) - Len(expn.rest)) ELSE req.path

\* check_referrer().
ReferrerOK ==
  \/ OrigFilename \notin UrlFiles
  \/ req.referrer = "local"
  \/ req.referrer = "none" /\ ~no_empty_referrers

\* A child process answers, unless there are too many or fork() fails.
Spawn ==
  \/ Refuse(503)
  \/ Refuse(500)
  \/ /\ pc' = "closed"
     /\ hc' = [hc EXCEPT !.status = 200, !.bytes_sent = 25000]
     /\ wire' = [wire EXCEPT !.answers = @ + 1]

\* ls(): the parent's part.
List ==
  /\ pc = "list"
  /\ CASE ~sb.r -> Refuse(403)
       [] sb.r /\ ~ReferrerOK -> Refuse(403)
       [] OTHER -> CASE StatAt(expn.path).kind # "dir" -> Refuse(404)
                     [] StatAt(expn.path).kind = "dir" /\ req.method = "HEAD" ->
                          Answer(200, -1)
                     [] StatAt(expn.path).kind = "dir" /\ req.method = "GET" -> Spawn
                     [] OTHER -> Refuse(501)
  /\ UNCHANGED <<req, tree, changes, expn, sb, conn, cmd>>

(* really_start_request(), a file.                                         *)

\* Mutant: a last byte just past the end is kept.
ClipLate(h) ==
  IF h.got_range /\ (h.last = -1 \/ h.last > sb.size)
  THEN [h EXCEPT !.last = sb.size - 1] ELSE h

Clip(h) ==
  IF h.got_range /\ (h.last = -1 \/ h.last >= sb.size)
  THEN [h EXCEPT !.last = sb.size - 1] ELSE h

Serve ==
  LET h == Clip(hc)
      whole == SendMime(h, wire, 200, sb.size)
      unmodified == SendMime(h, wire, 304, -1)
  IN /\ pc = "serve"
     /\ CASE ~ReferrerOK -> Refuse(403)
          [] ReferrerOK /\ sb.x /\ expn.path.segs \in CgiFiles -> Spawn
          [] OTHER ->
               CASE expn.rest # <<>> -> Refuse(403)
                 [] expn.rest = <<>> /\ req.method = "POST" -> Refuse(501)
                 [] expn.rest = <<>> /\ req.method = "HEAD" -> Flush(whole)
                 [] OTHER -> IF req.ims # -1 /\ req.ims >= sb.mtime
                             THEN Flush(unmodified)
                             ELSE pc' = "map" /\ hc' = h /\ UNCHANGED wire
     /\ UNCHANGED <<req, tree, changes, expn, sb, conn, cmd>>

\* mmc_map() reads sb.size bytes of what is there now; then send_mime() and
\* the end of handle_read().
Map ==
  LET now == StatAt(expn.path)
      s == SendMime([hc EXCEPT !.file = sb.size], wire, 200, sb.size)
      range == IF s[1].got_range
               THEN [next |-> s[1].first, end |-> s[1].last + 1]
               ELSE [next |-> 0, end |-> s[1].bytes_to_send]
  IN /\ pc = "map"
     /\ IF now.kind # "file" \/ now.size < sb.size
        THEN Refuse(500) /\ UNCHANGED conn
        ELSE /\ conn' = range
             /\ IF range.next >= range.end
                THEN Flush(s)
                ELSE Set(s) /\ pc' = "sending"
     /\ UNCHANGED <<req, tree, changes, expn, sb, cmd>>

(* handle_send().                                                          *)

\* Mutant: the end of the range is no limit.
WindowWhole == MaxBytes

Window == Smaller(conn.end - conn.next, MaxBytes)

\* Mutant: a head written in part counts as written.
HandleSendCutHead(sz) ==
  LET ofText == Smaller(sz, hc.responselen)
      ofFile == sz - ofText
  IN /\ pc = "sending"
     /\ sz <= hc.responselen + Window
     /\ hc' = [hc EXCEPT !.responselen = 0, !.bytes_sent = @ + ofFile]
     /\ conn' = [conn EXCEPT !.next = @ + ofFile]
     /\ wire' = [wire EXCEPT !.sent = @ + ofText,
                             !.body = @ \o [i \in 1..ofFile |-> conn.next + i - 1]]
     /\ pc' = IF conn.next + ofFile >= conn.end THEN "closed" ELSE "sending"
     /\ UNCHANGED <<req, tree, changes, expn, sb, cmd>>

HandleSend(sz) ==
  LET ofText == Smaller(sz, hc.responselen)
      ofFile == sz - ofText
  IN /\ pc = "sending"
     /\ sz <= hc.responselen + Window
     /\ hc' = [hc EXCEPT !.responselen = @ - ofText, !.bytes_sent = @ + ofFile]
     /\ conn' = [conn EXCEPT !.next = @ + ofFile]
     /\ wire' = [wire EXCEPT !.sent = @ + ofText,
                             !.body = @ \o [i \in 1..ofFile |-> conn.next + i - 1]]
     /\ pc' = IF conn.next + ofFile >= conn.end THEN "closed" ELSE "sending"
     /\ UNCHANGED <<req, tree, changes, expn, sb, cmd>>

\* An error, or a connection that timed out: clear_connection().
Abort ==
  /\ pc = "sending"
  /\ pc' = "aborted"
  /\ UNCHANGED <<req, tree, changes, expn, sb, hc, conn, wire, cmd>>

(* Other processes; no file matters to an internal command.                *)

MayChange ==
  /\ changes < MaxChanges /\ pc \notin Closed
  /\ ~check_internal_cgi(req.path, req.slash)

Rewrite(p, size) ==
  /\ p \in DOMAIN tree
  /\ MayChange
  /\ changes' = changes + 1
  /\ tree' = [tree EXCEPT ![p].size = size, ![p].mtime = @ + 1]
  /\ UNCHANGED <<pc, req, expn, sb, hc, conn, wire, cmd>>

Unlink(p) ==
  /\ p \in DOMAIN tree
  /\ MayChange
  /\ changes' = changes + 1
  /\ tree' = [q \in DOMAIN tree \ {p} |-> tree[q]]
  /\ UNCHANGED <<pc, req, expn, sb, hc, conn, wire, cmd>>

Next ==
  \/ Resolve \/ StartRequest \/ FindIndex \/ ExpandIndex
  \/ InternalStart \/ InternalStep \/ InternalReply
  \/ List \/ Serve \/ Map
  \/ \E sz \in 1..(HeadLen + MaxBytes) : HandleSend(sz)
  \/ Abort
  \/ \E p \in Volatile : Unlink(p) \/ \E size \in Sizes : Rewrite(p, size)

Spec == Init /\ [][Next]_vars

-----------------------------------------------------------------------------
TypeOK ==
  /\ pc \in {"parsed", "start", "internal", "command", "index", "index_found",
             "list", "serve", "map", "sending"} \cup Closed
  /\ changes \in 0..MaxChanges
  /\ DOMAIN tree \subseteq DOMAIN Tree
  /\ hc.status \in {0, 200, 206, 302, 304, 403, 404, 500, 501, 503}
  /\ hc.responselen \in 0..(HeadLen + PageLen)
  /\ conn.end \in Nat /\ conn.next \in 0..conn.end

(* Every request is answered exactly once: no path through the handlers    *)
(* answers twice or closes without an answer, and the text of the answer   *)
(* is sent whole and before the file, whatever writev() takes, unless the  *)
(* client left before it was all written: then nothing follows it          *)
(* (finish_connection, httpd_write_response, handle_send).                 *)
OneAnswer ==
  /\ wire.answers <= 1
  /\ (wire.answers = 1) = (pc \in {"command", "sending"} \cup Closed)
  /\ ~wire.gone => wire.text = wire.sent + hc.responselen
  /\ wire.gone => pc = "closed" /\ wire.sent < wire.text /\ wire.body = <<>>
  /\ wire.body # <<>> => hc.responselen = 0
  /\ pc = "closed" => hc.responselen = 0

(* The bytes of a file that was answered in full are those the request     *)
(* asks for: the range clipped to the size stat() gave, the whole file     *)
(* when there is no range or it is empty or out of date; as many as the    *)
(* head said, even if the file changed meanwhile (send_mime, the range     *)
(* patched by really_start_request, the end of handle_read, handle_send).  *)
Offsets(a, b) == [i \in 1..(b - a + 1) |-> a + i - 1]

Wanted ==
  LET last == IF req.last = -1 \/ req.last >= sb.size THEN sb.size - 1 ELSE req.last
      ranged == /\ req.mime_flag /\ req.got_range /\ last >= req.first
                /\ req.range_if \in {-1, sb.mtime}
  IN IF ranged THEN Offsets(req.first, last) ELSE Offsets(0, sb.size - 1)

BodyExact ==
  hc.file # Null =>
    /\ pc = "closed" => wire.body = Wanted
    /\ IsPrefix(wire.body, Wanted)
    /\ req.mime_flag => /\ wire.told = Len(Wanted)
                        /\ (hc.status = 206) = (Len(Wanted) < sb.size)

(* The path is expanded to the node it leads to, as far as there is        *)
(* anything, with what is left of it in rest; it is given up if and only   *)
(* if it goes through more than MAX_LINKS links.  Where a ".." is not the  *)
(* name before it taken off (a relative link that leads above the web      *)
(* directory, "." or a file before "..") expand_symlinks() goes its own    *)
(* way, and says only that the result exists and has no link in it.        *)
ExpandExact ==
  pc = "parsed" /\ ~Unexpanded(tree, req.path, req.slash) =>
    LET x == expand_symlinks(tree, req.path, req.slash)
        far == Reach(tree, req.path)
        node == stat(tree, x.path)
    IN /\ x.ok => node.found = "node" /\ node.at = NodeOf(x.path)
       /\ far.end = "loop" => ~x.ok
       /\ far.end \in {"node", "none"} =>
            x.ok /\ NodeOf(x.path) = far.at /\ x.rest = far.rest

=============================================================================
