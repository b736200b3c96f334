----------------------------- MODULE CgiCommand -----------------------------
(***************************************************************************)
(* The internal CGI of SPS_HTTPManager.c: HISNET_ICGI_CommandProc() puts   *)
(* together the text of the command, reading the body of a POST itself,    *)
(* HI_CGI_CommandProc() looks the command up and splits its arguments, and *)
(* the handler asks the camera through MscCmdExecute() and prints a reply. *)
(*                                                                         *)
(* A name is a sequence of words: <<"get", "systime">> is "getsystime".    *)
(* Text is a sequence of tokens, "&", "=", ".cgi", "+" and escapes among   *)
(* them, and buffers are measured in tokens.  What is printed to the       *)
(* client is a sequence of the kinds of pieces, with the brackets and      *)
(* commas of a file list.                                                  *)
(***************************************************************************)
EXTENDS ArgParser

CONSTANTS MAX_CGI_INTER, MAX_CNT_CGI, MAX_CNT_CMD, MAX_NUM_CMD, MAX_CNT_EVERYCMD,
          PHOTO_EXPOSURE_MODE_AUTO, PHOTO_EXPOSURE_MODE_MANUAL,
          Answers,     \* what the camera returns: 0, 69, any other failure
          MaxGroups, MaxWorks,  \* how long its file list may be
          Spills       \* what lies above "index" in a build: which option, and how
                       \* many of its bytes

ASSUME ListAssumption == MaxGroups \in Nat /\ MaxWorks \in Nat
ASSUME BuffersAssumption ==
  /\ {MAX_CGI_INTER, MAX_CNT_CGI, MAX_CNT_CMD, MAX_NUM_CMD, MAX_CNT_EVERYCMD} \subseteq Nat \ {0}
  /\ MAX_CNT_EVERYCMD > 2

VARIABLE cmd

cmdVars == <<cmd>>

NoCmd == [pc |-> "idle", text |-> <<>>, buf |-> <<>>, left |-> <<>>, want |-> 0,
          calls |-> <<>>, reply |-> <<>>, ok |-> TRUE, spill |-> [onto |-> "none", bytes |-> 1],
          groups |-> 0, i |-> 0, works |-> 0, j |-> 0]

-----------------------------------------------------------------------------
(* The table of commands.  A handler asks the camera with the operation    *)
(* named for "get" or "set"; "" means it has none.                         *)

Command(cgi, act, proc) == [cgi |-> cgi, act |-> act, proc |-> proc]

cgi_cmd ==
  << Command(<<"get", "systime">>, "get", "SysTimeCfg"),
     Command(<<"set", "systime">>, "set", "SysTimeCfg"),
     Command(<<"get", "version">>, "get", "GetVersion"),
     Command(<<"get", "sdstatus">>, "get", "GetSDStatus"),
     Command(<<"set", "sdformat">>, "", "SetSDFormat"),
     Command(<<"get", "gpsinfo">>, "get", "GetGPSInfo"),
     Command(<<"get", "timeinterval">>, "get", "TimeIntervalCfg"),
     Command(<<"set", "timeinterval">>, "set", "TimeIntervalCfg"),
     Command(<<"get", "exposureattr">>, "get", "ExposureAttrCfg"),
     Command(<<"set", "exposureattr">>, "set", "ExposureAttrCfg"),
     Command(<<"get", "exposuremode">>, "get", "ExposureModeCfg"),
     Command(<<"set", "exposuremode">>, "set", "ExposureModeCfg"),
     Command(<<"set", "start", "snap", "task">>, "set", "SetStartSnapTask"),
     Command(<<"set", "stop", "snap", "task">>, "set", "SetStopSnapTask"),
     Command(<<"set", "snap", "calibration">>, "set", "SetSnapCalibration"),
     Command(<<"set", "start", "snap", "once">>, "set", "SetStartSnapOnce"),
     Command(<<"get", "filelist">>, "get", "GetRemoteFileList") >>

Ops(get, set) == [get |-> get, set |-> set]

\* A handler compares "act" with those it knows.
Operation(h, act) == IF act \in DOMAIN h.ops THEN h.ops[act] ELSE ""

\* The handlers' opts[], operations, and what a "set" cannot do without.
SysTimeCfg == [table |-> <<"?", "act", "time">>, needs |-> {}, takes |-> <<"time">>,
               ops |-> Ops("CMD_GET_PARAM_SYS_TIME", "CMD_SET_PARAM_SYS_TIME")]
GetVersion == [table |-> <<"?", "act">>, needs |-> {}, takes |-> <<>>,
               ops |-> Ops("CMD_GET_PARAM_SYS_VERSION", "")]
GetSDStatus == [GetVersion EXCEPT !.ops = Ops("CMD_GET_SD_STATE", "")]
GetGPSInfo == [GetVersion EXCEPT !.ops = Ops("CMD_GET_GPS_STATE", "")]
TimeIntervalCfg ==
  [table |-> <<"?", "act", "interval">>, needs |-> {}, takes |-> <<"interval">>,
   ops |-> Ops("CMD_GET_PARAM_SNAP_TIME_INTERVAL", "CMD_SET_PARAM_SNAP_TIME_INTERVAL")]
ExposureAttrCfg ==
  [table |-> <<"?", "act", "index", "exptime", "expgain">>,
   needs |-> {"index", "exptime", "expgain"}, takes |-> <<"index", "exptime", "expgain">>,
   ops |-> Ops("CMD_GET_PARAM_EXPOSURE_ATTR", "CMD_SET_PARAM_EXPOSURE_ATTR")]
ExposureModeCfg ==
  [table |-> <<"?", "act", "expmode">>, needs |-> {"expmode"}, takes |-> <<"expmode">>,
   ops |-> Ops("CMD_GET_PARAM_EXPOSURE_MODE", "CMD_SET_PARAM_EXPOSURE_MODE")]
SetStartSnapTask == [GetVersion EXCEPT !.ops = Ops("", "CMS_START_SNAP_TASK_ALL")]
SetStopSnapTask == [GetVersion EXCEPT !.ops = Ops("", "CMS_STOP_SNAP_TASK_ALL")]
SetSnapCalibration == [GetVersion EXCEPT !.ops = Ops("", "CMS_START_SNAP_CALIBRATION")]
SetStartSnapOnce == [GetVersion EXCEPT !.ops = Ops("", "CMS_SNAP_ONCE_ALL")]
GetRemoteFileList == [GetVersion EXCEPT !.ops = Ops("CMD_GET_GROUP_NUMBER", "")]

\* It leaves its arguments alone.
SetSDFormat == [GetVersion EXCEPT !.table = <<>>, !.ops = Ops("CMD_FORMAT_SD", "CMD_FORMAT_SD")]

Handler ==
  [SysTimeCfg |-> SysTimeCfg, GetVersion |-> GetVersion, GetSDStatus |-> GetSDStatus,
   SetSDFormat |-> SetSDFormat, GetGPSInfo |-> GetGPSInfo,
   TimeIntervalCfg |-> TimeIntervalCfg, ExposureAttrCfg |-> ExposureAttrCfg,
   ExposureModeCfg |-> ExposureModeCfg, SetStartSnapTask |-> SetStartSnapTask,
   SetStopSnapTask |-> SetStopSnapTask, SetSnapCalibration |-> SetSnapCalibration,
   SetStartSnapOnce |-> SetStartSnapOnce, GetRemoteFileList |-> GetRemoteFileList]

-----------------------------------------------------------------------------
(* HISNET_ICGI_CommandProc(): the last name of the path, then the query of *)
(* a GET or the body of a POST, decoded; no "?" is put between them.       *)

Escaped == [t \in {"+", "%26", "%3D"} |->
              CASE t = "%26" -> "&" [] t = "%3D" -> "=" [] OTHER -> "SP"]
THTTPD_strdecode(s) ==
  [i \in DOMAIN s |-> IF s[i] \in DOMAIN Escaped THEN Escaped[s[i]] ELSE s[i]]

\* strncat() after the name is refused what does not fit.
Fits(name, query) == Len(query) <= MAX_CNT_CMD - Len(name) - 1

\* The name is below "/" and short enough; a GET has its text at once.
Begin(method, in) ==
  /\ cmd.pc = "idle"
  /\ \E spill \in Spills :
       LET c == [cmd EXCEPT !.spill = spill]
           short == Len(in.name) + 1 < MAX_CGI_INTER
           query == THTTPD_strdecode(Upto(in.query, MAX_CNT_CGI))
           text == in.name \o query
           buf == Upto(in.buffered, MAX_CNT_CGI - 1)
       IN cmd' = CASE ~short \/ method = "HEAD" \/ (method = "GET" /\ ~Fits(in.name, query)) ->
                        [c EXCEPT !.pc = "done", !.ok = FALSE]
                   [] short /\ method = "GET" /\ Fits(in.name, query) ->
                        [c EXCEPT !.pc = "dispatch", !.text = text]
                   [] OTHER -> [c EXCEPT !.pc = "body", !.text = in.name, !.buf = buf,
                                         !.left = in.arriving, !.want = in.contentlength]

More == Len(cmd.buf) < cmd.want /\ Len(cmd.buf) < MAX_CNT_CGI - 1

\* The loop around read(); while nothing comes it sleeps and tries again.
ReadBody(n) ==
  /\ cmd.pc = "body" /\ More
  /\ n <= Len(cmd.left)
  /\ n <= cmd.want - Len(cmd.buf) /\ n <= MAX_CNT_CGI - 1 - Len(cmd.buf)
  /\ cmd' = [cmd EXCEPT !.buf = @ \o SubSeq(cmd.left, 1, n),
                        !.left = SubSeq(@, n + 1, Len(@))]

\* All is there; or read() returns 0 or fails, which it may at any time.
EndBody ==
  /\ cmd.pc = "body"
  /\ cmd' = IF Fits(cmd.text, THTTPD_strdecode(cmd.buf))
            THEN [cmd EXCEPT !.pc = "dispatch", !.text = @ \o THTTPD_strdecode(cmd.buf)]
            ELSE [cmd EXCEPT !.pc = "done", !.ok = FALSE]

-----------------------------------------------------------------------------
(* HI_CGI_CommandProc().                                                   *)

Until(s, c) == SubSeq(s, 1, SelectInSeq(s, LAMBDA t : t = c) - 1)
Past(s, c) == SubSeq(s, SelectInSeq(s, LAMBDA t : t = c) + 1, Len(s))

\* CGI_StrCommandParse(): the pieces between "&" and "=", the empty ones
\* left out, each cut to its buffer, at most MAX_NUM_CMD.
NoPiece == [done |-> <<>>, open |-> <<>>]
Close(p) ==
  [done |-> IF p.open = <<>> THEN p.done ELSE Append(p.done, Upto(p.open, MAX_CNT_EVERYCMD - 1)),
   open |-> <<>>]
Piece(p, t) == IF t \in {"&", "="} THEN Close(p) ELSE [p EXCEPT !.open = Append(@, t)]
Pieces(text) == Close(FoldLeft(Piece, NoPiece, text)).done
StrCommandParse(text) == Upto(Pieces(text), MAX_NUM_CMD)

\* The first entry whose name contains this one, strstr(); 0 if none does.
Lookup(name) ==
  SelectInSeq(cgi_cmd, LAMBDA e :
    \E i \in 1..(Len(e.cgi) + 1) : IsPrefix(name, SubSeq(e.cgi, i, Len(e.cgi))))

\* An entry's own text, in front of what the client gave.
Template(e) ==
  <<"cmd", "&">> \o (IF e.act = "" THEN <<>> ELSE <<"-", "act", "=", e.act, "&">>)

\* [found, e, args]: what a text asks for.
Parsed(text) ==
  LET end == IF Contains(text, ".cgi") THEN ".cgi" ELSE "&"
      name == Until(text, end)
      e == cgi_cmd[Lookup(name)]
      found == /\ Contains(text, end)
               /\ Len(name) <= MAX_CGI_INTER - 1
               /\ Lookup(name) # 0
               /\ Fits(Template(e), Past(text, end))
  IN IF ~found THEN [found |-> FALSE]
     ELSE [found |-> TRUE, e |-> e,
           args |-> Tail(StrCommandParse(Template(e) \o Past(text, end)))]

\* The camera has its own numbers for the exposure modes 0 and 1.
ToCamera(o, v) ==
  CASE o = "expmode" /\ v = 0 -> PHOTO_EXPOSURE_MODE_AUTO
    [] o = "expmode" /\ v = 1 -> PHOTO_EXPOSURE_MODE_MANUAL
    [] OTHER -> v

Given(val, takes) == [k \in DOMAIN takes |-> ToCamera(takes[k], val[takes[k]])]

Finish(c, ok, reply) == [c EXCEPT !.pc = "done", !.ok = ok, !.reply = @ \o reply]

Called(c, op, args, answer, out) ==
  [c EXCEPT !.calls = Append(@, [op |-> op, args |-> args, answer |-> answer,
                                 out |-> out])]

\* "get" or "set"; formatting has none.
Act(e, val) == IF e.act = "" THEN "set" ELSE val["act"]

\* One call of the camera, and the reply it leads to.
Ask(c, h, act, val, answer) ==
  LET takes == IF act = "set" THEN h.takes
               ELSE IF "index" \in h.needs THEN <<"index">> ELSE <<>>
      c1 == Called(c, Operation(h, act), Given(val, takes), answer, 0)
  IN CASE answer # 0 -> IF answer = 69 /\ h = GetSDStatus
                        THEN Finish(c1, FALSE, <<"no_sd">>)
                        ELSE Finish(c1, h = GetRemoteFileList, <<"rtn_error">>)
       [] answer = 0 /\ h = GetRemoteFileList -> [c1 EXCEPT !.pc = "groups"]
       [] OTHER -> Finish(c1, TRUE, <<IF act = "set" THEN "success" ELSE "value">>)

\* Formatting leaves its arguments alone.
Parse(h, args, spill) ==
  IF h.table = <<>> THEN [ret |-> "ok", val |-> <<>>, isset |-> {}]
  ELSE ARG_Parser(h.table, args, spill)

\* A handler, its arguments parsed, up to the end of its first call.
Handle(e, a) ==
  LET h == Handler[e.proc]
      act == Act(e, a.val)
      op == Operation(h, act)
  IN CASE a.ret # "ok" -> cmd' = Finish(cmd, FALSE,
                            <<IF h = SysTimeCfg THEN "json" ELSE "parser_error">>)
       [] a.ret = "ok" /\ op = "" -> cmd' = Finish(cmd, FALSE, <<"cmd_invalid">>)
       [] OTHER ->
            IF act = "set" /\ \E o \in h.needs : ~OptIsSet(a, o)
            THEN cmd' = Finish(cmd, FALSE, <<>>)
            ELSE \E answer \in Answers : cmd' = Ask(cmd, h, act, a.val, answer)

\* The command is looked up and run.
Dispatch ==
  LET p == Parsed(cmd.text)
  IN /\ cmd.pc = "dispatch"
     /\ IF ~p.found THEN cmd' = Finish(cmd, FALSE, <<>>)
        ELSE Handle(p.e, Parse(Handler[p.e.proc], p.args, cmd.spill))

-----------------------------------------------------------------------------
(* Hisnet_CMD_GetRemoteFileList(): groups of works of files of cameras.    *)

Say(c, pieces) == [c EXCEPT !.reply = @ \o pieces]

ListStart(groups) ==
  /\ cmd.pc = "groups"
  /\ cmd' = [Say(cmd, <<"object", "list">>) EXCEPT !.pc = "group", !.groups = groups]

\* The end of the list, or the number of works of the next group.
ListGroup(answer, works) ==
  LET c == Called(cmd, "CMD_GET_WORK_NUMBER", <<cmd.i>>, answer, works)
  IN /\ cmd.pc = "group" /\ cmd.i < cmd.groups
     /\ cmd' = IF answer # 0 THEN Finish(c, FALSE, <<"rtn_error">>)
               ELSE [Say(c, <<"object", "list">>) EXCEPT !.works = works, !.j = 0,
                                                   !.pc = IF works = 0 THEN "group" ELSE "work",
                                                   !.i = IF works = 0 THEN @ + 1 ELSE @]

\* Mutant: a comma after the last group, too.
CloseWorkComma(c) ==
  CASE c.j # c.works - 1 -> <<"object", "endobject", "comma">>
    [] OTHER -> <<"object", "endobject", "endlist", "endobject", "comma">>

CloseWork(c) ==
  CASE c.j # c.works - 1 -> <<"object", "endobject", "comma">>
    [] c.j = c.works - 1 /\ c.i = c.groups - 1 -> <<"object", "endobject", "endlist", "endobject">>
    [] OTHER -> <<"object", "endobject", "endlist", "endobject", "comma">>

\* The numbers of files of the five cameras, each asked for; one failure is
\* enough.
ListWork(answer) ==
  LET c == Called(cmd, "CMD_GET_FILE_NUMBER_CAMID", <<cmd.i, cmd.j>>, answer, 0)
      last == cmd.j = cmd.works - 1
  IN /\ cmd.pc = "work"
     /\ cmd' = IF answer # 0 THEN Finish(c, FALSE, <<"rtn_error">>)
               ELSE [Say(c, CloseWork(cmd)) EXCEPT
                       !.pc = IF last THEN "group" ELSE "work",
                       !.j = @ + 1, !.i = IF last THEN @ + 1 ELSE @]

ListEnd ==
  /\ cmd.pc = "group" /\ cmd.i = cmd.groups
  /\ cmd' = Finish(cmd, TRUE, <<"endlist", "endobject">>)

CgiNext ==
  \/ \E n \in 1..MAX_CNT_CGI : ReadBody(n)
  \/ EndBody
  \/ Dispatch
  \/ \E groups \in 0..MaxGroups : ListStart(groups)
  \/ \E answer \in Answers, works \in 0..MaxWorks : ListGroup(answer, works)
  \/ \E answer \in Answers : ListWork(answer)
  \/ ListEnd

-----------------------------------------------------------------------------
(* What a text asks for, told without the parser: the value given last     *)
(* after the name of an option, and what the camera is to make of it.      *)

Named(args, o) ==
  LET k == SelectLastInSubSeq([n \in DOMAIN args |-> n], 1, Len(args) - 1,
             LAMBDA n : IsOpt(args[n]) /\ OptName(args[n]) = o /\ ~IsOpt(args[n + 1]))
  IN IF k = 0 THEN <<>> ELSE args[k + 1]

Meant(o, arg) ==
  CASE o = "time" -> Upto(arg, HISNET_MAX_TIMESIZE - 1)
    [] o = "index" -> Atoi(arg) % Byte
    [] o = "expmode" /\ Atoi(arg) = 0 -> PHOTO_EXPOSURE_MODE_AUTO
    [] o = "expmode" /\ Atoi(arg) = 1 -> PHOTO_EXPOSURE_MODE_MANUAL
    [] OTHER -> Atoi(arg)

(* A command that prints success, or values, was answered 0 by the camera  *)
(* each time it asked: no handler hides a failure.                         *)
SuccessHonest ==
  \A k \in DOMAIN cmd.reply : cmd.reply[k] \in {"success", "value"} =>
    \A n \in DOMAIN cmd.calls : cmd.calls[n].answer = 0

(* The camera is asked nothing unless every option of the request is known *)
(* and the command is, and then first for what the request says: the full  *)
(* name of a command runs that command, though names are looked up by      *)
(* strstr() and one may be part of another's; the last "-act" decides      *)
(* between get and set; each option that is named gets its last value,     *)
(* positional values never replacing it: a time its first                  *)
(* HISNET_MAX_TIMESIZE - 1 characters, a number what atoi() reads, and of  *)
(* "index" only the low byte, so that -index=257 asks for 1.  Of a piece   *)
(* the first MAX_CNT_EVERYCMD - 1 characters count.  (The option that      *)
(* shares its memory with "index", and requests with more than MAX_NUM_CMD *)
(* pieces, are left out.)  "Success" or a value is printed only if the     *)
(* camera never failed.                                                    *)
CommandExact ==
  (cmd.pc = "done" /\ cmd.calls # <<>>) =>
    LET text == cmd.text
        end == IF Contains(text, ".cgi") THEN ".cgi" ELSE "&"
        args == Pieces(Past(text, end))
        same == {e \in ToSet(cgi_cmd) : e.cgi = Until(text, end)}
        call == cmd.calls[1]
    IN /\ SuccessHonest
       /\ \A e \in same :
            LET h == Handler[e.proc]
                act == IF Named(args, "act") = <<>> THEN e.act ELSE Named(args, "act")[1]
            IN (h.table # <<>> /\ Len(args) + 3 <= MAX_NUM_CMD) =>
                 /\ \A k \in DOMAIN args : IsOpt(args[k]) => Contains(Tail(h.table), OptName(args[k]))
                 /\ call.op = h.ops[act]
                 /\ act = "set" => \A k \in DOMAIN h.takes :
                      (Named(args, h.takes[k]) # <<>> /\ h.takes[k] # cmd.spill.onto)
                        => call.args[k] = Meant(h.takes[k], Named(args, h.takes[k]))

\* Braces ("object", "endobject"), brackets ("list", "endlist") and commas as
\* JSON has them.
Follows ==
  {<<"object", "list">>, <<"list", "object">>, <<"list", "endlist">>,
   <<"object", "endobject">>, <<"endobject", "comma">>, <<"endobject", "endlist">>,
   <<"endlist", "endobject">>, <<"comma", "object">>}
Closes == [t \in {"object", "list"} |-> IF t = "object" THEN "endobject" ELSE "endlist"]
Nesting(s) ==
  FoldLeft(LAMBDA open, t :
             IF t \in DOMAIN Closes THEN Append(open, Closes[t])
             ELSE IF t = "comma" THEN open
             ELSE IF open # <<>> /\ Last(open) = t THEN Front(open)
             ELSE Append(open, "unopened"),
           <<>>, s)
WellFormed(s) ==
  /\ Nesting(s) = <<>>
  /\ \A k \in 1..(Len(s) - 1) : <<s[k], s[k + 1]>> \in Follows

(* A file list that is told in full is well formed and has the works of    *)
(* all groups, unless a group has no works: nothing closes that group      *)
(* (the "]}" is printed with its last work), and the list is not JSON.     *)
ListWellFormed ==
  (cmd.pc = "done" /\ cmd.ok /\ cmd.reply # <<>> /\ cmd.reply[1] = "object") =>
    LET Of(op) == FoldLeft(LAMBDA of, call : IF call.op = op THEN Append(of, call) ELSE of,
                           <<>>, cmd.calls)
        groups == Of("CMD_GET_WORK_NUMBER")
    IN /\ Len(groups) = cmd.groups
       /\ Len(Of("CMD_GET_FILE_NUMBER_CAMID"))
            = FoldLeft(LAMBDA n, call : n + call.out, 0, groups)
       /\ WellFormed(cmd.reply) = (\A k \in DOMAIN groups : groups[k].out > 0)

=============================================================================
