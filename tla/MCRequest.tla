----------------------------- MODULE MCRequest -----------------------------
(* Request with four kinds of input: first lines of any five tokens, every *)
(* way the lines after a request line may end, paths, and headers.         *)
EXTENDS Request, TLC

Ten == <<"SP", "HTTP/1.0">>
Eleven == <<"SP", "HTTP/1.1">>
End == <<"LF", "LF">>

FirstLines == TupleOf({"x", "SP", "CR", "LF", "NUL"}, 5)

Endings == {<<"GET", "SP", "/">> \o Ten \o s : s \in TupleOf({"x", "SP", "CR", "LF"}, 5)}

PathsOf(S, n) ==
  {<<"GET", "SP", "/">> \o p \o Ten \o End : p \in BoundedSeq(S, n)}

AllPaths == PathsOf({"/", ".", "a"}, 6)
              \cup PathsOf({"/", ".", "?", "%2E", "%2F", "%3F", "%00"}, 3)

Heads ==
  {<<m, "SP", "/", "a">> \o v : m \in {"GET", "x"}, v \in {<<>>, Ten, Eleven}}
    \cup {<<"POST", "SP", "http://">> \o h \o v :
            h \in {<<"/">>, <<"h", "/">>, <<".", "/">>, <<"h">>}, v \in {Ten, Eleven}}

Headers ==
  {<<"Host:", "SP", "h", ":", "9">>, <<"Host:", ".">>, <<"Host:", "h", "/">>,
   <<"Accept:", "a">>, <<"Accept-Encoding:", "a">>, <<"Cookie:", "SP", "a">>,
   <<"If-Modified-Since:", "SP", "date">>, <<"If-Range:", "date">>,
   <<"Range:", "b", "=", "2", "-", "5">>, <<"Range:", "b", "=", "1", "-">>,
   <<"Range:", "b", "=", "-", "5">>, <<"Range:", "b", "=", "1", "-", "2", ",">>,
   <<"Content-Length:", "3">>, <<"Connection:", "keep-alive">>, <<"x">>}

\* Two headers on lines that end in LF, one on lines that end in CR LF.
HeaderInputs ==
  {h \o <<"LF">> \o x \o <<"LF">> \o y \o End \o <<"x">> :
     h \in Heads, x \in Headers, y \in Headers}
    \cup {h \o <<"CR", "LF">> \o x \o <<"CR", "LF", "CR", "LF", "x">> :
            h \in Heads, x \in Headers}

MCInputs == FirstLines \cup Endings \cup AllPaths \cup HeaderInputs

Plain == <<"GET", "SP", "/">> \o Ten \o End
MCNextInputs == {Plain, <<"GET", "SP", "/", "LF">>, <<"GET", "SP", "/">> \o Eleven \o End}

=============================================================================
