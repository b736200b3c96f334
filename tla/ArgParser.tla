----------------------------- MODULE ArgParser -----------------------------
(***************************************************************************)
(* Hisnet_Server_ARG_Parser() of SPS_HTTPManager.c: the arguments of an    *)
(* internal CGI command put into the options its handler declares.         *)
(*                                                                         *)
(* Text is a sequence of tokens: digits, "-", "/", a space, and words no   *)
(* test looks into.  An argument is text that is not empty.  A table is a  *)
(* sequence of option names.  The first option of every handler is "?"     *)
(* (NO_PARA, SINGLE); all others take a value, by name or by position      *)
(* (NO_OPT), and are an int, the byte "index", or one of two strings.      *)
(***************************************************************************)
EXTENDS Integers, Sequences, SequencesExt

CONSTANTS Byte,      \* the values of a byte, 256
          LongMax,   \* the largest long
          HISNET_MAX_TIMESIZE

ASSUME WidthAssumption == {Byte, HISNET_MAX_TIMESIZE} \subseteq Nat \ {0} /\ LongMax \in Nat

\* Pieces of text; the ones named are strings too, which the provers do not know.
Tokens == STRING \cup {"&", "=", "SP", "-", "cmd", "act", "get", "set"}

Digit == LET Digits == <<"1", "2", "3", "4", "5", "6", "7", "8", "9">>
         IN [c \in ToSet(Digits) \cup {"0"} |-> SelectInSeq(Digits, LAMBDA d : d = c)]

Must == {"act", "index"}
Ints == {"index", "interval", "exptime", "expgain", "expmode"}

\* "-name" and "/name"; "-5" is a value.
IsOpt(arg) == arg[1] \in {"-", "/"} /\ ~(Len(arg) > 1 /\ arg[2] \in DOMAIN Digit)

\* No option has an empty name, or one with a space in it.
OptName(arg) == IF Len(arg) = 2 THEN arg[2] ELSE ""

\* Hisnet_ARGFindOptStr(): "" if there is none.
FindOptStr(table, name) == IF Contains(table, name) THEN name ELSE ""

\* Mutant: an option that is set already is taken as well.
FindOptNoArgSet(table, isset) == IF Len(table) > 1 THEN table[2] ELSE ""

\* Hisnet_ARGFindOpt_NoArg(): the first that still has no value.
FindOptNoArg(table, isset) ==
  LET i == SelectInSeq(table, LAMBDA o : o # "?" /\ o \notin isset)
  IN IF i = 0 THEN "" ELSE table[i]

\* Hisnet_ARG_CheckRegion(): only "act" has a region, "get|set".
CheckRegion(o, arg) == o = "act" => arg \in {<<"get">>, <<"set">>}

OptIsSet(p, o) == o \in p.isset

Upto(s, n) == SubSeq(s, 1, IF n < Len(s) THEN n ELSE Len(s))

\* strtol(), which stops at the largest long, cast to an int of four bytes.
Clamp(n) == IF n > LongMax THEN LongMax ELSE IF n < -LongMax - 1 THEN -LongMax - 1 ELSE n
ToInt(n) == LET half == (Byte^4) \div 2 IN ((n + half) % (Byte^4)) - half

\* atoi(): spaces, a sign, and the digits up to something else.
Number(s) ==
  LET stop == SelectInSeq(s, LAMBDA c : c \notin DOMAIN Digit)
  IN FoldLeft(LAMBDA m, c : (10 * m) + Digit[c], 0,
              IF stop = 0 THEN s ELSE SubSeq(s, 1, stop - 1))
Signed(s) == IF s # <<>> /\ s[1] = "-" THEN -Number(Tail(s)) ELSE Number(s)
Atoi(arg) ==
  LET from == SelectInSeq(arg, LAMBDA c : c # "SP")
  IN ToInt(Clamp(Signed(IF from = 0 THEN <<>> ELSE SubSeq(arg, from, Len(arg)))))

\* What an option holds before it is set, and what an argument sets it to.
Zero(o) == IF o \in Ints THEN 0 ELSE IF o = "time" THEN <<>> ELSE ""
ValueOf(o, arg) ==
  CASE o = "index" -> Atoi(arg) % Byte
    [] o \in Ints \ {"index"} -> Atoi(arg)
    [] o = "time" -> Upto(arg, HISNET_MAX_TIMESIZE - 1)
    [] OTHER -> arg[1]

\* The low bytes of an int v, replaced by the high ones of n.
Spilt(v, n, bytes) ==
  (v - (v % (Byte^bytes))) + ((n % (Byte^4)) \div (Byte^(4 - bytes)))

(* Hisnet_ARG_SetValue().  "index" is one byte and is stored as an int:    *)
(* what lies above it in this build gets the rest.                         *)
SetValue(p, o, arg) ==
  CASE o = "" -> [p EXCEPT !.ret = "not_defined"]
    [] o # "" /\ ~CheckRegion(o, arg) -> [p EXCEPT !.ret = "not_in_region"]
    [] OTHER -> [p EXCEPT !.has = FALSE, !.isset = @ \cup {o},
                          !.val = [q \in DOMAIN @ |->
                             CASE q = o -> ValueOf(o, arg)
                               [] q # o /\ o = "index" /\ q = p.spill.onto /\ q \in Ints ->
                                    Spilt(@[q], Atoi(arg), p.spill.bytes)
                               [] OTHER -> @[q]]]

\* One turn of the loop over argv.
ParseArg(p, arg) ==
  LET o == FindOptStr(p.table, OptName(arg))
  IN CASE p.ret # "ok" -> p
       [] p.ret = "ok" /\ ~IsOpt(arg) ->
            SetValue(p, IF p.has THEN p.cur ELSE FindOptNoArg(p.table, p.isset), arg)
       [] OTHER -> CASE o = "" -> [p EXCEPT !.ret = "wrong_format"]
                     [] o = "?" -> [p EXCEPT !.cur = o, !.has = FALSE, !.isset = @ \cup {o}]
                     [] OTHER -> [p EXCEPT !.cur = o, !.has = TRUE]

\* "?" excludes all others; without it every option of Must is needed.
ARG_Parser(table, args, spill) ==
  LET p == FoldLeft(ParseArg,
                    [table |-> table, spill |-> spill, ret |-> "ok", cur |-> "",
                     has |-> FALSE, isset |-> {}, val |-> [o \in ToSet(table) |-> Zero(o)]],
                    args)
  IN CASE p.ret # "ok" -> p
       [] p.ret = "ok" /\ OptIsSet(p, "?") /\ \E o \in DOMAIN p.val : o # "?" /\ OptIsSet(p, o) ->
            [p EXCEPT !.ret = "failure"]
       [] p.ret = "ok" /\ ~OptIsSet(p, "?") /\ \E o \in Must \cap DOMAIN p.val : ~OptIsSet(p, o) ->
            [p EXCEPT !.ret = "must_not_set"]
       [] OTHER -> p

=============================================================================
