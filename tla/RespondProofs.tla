--------------------------- MODULE RespondProofs ---------------------------
(***************************************************************************)
(* Proofs about the answer to a request, for all requests, trees of files  *)
(* and changes other processes make: there is one answer, and it has the   *)
(* bytes the request asked for.                                            *)
(***************************************************************************)
EXTENDS Respond, SequenceTheorems, WellFoundedInduction, TLAPS

USE LengthsAssumption

-----------------------------------------------------------------------------
(* The inductive invariant                                                 *)

Codes == {0, 200, 206, 302, 304, 403, 404, 500, 501, 503}

HcType ==
  [status : Codes, bytes_to_send : Int, bytes_sent : Nat, got_range : BOOLEAN,
   first : Nat, last : Int, file : Int, responselen : Nat]

WireType ==
  [answers : Nat, told : Int, text : Nat, sent : Nat, gone : BOOLEAN, body : Seq(Nat)]

(* The command: the camera is asked only once the text is complete, and    *)
(* nothing it refused is followed by another call or a claim of success.   *)
Claims == {"success", "value"}
Words == Claims \cup {"object", "endobject", "list", "endlist", "comma", "no_sd",
                      "rtn_error", "json", "parser_error", "cmd_invalid"}
Modest(reply) == \A k \in DOMAIN reply : reply[k] \notin Claims
Honest(calls) == \A n \in DOMAIN calls : calls[n].answer = 0

CmdShape(c) ==
  /\ c = [k \in DOMAIN NoCmd |-> c[k]]
  /\ c.reply \in Seq(Words) /\ c.calls \in Seq(ToSet(c.calls))

CmdSane(c) ==
  /\ CmdShape(c)
  /\ c.pc \in {"idle", "body", "dispatch"} => c.calls = <<>> /\ c.reply = <<>>
  /\ c.pc # "done" => Modest(c.reply) /\ Honest(c.calls)
  /\ Modest(c.reply) \/ Honest(c.calls)

(* Where nothing has been answered yet.                                    *)
Asked == {"parsed", "start", "internal", "index", "index_found", "list", "serve", "map"}

Typed ==
  /\ pc \in Asked \cup {"command", "sending"} \cup Closed
  /\ req \in Requests /\ changes \in 0..MaxChanges
  /\ DOMAIN tree \subseteq DOMAIN Tree /\ tree \in [DOMAIN tree -> Nodes]
  /\ sb.size \in Nat
  /\ hc \in HcType /\ hc.responselen <= HeadLen + PageLen
  /\ conn \in [next : Nat, end : Nat] /\ conn.next <= conn.end
  /\ wire \in WireType
  /\ CmdSane(cmd)

(* The last byte of the range the request asks for, and whether it counts. *)
LastByte == IF req.last = -1 \/ req.last >= sb.size THEN sb.size - 1 ELSE req.last
InRange ==
  /\ req.mime_flag /\ req.got_range /\ LastByte >= req.first
  /\ req.range_if \in {-1, sb.mtime}

(* The part of the file that is asked for, from First up to End.           *)
First == IF InRange THEN req.first ELSE 0
End == IF InRange THEN LastByte + 1 ELSE sb.size

(* Nothing is written before the answer, and the range is the request's.   *)
Unanswered ==
  pc \in Asked =>
    /\ hc.file = Null /\ hc.responselen = 0
    /\ hc.got_range = req.got_range /\ hc.first = req.first
    /\ hc.last = IF pc = "map" /\ req.got_range THEN LastByte ELSE req.last

(* The text is written or waits to be.                                     *)
Waiting(h, w) == ~w.gone /\ w.text = w.sent + h.responselen

(* The text is written, or cut short by a client who left.                 *)
Written(w) == IF w.gone THEN w.sent < w.text /\ w.body = <<>> ELSE w.text = w.sent

(* One answer, and its text is written or waits to be.                     *)
Balanced ==
  /\ wire.answers = IF pc \in Asked THEN 0 ELSE 1
  /\ IF wire.gone THEN pc = "closed" /\ Written(wire) ELSE Waiting(hc, wire)
  /\ pc = "closed" => hc.responselen = 0

(* The file is sent from First on, after the text.                         *)
Windowed ==
  /\ hc.file = Null => wire.body = <<>>
  /\ pc = "sending" => hc.file # Null
  /\ hc.file # Null =>
       /\ pc \in {"sending"} \cup Closed
       /\ First <= conn.next /\ conn.end = End
       /\ wire.body = Offsets(First, conn.next - 1)
       /\ pc = "sending" => conn.next < conn.end
       /\ pc = "closed" => conn.next = conn.end
       /\ First < conn.next => hc.responselen = 0
       /\ req.mime_flag => /\ wire.told = End - First
                           /\ (hc.status = 206) = (End - First < sb.size)

RspInv == Typed /\ Unanswered /\ Balanced /\ Windowed


-----------------------------------------------------------------------------
(* The parts the handlers are made of                                      *)

(* n bytes of text more, and nothing else that is written or mapped.       *)
Headed(h, w, h1, w1, n) ==
  /\ h1 \in HcType /\ w1 \in WireType
  /\ h1.responselen = h.responselen + n /\ h1.file = h.file
  /\ w1.text = w.text + n /\ w1.answers = w.answers + 1
  /\ w1.sent = w.sent /\ w1.body = w.body /\ w1.gone = w.gone

(* The fields of a response that a head changes, and of what is told.      *)
HcWith(h, status, length, part, len) ==
  [h EXCEPT !.status = status, !.bytes_to_send = length,
            !.got_range = part, !.responselen = len]
WireWith(w, answers, told, text) ==
  [w EXCEPT !.answers = answers, !.told = told, !.text = text]

(* A head changes nothing of what was sent before.                         *)
LEMMA WireHead ==
  ASSUME NEW w \in WireType, NEW answers \in Nat, NEW told \in Int, NEW text \in Nat
  PROVE  /\ WireWith(w, answers, told, text) \in WireType
         /\ WireWith(w, answers, told, text).answers = answers
         /\ WireWith(w, answers, told, text).told = told
         /\ WireWith(w, answers, told, text).text = text
         /\ WireWith(w, answers, told, text).sent = w.sent
         /\ WireWith(w, answers, told, text).body = w.body
         /\ WireWith(w, answers, told, text).gone = w.gone
<1>1. WireWith(w, answers, told, text) \in WireType
  BY DEF WireType, WireWith
<1> QED
  BY <1>1 DEF WireType, WireWith

(* send_mime() adds a head for a client that reads one, and says there how *)
(* much will follow.                                                       *)
LEMMA SendMimeFacts ==
  ASSUME NEW h \in HcType, NEW w \in WireType, NEW status \in Codes, NEW length \in Int,
         req.mime_flag \in BOOLEAN
  PROVE  LET s == SendMime(h, w, status, length)
             part == Partial(h, status, length)
         IN /\ Headed(h, w, s[1], s[2], IF req.mime_flag THEN HeadLen ELSE 0)
            /\ s[1].first = h.first /\ s[1].last = h.last
            /\ s[1].bytes_to_send = length
            /\ req.mime_flag =>
                 /\ s[1].got_range = part
                 /\ s[1].status = IF part THEN 206 ELSE status
                 /\ s[2].told = IF part THEN h.last - h.first + 1 ELSE length
            /\ ~req.mime_flag => s[1].got_range = h.got_range
<1> DEFINE part == Partial(h, status, length)
           told == IF part THEN h.last - h.first + 1 ELSE length
<1>1. part \in BOOLEAN /\ told \in Int
  <2>1. part \in BOOLEAN
    BY DEF Partial
  <2>2. h.first \in Nat /\ h.last \in Int
    BY DEF HcType
  <2> HIDE DEF part
  <2> QED
    BY <2>1, <2>2
<1>2. /\ h.responselen + HeadLen \in Nat /\ w.text + HeadLen \in Nat
      /\ w.answers + 1 \in Nat /\ w.told \in Int /\ w.text \in Nat
      /\ h.status \in Codes /\ h.got_range \in BOOLEAN
      /\ h.responselen \in Nat
  <2>1. h.responselen \in Nat /\ h.status \in Codes /\ h.got_range \in BOOLEAN
    BY DEF HcType
  <2>2. w.answers \in Nat /\ w.told \in Int /\ w.text \in Nat
    BY DEF WireType
  <2> QED
    BY <2>1, <2>2
<1>3. CASE ~req.mime_flag
  <2> DEFINE h1 == HcWith(h, status, length, h.got_range, h.responselen)
             w1 == WireWith(w, w.answers + 1, w.told, w.text)
  <2>1. SendMime(h, w, status, length) = << h1, w1 >>
    BY <1>3 DEF SendMime, HcType, WireType, HcWith, WireWith
  <2>2. /\ h1 \in HcType /\ h1.responselen = h.responselen /\ h1.file = h.file
        /\ h1.first = h.first /\ h1.last = h.last /\ h1.bytes_to_send = length
        /\ h1.got_range = h.got_range
    <3>1. h1 \in HcType
      BY <1>2 DEF HcType, HcWith
    <3> QED
      BY <3>1 DEF HcType, HcWith
  <2>3. /\ w1 \in WireType /\ w1.text = w.text
        /\ w1.answers = w.answers + 1 /\ w1.sent = w.sent /\ w1.body = w.body
        /\ w1.gone = w.gone
    BY <1>2, WireHead
  <2> HIDE DEF h1, w1
  <2> QED
    BY <1>2, <1>3, <2>1, <2>2, <2>3 DEF Headed
<1>4. CASE req.mime_flag
  <2> DEFINE code == IF part THEN 206 ELSE status
             h1 == HcWith(h, code, length, part, h.responselen + HeadLen)
             w1 == WireWith(w, w.answers + 1, told, w.text + HeadLen)
  <2>1. SendMime(h, w, status, length) = << h1, w1 >>
    <3>1. SendMime(h, w, status, length)
            = << [[h EXCEPT !.status = status, !.bytes_to_send = length]
                    EXCEPT !.status = IF part THEN 206 ELSE @, !.got_range = part,
                           !.responselen = @ + HeadLen],
                 [w EXCEPT !.answers = @ + 1, !.told = told, !.text = @ + HeadLen] >>
      BY <1>4 DEF SendMime
    <3>2. w1 = [w EXCEPT !.answers = @ + 1, !.told = told, !.text = @ + HeadLen]
      BY DEF WireType, WireWith
    <3>3. h1 = [[h EXCEPT !.status = status, !.bytes_to_send = length]
                  EXCEPT !.status = IF part THEN 206 ELSE @, !.got_range = part,
                         !.responselen = @ + HeadLen]
      <4> DEFINE len == h.responselen + HeadLen
      <4>1. h1 = HcWith(h, code, length, part, len)
        OBVIOUS
      <4> HIDE DEF code, part, len, h1
      <4>2. h1 = [[h EXCEPT !.status = status, !.bytes_to_send = length]
                    EXCEPT !.status = code, !.got_range = part, !.responselen = len]
        BY <4>1 DEF HcType, HcWith
      <4>3. [h EXCEPT !.status = status, !.bytes_to_send = length].status = status
        BY DEF HcType
      <4>4. [h EXCEPT !.status = status, !.bytes_to_send = length].responselen
              = h.responselen
        BY DEF HcType
      <4> QED
        BY <4>2, <4>3, <4>4 DEF code, len
    <3> QED
      BY <3>1, <3>2, <3>3
  <2>2. code \in Codes
    BY DEF Codes
  <2> HIDE DEF code, part, told
  <2>3. /\ h1 \in HcType /\ h1.responselen = h.responselen + HeadLen /\ h1.file = h.file
        /\ h1.first = h.first /\ h1.last = h.last /\ h1.bytes_to_send = length
        /\ h1.got_range = part /\ h1.status = code
    <3> DEFINE len == h.responselen + HeadLen
    <3>1. len \in Nat
      BY <1>2
    <3> HIDE DEF len
    <3>2. HcWith(h, code, length, part, len) \in HcType
      BY <1>1, <2>2, <3>1 DEF HcType, HcWith
    <3>3. LET h2 == HcWith(h, code, length, part, len)
          IN /\ h2.responselen = len /\ h2.file = h.file
             /\ h2.first = h.first /\ h2.last = h.last /\ h2.bytes_to_send = length
             /\ h2.got_range = part /\ h2.status = code
      BY DEF HcType, HcWith
    <3> QED
      BY <3>2, <3>3 DEF len
  <2>4. /\ w1 \in WireType /\ w1.told = told /\ w1.text = w.text + HeadLen
        /\ w1.answers = w.answers + 1 /\ w1.sent = w.sent /\ w1.body = w.body
        /\ w1.gone = w.gone
    BY <1>1, <1>2, WireHead
  <2> HIDE DEF h1, w1
  <2>5. Headed(h, w, h1, w1, HeadLen)
    BY <2>3, <2>4 DEF Headed
  <2> QED
    BY <1>4, <2>1, <2>3, <2>4, <2>5 DEF code, told, part
<1> QED
  BY <1>3, <1>4

(* What finish_connection() leaves of a response that is complete.         *)
Finished(h, w, h1, w1) ==
  /\ h1 \in HcType /\ h1.responselen = 0 /\ h1.file = h.file
  /\ w1 \in WireType /\ w1.answers = w.answers + 1
  /\ Written(w1) /\ w1.body = w.body

(* The text that waits is written, or the client is gone, and then nothing *)
(* waits.                                                                  *)
LEMMA FlushEnds ==
  ASSUME NEW s, Flush(s), s[1] \in HcType, s[2] \in WireType, Waiting(s[1], s[2]),
         s[2].body = <<>>
  PROVE  /\ pc' = "closed"
         /\ hc' \in HcType /\ hc'.responselen = 0
         /\ hc'.file = s[1].file /\ hc'.status = s[1].status
         /\ wire' \in WireType /\ Written(wire')
         /\ wire'.answers = s[2].answers /\ wire'.told = s[2].told
         /\ wire'.body = <<>>
<1> DEFINE h == s[1]
           w == s[2]
<1>1. PICK n \in 0..h.responselen :
        /\ hc' = [h EXCEPT !.responselen = 0]
        /\ wire' = [w EXCEPT !.sent = @ + n, !.gone = n < h.responselen]
        /\ pc' = "closed"
  BY DEF Flush, Set
<1>2. /\ h \in HcType /\ w \in WireType /\ h.responselen \in Nat /\ w.sent \in Nat
      /\ w.text = w.sent + h.responselen /\ w.body = <<>>
  BY DEF HcType, WireType, Waiting
<1> DEFINE sent == w.sent + n
           gone == n < h.responselen
<1>3. sent \in Nat /\ gone \in BOOLEAN
  BY <1>1, <1>2
<1>4. wire' = [w EXCEPT !.sent = sent, !.gone = gone]
  BY <1>1
<1> HIDE DEF h, w
<1>5. IF gone THEN sent < w.text ELSE w.text = sent
  BY <1>1, <1>2
<1> HIDE DEF sent, gone
<1>6. /\ wire' \in WireType /\ wire'.sent = sent /\ wire'.gone = gone
      /\ wire'.text = w.text /\ wire'.answers = w.answers /\ wire'.told = w.told
      /\ wire'.body = <<>>
  BY <1>2, <1>3, <1>4 DEF WireType
<1>7. Written(wire')
  BY <1>5, <1>6 DEF Written
<1>8. /\ hc' \in HcType /\ hc'.responselen = 0
      /\ hc'.file = h.file /\ hc'.status = h.status
  BY <1>1, <1>2 DEF HcType
<1> QED
  BY <1>1, <1>6, <1>7, <1>8 DEF h, w

(* So a head, or a page, is an answer that is complete.                    *)
LEMMA Flushed ==
  ASSUME NEW h \in HcType, NEW w \in WireType, NEW s, NEW n \in Nat,
         Headed(h, w, s[1], s[2], n), Waiting(h, w), w.body = <<>>, Flush(s)
  PROVE  /\ Finished(h, w, hc', wire') /\ pc' = "closed"
         /\ hc'.status = s[1].status /\ wire'.told = s[2].told
<1>1. /\ s[1] \in HcType /\ s[1].file = h.file /\ s[2] \in WireType
      /\ s[2].answers = w.answers + 1 /\ s[2].body = <<>>
  BY DEF Headed
<1>2. Waiting(s[1], s[2])
  <2>1. /\ h.responselen \in Nat /\ w.sent \in Nat /\ w.text = w.sent + h.responselen
        /\ s[1].responselen = h.responselen + n /\ s[2].text = w.text + n
        /\ s[2].sent = w.sent /\ ~s[2].gone
    BY DEF Headed, HcType, WireType, Waiting
  <2> DEFINE a == s[1].responselen
             b == s[2].text
             c == s[2].sent
  <2>2. b = c + a
    <3> HIDE DEF a, b, c
    <3> QED
      BY <2>1 DEF a, b, c
  <2> QED
    BY <2>1, <2>2 DEF Waiting
<1> QED
  BY <1>1, <1>2, FlushEnds DEF Finished

(* An error page is one answer, head and text, and the end.                *)
LEMMA RefuseFinishes ==
  ASSUME NEW status \in Codes, Refuse(status), hc \in HcType, wire \in WireType,
         req.mime_flag \in BOOLEAN, Waiting(hc, wire), wire.body = <<>>
  PROVE  Finished(hc, wire, hc', wire') /\ pc' = "closed"
<1> DEFINE s == SendMime(hc, wire, status, -1)
           n == IF req.mime_flag THEN HeadLen ELSE 0
           h1 == [s[1] EXCEPT !.responselen = @ + PageLen]
           w1 == [s[2] EXCEPT !.text = @ + PageLen]
<1>1. Headed(hc, wire, s[1], s[2], n)
  BY SendMimeFacts
<1>2. n \in Nat /\ n + PageLen \in Nat
  OBVIOUS
<1> HIDE DEF s, n
<1>3. /\ h1 \in HcType /\ h1.responselen = hc.responselen + (n + PageLen)
      /\ h1.file = hc.file
  <2>1. /\ s[1] \in HcType /\ s[1].file = hc.file
        /\ s[1].responselen + PageLen = hc.responselen + (n + PageLen)
        /\ s[1].responselen + PageLen \in Nat
    <3>1. s[1] \in HcType /\ s[1].file = hc.file /\ s[1].responselen = hc.responselen + n
      BY <1>1 DEF Headed
    <3>2. hc.responselen \in Nat
      BY DEF HcType
    <3> QED
      BY <1>2, <3>1, <3>2
  <2> DEFINE length == s[1].responselen + PageLen
  <2> HIDE DEF length
  <2>2. h1 = [s[1] EXCEPT !.responselen = length]
    BY DEF length
  <2>3. [s[1] EXCEPT !.responselen = length] \in HcType
    BY <2>1 DEF HcType, length
  <2>4. h1.responselen = length /\ h1.file = s[1].file
    BY <2>1, <2>2 DEF HcType
  <2> QED
    BY <2>1, <2>2, <2>3, <2>4 DEF length
<1>4. /\ w1 \in WireType /\ w1.text = wire.text + (n + PageLen)
      /\ w1.answers = wire.answers + 1 /\ w1.sent = wire.sent /\ w1.body = wire.body
      /\ w1.gone = wire.gone
  <2>1. /\ s[2] \in WireType /\ s[2].text + PageLen = wire.text + (n + PageLen)
        /\ s[2].text + PageLen \in Nat
    <3>1. s[2] \in WireType /\ s[2].text = wire.text + n
      BY <1>1 DEF Headed
    <3>2. s[2].text \in Nat /\ wire.text \in Nat
      BY <3>1 DEF WireType
    <3> QED
      BY <1>2, <3>1, <3>2
  <2> DEFINE text == s[2].text + PageLen
  <2> HIDE DEF text
  <2>2. [s[2] EXCEPT !.text = text] \in WireType
    BY <2>1 DEF WireType, text
  <2>3. w1 = [s[2] EXCEPT !.text = text]
    BY DEF text
  <2>4. /\ w1.text = text /\ w1.answers = s[2].answers
        /\ w1.sent = s[2].sent /\ w1.body = s[2].body /\ w1.gone = s[2].gone
    BY <2>1, <2>3 DEF WireType
  <2> QED
    BY <1>1, <2>1, <2>2, <2>3, <2>4 DEF Headed, text
<1>5. SendErr(hc, wire, status) = << h1, w1 >>
  BY DEF SendErr, s
<1> HIDE DEF h1, w1
<1>6. Headed(hc, wire, h1, w1, n + PageLen)
  BY <1>3, <1>4 DEF Headed
<1>7. Flush(<< h1, w1 >>)
  BY <1>5 DEF Refuse
<1> DEFINE t == << h1, w1 >>
<1>8. t[1] = h1 /\ t[2] = w1
  OBVIOUS
<1> HIDE DEF t
<1> QED
  BY <1>2, <1>6, <1>7, <1>8, Flushed DEF t

(* A head and nothing after it.                                            *)
LEMMA HeadFinishes ==
  ASSUME NEW h \in HcType, NEW w \in WireType, NEW status \in Codes, NEW length \in Int,
         req.mime_flag \in BOOLEAN, Waiting(h, w), w.body = <<>>,
         Flush(SendMime(h, w, status, length))
  PROVE  Finished(h, w, hc', wire') /\ pc' = "closed"
<1> DEFINE s == SendMime(h, w, status, length)
           n == IF req.mime_flag THEN HeadLen ELSE 0
<1>1. Headed(h, w, s[1], s[2], n) /\ n \in Nat
  BY SendMimeFacts
<1> HIDE DEF n
<1> QED
  BY <1>1, Flushed

(* stat() tells a size of every node.                                      *)
LEMMA StatSize ==
  ASSUME NEW p, tree \in [DOMAIN tree -> Nodes]
  PROVE  StatAt(p).size \in Nat
BY DEF StatAt, StatOf, NoStat, Nodes

-----------------------------------------------------------------------------
(* Before the answer                                                       *)

(* A request that is answered at once, without a file, is over.            *)
LEMMA ClosesAsked ==
  ASSUME RspInv, pc \in Asked, Finished(hc, wire, hc', wire'), pc' = "closed",
         UNCHANGED <<req, tree, changes, conn, cmd>>, sb'.size \in Nat
  PROVE  RspInv'
<1>1. hc.file = Null /\ wire.body = <<>> /\ wire.answers = 0
  BY DEF RspInv, Unanswered, Windowed, Balanced
<1>2. /\ hc' \in HcType /\ hc'.responselen = 0 /\ hc'.file = Null
      /\ wire' \in WireType /\ wire'.answers = 1
      /\ Written(wire') /\ wire'.body = <<>>
  BY <1>1 DEF Finished
<1>3. Typed'
  BY <1>2 DEF RspInv, Typed, Closed
<1>4. Unanswered'
  BY DEF Unanswered, Asked
<1>5. Balanced'
  <2>1. ~wire'.gone => Waiting(hc', wire')
    BY <1>2 DEF Written, Waiting, WireType
  <2> QED
    BY <1>2, <2>1 DEF Balanced, Asked
<1>6. Windowed'
  BY <1>2 DEF Windowed
<1> QED
  BY <1>3, <1>4, <1>5, <1>6 DEF RspInv

(* A request that is not answered yet keeps its range until the file is    *)
(* mapped.                                                                 *)
LEMMA StaysAsked ==
  ASSUME RspInv, pc \in Asked \ {"map"}, pc' \in Asked \ {"map"},
         UNCHANGED <<req, tree, changes, hc, conn, wire, cmd>>, sb'.size \in Nat
  PROVE  RspInv'
<1>1. Typed'
  BY DEF RspInv, Typed
<1>2. Unanswered'
  BY DEF RspInv, Unanswered
<1>3. Balanced'
  BY DEF RspInv, Balanced, Asked
<1>4. Windowed'
  BY DEF RspInv, Unanswered, Windowed, Asked
<1> QED
  BY <1>1, <1>2, <1>3, <1>4 DEF RspInv

(* What the lemmas above ask for is there before the answer.               *)
LEMMA AskedFacts ==
  ASSUME RspInv, pc \in Asked
  PROVE  /\ hc \in HcType /\ wire \in WireType /\ sb.size \in Nat
         /\ tree \in [DOMAIN tree -> Nodes]
         /\ req \in Requests /\ req.mime_flag \in BOOLEAN
         /\ hc.responselen = 0 /\ wire.text = wire.sent /\ ~wire.gone
         /\ Waiting(hc, wire) /\ wire.body = <<>>
<1>1. Waiting(hc, wire)
  BY DEF RspInv, Balanced, Asked
<1>2. wire.body = <<>> /\ hc.responselen = 0
  BY DEF RspInv, Unanswered, Windowed
<1> QED
  BY <1>1, <1>2, RequestsAssumption DEF RspInv, Typed, Waiting, HcType, WireType

(* An error page is such an answer.                                        *)
LEMMA RefuseCloses ==
  ASSUME RspInv, pc \in Asked, NEW status \in Codes, Refuse(status),
         UNCHANGED <<req, tree, changes, conn, cmd>>, sb'.size \in Nat
  PROVE  RspInv'
BY AskedFacts, RefuseFinishes, ClosesAsked

(* A head is one.                                                          *)
LEMMA AnswerCloses ==
  ASSUME RspInv, pc \in Asked, NEW status \in Codes, NEW length \in Int,
         Answer(status, length),
         UNCHANGED <<req, tree, changes, conn, cmd>>, sb'.size \in Nat
  PROVE  RspInv'
<1>1. Flush(SendMime(hc, wire, status, length))
  BY DEF Answer
<1>2. Finished(hc, wire, hc', wire') /\ pc' = "closed"
  BY <1>1, AskedFacts, HeadFinishes
<1> QED
  BY <1>2, ClosesAsked

(* And what a child process answers is one, for this process.              *)
LEMMA SpawnCloses ==
  ASSUME RspInv, pc \in Asked, Spawn,
         UNCHANGED <<req, tree, changes, expn, sb, conn, cmd>>
  PROVE  RspInv'
<1>1. sb'.size \in Nat
  BY AskedFacts
<1>2. CASE Refuse(503) \/ Refuse(500)
  BY <1>1, <1>2, RefuseCloses DEF Codes
<1>3. CASE /\ pc' = "closed"
           /\ hc' = [hc EXCEPT !.status = 200, !.bytes_sent = 25000]
           /\ wire' = [wire EXCEPT !.answers = @ + 1]
  <2>1. hc' \in HcType /\ hc'.responselen = 0 /\ hc'.file = hc.file
    <3>1. hc \in HcType /\ hc.responselen = 0 /\ 200 \in Codes
      BY AskedFacts DEF Codes
    <3> DEFINE status == 200
               n == 25000
    <3>2. status \in Codes /\ n \in Nat
      BY DEF Codes
    <3>3. hc' = [hc EXCEPT !.status = status, !.bytes_sent = n]
      BY <1>3
    <3> HIDE DEF status, n
    <3>4. [hc EXCEPT !.status = status, !.bytes_sent = n] \in HcType
      BY <3>1, <3>2 DEF HcType
    <3>5. hc'.responselen = hc.responselen /\ hc'.file = hc.file
      BY <3>1, <3>3 DEF HcType
    <3> QED
      BY <3>1, <3>3, <3>4, <3>5
  <2>2. wire' \in WireType
    <3>1. wire \in WireType
      BY AskedFacts
    <3> DEFINE n == wire.answers + 1
    <3>2. n \in Nat
      BY <3>1 DEF WireType
    <3>3. wire' = [wire EXCEPT !.answers = n]
      BY <1>3
    <3> HIDE DEF n
    <3> QED
      BY <3>1, <3>2, <3>3 DEF WireType
  <2>3. wire'.answers = wire.answers + 1 /\ Written(wire') /\ wire'.body = wire.body
    BY <1>3, AskedFacts DEF WireType, Written
  <2> QED
    BY <1>1, <1>3, <2>1, <2>2, <2>3, ClosesAsked DEF Finished
<1> QED
  BY <1>2, <1>3 DEF Spawn

(* httpd_parse_request() ends in an error or leaves the request as it is.  *)
LEMMA ResolveInv ==
  ASSUME RspInv, Resolve
  PROVE  RspInv'
<1>1. pc = "parsed" /\ pc \in Asked \ {"map"} /\ UNCHANGED <<req, tree, changes, sb, conn, cmd>>
  BY DEF Resolve, Asked
<1>2. sb'.size \in Nat
  BY <1>1, AskedFacts
<1>3. \/ Refuse(500) \/ Refuse(403) \/ Refuse(503)
      \/ pc' = "start" /\ UNCHANGED <<hc, wire>>
  BY DEF Resolve
<1>4. CASE Refuse(500) \/ Refuse(403) \/ Refuse(503)
  BY <1>1, <1>2, <1>4, RefuseCloses DEF Codes
<1>5. CASE pc' = "start" /\ UNCHANGED <<hc, wire>>
  BY <1>1, <1>2, <1>5, StaysAsked DEF Asked
<1> QED
  BY <1>3, <1>4, <1>5

(* So does the first half of really_start_request().                       *)
LEMMA StartRequestInv ==
  ASSUME RspInv, StartRequest
  PROVE  RspInv'
<1>1. pc \in Asked \ {"map"} /\ UNCHANGED <<req, tree, changes, conn, cmd>>
  BY DEF StartRequest, Asked
<1>2. sb'.size \in Nat
  BY <1>1, AskedFacts, StatSize DEF StartRequest
<1>3. \/ Refuse(500) \/ Refuse(501) \/ Refuse(403) \/ Refuse(404) \/ Refuse(302)
      \/ pc' \in {"internal", "serve", "index"} /\ UNCHANGED <<hc, wire>>
  BY DEF StartRequest
<1>4. CASE Refuse(500) \/ Refuse(501) \/ Refuse(403) \/ Refuse(404) \/ Refuse(302)
  BY <1>1, <1>2, <1>4, RefuseCloses DEF Codes
<1>5. CASE pc' \in {"internal", "serve", "index"} /\ UNCHANGED <<hc, wire>>
  BY <1>1, <1>2, <1>5, StaysAsked DEF Asked
<1> QED
  BY <1>3, <1>4, <1>5

(* And the search for an index.                                            *)
LEMMA FindIndexInv ==
  ASSUME RspInv, FindIndex
  PROVE  RspInv'
<1>1. pc \in Asked \ {"map"} /\ UNCHANGED <<req, tree, changes, hc, conn, wire, cmd>>
      /\ pc' \in {"list", "index_found"}
  BY DEF FindIndex, Asked
<1>2. sb'.size \in Nat
  BY <1>1, AskedFacts, StatSize DEF FindIndex
<1> QED
  BY <1>1, <1>2, StaysAsked DEF Asked

(* The index that was found is expanded.                                   *)
LEMMA ExpandIndexInv ==
  ASSUME RspInv, ExpandIndex
  PROVE  RspInv'
<1>1. pc \in Asked \ {"map"} /\ UNCHANGED <<req, tree, changes, sb, conn, cmd>>
  BY DEF ExpandIndex, Asked
<1>2. sb'.size \in Nat
  BY <1>1, AskedFacts
<1>3. \/ Refuse(500) \/ Refuse(403)
      \/ pc' = "serve" /\ UNCHANGED <<hc, wire>>
  BY DEF ExpandIndex
<1>4. CASE Refuse(500) \/ Refuse(403)
  BY <1>1, <1>2, <1>4, RefuseCloses DEF Codes
<1>5. CASE pc' = "serve" /\ UNCHANGED <<hc, wire>>
  BY <1>1, <1>2, <1>5, StaysAsked DEF Asked
<1> QED
  BY <1>3, <1>4, <1>5

(* ls() answers.                                                           *)
LEMMA ListInv ==
  ASSUME RspInv, List
  PROVE  RspInv'
<1>1. pc \in Asked /\ UNCHANGED <<req, tree, changes, expn, sb, conn, cmd>>
  BY DEF List, Asked
<1>2. sb'.size \in Nat
  BY <1>1, AskedFacts
<1>3. Refuse(403) \/ Refuse(404) \/ Refuse(501) \/ Answer(200, -1) \/ Spawn
  BY DEF List
<1>4. CASE Refuse(403) \/ Refuse(404) \/ Refuse(501)
  BY <1>1, <1>2, <1>4, RefuseCloses DEF Codes
<1>5. CASE Answer(200, -1)
  BY <1>1, <1>2, <1>5, AnswerCloses DEF Codes
<1>6. CASE Spawn
  BY <1>1, <1>6, SpawnCloses
<1> QED
  BY <1>3, <1>4, <1>5, <1>6

-----------------------------------------------------------------------------
(* A file                                                                  *)

(* The range is clipped to the size of the file where it goes beyond it.   *)
LEMMA ClipFacts ==
  ASSUME RspInv, pc = "serve"
  PROVE  /\ Clip(hc) \in HcType
         /\ Clip(hc).responselen = 0 /\ Clip(hc).file = Null
         /\ Clip(hc).got_range = req.got_range /\ Clip(hc).first = req.first
         /\ Clip(hc).last = IF req.got_range THEN LastByte ELSE req.last
<1>1. /\ hc \in HcType /\ hc.responselen = 0 /\ hc.file = Null /\ sb.size \in Nat
      /\ hc.got_range = req.got_range /\ hc.first = req.first /\ hc.last = req.last
  BY AskedFacts DEF Asked, RspInv, Unanswered
<1>2. ASSUME NEW last \in Int
      PROVE  [hc EXCEPT !.last = last] \in HcType
  BY <1>1 DEF HcType
<1>3. sb.size - 1 \in Int
  BY <1>1
<1>4. CASE hc.got_range /\ (hc.last = -1 \/ hc.last >= sb.size)
  <2>1. Clip(hc) = [hc EXCEPT !.last = sb.size - 1]
    BY <1>4 DEF Clip
  <2>2. Clip(hc) \in HcType
    BY <1>2, <1>3, <2>1
  <2>3. Clip(hc).last = sb.size - 1 /\ LastByte = sb.size - 1
    BY <1>1, <1>4, <2>1 DEF HcType, LastByte
  <2> QED
    BY <1>1, <1>4, <2>1, <2>2, <2>3 DEF HcType
<1>5. CASE ~(hc.got_range /\ (hc.last = -1 \/ hc.last >= sb.size))
  BY <1>1, <1>5 DEF Clip, LastByte
<1> QED
  BY <1>4, <1>5

(* A file that is not sent is answered at once; one that is goes on to be  *)
(* mapped, with its range clipped.                                         *)
LEMMA ServeInv ==
  ASSUME RspInv, Serve
  PROVE  RspInv'
<1>1. pc = "serve" /\ pc \in Asked /\ UNCHANGED <<req, tree, changes, expn, sb, conn, cmd>>
  BY DEF Serve, Asked
<1>2. sb'.size \in Nat
  BY <1>1, AskedFacts
<1> DEFINE h == Clip(hc)
<1>3. \/ Refuse(403) \/ Refuse(501) \/ Spawn
      \/ Flush(SendMime(h, wire, 200, sb.size)) \/ Flush(SendMime(h, wire, 304, -1))
      \/ pc' = "map" /\ hc' = h /\ UNCHANGED wire
  BY DEF Serve
<1>4. CASE Refuse(403) \/ Refuse(501)
  BY <1>1, <1>2, <1>4, RefuseCloses DEF Codes
<1>5. CASE Spawn
  BY <1>1, <1>5, SpawnCloses
<1>6. ASSUME NEW status \in Codes, NEW length \in Int, Flush(SendMime(h, wire, status, length))
      PROVE  RspInv'
  <2>1. /\ h \in HcType /\ wire \in WireType /\ h.responselen = hc.responselen
        /\ h.file = hc.file /\ req.mime_flag \in BOOLEAN /\ wire.body = <<>>
        /\ Waiting(hc, wire)
    BY <1>1, AskedFacts, ClipFacts DEF RspInv, Unanswered
  <2> HIDE DEF h
  <2>2. Waiting(h, wire)
    BY <2>1 DEF Waiting
  <2>3. Finished(h, wire, hc', wire') /\ pc' = "closed"
    BY <1>6, <2>1, <2>2, HeadFinishes
  <2>4. Finished(hc, wire, hc', wire')
    BY <2>1, <2>3 DEF Finished
  <2> QED
    BY <1>1, <1>2, <2>3, <2>4, ClosesAsked
<1>7. CASE pc' = "map" /\ hc' = h /\ UNCHANGED wire
  <2>1. /\ hc' \in HcType /\ hc'.responselen = 0 /\ hc'.file = Null
        /\ hc'.got_range = req.got_range /\ hc'.first = req.first
        /\ hc'.last = IF req.got_range THEN LastByte ELSE req.last
    BY <1>1, <1>7, ClipFacts
  <2>2. Typed'
    BY <1>1, <1>2, <1>7, <2>1 DEF RspInv, Typed, Asked
  <2>3. LastByte' = LastByte
    BY <1>1 DEF LastByte
  <2>4. Unanswered'
    BY <1>1, <1>7, <2>1, <2>3 DEF Unanswered
  <2>5. Balanced'
    BY <1>1, <1>7, <2>1, AskedFacts DEF RspInv, Balanced, Waiting, Asked
  <2>6. Windowed'
    BY <1>1, <1>7, <2>1, AskedFacts DEF RspInv, Windowed, Unanswered
  <2> QED
    BY <2>2, <2>4, <2>5, <2>6 DEF RspInv
<1>8. sb.size \in Int /\ -1 \in Int /\ {200, 304} \subseteq Codes
  BY <1>1, AskedFacts DEF Codes
<1> HIDE DEF h
<1> QED
  BY <1>3, <1>4, <1>5, <1>6, <1>7, <1>8

(* Offsets are as many as there are between the two, and those of two      *)
(* adjacent parts follow each other.                                       *)
LEMMA OffsetsFacts ==
  ASSUME NEW a \in Nat, NEW b \in Nat, a <= b
  PROVE  /\ Offsets(a, b - 1) \in Seq(Nat) /\ Len(Offsets(a, b - 1)) = b - a
         /\ \A i \in 1..(b - a) : Offsets(a, b - 1)[i] = a + i - 1
         /\ a = b => Offsets(a, b - 1) = <<>>
<1>1. b - 1 - a + 1 = b - a /\ b - a \in Nat
  OBVIOUS
<1>2. Offsets(a, b - 1) = [i \in 1..(b - a) |-> a + i - 1]
  BY <1>1 DEF Offsets
<1>3. \A i \in 1..(b - a) : a + i - 1 \in Nat
  OBVIOUS
<1>4. [i \in 1..(b - a) |-> a + i - 1] \in Seq(Nat)
      /\ Len([i \in 1..(b - a) |-> a + i - 1]) = b - a
  BY <1>1, <1>3
<1> QED
  BY <1>1, <1>2, <1>4

(* A sequence made of two others is their concatenation.                   *)
LEMMA ConcatIs ==
  ASSUME NEW s \in Seq(Nat), NEW t \in Seq(Nat), NEW u \in Seq(Nat),
         Len(u) = Len(s) + Len(t),
         \A i \in 1..Len(s) : u[i] = s[i], \A i \in 1..Len(t) : u[Len(s) + i] = t[i]
  PROVE  s \o t = u
<1>1. s \o t \in Seq(Nat) /\ Len(s \o t) = Len(s) + Len(t)
  OBVIOUS
<1>2. ASSUME NEW i \in 1..Len(u) PROVE (s \o t)[i] = u[i]
  <2>1. CASE i <= Len(s)
    BY <2>1
  <2>2. CASE i > Len(s)
    <3>1. (s \o t)[i] = t[i - Len(s)] /\ i - Len(s) \in 1..Len(t) /\ Len(s) + (i - Len(s)) = i
      BY <2>2
    <3> QED
      BY <3>1
  <2>3. i <= Len(s) \/ i > Len(s)
    OBVIOUS
  <2> QED
    BY <2>1, <2>2, <2>3
<1>3. u = [i \in 1..Len(u) |-> u[i]]
  OBVIOUS
<1>4. s \o t = [i \in 1..Len(u) |-> (s \o t)[i]]
  <2> DEFINE v == s \o t
  <2>1. v \in Seq(Nat) /\ Len(v) = Len(u)
    BY <1>1
  <2> HIDE DEF v
  <2>2. v = [i \in 1..Len(u) |-> v[i]]
    BY <2>1
  <2> QED
    BY <2>2 DEF v
<1> QED
  BY <1>2, <1>3, <1>4

(* What is written next continues what was written.                        *)
LEMMA OffsetsContinue ==
  ASSUME NEW a \in Nat, NEW b \in Nat, NEW n \in Nat, a <= b
  PROVE  Offsets(a, b - 1) \o [i \in 1..n |-> b + i - 1] = Offsets(a, (b + n) - 1)
<1> DEFINE s == Offsets(a, b - 1)
           t == [i \in 1..n |-> b + i - 1]
           u == Offsets(a, (b + n) - 1)
<1>1. s \in Seq(Nat) /\ Len(s) = b - a /\ \A i \in 1..(b - a) : s[i] = a + i - 1
  BY OffsetsFacts
<1>2. u \in Seq(Nat) /\ Len(u) = (b - a) + n /\ \A i \in 1..((b - a) + n) : u[i] = a + i - 1
  <2> DEFINE c == b + n
  <2>1. c \in Nat /\ a <= c /\ c - a = (b - a) + n
    OBVIOUS
  <2> HIDE DEF c
  <2>2. Offsets(a, c - 1) \in Seq(Nat) /\ Len(Offsets(a, c - 1)) = c - a
        /\ \A i \in 1..(c - a) : Offsets(a, c - 1)[i] = a + i - 1
    BY <2>1, OffsetsFacts
  <2> QED
    BY <2>1, <2>2 DEF c
<1>3. t \in Seq(Nat) /\ Len(t) = n /\ \A i \in 1..n : t[i] = b + i - 1
  <2>1. \A i \in 1..n : b + i - 1 \in Nat
    OBVIOUS
  <2> QED
    BY <2>1
<1> HIDE DEF s, t, u
<1>4. ASSUME NEW i \in 1..n PROVE u[(b - a) + i] = t[i]
  BY <1>2, <1>3
<1>5. \A i \in 1..(b - a) : u[i] = s[i]
  BY <1>1, <1>2
<1>6. s \o t = u
  <2>1. Len(u) = Len(s) + Len(t)
    BY <1>1, <1>2, <1>3
  <2>2. \A i \in 1..Len(s) : u[i] = s[i]
    BY <1>1, <1>5
  <2>3. \A i \in 1..Len(t) : u[Len(s) + i] = t[i]
    BY <1>1, <1>3, <1>4
  <2> QED
    BY <1>1, <1>2, <1>3, <2>1, <2>2, <2>3, ConcatIs
<1> QED
  BY <1>6 DEF s, t, u

(* The part asked for lies in the file, and is all of it unless the range  *)
(* counts.                                                                 *)
LEMMA PartFacts ==
  ASSUME req \in Requests, sb.size \in Nat
  PROVE  /\ First \in Nat /\ End \in Nat /\ First <= End
         /\ LastByte \in Int /\ LastByte <= sb.size - 1
         /\ InRange => /\ First = req.first /\ End = LastByte + 1 /\ First < End
                       /\ (End - First < sb.size) = (LastByte # sb.size - 1 \/ req.first # 0)
         /\ ~InRange => First = 0 /\ End = sb.size
<1>1. /\ req.first \in Nat /\ req.last \in Nat \cup {-1}
      /\ req.mime_flag \in BOOLEAN /\ req.got_range \in BOOLEAN
  BY RequestsAssumption
<1>2. LastByte \in Int /\ LastByte <= sb.size - 1
  BY <1>1 DEF LastByte
<1>3. CASE InRange
  <2>1. First = req.first /\ End = LastByte + 1 /\ LastByte >= req.first
    BY <1>3 DEF First, End, InRange
  <2> HIDE DEF LastByte
  <2> QED
    BY <1>1, <1>2, <1>3, <2>1
<1>4. CASE ~InRange
  BY <1>2, <1>4 DEF First, End
<1> QED
  BY <1>2, <1>3, <1>4

(* A file that is mapped is answered, from the first byte asked for to the *)
(* last, or is empty and over.                                             *)
LEMMA MapInv ==
  ASSUME RspInv, Map
  PROVE  RspInv'
<1>1. pc = "map" /\ pc \in Asked /\ UNCHANGED <<req, tree, changes, expn, sb, cmd>>
  BY DEF Map, Asked
<1>2. /\ hc \in HcType /\ wire \in WireType /\ sb.size \in Nat
      /\ req \in Requests /\ req.mime_flag \in BOOLEAN /\ req.got_range \in BOOLEAN
      /\ (req.got_range => req.mime_flag)
      /\ hc.responselen = 0 /\ wire.text = wire.sent /\ Waiting(hc, wire)
      /\ hc.got_range = req.got_range /\ hc.first = req.first
      /\ hc.last = (IF req.got_range THEN LastByte ELSE req.last)
      /\ wire.answers = 0 /\ wire.body = <<>>
  BY <1>1, AskedFacts, RequestsAssumption DEF RspInv, Unanswered, Balanced, Windowed
<1>3. CASE Refuse(500) /\ UNCHANGED conn
  BY <1>1, <1>2, <1>3, RefuseCloses DEF Codes
<1> DEFINE size == sb.size
           h == [hc EXCEPT !.file = size]
           s == SendMime(h, wire, 200, size)
           part == Partial(h, 200, size)
           n == IF req.mime_flag THEN HeadLen ELSE 0
           next == IF s[1].got_range THEN s[1].first ELSE 0
           end == IF s[1].got_range THEN s[1].last + 1 ELSE s[1].bytes_to_send
<1>4. CASE /\ conn' = [next |-> next, end |-> end]
           /\ IF next >= end
              THEN Flush(s)
              ELSE hc' = s[1] /\ wire' = s[2] /\ pc' = "sending"
  <2>1. h \in HcType /\ h.file = size /\ h.responselen = 0 /\ h.first = hc.first
        /\ h.last = hc.last /\ h.got_range = hc.got_range
    <3>1. size \in Int
      BY <1>2
    <3> HIDE DEF size
    <3> QED
      BY <1>2, <3>1 DEF HcType
  <2>2. part <=> InRange /\ (LastByte # size - 1 \/ req.first # 0)
    <3>1. part <=> /\ req.got_range /\ hc.last >= hc.first
                   /\ hc.last # size - 1 \/ hc.first # 0
                   /\ req.range_if \in {-1, sb.mtime}
      BY <1>2, <2>1 DEF Partial
    <3>2. CASE req.got_range
      <4>1. hc.last = LastByte /\ hc.first = req.first /\ req.mime_flag
        BY <1>2, <3>2
      <4> HIDE DEF part, size
      <4> QED
        BY <3>1, <3>2, <4>1 DEF InRange
    <3>3. CASE ~req.got_range
      BY <3>1, <3>3 DEF InRange
    <3> QED
      BY <1>2, <3>2, <3>3
  <2>3. 200 \in Codes /\ size \in Int
    BY <1>2 DEF Codes
  <2>4. /\ Headed(h, wire, s[1], s[2], n)
        /\ s[1].first = h.first /\ s[1].last = h.last /\ s[1].bytes_to_send = size
        /\ req.mime_flag =>
             /\ s[1].got_range = part
             /\ s[1].status = IF part THEN 206 ELSE 200
             /\ s[2].told = IF part THEN h.last - h.first + 1 ELSE size
        /\ ~req.mime_flag => s[1].got_range = h.got_range
    <3> HIDE DEF h, size
    <3> QED
      BY <1>2, <2>1, <2>3, SendMimeFacts
  <2>5. n \in Nat /\ n <= HeadLen + PageLen
    OBVIOUS
  <2>6. s[1].got_range = part
    <3>1. CASE req.mime_flag
      BY <2>4, <3>1
    <3>2. CASE ~req.mime_flag
      <4>1. req.got_range = FALSE
        BY <1>2, <3>2
      <4>2. h.got_range = FALSE /\ s[1].got_range = h.got_range
        BY <1>2, <2>1, <2>4, <3>2, <4>1
      <4>3. part = FALSE
        BY <2>2, <3>2 DEF InRange, Partial
      <4> HIDE DEF part, s, h
      <4> QED
        BY <4>2, <4>3
    <3> QED
      BY <3>1, <3>2
  <2> HIDE DEF h, s, n
  <2>7. next = First /\ end = End
    <3>1. CASE part
      <4>1. s[1].first = req.first /\ s[1].last = LastByte
        BY <1>2, <2>1, <2>2, <2>4, <3>1 DEF InRange
      <4> QED
        BY <1>2, <2>2, <2>6, <3>1, <4>1, PartFacts
    <3>2. CASE ~part
      <4>1. First = 0 /\ End = size
        BY <1>2, <2>2, <3>2, PartFacts
      <4> QED
        BY <2>4, <2>6, <3>2, <4>1
    <3> QED
      BY <3>1, <3>2
  <2>8. req.mime_flag => /\ s[2].told = End - First
                         /\ (s[1].status = 206) = (End - First < size)
    <3> SUFFICES ASSUME req.mime_flag PROVE /\ s[2].told = End - First
                                            /\ (s[1].status = 206) = (End - First < size)
      OBVIOUS
    <3>1. CASE part
      <4>1. s[2].told = LastByte - req.first + 1 /\ s[1].status = 206
        <5>1. h.last = LastByte /\ h.first = req.first
          BY <1>2, <2>1, <2>2, <3>1 DEF InRange
        <5> HIDE DEF part
        <5> QED
          BY <2>4, <3>1, <5>1
      <4> QED
        BY <1>2, <2>2, <3>1, <4>1, PartFacts
    <3>2. CASE ~part
      <4>1. First = 0 /\ End = size /\ s[2].told = size /\ s[1].status = 200
        BY <1>2, <2>2, <2>4, <3>2, PartFacts
      <4> QED
        BY <1>2, <4>1
    <3> QED
      BY <3>1, <3>2
  <2> HIDE DEF part, next, end
  <2>9. /\ First' = First /\ End' = End /\ LastByte' = LastByte /\ sb'.size = size
        /\ First \in Nat /\ End \in Nat /\ First <= End
    BY <1>1, <1>2, PartFacts DEF First, End, InRange, LastByte
  <2>10. /\ conn' \in [next : Nat, end : Nat] /\ conn'.next = First /\ conn'.end = End
    BY <1>4, <2>7, <2>9
  <2>11. /\ s[1] \in HcType /\ s[1].responselen = n /\ s[1].file = size
         /\ s[2] \in WireType /\ s[2].text = s[2].sent + n /\ s[2].answers = 1
         /\ s[2].body = <<>> /\ ~s[2].gone
    BY <1>2, <2>1, <2>4, <2>5 DEF Headed, WireType, Waiting
  <2>12. <<>> = Offsets(First, First - 1)
    BY <2>9, OffsetsFacts
  <2>13. CASE next >= end
    <3>1. /\ Finished(h, wire, hc', wire') /\ pc' = "closed"
          /\ hc'.status = s[1].status /\ wire'.told = s[2].told
      <4>1. Flush(s)
        BY <1>4, <2>13 DEF next, end
      <4>2. Waiting(h, wire)
        BY <1>2, <2>1 DEF Waiting
      <4> QED
        BY <1>2, <2>1, <2>4, <2>5, <4>1, <4>2, Flushed
    <3>2. /\ hc' \in HcType /\ hc'.responselen = 0 /\ hc'.file = size
          /\ wire' \in WireType /\ wire'.answers = 1 /\ Written(wire')
          /\ wire'.body = <<>>
      BY <1>2, <2>1, <3>1 DEF Finished
    <3>3. hc'.status = s[1].status /\ wire'.told = s[2].told
      BY <3>1
    <3>4. First = End
      BY <2>7, <2>9, <2>13
    <3>5. Typed'
      BY <1>1, <2>10, <3>1, <3>2, <2>9 DEF RspInv, Typed, Closed
    <3>6. Unanswered'
      BY <3>1 DEF Unanswered, Asked
    <3>7. Balanced'
      <4>1. ~wire'.gone => Waiting(hc', wire')
        BY <3>2 DEF Written, Waiting, WireType
      <4> QED
        BY <3>1, <3>2, <4>1 DEF Balanced, Asked
    <3>8. Windowed'
      BY <1>1, <2>8, <2>9, <2>10, <2>12, <3>1, <3>2, <3>3, <3>4 DEF Windowed, Closed
    <3> QED
      BY <3>5, <3>6, <3>7, <3>8 DEF RspInv
  <2>14. CASE ~(next >= end)
    <3>1. hc' = s[1] /\ wire' = s[2] /\ pc' = "sending"
      BY <1>4, <2>14
    <3>2. First < End
      BY <2>7, <2>9, <2>14
    <3>3. Typed'
      BY <1>1, <2>5, <2>9, <2>10, <2>11, <3>1 DEF RspInv, Typed
    <3>4. Unanswered'
      BY <3>1 DEF Unanswered, Asked
    <3>5. Balanced'
      BY <2>11, <3>1 DEF Balanced, Waiting, Asked
    <3>6. size # Null
      BY <1>2 DEF Null
    <3>7. Windowed'
      BY <1>1, <2>8, <2>9, <2>10, <2>11, <2>12, <3>1, <3>2, <3>6 DEF Windowed, Closed
    <3> QED
      BY <3>3, <3>4, <3>5, <3>7 DEF RspInv
  <2> QED
    BY <2>13, <2>14
<1> QED
  BY <1>3, <1>4 DEF Map, Set

(* writev() takes the text first, then what follows of the part, and no    *)
(* more than the part.                                                     *)
LEMMA HandleSendInv ==
  ASSUME RspInv, NEW sz \in Nat, HandleSend(sz)
  PROVE  RspInv'
<1> DEFINE ofText == Smaller(sz, hc.responselen)
           ofFile == sz - ofText
<1>1. /\ pc = "sending" /\ sz <= hc.responselen + Window
      /\ hc' = [hc EXCEPT !.responselen = @ - ofText, !.bytes_sent = @ + ofFile]
      /\ conn' = [conn EXCEPT !.next = @ + ofFile]
      /\ wire' = [wire EXCEPT !.sent = @ + ofText,
                              !.body = @ \o [i \in 1..ofFile |-> conn.next + i - 1]]
      /\ pc' = IF conn.next + ofFile >= conn.end THEN "closed" ELSE "sending"
      /\ UNCHANGED <<req, tree, changes, expn, sb, cmd>>
  BY DEF HandleSend
<1>2. /\ hc \in HcType /\ wire \in WireType /\ sb.size \in Nat /\ req \in Requests
      /\ conn \in [next : Nat, end : Nat] /\ hc.responselen <= HeadLen + PageLen
      /\ hc.responselen \in Nat /\ hc.bytes_sent \in Nat
      /\ conn.next \in Nat /\ conn.end \in Nat
      /\ wire.sent \in Nat /\ wire.text \in Nat
  BY DEF RspInv, Typed, HcType, WireType
<1>3. /\ hc.file # Null /\ First <= conn.next /\ conn.end = End /\ conn.next < conn.end
      /\ wire.body = Offsets(First, conn.next - 1)
      /\ First < conn.next => hc.responselen = 0
      /\ req.mime_flag => /\ wire.told = End - First
                          /\ (hc.status = 206) = (End - First < sb.size)
      /\ wire.answers = 1 /\ wire.text = wire.sent + hc.responselen /\ ~wire.gone
  BY <1>1, <1>2 DEF RspInv, Windowed, Balanced, Waiting, Asked, Closed
<1>4. /\ ofText \in Nat /\ ofText <= hc.responselen /\ ofFile \in Nat
      /\ conn.next + ofFile <= conn.end
      /\ ofFile > 0 => ofText = hc.responselen
  BY <1>1, <1>2, <1>3 DEF Smaller, Window
<1> DEFINE len == hc.responselen - ofText
           sent == wire.sent + ofText
           count == hc.bytes_sent + ofFile
           next == conn.next + ofFile
           body == wire.body \o [i \in 1..ofFile |-> conn.next + i - 1]
<1>5. /\ len \in Nat /\ sent \in Nat /\ count \in Nat /\ next \in Nat
      /\ len <= HeadLen + PageLen /\ next <= conn.end /\ sent + len = wire.text
      /\ First <= next /\ (First < next => len = 0)
  <2>1. First \in Nat
    BY <1>2, PartFacts
  <2> HIDE DEF ofText, ofFile
  <2>2. /\ len \in Nat /\ sent \in Nat /\ count \in Nat /\ next \in Nat
        /\ len <= HeadLen + PageLen /\ next <= conn.end /\ First <= next
    BY <1>2, <1>3, <1>4, <2>1
  <2>3. sent + len = wire.text
    BY <1>2, <1>3, <1>4
  <2>4. ASSUME First < next PROVE len = 0
    <3>1. First < conn.next \/ ofFile > 0
      BY <1>2, <1>3, <1>4, <2>1, <2>4
    <3> QED
      BY <1>2, <1>3, <1>4, <3>1
  <2> QED
    BY <2>2, <2>3, <2>4
<1>6. body = Offsets(First, next - 1) /\ body \in Seq(Nat)
  <2>1. First \in Nat
    BY <1>2, PartFacts
  <2> HIDE DEF ofFile
  <2>2. body = Offsets(First, next - 1)
    <3> DEFINE a == First
               b == conn.next
    <3>1. a \in Nat /\ b \in Nat /\ ofFile \in Nat /\ a <= b
      BY <1>2, <1>3, <1>4, <2>1
    <3> HIDE DEF a, b
    <3>2. Offsets(a, b - 1) \o [i \in 1..ofFile |-> b + i - 1] = Offsets(a, (b + ofFile) - 1)
      BY <3>1, OffsetsContinue
    <3> QED
      BY <1>3, <3>2 DEF a, b
  <2>3. Offsets(First, next - 1) \in Seq(Nat)
    <3> HIDE DEF next
    <3> QED
      BY <1>5, <2>1, OffsetsFacts
  <2> QED
    BY <2>2, <2>3
<1>7. /\ hc' = [hc EXCEPT !.responselen = len, !.bytes_sent = count]
      /\ conn' = [conn EXCEPT !.next = next]
      /\ wire' = [wire EXCEPT !.sent = sent, !.body = body]
      /\ pc' = IF next >= conn.end THEN "closed" ELSE "sending"
  BY <1>1, <1>2
<1> HIDE DEF len, sent, count, next, body
<1>8. hc' \in HcType
  BY <1>2, <1>5, <1>7 DEF HcType
<1>9. hc'.responselen = len /\ hc'.file = hc.file /\ hc'.status = hc.status
  BY <1>2, <1>7 DEF HcType
<1>10. wire' \in WireType
  BY <1>2, <1>5, <1>6, <1>7 DEF WireType
<1>11. /\ wire'.sent = sent /\ wire'.body = body /\ wire'.text = wire.text
       /\ wire'.answers = wire.answers /\ wire'.told = wire.told /\ wire'.gone = wire.gone
  BY <1>2, <1>7 DEF WireType
<1>12. conn' \in [next : Nat, end : Nat] /\ conn'.next = next /\ conn'.end = conn.end
  BY <1>2, <1>5, <1>7
<1>13. First' = First /\ End' = End /\ sb' = sb /\ req' = req
  BY <1>1 DEF First, End, InRange, LastByte
<1>14. Typed'
  BY <1>1, <1>5, <1>7, <1>8, <1>9, <1>10, <1>12 DEF RspInv, Typed, Closed
<1>15. Unanswered'
  BY <1>7 DEF Unanswered, Asked
<1>16. Balanced'
  <2>1. pc' \notin Asked
    BY <1>7 DEF Asked
  <2>2. wire'.answers = 1 /\ ~wire'.gone /\ Waiting(hc', wire')
    BY <1>3, <1>5, <1>9, <1>11 DEF Waiting
  <2>3. pc' = "closed" => hc'.responselen = 0
    <3>1. First < conn.end
      BY <1>2, <1>3, PartFacts
    <3> QED
      BY <1>2, <1>5, <1>7, <1>9, <3>1
  <2> QED
    BY <2>1, <2>2, <2>3 DEF Balanced
<1>17. Windowed'
  <2>1. pc' \in {"sending"} \cup Closed /\ hc'.file # Null
    BY <1>3, <1>7, <1>9 DEF Closed
  <2>2. First' <= conn'.next /\ conn'.end = End'
    BY <1>3, <1>5, <1>12, <1>13
  <2>3. wire'.body = Offsets(First', conn'.next - 1)
    BY <1>6, <1>11, <1>12, <1>13
  <2>4. /\ pc' = "sending" => conn'.next < conn'.end
        /\ pc' = "closed" => conn'.next = conn'.end
        /\ First' < conn'.next => hc'.responselen = 0
    BY <1>2, <1>5, <1>7, <1>9, <1>12, <1>13
  <2>5. req'.mime_flag => /\ wire'.told = End' - First'
                          /\ (hc'.status = 206) = (End' - First' < sb'.size)
    BY <1>3, <1>9, <1>11, <1>13
  <2> QED
    BY <2>1, <2>2, <2>3, <2>4, <2>5 DEF Windowed
<1> QED
  BY <1>14, <1>15, <1>16, <1>17 DEF RspInv

(* A connection may be given up while the file is sent.                    *)
LEMMA AbortInv ==
  ASSUME RspInv, Abort
  PROVE  RspInv'
<1>1. pc = "sending" /\ pc' = "aborted"
      /\ UNCHANGED <<req, tree, changes, expn, sb, hc, conn, wire, cmd>>
  BY DEF Abort
<1>2. First' = First /\ End' = End
  BY <1>1 DEF First, End, InRange, LastByte
<1>3. Typed'
  BY <1>1 DEF RspInv, Typed, Closed
<1>4. Unanswered' /\ Balanced'
  BY <1>1 DEF RspInv, Unanswered, Balanced, Asked
<1>5. Windowed'
  BY <1>1, <1>2 DEF RspInv, Windowed, Closed
<1> QED
  BY <1>3, <1>4, <1>5 DEF RspInv

(* Other processes change files only, never what was read of them.         *)
LEMMA ChangeInv ==
  ASSUME RspInv, MayChange, changes' = changes + 1,
         DOMAIN tree' \subseteq DOMAIN tree, tree' \in [DOMAIN tree' -> Nodes],
         UNCHANGED <<pc, req, expn, sb, hc, conn, wire, cmd>>
  PROVE  RspInv'
<1>1. First' = First /\ End' = End /\ LastByte' = LastByte
  BY DEF First, End, InRange, LastByte
<1>2. changes' \in 0..MaxChanges
  BY MaxChangesAssumption DEF RspInv, Typed, MayChange
<1>3. Typed'
  BY <1>2 DEF RspInv, Typed
<1>4. Unanswered' /\ Balanced'
  BY <1>1 DEF RspInv, Unanswered, Balanced
<1>5. Windowed'
  BY <1>1 DEF RspInv, Windowed
<1> QED
  BY <1>3, <1>4, <1>5 DEF RspInv

(* They write a file of another size.                                      *)
LEMMA RewriteInv ==
  ASSUME RspInv, NEW p, NEW size \in Sizes, Rewrite(p, size)
  PROVE  RspInv'
<1>1. /\ p \in DOMAIN tree /\ MayChange /\ changes' = changes + 1
      /\ tree' = [tree EXCEPT ![p].size = size, ![p].mtime = @ + 1]
      /\ UNCHANGED <<pc, req, expn, sb, hc, conn, wire, cmd>>
  BY DEF Rewrite
<1>2. tree \in [DOMAIN tree -> Nodes]
  BY DEF RspInv, Typed
<1>3. tree[p] \in Nodes
  BY <1>1, <1>2
<1>4. size \in Nat /\ tree[p].mtime + 1 \in Nat
  BY <1>3, SizesAssumption DEF Nodes
<1> DEFINE mtime == tree[p].mtime + 1
           node == [tree[p] EXCEPT !.size = size, !.mtime = mtime]
<1>5. tree' = [tree EXCEPT ![p] = node]
  BY <1>1, <1>2, <1>3 DEF Nodes
<1> HIDE DEF mtime
<1>6. node \in Nodes
  BY <1>3, <1>4 DEF Nodes, mtime
<1> HIDE DEF node
<1>7. DOMAIN tree' = DOMAIN tree /\ tree' \in [DOMAIN tree -> Nodes]
  BY <1>2, <1>5, <1>6
<1> QED
  BY <1>1, <1>7, ChangeInv

(* Or remove one.                                                          *)
LEMMA UnlinkInv ==
  ASSUME RspInv, NEW p, Unlink(p)
  PROVE  RspInv'
<1>1. /\ MayChange /\ changes' = changes + 1
      /\ tree' = [q \in DOMAIN tree \ {p} |-> tree[q]]
      /\ UNCHANGED <<pc, req, expn, sb, hc, conn, wire, cmd>>
  BY DEF Unlink
<1>2. tree \in [DOMAIN tree -> Nodes]
  BY DEF RspInv, Typed
<1>3. DOMAIN tree' = DOMAIN tree \ {p} /\ tree' \in [DOMAIN tree \ {p} -> Nodes]
  BY <1>1, <1>2
<1> QED
  BY <1>1, <1>3, ChangeInv

-----------------------------------------------------------------------------
(* An internal command                                                     *)

(* The fields of a command are there whatever is set.                      *)
LEMMA CmdFields ==
  ASSUME NEW c, CmdShape(c)
  PROVE  DOMAIN c = DOMAIN NoCmd
         /\ {"pc", "text", "buf", "left", "want", "calls", "reply", "ok", "spill",
             "groups", "i", "works", "j"} = DOMAIN c
BY DEF CmdShape, NoCmd

(* Pieces are appended to a reply; if they claim nothing it claims no more.*)
LEMMA ReplyGrows ==
  ASSUME NEW s \in Seq(Words), NEW t \in Seq(Words)
  PROVE  s \o t \in Seq(Words) /\ (Modest(s) /\ Modest(t) => Modest(s \o t))
<1>1. s \o t \in Seq(Words) /\ Len(s \o t) = Len(s) + Len(t)
  OBVIOUS
<1>2. ASSUME Modest(s), Modest(t), NEW i \in 1..Len(s \o t) PROVE (s \o t)[i] \notin Claims
  <2>1. CASE i <= Len(s)
    BY <1>2, <2>1 DEF Modest
  <2>2. CASE i > Len(s)
    <3>1. (s \o t)[i] = t[i - Len(s)] /\ i - Len(s) \in 1..Len(t)
      BY <1>1, <2>2
    <3> QED
      BY <1>2, <3>1 DEF Modest
  <2>3. i <= Len(s) \/ i > Len(s)
    BY <1>1
  <2> QED
    BY <2>1, <2>2, <2>3
<1>3. DOMAIN (s \o t) = 1..Len(s \o t)
  BY <1>1
<1> QED
  BY <1>1, <1>2, <1>3 DEF Modest

(* Another call of the camera.                                             *)
LEMMA CallsGrow ==
  ASSUME NEW s, s \in Seq(ToSet(s)), NEW op, NEW args, NEW answer, NEW out
  PROVE  LET call == [op |-> op, args |-> args, answer |-> answer, out |-> out]
         IN /\ Append(s, call) \in Seq(ToSet(Append(s, call)))
            /\ Honest(s) /\ answer = 0 => Honest(Append(s, call))
<1> DEFINE call == [op |-> op, args |-> args, answer |-> answer, out |-> out]
           t == Append(s, call)
           S == ToSet(s) \cup {call}
<1>1. call.answer = answer
  OBVIOUS
<1> HIDE DEF call
<1>2. s \in Seq(S) /\ call \in S
  OBVIOUS
<1>3. /\ t \in Seq(S) /\ Len(t) = Len(s) + 1 /\ Len(s) \in Nat
      /\ \A i \in 1..Len(s) : t[i] = s[i]
      /\ t[Len(s) + 1] = call
  <2> HIDE DEF S
  <2> QED
    BY <1>2
<1> HIDE DEF t, S
<1>4. DOMAIN t = 1..Len(t) /\ DOMAIN s = 1..Len(s) /\ Len(t) \in Nat
  BY <1>2, <1>3
<1>5. t \in Seq(ToSet(t))
  <2>1. \A i \in 1..Len(t) : t[i] \in ToSet(t)
    BY <1>4 DEF ToSet
  <2>2. t = [i \in 1..Len(t) |-> t[i]]
    BY <1>3, <1>4
  <2> QED
    BY <1>4, <2>1, <2>2
<1>6. ASSUME Honest(s), answer = 0 PROVE Honest(t)
  <2>1. ASSUME NEW i \in DOMAIN t PROVE t[i].answer = 0
    <3>1. i \in 1..Len(s) \/ i = Len(s) + 1
      BY <1>3, <1>4
    <3> QED
      BY <1>1, <1>3, <1>4, <1>6, <3>1 DEF Honest
  <2> QED
    BY <2>1 DEF Honest
<1> QED
  BY <1>5, <1>6 DEF t, call

(* An operation of the camera is noted, and only that.                     *)
LEMMA CalledFacts ==
  ASSUME NEW c, CmdShape(c), NEW op, NEW args, NEW answer, NEW out
  PROVE  LET c1 == Called(c, op, args, answer, out)
         IN /\ CmdShape(c1) /\ c1.reply = c.reply /\ c1.pc = c.pc
            /\ Honest(c.calls) /\ answer = 0 => Honest(c1.calls)
<1> DEFINE call == [op |-> op, args |-> args, answer |-> answer, out |-> out]
           calls == Append(c.calls, call)
           c1 == [c EXCEPT !.calls = calls]
<1>1. calls \in Seq(ToSet(calls)) /\ (Honest(c.calls) /\ answer = 0 => Honest(calls))
  BY CallsGrow DEF CmdShape
<1>2. Called(c, op, args, answer, out) = c1
  BY CmdFields DEF Called
<1> HIDE DEF calls
<1>3. c1.calls = calls /\ c1.reply = c.reply /\ c1.pc = c.pc /\ DOMAIN c1 = DOMAIN NoCmd
      /\ c1 = [k \in DOMAIN c1 |-> c1[k]]
  BY CmdFields
<1> HIDE DEF c1
<1>4. CmdShape(c1)
  BY <1>1, <1>3 DEF CmdShape
<1> QED
  BY <1>1, <1>2, <1>3, <1>4

(* A handler that ends claims success only if the camera never failed.     *)
LEMMA FinishSane ==
  ASSUME NEW c, CmdShape(c), NEW ok, NEW reply \in Seq(Words), Modest(c.reply),
         Modest(reply) \/ Honest(c.calls)
  PROVE  CmdSane(Finish(c, ok, reply))
<1> DEFINE out == c.reply \o reply
           c1 == [c EXCEPT !.pc = "done", !.ok = ok, !.reply = out]
<1>1. out \in Seq(Words) /\ (Modest(reply) => Modest(out))
  BY ReplyGrows DEF CmdShape
<1>2. Finish(c, ok, reply) = c1
  BY CmdFields DEF Finish
<1> HIDE DEF out
<1>3. c1.calls = c.calls /\ c1.reply = out /\ c1.pc = "done" /\ DOMAIN c1 = DOMAIN NoCmd
      /\ c1 = [k \in DOMAIN c1 |-> c1[k]]
  BY CmdFields
<1> HIDE DEF c1
<1> QED
  BY <1>1, <1>2, <1>3 DEF CmdSane, CmdShape

(* One that goes on has claimed nothing, and no call has failed.           *)
LEMMA GoesOn ==
  ASSUME NEW c, CmdShape(c), NEW c1, NEW pieces \in Seq(Words), Modest(pieces),
         Modest(c.reply), Honest(c.calls),
         c1 = [k \in DOMAIN c |-> c1[k]], DOMAIN c1 = DOMAIN c, c1.calls = c.calls,
         c1.reply = c.reply \o pieces,
         c1.pc \notin {"idle", "body", "dispatch"}
  PROVE  CmdSane(c1)
<1>1. c1.reply \in Seq(Words) /\ Modest(c1.reply)
  BY ReplyGrows DEF CmdShape
<1>2. CmdShape(c1)
  BY <1>1, CmdFields DEF CmdShape
<1> QED
  BY <1>1, <1>2 DEF CmdSane

(* Nothing is asked or printed before the text is complete.                *)
LEMMA StillAsking ==
  ASSUME CmdSane(cmd), cmd.pc \in {"idle", "body", "dispatch"},
         cmd' = [k \in DOMAIN cmd |-> cmd'[k]], DOMAIN cmd' = DOMAIN cmd,
         cmd'.calls = cmd.calls, cmd'.reply = cmd.reply
  PROVE  CmdSane(cmd)'
<1>1. cmd.calls = <<>> /\ cmd.reply = <<>> /\ CmdShape(cmd)
  BY DEF CmdSane
<1>2. Modest(<<>>) /\ Honest(<<>>)
  BY DEF Modest, Honest
<1>3. CmdShape(cmd')
  BY <1>1, CmdFields DEF CmdShape
<1> QED
  BY <1>1, <1>2, <1>3 DEF CmdSane

(* A piece of one word.                                                    *)
LEMMA OneWord ==
  ASSUME NEW w \in Words
  PROVE  <<w>> \in Seq(Words) /\ (w \notin Claims => Modest(<<w>>))
<1>1. <<w>> \in Seq(Words) /\ Len(<<w>>) = 1 /\ <<w>>[1] = w
  OBVIOUS
<1>2. DOMAIN <<w>> = 1..1
  BY <1>1
<1>3. ASSUME NEW k \in DOMAIN <<w>> PROVE <<w>>[k] = w
  <2>1. k = 1
    BY <1>2, <1>3
  <2> QED
    BY <2>1
<1> QED
  BY <1>1, <1>3 DEF Modest

(* A piece of two words.                                                   *)
LEMMA TwoWords ==
  ASSUME NEW v \in Words, NEW w \in Words
  PROVE  <<v, w>> \in Seq(Words) /\ (v \notin Claims /\ w \notin Claims => Modest(<<v, w>>))
<1>1. /\ <<v, w>> \in Seq(Words) /\ Len(<<v, w>>) = 2
      /\ <<v, w>>[1] = v /\ <<v, w>>[2] = w
  OBVIOUS
<1>2. DOMAIN <<v, w>> = 1..2
  BY <1>1
<1>3. ASSUME NEW k \in DOMAIN <<v, w>> PROVE <<v, w>>[k] \in {v, w}
  <2>1. k = 1 \/ k = 2
    BY <1>2, <1>3
  <2> QED
    BY <1>1, <2>1
<1> QED
  BY <1>1, <1>3 DEF Modest

(* The words a handler prints that claim nothing.                          *)
LEMMA ModestWords ==
  /\ \A w \in {"no_sd", "rtn_error", "json", "parser_error", "cmd_invalid"} :
       <<w>> \in Seq(Words) /\ Modest(<<w>>)
  /\ <<>> \in Seq(Words) /\ Modest(<<>>)
  /\ <<"object", "list">> \in Seq(Words) /\ Modest(<<"object", "list">>)
  /\ <<"endlist", "endobject">> \in Seq(Words) /\ Modest(<<"endlist", "endobject">>)
<1>1. \A w \in {"no_sd", "rtn_error", "json", "parser_error", "cmd_invalid",
                "object", "endobject", "list", "endlist", "comma"} : w \in Words /\ w \notin Claims
  BY DEF Words, Claims
<1>2. <<>> \in Seq(Words) /\ Modest(<<>>)
  BY DEF Modest
<1>3. \A w \in {"no_sd", "rtn_error", "json", "parser_error", "cmd_invalid"} :
        <<w>> \in Seq(Words) /\ Modest(<<w>>)
  BY <1>1, OneWord
<1>4. /\ <<"object", "list">> \in Seq(Words) /\ Modest(<<"object", "list">>)
      /\ <<"endlist", "endobject">> \in Seq(Words) /\ Modest(<<"endlist", "endobject">>)
  BY <1>1, TwoWords
<1> QED
  BY <1>2, <1>3, <1>4

(* The start of a command.                                                 *)
LEMMA BeginSane ==
  ASSUME CmdSane(cmd), NEW method, NEW in, Begin(method, in)
  PROVE  CmdSane(cmd)'
<1>1. cmd.pc = "idle" /\ CmdShape(cmd)
  BY DEF Begin, CmdSane
<1>2. PICK spill \in Spills :
        LET c == [cmd EXCEPT !.spill = spill]
            text == in.name \o THTTPD_strdecode(Upto(in.query, MAX_CNT_CGI))
            buf == Upto(in.buffered, MAX_CNT_CGI - 1)
        IN \/ cmd' = [c EXCEPT !.pc = "done", !.ok = FALSE]
           \/ cmd' = [c EXCEPT !.pc = "dispatch", !.text = text]
           \/ cmd' = [c EXCEPT !.pc = "body", !.text = in.name, !.buf = buf,
                               !.left = in.arriving, !.want = in.contentlength]
  BY DEF Begin
<1> DEFINE text == in.name \o THTTPD_strdecode(Upto(in.query, MAX_CNT_CGI))
           buf == Upto(in.buffered, MAX_CNT_CGI - 1)
<1> HIDE DEF text, buf
<1>3. \/ cmd' = [[cmd EXCEPT !.spill = spill] EXCEPT !.pc = "done", !.ok = FALSE]
      \/ cmd' = [[cmd EXCEPT !.spill = spill] EXCEPT !.pc = "dispatch", !.text = text]
      \/ cmd' = [[cmd EXCEPT !.spill = spill] EXCEPT !.pc = "body", !.text = in.name,
                   !.buf = buf, !.left = in.arriving, !.want = in.contentlength]
  BY <1>2 DEF text, buf
<1>4. /\ cmd' = [k \in DOMAIN cmd |-> cmd'[k]] /\ DOMAIN cmd' = DOMAIN cmd
      /\ cmd'.calls = cmd.calls /\ cmd'.reply = cmd.reply
  BY <1>1, <1>3, CmdFields
<1> QED
  BY <1>1, <1>4, StillAsking

(* The body is read.                                                       *)
LEMMA BodySane ==
  ASSUME CmdSane(cmd), EndBody \/ \E n \in 1..MAX_CNT_CGI : ReadBody(n)
  PROVE  CmdSane(cmd)'
<1>1. cmd.pc = "body" /\ CmdShape(cmd)
  BY DEF EndBody, ReadBody, CmdSane
<1>2. /\ cmd' = [k \in DOMAIN cmd |-> cmd'[k]] /\ DOMAIN cmd' = DOMAIN cmd
      /\ cmd'.calls = cmd.calls /\ cmd'.reply = cmd.reply
  <2>1. CASE EndBody
    BY <1>1, <2>1, CmdFields DEF EndBody
  <2>2. CASE \E n \in 1..MAX_CNT_CGI : ReadBody(n)
    BY <1>1, <2>2, CmdFields DEF ReadBody
  <2> QED
    BY <2>1, <2>2
<1> QED
  BY <1>1, <1>2, StillAsking

(* A handler's call and what it leads to.                                  *)
LEMMA AskSane ==
  ASSUME NEW c, CmdSane(c), c.pc = "dispatch", NEW h, NEW act, NEW val, NEW answer
  PROVE  CmdSane(Ask(c, h, act, val, answer))
<1> DEFINE takes == IF act = "set" THEN h.takes
                    ELSE IF "index" \in h.needs THEN <<"index">> ELSE <<>>
           op == Operation(h, act)
           args == Given(val, takes)
           c1 == Called(c, op, args, answer, 0)
           word == IF act = "set" THEN "success" ELSE "value"
<1> HIDE DEF op, args
<1>1. CmdShape(c) /\ Modest(c.reply) /\ Honest(c.calls) /\ c.reply = <<>>
  BY DEF CmdSane
<1>2. CmdShape(c1) /\ Modest(c1.reply) /\ c1.reply = <<>> /\ (answer = 0 => Honest(c1.calls))
  BY <1>1, CalledFacts
<1>3. \/ Ask(c, h, act, val, answer) = Finish(c1, FALSE, <<"no_sd">>)
      \/ Ask(c, h, act, val, answer) = Finish(c1, h = GetRemoteFileList, <<"rtn_error">>)
      \/ answer = 0 /\ Ask(c, h, act, val, answer) = [c1 EXCEPT !.pc = "groups"]
      \/ answer = 0 /\ Ask(c, h, act, val, answer) = Finish(c1, TRUE, <<word>>)
  BY DEF Ask, op, args
<1> HIDE DEF c1
<1>4. <<word>> \in Seq(Words)
  <2>1. word \in Words
    BY DEF Words, Claims
  <2> HIDE DEF word
  <2> QED
    BY <2>1, OneWord
<1>5. CmdSane(Finish(c1, FALSE, <<"no_sd">>))
  BY <1>2, FinishSane, ModestWords
<1>6. CmdSane(Finish(c1, h = GetRemoteFileList, <<"rtn_error">>))
  BY <1>2, FinishSane, ModestWords
<1>7. ASSUME answer = 0 PROVE CmdSane(Finish(c1, TRUE, <<word>>))
  <2> HIDE DEF word
  <2> QED
    BY <1>2, <1>4, <1>7, FinishSane
<1>8. ASSUME answer = 0 PROVE CmdSane([c1 EXCEPT !.pc = "groups"])
  <2> DEFINE c2 == [c1 EXCEPT !.pc = "groups"]
  <2>1. /\ c2 = [k \in DOMAIN c1 |-> c2[k]] /\ DOMAIN c2 = DOMAIN c1 /\ c2.calls = c1.calls
        /\ c2.reply = c1.reply /\ c2.pc = "groups"
    BY <1>2, CmdFields
  <2>2. c1.reply \o <<>> = c1.reply
    BY <1>2
  <2> HIDE DEF c2
  <2>3. CmdSane(c2)
    BY <1>2, <1>8, <2>1, <2>2, GoesOn, ModestWords
  <2> QED
    BY <2>3 DEF c2
<1> QED
  BY <1>3, <1>5, <1>6, <1>7, <1>8

(* The command is looked up and its arguments are parsed; whatever comes   *)
(* of it, a refusal or one call.                                           *)
LEMMA DispatchSane ==
  ASSUME CmdSane(cmd), Dispatch
  PROVE  CmdSane(cmd)'
<1>1. cmd.pc = "dispatch" /\ CmdShape(cmd) /\ Modest(cmd.reply)
  BY DEF Dispatch, CmdSane
<1> DEFINE p == Parsed(cmd.text)
           h == Handler[p.e.proc]
           a == IF h.table = <<>> THEN [ret |-> "ok", val |-> <<>>, isset |-> {}]
                ELSE ARG_Parser(h.table, p.args, cmd.spill)
           act == Act(p.e, a.val)
           word == IF h = SysTimeCfg THEN "json" ELSE "parser_error"
<1>2. \/ cmd' = Finish(cmd, FALSE, <<>>)
      \/ cmd' = Finish(cmd, FALSE, <<word>>)
      \/ cmd' = Finish(cmd, FALSE, <<"cmd_invalid">>)
      \/ \E answer \in Answers : cmd' = Ask(cmd, h, act, a.val, answer)
  BY DEF Dispatch, Handle, Parse
<1>3. word \in {"json", "parser_error"}
  OBVIOUS
<1> HIDE DEF h, a, act, word
<1>4. CmdSane(Finish(cmd, FALSE, <<>>)) /\ CmdSane(Finish(cmd, FALSE, <<word>>))
      /\ CmdSane(Finish(cmd, FALSE, <<"cmd_invalid">>))
  BY <1>1, <1>3, FinishSane, ModestWords
<1>5. \A answer \in Answers : CmdSane(Ask(cmd, h, act, a.val, answer))
  BY <1>1, AskSane
<1> QED
  BY <1>2, <1>4, <1>5

(* The pieces of a list are brackets and commas.                           *)
LEMMA BracketsModest ==
  ASSUME NEW c
  PROVE  CloseWork(c) \in Seq(Words) /\ Modest(CloseWork(c))
<1> DEFINE B == {"object", "endobject", "list", "endlist", "comma"}
<1>1. \A w \in B : w \in Words /\ w \notin Claims
  BY DEF Words, Claims
<1>2. "object" \in B /\ "endobject" \in B /\ "endlist" \in B /\ "comma" \in B
  OBVIOUS
<1> HIDE DEF B
<1>3. ASSUME NEW u \in B, NEW v \in B, NEW w \in B
      PROVE  <<u, v, w>> \in Seq(Words) /\ Modest(<<u, v, w>>)
  <2>1. /\ <<u, v, w>> \in Seq(Words) /\ Len(<<u, v, w>>) = 3
        /\ <<u, v, w>>[1] = u /\ <<u, v, w>>[2] = v /\ <<u, v, w>>[3] = w
    BY <1>1
  <2>2. ASSUME NEW k \in DOMAIN <<u, v, w>> PROVE <<u, v, w>>[k] \in B
    <3>1. k = 1 \/ k = 2 \/ k = 3
      BY <2>1, <2>2
    <3> QED
      BY <2>1, <3>1
  <2> QED
    BY <1>1, <2>1, <2>2 DEF Modest
<1>4. ASSUME NEW u \in B, NEW v \in B, NEW w \in B, NEW x \in B
      PROVE  <<u, v, w, x>> \in Seq(Words) /\ Modest(<<u, v, w, x>>)
  <2>1. /\ <<u, v, w, x>> \in Seq(Words) /\ Len(<<u, v, w, x>>) = 4
        /\ <<u, v, w, x>>[1] = u /\ <<u, v, w, x>>[2] = v
        /\ <<u, v, w, x>>[3] = w /\ <<u, v, w, x>>[4] = x
    BY <1>1
  <2>2. ASSUME NEW k \in DOMAIN <<u, v, w, x>> PROVE <<u, v, w, x>>[k] \in B
    <3>1. k = 1 \/ k = 2 \/ k = 3 \/ k = 4
      BY <2>1, <2>2
    <3> QED
      BY <2>1, <3>1
  <2> QED
    BY <1>1, <2>1, <2>2 DEF Modest
<1>5. ASSUME NEW u \in B, NEW v \in B, NEW w \in B, NEW x \in B, NEW y \in B
      PROVE  <<u, v, w, x, y>> \in Seq(Words) /\ Modest(<<u, v, w, x, y>>)
  <2>1. /\ <<u, v, w, x, y>> \in Seq(Words) /\ Len(<<u, v, w, x, y>>) = 5
        /\ <<u, v, w, x, y>>[1] = u /\ <<u, v, w, x, y>>[2] = v
        /\ <<u, v, w, x, y>>[3] = w /\ <<u, v, w, x, y>>[4] = x
        /\ <<u, v, w, x, y>>[5] = y
    BY <1>1
  <2>2. ASSUME NEW k \in DOMAIN <<u, v, w, x, y>> PROVE <<u, v, w, x, y>>[k] \in B
    <3>1. k = 1 \/ k = 2 \/ k = 3 \/ k = 4 \/ k = 5
      BY <2>1, <2>2
    <3> QED
      BY <2>1, <3>1
  <2> QED
    BY <1>1, <2>1, <2>2 DEF Modest
<1>6. CloseWork(c) \in {<<"object", "endobject", "comma">>,
                           <<"object", "endobject", "endlist", "endobject">>,
                           <<"object", "endobject", "endlist", "endobject", "comma">>}
  BY DEF CloseWork
<1>7. /\ <<"object", "endobject", "comma">> \in Seq(Words)
      /\ Modest(<<"object", "endobject", "comma">>)
  BY <1>2, <1>3
<1>8. /\ <<"object", "endobject", "endlist", "endobject">> \in Seq(Words)
      /\ Modest(<<"object", "endobject", "endlist", "endobject">>)
  BY <1>2, <1>4
<1>9. /\ <<"object", "endobject", "endlist", "endobject", "comma">> \in Seq(Words)
      /\ Modest(<<"object", "endobject", "endlist", "endobject", "comma">>)
  BY <1>2, <1>5
<1> QED
  BY <1>6, <1>7, <1>8, <1>9

(* The list of files: an answer that is no success ends it.                *)
LEMMA ListSane ==
  ASSUME CmdSane(cmd),
         \/ \E groups \in 0..MaxGroups : ListStart(groups)
         \/ \E answer \in Answers, works \in 0..MaxWorks : ListGroup(answer, works)
         \/ \E answer \in Answers : ListWork(answer)
         \/ ListEnd
  PROVE  CmdSane(cmd)'
<1>1. cmd.pc \in {"groups", "group", "work"}
  BY DEF ListStart, ListGroup, ListWork, ListEnd
<1>2. CmdShape(cmd) /\ Modest(cmd.reply) /\ Honest(cmd.calls)
  BY <1>1 DEF CmdSane
<1>3. ASSUME NEW groups, ListStart(groups)
      PROVE  CmdSane(cmd)'
  <2>1. cmd' = [[cmd EXCEPT !.reply = @ \o <<"object", "list">>]
                  EXCEPT !.pc = "group", !.groups = groups]
    BY <1>3 DEF ListStart, Say
  <2>2. /\ cmd' = [k \in DOMAIN cmd |-> cmd'[k]] /\ DOMAIN cmd' = DOMAIN cmd
        /\ cmd'.calls = cmd.calls /\ cmd'.reply = cmd.reply \o <<"object", "list">>
        /\ cmd'.pc = "group"
    BY <1>2, <2>1, CmdFields
  <2>3. cmd'.pc \notin {"idle", "body", "dispatch"}
    BY <2>2
  <2> QED
    BY <1>2, <2>2, <2>3, GoesOn, ModestWords
<1>4. ASSUME NEW answer, NEW works, ListGroup(answer, works)
      PROVE  CmdSane(cmd)'
  <2> DEFINE c == Called(cmd, "CMD_GET_WORK_NUMBER", <<cmd.i>>, answer, works)
             next == IF works = 0 THEN "group" ELSE "work"
             i == IF works = 0 THEN c.i + 1 ELSE c.i
             c1 == [[c EXCEPT !.reply = @ \o <<"object", "list">>]
                      EXCEPT !.works = works, !.j = 0, !.pc = next, !.i = i]
  <2>1. /\ CmdShape(c) /\ Modest(c.reply) /\ (answer = 0 => Honest(c.calls))
    BY <1>2, CalledFacts
  <2>2. cmd' = IF answer # 0 THEN Finish(c, FALSE, <<"rtn_error">>)
               ELSE [Say(c, <<"object", "list">>) EXCEPT !.works = works, !.j = 0, !.pc = next,
                                                   !.i = IF works = 0 THEN @ + 1 ELSE @]
    BY <1>4 DEF ListGroup
  <2>3. next \notin {"idle", "body", "dispatch"}
    OBVIOUS
  <2> HIDE DEF c
  <2>4. [Say(c, <<"object", "list">>) EXCEPT !.works = works, !.j = 0, !.pc = next,
                                       !.i = IF works = 0 THEN @ + 1 ELSE @] = c1
    BY <2>1, CmdFields DEF Say
  <2> HIDE DEF next, i
  <2>5. /\ c1 = [k \in DOMAIN c |-> c1[k]] /\ DOMAIN c1 = DOMAIN c
        /\ c1.calls = c.calls /\ c1.reply = c.reply \o <<"object", "list">> /\ c1.pc = next
    BY <2>1, CmdFields
  <2> HIDE DEF c1
  <2>6. answer = 0 => CmdSane(c1)
    BY <2>1, <2>3, <2>5, GoesOn, ModestWords
  <2>7. CmdSane(Finish(c, FALSE, <<"rtn_error">>))
    BY <2>1, FinishSane, ModestWords
  <2> QED
    BY <2>2, <2>4, <2>6, <2>7
<1>5. ASSUME NEW answer, ListWork(answer)
      PROVE  CmdSane(cmd)'
  <2> DEFINE c == Called(cmd, "CMD_GET_FILE_NUMBER_CAMID", <<cmd.i, cmd.j>>, answer, 0)
             last == cmd.j = cmd.works - 1
             next == IF last THEN "group" ELSE "work"
             i == IF last THEN c.i + 1 ELSE c.i
             pieces == CloseWork(cmd)
             c1 == [[c EXCEPT !.reply = @ \o pieces]
                      EXCEPT !.pc = next, !.j = @ + 1, !.i = i]
  <2>1. /\ CmdShape(c) /\ Modest(c.reply) /\ (answer = 0 => Honest(c.calls))
    BY <1>2, CalledFacts
  <2>2. cmd' = IF answer # 0 THEN Finish(c, FALSE, <<"rtn_error">>)
               ELSE [Say(c, pieces) EXCEPT !.pc = next, !.j = @ + 1,
                                           !.i = IF last THEN @ + 1 ELSE @]
    BY <1>5 DEF ListWork
  <2>3. next \notin {"idle", "body", "dispatch"}
    OBVIOUS
  <2>4. pieces \in Seq(Words) /\ Modest(pieces)
    BY BracketsModest
  <2> HIDE DEF c, pieces, last
  <2>5. [Say(c, pieces) EXCEPT !.pc = next, !.j = @ + 1,
                               !.i = IF last THEN @ + 1 ELSE @] = c1
    BY <2>1, CmdFields DEF Say
  <2> HIDE DEF next, i
  <2>6. /\ c1 = [k \in DOMAIN c |-> c1[k]] /\ DOMAIN c1 = DOMAIN c
        /\ c1.calls = c.calls /\ c1.reply = c.reply \o pieces /\ c1.pc = next
    BY <2>1, CmdFields
  <2> HIDE DEF c1
  <2>7. answer = 0 => CmdSane(c1)
    BY <2>1, <2>3, <2>4, <2>6, GoesOn
  <2>8. CmdSane(Finish(c, FALSE, <<"rtn_error">>))
    BY <2>1, FinishSane, ModestWords
  <2> QED
    BY <2>2, <2>5, <2>7, <2>8
<1>6. ASSUME ListEnd
      PROVE  CmdSane(cmd)'
  BY <1>2, <1>6, FinishSane, ModestWords DEF ListEnd
<1> QED
  BY <1>3, <1>4, <1>5, <1>6

(* A step of the command.                                                  *)
LEMMA CgiSane ==
  ASSUME CmdSane(cmd), CgiNext
  PROVE  CmdSane(cmd)'
BY BodySane, DispatchSane, ListSane DEF CgiNext

-----------------------------------------------------------------------------
(* An internal command in the server                                       *)

(* The head is put before the command's text.                              *)
LEMMA InternalStartInv ==
  ASSUME RspInv, InternalStart
  PROVE  RspInv'
<1> DEFINE s == SendMime(hc, wire, 200, -1)
           n == IF req.mime_flag THEN HeadLen ELSE 0
<1>1. /\ pc = "internal" /\ pc \in Asked /\ pc' = "command"
      /\ UNCHANGED <<req, tree, changes, expn, sb, conn>>
      /\ hc' = s[1] /\ wire' = s[2] /\ Begin(req.method, req.icgi)
  BY DEF InternalStart, Set, Asked
<1>2. hc.file = Null /\ wire.body = <<>> /\ wire.answers = 0
  BY <1>1 DEF RspInv, Unanswered, Windowed, Balanced
<1>3. CmdSane(cmd)'
  BY <1>1, BeginSane DEF RspInv, Typed
<1>4. 200 \in Codes /\ -1 \in Int /\ n \in Nat /\ n <= HeadLen + PageLen
  BY DEF Codes
<1>5. Headed(hc, wire, s[1], s[2], n)
  BY <1>1, <1>4, AskedFacts, SendMimeFacts
<1> HIDE DEF s, n
<1>6. /\ hc' \in HcType /\ hc'.responselen = n /\ hc'.file = Null
      /\ wire' \in WireType /\ wire'.text = wire'.sent + n
      /\ wire'.answers = 1 /\ wire'.body = <<>> /\ ~wire'.gone
  <2>1. hc.responselen = 0 /\ wire.text = wire.sent /\ ~wire.gone
    BY <1>1, AskedFacts
  <2> QED
    BY <1>1, <1>2, <1>4, <1>5, <2>1 DEF Headed
<1>7. Typed'
  BY <1>1, <1>3, <1>4, <1>6 DEF RspInv, Typed
<1>8. Unanswered'
  BY <1>1 DEF Unanswered, Asked
<1>9. Balanced'
  BY <1>1, <1>6 DEF Balanced, Waiting, Asked
<1>10. Windowed'
  BY <1>1, <1>6 DEF Windowed
<1> QED
  BY <1>7, <1>8, <1>9, <1>10 DEF RspInv

(* While the command runs the response waits.                              *)
LEMMA InternalStepInv ==
  ASSUME RspInv, InternalStep
  PROVE  RspInv'
<1>1. CgiNext /\ UNCHANGED <<pc, req, tree, changes, expn, sb, hc, conn, wire>>
  BY DEF InternalStep
<1>2. CmdSane(cmd)'
  BY <1>1, CgiSane DEF RspInv, Typed
<1>3. First' = First /\ End' = End /\ LastByte' = LastByte
  BY <1>1 DEF First, End, InRange, LastByte
<1>4. Typed'
  BY <1>1, <1>2 DEF RspInv, Typed
<1>5. Unanswered' /\ Balanced'
  BY <1>1, <1>3 DEF RspInv, Unanswered, Balanced
<1>6. Windowed'
  BY <1>1, <1>3 DEF RspInv, Windowed
<1> QED
  BY <1>4, <1>5, <1>6 DEF RspInv

(* The head and the reply are written.                                     *)
LEMMA InternalReplyInv ==
  ASSUME RspInv, InternalReply
  PROVE  RspInv'
<1> DEFINE n == Len(cmd.reply)
           len == hc.responselen + n
           text == wire.text + n
           h == [hc EXCEPT !.responselen = len]
           w == [wire EXCEPT !.text = text]
<1>1. /\ pc = "command" /\ Flush(<< h, w >>)
      /\ UNCHANGED <<req, tree, changes, expn, sb, conn, cmd>>
  BY DEF InternalReply
<1>2. n \in Nat
  BY DEF RspInv, Typed, CmdSane, CmdShape
<1>3. /\ hc \in HcType /\ wire \in WireType /\ hc.responselen \in Nat
      /\ wire.text \in Nat /\ wire.sent \in Nat /\ wire.answers = 1
      /\ ~wire.gone /\ wire.text = wire.sent + hc.responselen
  BY <1>1 DEF RspInv, Typed, Balanced, Waiting, Asked, HcType, WireType
<1>4. hc.file = Null /\ wire.body = <<>>
  BY <1>1 DEF RspInv, Windowed, Closed
<1> HIDE DEF n
<1>5. len \in Nat /\ text \in Nat /\ text = wire.sent + len
  BY <1>2, <1>3
<1> HIDE DEF len, text
<1>6. h \in HcType /\ h.responselen = len /\ h.file = Null
  BY <1>3, <1>4, <1>5 DEF HcType
<1>7. /\ w \in WireType /\ w.text = text /\ w.sent = wire.sent /\ ~w.gone
      /\ w.answers = 1 /\ w.body = <<>>
  BY <1>3, <1>4, <1>5 DEF WireType
<1>8. Waiting(h, w)
  BY <1>5, <1>6, <1>7 DEF Waiting
<1> DEFINE s == << h, w >>
<1>9. s[1] = h /\ s[2] = w /\ Flush(s)
  BY <1>1
<1> HIDE DEF h, w, s
<1>10. /\ pc' = "closed" /\ hc' \in HcType /\ hc'.responselen = 0 /\ hc'.file = Null
       /\ wire' \in WireType /\ Written(wire') /\ wire'.answers = 1 /\ wire'.body = <<>>
  BY <1>6, <1>7, <1>8, <1>9, FlushEnds
<1>11. Typed'
  BY <1>1, <1>10 DEF RspInv, Typed, Closed
<1>12. Unanswered'
  BY <1>10 DEF Unanswered, Asked
<1>13. Balanced'
  <2>1. ~wire'.gone => Waiting(hc', wire')
    BY <1>10 DEF Written, Waiting, WireType
  <2> QED
    BY <1>10, <2>1 DEF Balanced, Asked
<1>14. Windowed'
  BY <1>10 DEF Windowed
<1> QED
  BY <1>11, <1>12, <1>13, <1>14 DEF RspInv

-----------------------------------------------------------------------------
(* The theorems                                                            *)

(* A parsed request has no answer yet.                                     *)
LEMMA RspInit == Init => RspInv
<1> SUFFICES ASSUME Init PROVE RspInv
  OBVIOUS
<1>1. /\ req \in Requests /\ req.got_range \in BOOLEAN /\ req.first \in Nat
      /\ req.last \in Nat \cup {-1}
  BY RequestsAssumption DEF Init
<1>2. /\ hc \in HcType /\ hc.file = Null /\ hc.responselen = 0
      /\ hc.got_range = req.got_range /\ hc.first = req.first /\ hc.last = req.last
  <2> DEFINE g == req.got_range
             f == req.first
             l == req.last
  <2>1. hc = [status |-> 0, bytes_to_send |-> 0, bytes_sent |-> 0,
              got_range |-> g, first |-> f, last |-> l, file |-> Null, responselen |-> 0]
    BY DEF Init
  <2>2. g \in BOOLEAN /\ f \in Nat /\ l \in Int
    BY <1>1
  <2> HIDE DEF g, f, l
  <2>3. /\ hc \in HcType /\ hc.file = Null /\ hc.responselen = 0
        /\ hc.got_range = g /\ hc.first = f /\ hc.last = l
    BY <2>1, <2>2 DEF HcType, Codes, Null
  <2> QED
    BY <2>3 DEF g, f, l
<1>3. CmdSane(cmd)
  <2>1. cmd = NoCmd /\ NoCmd.reply = <<>> /\ NoCmd.calls = <<>>
    BY DEF Init, NoCmd
  <2>2. NoCmd = [k \in DOMAIN NoCmd |-> NoCmd[k]]
    BY DEF NoCmd
  <2>3. Modest(<<>>) /\ Honest(<<>>) /\ <<>> \in Seq(Words) /\ <<>> \in Seq(ToSet(<<>>))
    BY DEF Modest, Honest
  <2> QED
    BY <2>1, <2>2, <2>3 DEF CmdSane, CmdShape
<1>4. Typed
  <2>1. pc \in Asked /\ tree \in [DOMAIN tree -> Nodes] /\ DOMAIN tree \subseteq DOMAIN Tree
    BY TreeAssumption DEF Init, Asked
  <2>2. changes \in 0..MaxChanges /\ sb.size \in Nat
    BY MaxChangesAssumption DEF Init, NoStat
  <2>3. conn \in [next : Nat, end : Nat] /\ conn.next <= conn.end
    BY DEF Init
  <2>4. wire \in WireType
    BY DEF Init, WireType
  <2> QED
    BY <1>1, <1>2, <1>3, <2>1, <2>2, <2>3, <2>4 DEF Typed
<1>5. Unanswered
  BY <1>2 DEF Unanswered, Init
<1>6. Balanced
  BY <1>2 DEF Balanced, Waiting, Init, Asked
<1>7. Windowed
  BY <1>2 DEF Windowed, Init
<1> QED
  BY <1>4, <1>5, <1>6, <1>7 DEF RspInv

(* Every step keeps the invariant.                                         *)
LEMMA RspNext == RspInv /\ [Next]_vars => RspInv'
<1> SUFFICES ASSUME RspInv, [Next]_vars PROVE RspInv'
  OBVIOUS
<1>1. CASE Resolve
  BY <1>1, ResolveInv
<1>2. CASE StartRequest
  BY <1>2, StartRequestInv
<1>3. CASE FindIndex
  BY <1>3, FindIndexInv
<1>4. CASE ExpandIndex
  BY <1>4, ExpandIndexInv
<1>5. CASE InternalStart
  BY <1>5, InternalStartInv
<1>6. CASE InternalStep
  BY <1>6, InternalStepInv
<1>7. CASE InternalReply
  BY <1>7, InternalReplyInv
<1>8. CASE List
  BY <1>8, ListInv
<1>9. CASE Serve
  BY <1>9, ServeInv
<1>10. CASE Map
  BY <1>10, MapInv
<1>11. ASSUME NEW sz \in 1..(HeadLen + MaxBytes), HandleSend(sz) PROVE RspInv'
  BY <1>11, HandleSendInv
<1>12. CASE Abort
  BY <1>12, AbortInv
<1>13. ASSUME NEW p \in Volatile, Unlink(p) PROVE RspInv'
  BY <1>13, UnlinkInv
<1>14. ASSUME NEW p \in Volatile, NEW size \in Sizes, Rewrite(p, size) PROVE RspInv'
  BY <1>14, RewriteInv
<1>15. CASE UNCHANGED vars
  <2>1. UNCHANGED <<pc, req, tree, changes, sb, hc, conn, wire, cmd>>
    BY <1>15 DEF vars
  <2>2. First' = First /\ End' = End /\ LastByte' = LastByte
    BY <2>1 DEF First, End, InRange, LastByte
  <2>3. Typed' /\ Unanswered'
    BY <2>1, <2>2 DEF RspInv, Typed, Unanswered
  <2>4. Balanced' /\ Windowed'
    BY <2>1, <2>2 DEF RspInv, Balanced, Windowed
  <2> QED
    BY <2>3, <2>4 DEF RspInv
<1> QED
  BY <1>1, <1>2, <1>3, <1>4, <1>5, <1>6, <1>7, <1>8, <1>9, <1>10, <1>11, <1>12,
     <1>13, <1>14, <1>15 DEF Next

(* The invariant holds for all requests, trees of files and changes by     *)
(* other processes.                                                        *)
THEOREM RspInvariant == Spec => []RspInv
<1> QED
  BY RspInit, RspNext, PTL DEF Spec

(* The state of a request is well typed, and the buffer for the response   *)
(* never holds more than a head and an error page.                         *)
THEOREM RspTypeCorrect == Spec => []TypeOK
<1>1. RspInv => TypeOK
  BY DEF RspInv, Typed, TypeOK, Asked, HcType, Codes
<1> QED
  BY <1>1, RspInvariant, PTL

(* Every request is answered exactly once, whichever handler ends it, and  *)
(* the text of the answer is written whole and before the file, whatever   *)
(* writev() takes of it, unless the client leaves before it is.            *)
THEOREM RspOneAnswer == Spec => []OneAnswer
<1>1. RspInv => OneAnswer
  <2> SUFFICES ASSUME RspInv PROVE OneAnswer
    OBVIOUS
  <2>1. wire.answers <= 1 /\ (wire.answers = 1) = (pc \in {"command", "sending"} \cup Closed)
    BY DEF RspInv, Typed, Balanced, Asked, Closed
  <2>2. wire.body # <<>> => hc.responselen = 0
    <3> SUFFICES ASSUME wire.body # <<>> PROVE hc.responselen = 0
      OBVIOUS
    <3>1. /\ First <= conn.next /\ wire.body = Offsets(First, conn.next - 1)
          /\ First < conn.next => hc.responselen = 0
      BY DEF RspInv, Windowed
    <3>2. First \in Nat /\ conn.next \in Nat
      BY PartFacts DEF RspInv, Typed
    <3>3. First = conn.next => wire.body = <<>>
      BY <3>1, <3>2, OffsetsFacts
    <3> QED
      BY <3>1, <3>2, <3>3
  <2>3. /\ ~wire.gone => wire.text = wire.sent + hc.responselen
        /\ wire.gone => pc = "closed" /\ wire.sent < wire.text /\ wire.body = <<>>
        /\ pc = "closed" => hc.responselen = 0
    BY DEF RspInv, Balanced, Waiting, Written
  <2> QED
    BY <2>1, <2>2, <2>3 DEF OneAnswer
<1> QED
  BY <1>1, RspInvariant, PTL

(* A file that is answered in full has been sent from the first byte asked *)
(* for to the last, at any time a part of that has, and the head told its  *)
(* length, for every range, size and If-Range, even if the file is written *)
(* or removed meanwhile.                                                   *)
THEOREM RspBodyExact == Spec => []BodyExact
<1>1. RspInv => BodyExact
  <2> SUFFICES ASSUME RspInv, hc.file # Null
               PROVE  /\ pc = "closed" => wire.body = Wanted
                      /\ IsPrefix(wire.body, Wanted)
                      /\ req.mime_flag => /\ wire.told = Len(Wanted)
                                          /\ (hc.status = 206) = (Len(Wanted) < sb.size)
    BY DEF BodyExact
  <2>1. /\ First <= conn.next /\ conn.end = End /\ conn.next <= conn.end
        /\ wire.body = Offsets(First, conn.next - 1)
        /\ pc = "closed" => conn.next = conn.end
        /\ req.mime_flag => /\ wire.told = End - First
                            /\ (hc.status = 206) = (End - First < sb.size)
        /\ conn.next \in Nat /\ req \in Requests /\ sb.size \in Nat
    BY DEF RspInv, Windowed, Typed
  <2>2. First \in Nat /\ End \in Nat /\ First <= End /\ LastByte \in Int
    BY <2>1, PartFacts
  <2>3. Wanted = Offsets(First, End - 1)
    <3>1. Wanted = IF InRange THEN Offsets(req.first, LastByte) ELSE Offsets(0, sb.size - 1)
      BY DEF Wanted, InRange, LastByte
    <3>2. InRange => First = req.first /\ End - 1 = LastByte
      BY <2>1, <2>2, PartFacts
    <3>3. ~InRange => First = 0 /\ End = sb.size
      BY <2>1, PartFacts
    <3> QED
      BY <3>1, <3>2, <3>3
  <2> DEFINE f == First
             e == End
             m == conn.next
             s == Offsets(f, m - 1)
             t == Offsets(f, e - 1)
  <2>4. f \in Nat /\ e \in Nat /\ m \in Nat /\ f <= m /\ m <= e
    BY <2>1, <2>2
  <2> HIDE DEF f, e, m
  <2>5. /\ s \in Seq(Nat) /\ Len(s) = m - f /\ \A i \in 1..(m - f) : s[i] = f + i - 1
        /\ t \in Seq(Nat) /\ Len(t) = e - f /\ \A i \in 1..(e - f) : t[i] = f + i - 1
    <3>1. s \in Seq(Nat) /\ Len(s) = m - f /\ \A i \in 1..(m - f) : s[i] = f + i - 1
      BY <2>4, OffsetsFacts
    <3>2. f <= e
      BY <2>4
    <3>3. t \in Seq(Nat) /\ Len(t) = e - f /\ \A i \in 1..(e - f) : t[i] = f + i - 1
      BY <2>4, <3>2, OffsetsFacts
    <3> QED
      BY <3>1, <3>3
  <2> HIDE DEF s, t
  <2>6. IsPrefix(s, t)
    <3>1. Len(s) <= Len(t) /\ Len(s) \in Nat
      BY <2>4, <2>5
    <3>2. ASSUME NEW i \in 1..Len(s) PROVE s[i] = t[i]
      BY <2>4, <2>5
    <3>3. SubSeq(s, 1, Len(s)) = [i \in 1..Len(s) |-> s[i]]
          /\ SubSeq(t, 1, Len(s)) = [i \in 1..Len(s) |-> t[i]]
      BY <2>5, <3>1
    <3> QED
      BY <3>1, <3>2, <3>3 DEF IsPrefix
  <2>7. wire.body = s /\ Wanted = t
    BY <2>1, <2>3 DEF s, t, f, e, m
  <2>8. pc = "closed" => wire.body = Wanted
    BY <2>1, <2>3
  <2>9. Len(Wanted) = End - First
    BY <2>5, <2>7 DEF e, f
  <2> QED
    BY <2>1, <2>6, <2>7, <2>8, <2>9
<1> QED
  BY <1>1, RspInvariant, PTL

(* An internal command says "success" or prints a value only if the camera *)
(* failed none of the operations it was asked for.                         *)
THEOREM RspSuccessHonest == Spec => []SuccessHonest
<1>1. RspInv => SuccessHonest
  BY DEF RspInv, Typed, CmdSane, Modest, Honest, Claims, SuccessHonest
<1> QED
  BY <1>1, RspInvariant, PTL

-----------------------------------------------------------------------------
(* The list of files as JSON                                               *)

NestOp(open, t) ==
  IF t \in DOMAIN Closes THEN Append(open, Closes[t])
  ELSE IF t = "comma" THEN open
  ELSE IF open # <<>> /\ Last(open) = t THEN Front(open)
  ELSE Append(open, "unopened")
Ns == INSTANCE FoldFacts WITH Op <- NestOp

(* Nesting is a fold.                                                      *)
LEMMA NestingIs ==
  ASSUME NEW s
  PROVE  Nesting(s) = Ns!Fold(<<>>, s)
BY DEF Nesting, NestOp, Ns!Fold, Ns!FoldLeft, Ns!MapThenFoldSet, Ns!Max,
       FoldLeft, MapThenFoldSet, Max

\* What Nesting() keeps.
Marks == {"endobject", "endlist"}

(* Both are kept.                                                          *)
LEMMA MarksAre == "endobject" \in Marks /\ "endlist" \in Marks
BY DEF Marks

(* h pairs of a brace and a bracket are open.                              *)
Pairs(h, p, q) == [k \in 1..(h + h) |-> IF k % 2 = 1 THEN p ELSE q]
Opened(h) == Pairs(h, "endobject", "endlist")

(* One more pair, whatever the two marks are.                              *)
LEMMA PairsAre ==
  ASSUME NEW h \in Nat, NEW p \in Marks, NEW q \in Marks
  PROVE  /\ Pairs(h, p, q) \in Seq(Marks)
         /\ Pairs(h + 1, p, q) = Append(Append(Pairs(h, p, q), p), q)
         /\ Pairs(0, p, q) = <<>>
         /\ h > 0 => Pairs(h, p, q) # <<>>
<1> DEFINE n == h + h
           a == Append(Pairs(h, p, q), p)
           b == Append(a, q)
<1>1. /\ n \in Nat /\ (h + 1) + (h + 1) = n + 2 /\ n % 2 = 0 /\ (n + 1) % 2 = 1 /\ (n + 2) % 2 = 0
  OBVIOUS
<1>2. Pairs(h, p, q) \in Seq(Marks) /\ Len(Pairs(h, p, q)) = n
      /\ \A k \in 1..n : Pairs(h, p, q)[k] = IF k % 2 = 1 THEN p ELSE q
  BY <1>1 DEF Pairs
<1>3. a \in Seq(Marks) /\ Len(a) = n + 1 /\ a[n + 1] = p /\ \A k \in 1..n : a[k] = Pairs(h, p, q)[k]
  <2> DEFINE o == Pairs(h, p, q)
  <2> HIDE DEF o, n
  <2>1. o \in Seq(Marks) /\ Len(o) = n
    BY <1>2 DEF o
  <2> QED
    BY <2>1, <1>1, AppendProperties DEF o
<1> HIDE DEF a, n
<1>4. b \in Seq(Marks) /\ Len(b) = n + 2 /\ b[n + 2] = q /\ \A k \in 1..(n + 1) : b[k] = a[k]
  <2>1. (n + 1) + 1 = n + 2
    BY <1>1
  <2> QED
    BY <1>1, <1>3, <2>1, AppendProperties
<1> HIDE DEF b
<1>5. /\ Pairs(h + 1, p, q) \in Seq(Marks) /\ Len(Pairs(h + 1, p, q)) = n + 2
      /\ \A k \in 1..(n + 2) : Pairs(h + 1, p, q)[k] = IF k % 2 = 1 THEN p ELSE q
  <2>1. Pairs(h + 1, p, q) = [k \in 1..(n + 2) |-> IF k % 2 = 1 THEN p ELSE q]
    BY <1>1 DEF Pairs
  <2> QED
    BY <1>1, <2>1
<1>6. \A k \in 1..(n + 2) : b[k] = IF k % 2 = 1 THEN p ELSE q
  <2> TAKE k \in 1..(n + 2)
  <2>1. k = n + 2 \/ k = n + 1 \/ k \in 1..n
    BY <1>1
  <2>2. CASE k = n + 2
    BY <1>1, <1>4, <2>2
  <2>3. CASE k = n + 1
    <3>1. n + 1 \in 1..(n + 1)
      BY <1>1
    <3>2. b[n + 1] = a[n + 1]
      BY <1>4, <3>1
    <3> QED
      BY <1>1, <1>3, <2>3, <3>2
  <2>4. CASE k \in 1..n
    <3>1. k \in 1..(n + 1)
      BY <1>1, <2>4
    <3>2. b[k] = a[k] /\ a[k] = Pairs(h, p, q)[k]
      BY <1>3, <1>4, <2>4, <3>1
    <3> QED
      BY <1>2, <2>4, <3>2
  <2> QED
    BY <2>1, <2>2, <2>3, <2>4
<1>7. Pairs(h + 1, p, q) = b
  BY <1>1, <1>4, <1>5, <1>6, SeqEqual
<1>8. Pairs(0, p, q) = <<>>
  BY DEF Pairs
<1>9. h > 0 => Pairs(h, p, q) # <<>>
  <2>1. h > 0 => Len(Pairs(h, p, q)) # 0
    BY <1>2 DEF n
  <2>2. Len(<<>>) = 0
    OBVIOUS
  <2> QED
    BY <2>1, <2>2
<1> QED
  BY <1>2, <1>7, <1>8, <1>9 DEF a, b

(* And for the marks of the list.                                          *)
LEMMA OpenedIs ==
  ASSUME NEW h \in Nat
  PROVE  /\ Opened(h) \in Seq(Marks)
         /\ Opened(h + 1) = Append(Append(Opened(h), "endobject"), "endlist")
         /\ Opened(0) = <<>>
         /\ h > 0 => Opened(h) # <<>>
<1>1. /\ Pairs(h, "endobject", "endlist") \in Seq(Marks)
      /\ Pairs(h + 1, "endobject", "endlist")
           = Append(Append(Pairs(h, "endobject", "endlist"), "endobject"), "endlist")
      /\ Pairs(0, "endobject", "endlist") = <<>>
      /\ h > 0 => Pairs(h, "endobject", "endlist") # <<>>
  BY PairsAre, MarksAre
<1> QED
  BY <1>1 DEF Opened

(* What opens is closed again; a comma changes nothing.                     *)
LEMMA NestOpIs ==
  ASSUME NEW n \in Seq(Marks)
  PROVE  /\ NestOp(n, "object") = Append(n, "endobject") /\ NestOp(n, "list") = Append(n, "endlist")
         /\ NestOp(n, "comma") = n
         /\ NestOp(Append(n, "endobject"), "endobject") = n
         /\ NestOp(Append(n, "endlist"), "endlist") = n
         /\ Append(n, "endobject") \in Seq(Marks) /\ Append(n, "endlist") \in Seq(Marks)
<1>1. /\ DOMAIN Closes = {"object", "list"}
      /\ Closes["object"] = "endobject" /\ Closes["list"] = "endlist"
  BY DEF Closes
<1>2. ASSUME NEW t \in Marks, t \notin DOMAIN Closes, t # "comma"
      PROVE  Append(n, t) \in Seq(Marks) /\ NestOp(Append(n, t), t) = n
  <2> DEFINE m == Append(n, t)
  <2>1. m \in Seq(Marks) /\ Len(m) = Len(n) + 1 /\ m[Len(m)] = t /\ Len(n) \in Nat
        /\ m # <<>>
    BY AppendProperties
  <2>2. Front(m) = n
    <3>1. SubSeq(m, 1, Len(m) - 1) = n
      BY <2>1, HeadTailAppend
    <3> QED
      BY <3>1 DEF Front
  <2>3. Last(m) = t
    BY <2>1 DEF Last
  <2> HIDE DEF m
  <2>4. NestOp(m, t) = n
    BY <1>2, <2>1, <2>2, <2>3 DEF NestOp
  <2> QED
    BY <2>1, <2>4 DEF m
<1>3. /\ NestOp(Append(n, "endobject"), "endobject") = n /\ Append(n, "endobject") \in Seq(Marks)
      /\ NestOp(Append(n, "endlist"), "endlist") = n /\ Append(n, "endlist") \in Seq(Marks)
  BY <1>1, <1>2, MarksAre
<1>4. /\ NestOp(n, "object") = Append(n, "endobject")
      /\ NestOp(n, "list") = Append(n, "endlist") /\ NestOp(n, "comma") = n
  BY <1>1 DEF NestOp
<1> QED
  BY <1>3, <1>4

(* The list up to here: its nesting, its last piece, and that all its      *)
(* pieces follow one another as they may.                                  *)
Linked(s) == \A k \in 1..(Len(s) - 1) : <<s[k], s[k + 1]>> \in Follows
Printed(s, n, l) ==
  /\ s \in Seq(Words) /\ s # <<>> /\ s[1] = "object" /\ s[Len(s)] = l
  /\ Nesting(s) = n /\ Linked(s)

(* The pieces of a list are words of a reply.                              *)
LEMMA BracketsAreWords ==
  /\ "object" \in Words /\ "endobject" \in Words /\ "list" \in Words /\ "endlist" \in Words
  /\ "comma" \in Words
BY DEF Words

(* What may follow what.                                                   *)
LEMMA FollowsAre ==
  /\ <<"object", "list">> \in Follows /\ <<"list", "object">> \in Follows
  /\ <<"list", "endlist">> \in Follows /\ <<"object", "endobject">> \in Follows
  /\ <<"endobject", "comma">> \in Follows /\ <<"endobject", "endlist">> \in Follows
  /\ <<"endlist", "endobject">> \in Follows /\ <<"comma", "object">> \in Follows
BY DEF Follows

(* One more piece.                                                         *)
LEMMA PutOne ==
  ASSUME NEW s, NEW n, NEW l, Printed(s, n, l), NEW w \in Words, <<l, w>> \in Follows
  PROVE  Printed(Append(s, w), NestOp(n, w), w)
<1> DEFINE t == Append(s, w)
<1>1. s \in Seq(Words) /\ s # <<>> /\ Len(s) \in Nat /\ Len(s) > 0
  BY DEF Printed
<1>2. /\ t \in Seq(Words) /\ Len(t) = Len(s) + 1 /\ t[Len(s) + 1] = w
      /\ \A k \in 1..Len(s) : t[k] = s[k]
      /\ t # <<>>
  BY <1>1, AppendProperties
<1>3. Nesting(t) = NestOp(n, w)
  <2>1. Ns!Fold(<<>>, t) = NestOp(Ns!Fold(<<>>, s), w)
    BY <1>1, Ns!FoldAppend
  <2> QED
    BY <2>1, NestingIs DEF Printed
<1>4. t[1] = "object"
  <2>1. 1 \in 1..Len(s)
    BY <1>1
  <2> QED
    BY <1>2, <2>1 DEF Printed
<1> HIDE DEF t
<1>5. ASSUME NEW k \in 1..(Len(t) - 1)
      PROVE  <<t[k], t[k + 1]>> \in Follows
  <2>1. k \in 1..Len(s) /\ (k = Len(s) \/ (k \in 1..(Len(s) - 1) /\ k + 1 \in 1..Len(s)))
    BY <1>1, <1>2, <1>5
  <2>2. t[k] = s[k]
    BY <1>2, <2>1
  <2>3. CASE k = Len(s)
    <3>1. s[k] = l /\ t[k + 1] = w
      BY <1>2, <2>3 DEF Printed
    <3> QED
      BY <2>2, <3>1
  <2>4. CASE k \in 1..(Len(s) - 1) /\ k + 1 \in 1..Len(s)
    <3>1. t[k + 1] = s[k + 1]
      BY <1>2, <2>4
    <3> QED
      BY <2>2, <2>4, <3>1 DEF Printed, Linked
  <2> QED
    BY <2>1, <2>3, <2>4
<1>6. t[Len(t)] = w
  BY <1>2
<1>7. Printed(t, NestOp(n, w), w)
  BY <1>2, <1>3, <1>4, <1>5, <1>6 DEF Printed, Linked
<1> QED
  BY <1>7 DEF t

(* The head of the list.                                                   *)
LEMMA PutHead ==
  Printed(<<>> \o <<"object", "list">>, Opened(1), "list")
<1> DEFINE s == <<"object">>
           a == "object"
<1>1. s \in Seq(Words) /\ Len(s) = 1 /\ s[1] = a /\ s # <<>> /\ s[Len(s)] = a
  BY BracketsAreWords
<1>2. Nesting(s) = Append(<<>>, "endobject")
  <2>1. <<>> \in Seq(Words) /\ Append(<<>>, a) = s /\ a \in Words
    BY BracketsAreWords
  <2>2. Ns!Fold(<<>>, Append(<<>>, a)) = NestOp(Ns!Fold(<<>>, <<>>), a)
    BY <2>1, Ns!FoldAppend
  <2>3. Ns!Fold(<<>>, <<>>) = <<>>
    BY Ns!FoldEmpty
  <2>4. <<>> \in Seq(Marks)
    OBVIOUS
  <2>5. NestOp(<<>>, a) = Append(<<>>, "endobject")
    BY <2>4, NestOpIs
  <2> QED
    BY <2>1, <2>2, <2>3, <2>5, NestingIs
<1>3. Linked(s)
  BY <1>1 DEF Linked
<1>4. Printed(s, Append(<<>>, "endobject"), a)
  BY <1>1, <1>2, <1>3 DEF Printed
<1>5. <<>> \o <<"object", "list">> = Append(s, "list")
  OBVIOUS
<1> HIDE DEF s
<1>6. Printed(Append(s, "list"), NestOp(Append(<<>>, "endobject"), "list"), "list")
  BY <1>4, PutOne, BracketsAreWords, FollowsAre
<1>7. NestOp(Append(<<>>, "endobject"), "list") = Opened(1)
  <2>1. <<>> \in Seq(Marks)
    OBVIOUS
  <2>2. Append(<<>>, "endobject") \in Seq(Marks)
    BY <2>1, NestOpIs
  <2>3. NestOp(Append(<<>>, "endobject"), "list") = Append(Append(<<>>, "endobject"), "endlist")
    BY <2>2, NestOpIs
  <2>4. 0 \in Nat /\ 0 + 1 = 1
    OBVIOUS
  <2>5. Opened(0 + 1) = Append(Append(Opened(0), "endobject"), "endlist") /\ Opened(0) = <<>>
    BY <2>4, OpenedIs
  <2> QED
    BY <2>3, <2>4, <2>5
<1> QED
  BY <1>5, <1>6, <1>7

(* Each piece, from what is open.                                          *)
LEMMA OpenedSteps ==
  ASSUME NEW h \in Nat
  PROVE  LET n == Opened(h)  e == Append(n, "endobject")
         IN /\ NestOp(n, "object") = e /\ NestOp(e, "list") = Opened(h + 1)
            /\ NestOp(e, "endobject") = n /\ NestOp(n, "comma") = n
            /\ NestOp(Opened(h + 1), "endlist") = e
<1>1. Opened(h) \in Seq(Marks) /\ Opened(h + 1) = Append(Append(Opened(h), "endobject"), "endlist")
  BY OpenedIs
<1> DEFINE n == Opened(h)
           e == Append(n, "endobject")
<1>2. /\ e \in Seq(Marks) /\ NestOp(n, "object") = e /\ NestOp(n, "comma") = n
      /\ NestOp(e, "endobject") = n
  BY <1>1, NestOpIs
<1> HIDE DEF e
<1>3. NestOp(e, "list") = Append(e, "endlist") /\ NestOp(Append(e, "endlist"), "endlist") = e
  BY <1>2, NestOpIs
<1> QED
  BY <1>1, <1>2, <1>3 DEF e

(* A group begins.                                                         *)
LEMMA PutGroup ==
  ASSUME NEW s, NEW h \in Nat, NEW l \in {"list", "comma"}, Printed(s, Opened(h), l)
  PROVE  Printed(s \o <<"object", "list">>, Opened(h + 1), "list")
<1> DEFINE e == Append(Opened(h), "endobject")
<1>1. NestOp(Opened(h), "object") = e /\ NestOp(e, "list") = Opened(h + 1)
  BY OpenedSteps
<1>2. <<l, "object">> \in Follows
  BY FollowsAre
<1> HIDE DEF e
<1> DEFINE t == Append(s, "object")
<1>3. Printed(t, e, "object")
  <2>1. Printed(t, NestOp(Opened(h), "object"), "object")
    BY <1>2, PutOne, BracketsAreWords
  <2> QED
    BY <1>1, <2>1
<1>4. s \o <<"object", "list">> = Append(t, "list")
  BY BracketsAreWords DEF Printed
<1> HIDE DEF t
<1>5. Printed(Append(t, "list"), NestOp(e, "list"), "list")
  BY <1>3, PutOne, BracketsAreWords, FollowsAre
<1> QED
  BY <1>1, <1>4, <1>5

(* A work is told.                                                         *)
LEMMA PutWork ==
  ASSUME NEW s, NEW h \in Nat, NEW l \in {"list", "comma"}, Printed(s, Opened(h), l)
  PROVE  Printed(Append(Append(s, "object"), "endobject"), Opened(h), "endobject")
<1> DEFINE e == Append(Opened(h), "endobject")
           t == Append(s, "object")
<1>1. NestOp(Opened(h), "object") = e /\ NestOp(e, "endobject") = Opened(h)
  BY OpenedSteps
<1>2. <<l, "object">> \in Follows
  BY FollowsAre
<1> HIDE DEF e
<1>3. Printed(t, e, "object")
  <2>1. Printed(t, NestOp(Opened(h), "object"), "object")
    BY <1>2, PutOne, BracketsAreWords
  <2> QED
    BY <1>1, <2>1
<1> HIDE DEF t
<1>4. Printed(Append(t, "endobject"), NestOp(e, "endobject"), "endobject")
  BY <1>3, PutOne, BracketsAreWords, FollowsAre
<1>5. Printed(Append(t, "endobject"), Opened(h), "endobject")
  BY <1>1, <1>4
<1> QED
  BY <1>5 DEF t

(* And another follows.                                                    *)
LEMMA PutComma ==
  ASSUME NEW s, NEW h \in Nat, Printed(s, Opened(h), "endobject")
  PROVE  Printed(Append(s, "comma"), Opened(h), "comma")
<1>1. NestOp(Opened(h), "comma") = Opened(h)
  BY OpenedSteps
<1>2. Printed(Append(s, "comma"), NestOp(Opened(h), "comma"), "comma")
  BY PutOne, BracketsAreWords, FollowsAre
<1> QED
  BY <1>1, <1>2

(* The list of a group, or of all groups, ends.                            *)
LEMMA PutEnd ==
  ASSUME NEW s, NEW h \in Nat, NEW l \in {"list", "endobject"}, Printed(s, Opened(h + 1), l)
  PROVE  Printed(Append(Append(s, "endlist"), "endobject"), Opened(h), "endobject")
<1> DEFINE e == Append(Opened(h), "endobject")
           t == Append(s, "endlist")
<1>1. NestOp(Opened(h + 1), "endlist") = e /\ NestOp(e, "endobject") = Opened(h)
  BY OpenedSteps
<1>2. <<l, "endlist">> \in Follows
  BY FollowsAre
<1> HIDE DEF e
<1>3. Printed(t, e, "endlist")
  <2>1. Printed(t, NestOp(Opened(h + 1), "endlist"), "endlist")
    BY <1>2, PutOne, BracketsAreWords
  <2> QED
    BY <1>1, <2>1
<1> HIDE DEF t
<1>4. Printed(Append(t, "endobject"), NestOp(e, "endobject"), "endobject")
  BY <1>3, PutOne, BracketsAreWords, FollowsAre
<1>5. Printed(Append(t, "endobject"), Opened(h), "endobject")
  BY <1>1, <1>4
<1> QED
  BY <1>5 DEF t

(* A few pieces are appended one by one.                                   *)
LEMMA Apart ==
  ASSUME NEW W, NEW r \in Seq(W), NEW a \in W, NEW b \in W, NEW c \in W, NEW d \in W, NEW e \in W
  PROVE  /\ r \o <<a, b>> = Append(Append(r, a), b)
         /\ r \o <<a, b, c>> = Append(Append(Append(r, a), b), c)
         /\ r \o <<a, b, c, d>> = Append(Append(Append(Append(r, a), b), c), d)
         /\ r \o <<a, b, c, d, e>> = Append(Append(Append(Append(Append(r, a), b), c), d), e)
<1>1. \A t \in Seq(W) : \A x \in W : r \o Append(t, x) = Append(r \o t, x)
  OBVIOUS
<1>2. /\ <<a, b>> \in Seq(W) /\ <<a, b, c>> \in Seq(W) /\ <<a, b, c, d>> \in Seq(W)
      /\ <<a, b, c>> = Append(<<a, b>>, c) /\ <<a, b, c, d>> = Append(<<a, b, c>>, d)
      /\ <<a, b, c, d, e>> = Append(<<a, b, c, d>>, e)
  OBVIOUS
<1>3. r \o <<a, b>> = Append(Append(r, a), b)
  OBVIOUS
<1>4. r \o Append(<<a, b>>, c) = Append(Append(Append(r, a), b), c)
  BY <1>1, <1>2, <1>3
<1>5. r \o Append(<<a, b, c>>, d) = Append(Append(Append(Append(r, a), b), c), d)
  <2>1. r \o Append(<<a, b, c>>, d) = Append(r \o <<a, b, c>>, d)
    BY <1>1, <1>2
  <2> QED
    BY <1>2, <1>4, <2>1
<1>6. r \o Append(<<a, b, c, d>>, e) = Append(Append(Append(Append(Append(r, a), b), c), d), e)
  <2>1. r \o Append(<<a, b, c, d>>, e) = Append(r \o <<a, b, c, d>>, e)
    BY <1>1, <1>2
  <2> QED
    BY <1>2, <1>5, <2>1
<1> QED
  BY <1>2, <1>3, <1>4, <1>5, <1>6

(* What CloseWork() prints.                                                *)
LEMMA PutCloseWork ==
  ASSUME NEW c, NEW h \in Nat, NEW l \in {"list", "comma"}, Printed(c.reply, Opened(h + 1), l)
  PROVE  LET s == c.reply \o CloseWork(c)
         IN /\ c.j # c.works - 1 => Printed(s, Opened(h + 1), "comma")
            /\ c.j = c.works - 1 /\ c.i = c.groups - 1 => Printed(s, Opened(h), "endobject")
            /\ c.j = c.works - 1 /\ c.i # c.groups - 1 => Printed(s, Opened(h), "comma")
<1> DEFINE r == c.reply
           w == Append(Append(r, "object"), "endobject")
           g == Append(Append(w, "endlist"), "endobject")
<1>0. h + 1 \in Nat
  OBVIOUS
<1>1. r \in Seq(Words)
  BY DEF Printed
<1>2. Printed(w, Opened(h + 1), "endobject")
  BY <1>0, PutWork
<1>3. Printed(Append(w, "comma"), Opened(h + 1), "comma")
  <2> HIDE DEF w
  <2> QED
    BY <1>0, <1>2, PutComma
<1>4. Printed(g, Opened(h), "endobject")
  <2> HIDE DEF w
  <2> QED
    BY <1>2, PutEnd
<1>5. Printed(Append(g, "comma"), Opened(h), "comma")
  <2> HIDE DEF g
  <2> QED
    BY <1>4, PutComma
<1> HIDE DEF r
<1>6. /\ r \o <<"object", "endobject", "comma">> = Append(w, "comma")
      /\ r \o <<"object", "endobject", "endlist", "endobject">> = g
      /\ r \o <<"object", "endobject", "endlist", "endobject", "comma">> = Append(g, "comma")
  <2>1. \A a \in Words : \A b \in Words : \A d \in Words :
          /\ r \o <<a, b, d>> = Append(Append(Append(r, a), b), d)
          /\ r \o <<a, b, d, b>> = Append(Append(Append(Append(r, a), b), d), b)
    BY <1>1, Apart
  <2>2. \A a \in Words : \A b \in Words : \A d \in Words : \A e \in Words :
          r \o <<a, b, d, b, e>> = Append(Append(Append(Append(Append(r, a), b), d), b), e)
    BY <1>1, Apart
  <2>3. /\ "object" \in Words /\ "endobject" \in Words
        /\ "endlist" \in Words /\ "comma" \in Words
    BY BracketsAreWords
  <2>4. r \o <<"object", "endobject", "comma">> = Append(w, "comma")
    BY <2>1, <2>3
  <2>5. r \o <<"object", "endobject", "endlist", "endobject">> = g
    BY <2>1, <2>3
  <2>6. r \o <<"object", "endobject", "endlist", "endobject", "comma">> = Append(g, "comma")
    BY <2>2, <2>3
  <2> QED
    BY <2>4, <2>5, <2>6
<1> HIDE DEF w, g
<1>7. ASSUME c.j # c.works - 1
      PROVE  Printed(r \o CloseWork(c), Opened(h + 1), "comma")
  <2>1. CloseWork(c) = <<"object", "endobject", "comma">>
    BY <1>7 DEF CloseWork
  <2> QED
    BY <1>3, <1>6, <2>1
<1>8. ASSUME c.j = c.works - 1, c.i = c.groups - 1
      PROVE  Printed(r \o CloseWork(c), Opened(h), "endobject")
  <2>1. CloseWork(c) = <<"object", "endobject", "endlist", "endobject">>
    BY <1>8 DEF CloseWork
  <2> QED
    BY <1>4, <1>6, <2>1
<1>9. ASSUME c.j = c.works - 1, c.i # c.groups - 1
      PROVE  Printed(r \o CloseWork(c), Opened(h), "comma")
  <2>1. CloseWork(c) = <<"object", "endobject", "endlist", "endobject", "comma">>
    BY <1>9 DEF CloseWork
  <2> QED
    BY <1>5, <1>6, <2>1
<1> QED
  BY <1>7, <1>8, <1>9 DEF r

(* The whole list nests if nothing is left open.                           *)
LEMMA PrintedWell ==
  ASSUME NEW s, NEW h \in Nat, NEW l, Printed(s, Opened(h), l)
  PROVE  WellFormed(s) = (h = 0)
<1>1. (Opened(h) = <<>>) <=> h = 0
  <2>1. h = 0 \/ h > 0
    OBVIOUS
  <2>2. (h > 0 => Opened(h) # <<>>) /\ Opened(0) = <<>>
    BY OpenedIs
  <2> QED
    BY <2>1, <2>2
<1>2. WellFormed(s) <=> h = 0
  BY <1>1 DEF WellFormed, Printed, Linked
<1>3. WellFormed(s) \in BOOLEAN
  BY DEF WellFormed
<1> QED
  BY <1>2, <1>3

-----------------------------------------------------------------------------
(* The calls of the list: how many groups, how many works                  *)

GroupOp(of, call) == IF call.op = "CMD_GET_WORK_NUMBER" THEN Append(of, call) ELSE of
FileOp(of, call) == IF call.op = "CMD_GET_FILE_NUMBER_CAMID" THEN Append(of, call) ELSE of
SumOp(n, call) == n + call.out
Gp == INSTANCE FoldFacts WITH Op <- GroupOp
Fl == INSTANCE FoldFacts WITH Op <- FileOp
Sm == INSTANCE FoldFacts WITH Op <- SumOp

Groups(calls) == Gp!Fold(<<>>, calls)
Files(calls) == Fl!Fold(<<>>, calls)
Total(groups) == Sm!Fold(0, groups)
NoneEmpty(groups) == \A k \in DOMAIN groups : groups[k].out > 0
IsSeq(s) == s \in Seq(ToSet(s))

\* What ListWellFormed says of a list that is told in full.
Told(c) ==
  (c.ok /\ c.reply # <<>> /\ c.reply[1] = "object") =>
    /\ Len(Groups(c.calls)) = c.groups
    /\ Len(Files(c.calls)) = Total(Groups(c.calls))
    /\ WellFormed(c.reply) = NoneEmpty(Groups(c.calls))

(* A sequence and one element more.                                        *)
LEMMA SeqGrows ==
  ASSUME NEW s, IsSeq(s), NEW e
  PROVE  /\ IsSeq(Append(s, e)) /\ Len(s) \in Nat /\ Len(Append(s, e)) = Len(s) + 1
         /\ DOMAIN s = 1..Len(s) /\ DOMAIN Append(s, e) = 1..(Len(s) + 1)
         /\ Append(s, e)[Len(s) + 1] = e /\ \A k \in 1..Len(s) : Append(s, e)[k] = s[k]
         /\ \E S : s \in Seq(S) /\ e \in S
<1> DEFINE t == Append(s, e)
           S == ToSet(s) \cup {e}
<1>1. s \in Seq(S) /\ e \in S
  BY DEF IsSeq
<1>2. /\ t \in Seq(S) /\ Len(t) = Len(s) + 1 /\ Len(s) \in Nat
      /\ \A i \in 1..Len(s) : t[i] = s[i]
      /\ t[Len(s) + 1] = e
  <2> HIDE DEF S
  <2> QED
    BY <1>1, AppendProperties
<1> HIDE DEF t, S
<1>3. DOMAIN t = 1..Len(t) /\ DOMAIN s = 1..Len(s) /\ Len(t) \in Nat
  BY <1>1, <1>2
<1>4. t \in Seq(ToSet(t))
  <2>1. \A i \in 1..Len(t) : t[i] \in ToSet(t)
    BY <1>3 DEF ToSet
  <2>2. t = [i \in 1..Len(t) |-> t[i]]
    BY <1>2, <1>3
  <2> QED
    BY <1>3, <2>1, <2>2
<1> QED
  BY <1>1, <1>2, <1>3, <1>4 DEF IsSeq, t

(* Before the first call.                                                  *)
LEMMA NoCalls ==
  /\ Groups(<<>>) = <<>> /\ Files(<<>>) = <<>> /\ Total(<<>>) = 0 /\ IsSeq(<<>>)
  /\ NoneEmpty(<<>>)
BY Gp!FoldEmpty, Fl!FoldEmpty, Sm!FoldEmpty DEF Groups, Files, Total, IsSeq, NoneEmpty

(* One more call.                                                          *)
LEMMA CallCounted ==
  ASSUME NEW calls, IsSeq(calls), NEW e
  PROVE  /\ Groups(Append(calls, e)) = GroupOp(Groups(calls), e)
         /\ Files(Append(calls, e)) = FileOp(Files(calls), e)
<1>1. PICK S : calls \in Seq(S) /\ e \in S
  BY SeqGrows
<1>2. Gp!Fold(<<>>, Append(calls, e)) = GroupOp(Gp!Fold(<<>>, calls), e)
  BY <1>1, Gp!FoldAppend
<1>3. Fl!Fold(<<>>, Append(calls, e)) = FileOp(Fl!Fold(<<>>, calls), e)
  BY <1>1, Fl!FoldAppend
<1> QED
  BY <1>2, <1>3 DEF Groups, Files

(* One more group.                                                         *)
LEMMA GroupCounted ==
  ASSUME NEW groups, IsSeq(groups), NEW e, e.out \in Nat
  PROVE  /\ Total(Append(groups, e)) = Total(groups) + e.out
         /\ NoneEmpty(Append(groups, e)) <=> NoneEmpty(groups) /\ e.out > 0
<1>1. PICK S : groups \in Seq(S) /\ e \in S
  BY SeqGrows
<1>2. Sm!Fold(0, Append(groups, e)) = SumOp(Sm!Fold(0, groups), e)
  BY <1>1, Sm!FoldAppend
<1>3. Total(Append(groups, e)) = Total(groups) + e.out
  BY <1>2 DEF Total, SumOp
<1> DEFINE t == Append(groups, e)
           n == Len(groups)
<1>4. /\ n \in Nat /\ DOMAIN groups = 1..n /\ DOMAIN t = 1..(n + 1)
      /\ t[n + 1] = e /\ \A k \in 1..n : t[k] = groups[k]
  BY SeqGrows
<1> HIDE DEF t, n
<1>5. \A k : k \in 1..(n + 1) <=> k \in 1..n \/ k = n + 1
  BY <1>4
<1>6. NoneEmpty(t) <=> NoneEmpty(groups) /\ e.out > 0
  BY <1>4, <1>5 DEF NoneEmpty
<1> QED
  BY <1>3, <1>6 DEF t

(* What the property says, with these names.                               *)
LEMMA ListIs ==
  ListWellFormed <=> (cmd.pc = "done" => Told(cmd))
<1>1. ListWellFormed <=>
        ((cmd.pc = "done" /\ cmd.ok /\ cmd.reply # <<>> /\ cmd.reply[1] = "object") =>
          /\ Len(Groups(cmd.calls)) = cmd.groups
          /\ Len(Files(cmd.calls)) = Total(Groups(cmd.calls))
          /\ WellFormed(cmd.reply) = NoneEmpty(Groups(cmd.calls)))
  BY DEF ListWellFormed, Groups, Files, Total, GroupOp, FileOp, SumOp, NoneEmpty,
         Gp!Fold, Gp!FoldLeft, Gp!MapThenFoldSet, Gp!Max,
         Fl!Fold, Fl!FoldLeft, Fl!MapThenFoldSet, Fl!Max,
         Sm!Fold, Sm!FoldLeft, Sm!MapThenFoldSet, Sm!Max,
         FoldLeft, MapThenFoldSet, Max
<1> QED
  BY <1>1 DEF Told

-----------------------------------------------------------------------------
(* The list while it is told                                               *)

\* Between two groups; what is open is the list, and the groups that were
\* empty.
InGroup(c) ==
  LET gs == Groups(c.calls)
  IN /\ c.groups \in Nat /\ c.i \in 0..c.groups
     /\ Len(gs) = c.i
     /\ Total(gs) \in Nat /\ Len(Files(c.calls)) = Total(gs)
     /\ \E h \in Nat : \E l \in {"list", "comma", "endobject"} :
          /\ Printed(c.reply, Opened(h + 1), l)
          /\ NoneEmpty(gs) <=> h = 0
          /\ c.i = c.groups => l # "comma"
          /\ c.i # c.groups => l # "endobject"

\* In a group, which is open too.
InWork(c) ==
  LET gs == Groups(c.calls)
  IN /\ c.groups \in Nat /\ c.i \in 0..(c.groups - 1)
     /\ Len(gs) = c.i + 1
     /\ c.works \in Nat /\ c.j \in 0..(c.works - 1)
     /\ Total(gs) \in Nat /\ Len(Files(c.calls)) + (c.works - c.j) = Total(gs)
     /\ \E h \in Nat : \E l \in {"list", "comma"} :
          /\ Printed(c.reply, Opened((h + 1) + 1), l)
          /\ NoneEmpty(gs) <=> h = 0

Listing(c) ==
  /\ IsSeq(Groups(c.calls)) /\ IsSeq(Files(c.calls))
  /\ c.pc \in {"idle", "body", "dispatch", "groups"} =>
       /\ c.i = 0 /\ c.reply = <<>>
       /\ Groups(c.calls) = <<>> /\ Files(c.calls) = <<>>
  /\ c.pc = "group" => InGroup(c)
  /\ c.pc = "work" => InWork(c)
  /\ c.pc = "done" => Told(c)
  /\ c.pc \in {"idle", "body", "dispatch", "groups", "group", "work", "done"}

(* A command that failed.                                                  *)
LEMMA FailedListing ==
  ASSUME NEW c, IsSeq(Groups(c.calls)), IsSeq(Files(c.calls)), c.pc = "done",
         c.ok = FALSE
  PROVE  Listing(c)
BY DEF Listing, Told

(* One that printed a word.                                                *)
LEMMA WordListing ==
  ASSUME NEW c, IsSeq(Groups(c.calls)), IsSeq(Files(c.calls)), c.pc = "done",
         NEW w, w # "object", c.reply = <<>> \o <<w>>
  PROVE  Listing(c)
<1>1. <<>> \o <<w>> = <<w>> /\ <<w>>[1] = w
  OBVIOUS
<1> QED
  BY <1>1 DEF Listing, Told

(* The list begins.                                                        *)
LEMMA StartListing ==
  ASSUME NEW c, Listing(c), c.pc = "groups",
         NEW d, d.pc = "group", d.calls = c.calls, d.reply = c.reply \o <<"object", "list">>,
         d.groups \in Nat, d.i = c.i
  PROVE  Listing(d)
<1> DEFINE gs == Groups(d.calls)
<1>1. /\ IsSeq(gs) /\ IsSeq(Files(d.calls)) /\ gs = <<>> /\ Files(d.calls) = <<>>
      /\ d.i = 0 /\ c.reply = <<>>
  BY DEF Listing
<1>2. /\ Printed(d.reply, Opened(1), "list")
      /\ Total(gs) = 0 /\ NoneEmpty(gs) /\ Len(gs) = 0 /\ Len(Files(d.calls)) = 0
  BY <1>1, PutHead, NoCalls
<1>3. \E h \in Nat : \E l \in {"list", "comma", "endobject"} :
          /\ Printed(d.reply, Opened(h + 1), l)
          /\ NoneEmpty(gs) <=> h = 0
          /\ d.i = d.groups => l # "comma"
          /\ d.i # d.groups => l # "endobject"
  <2>1. Printed(d.reply, Opened(0 + 1), "list")
    BY <1>2
  <2> HIDE DEF gs
  <2> QED
    BY <1>2, <2>1
<1> HIDE DEF gs
<1>4. d.i \in 0..d.groups
  BY <1>1
<1>5. InGroup(d)
  BY <1>1, <1>2, <1>3, <1>4 DEF InGroup, gs
<1> QED
  BY <1>1, <1>5 DEF Listing, gs

(* The command c becomes d when the call e tells of a group, or of a work. *)
GroupTold(c, e, d) ==
  /\ e.op = "CMD_GET_WORK_NUMBER" /\ e.out \in Nat
  /\ d.calls = Append(c.calls, e) /\ d.reply = c.reply \o <<"object", "list">>
  /\ d.groups = c.groups /\ d.works = e.out /\ d.j = 0
  /\ d.i = IF e.out = 0 THEN c.i + 1 ELSE c.i
  /\ d.pc = IF e.out = 0 THEN "group" ELSE "work"

WorkTold(c, e, d) ==
  /\ e.op = "CMD_GET_FILE_NUMBER_CAMID"
  /\ d.calls = Append(c.calls, e) /\ d.reply = c.reply \o CloseWork(c)
  /\ d.groups = c.groups /\ d.works = c.works /\ d.j = c.j + 1
  /\ d.i = IF c.j = c.works - 1 THEN c.i + 1 ELSE c.i
  /\ d.pc = IF c.j = c.works - 1 THEN "group" ELSE "work"

(* A group is asked for.                                                   *)
LEMMA GroupListing ==
  ASSUME NEW c, Listing(c), c.pc = "group", c.i < c.groups, IsSeq(c.calls),
         NEW e, NEW d, GroupTold(c, e, d)
  PROVE  Listing(d)
<1> USE DEF GroupTold
<1> DEFINE gs == Groups(c.calls)
           hs == Groups(d.calls)
           fs == Files(d.calls)
<1>1. /\ IsSeq(gs) /\ c.groups \in Nat /\ c.i \in 0..(c.groups - 1) /\ Len(gs) = c.i
      /\ Total(gs) \in Nat /\ IsSeq(Files(c.calls)) /\ Len(Files(c.calls)) = Total(gs)
  BY DEF Listing, InGroup
<1>2. hs = Append(gs, e) /\ fs = Files(c.calls)
  BY CallCounted DEF GroupOp, FileOp
<1>3. /\ IsSeq(hs) /\ IsSeq(fs) /\ Len(hs) = c.i + 1 /\ Len(fs) = Total(gs)
      /\ Total(hs) = Total(gs) + e.out
      /\ NoneEmpty(hs) <=> NoneEmpty(gs) /\ e.out > 0
  <2>1. IsSeq(Append(gs, e)) /\ Len(Append(gs, e)) = Len(gs) + 1
    BY <1>1, SeqGrows
  <2>2. /\ Total(Append(gs, e)) = Total(gs) + e.out
        /\ NoneEmpty(Append(gs, e)) <=> NoneEmpty(gs) /\ e.out > 0
    BY <1>1, GroupCounted
  <2> HIDE DEF gs, hs, fs
  <2> QED
    BY <1>1, <1>2, <2>1, <2>2 DEF fs
<1>4. PICK h \in Nat, l \in {"list", "comma"} :
        Printed(c.reply, Opened(h + 1), l) /\ (NoneEmpty(gs) <=> h = 0)
  <2>1. PICK h \in Nat, l \in {"list", "comma", "endobject"} :
          /\ Printed(c.reply, Opened(h + 1), l)
          /\ NoneEmpty(gs) <=> h = 0
          /\ c.i # c.groups => l # "endobject"
    BY DEF Listing, InGroup
  <2>2. c.i # c.groups
    BY <1>1
  <2>3. l \in {"list", "comma"}
    BY <2>1, <2>2
  <2> QED
    BY <2>1, <2>3
<1>5. Printed(d.reply, Opened((h + 1) + 1), "list")
  <2>1. h + 1 \in Nat
    OBVIOUS
  <2> QED
    BY <1>4, <2>1, PutGroup
<1> HIDE DEF gs, hs, fs
<1>6. ASSUME e.out = 0
      PROVE  InGroup(d)
  <2>1. h + 1 \in Nat /\ h + 1 # 0 /\ ~NoneEmpty(hs) /\ "list" \in {"list", "comma", "endobject"}
    BY <1>3, <1>6
  <2>2. \E k \in Nat : \E m \in {"list", "comma", "endobject"} :
          /\ Printed(d.reply, Opened(k + 1), m)
          /\ NoneEmpty(hs) <=> k = 0
          /\ d.i = d.groups => m # "comma"
          /\ d.i # d.groups => m # "endobject"
    <3>1. /\ Printed(d.reply, Opened((h + 1) + 1), "list")
          /\ NoneEmpty(hs) <=> h + 1 = 0
      BY <1>5, <2>1
    <3> QED
      BY <2>1, <3>1
  <2>3. d.groups \in Nat /\ d.i \in 0..d.groups /\ Len(hs) = d.i /\ Total(hs) \in Nat
        /\ Len(fs) = Total(hs)
    BY <1>1, <1>3, <1>6
  <2> QED
    BY <2>2, <2>3 DEF InGroup, hs, fs
<1>7. ASSUME e.out # 0
      PROVE  InWork(d)
  <2>1. NoneEmpty(hs) <=> h = 0
    BY <1>3, <1>4, <1>7
  <2>2. \E k \in Nat : \E m \in {"list", "comma"} :
          /\ Printed(d.reply, Opened((k + 1) + 1), m)
          /\ NoneEmpty(hs) <=> k = 0
    BY <1>5, <2>1
  <2>3. /\ d.groups \in Nat /\ d.i \in 0..(d.groups - 1) /\ Len(hs) = d.i + 1
        /\ d.works \in Nat /\ d.j \in 0..(d.works - 1)
    BY <1>1, <1>3, <1>7
  <2>4. Total(hs) \in Nat /\ Len(fs) + (d.works - d.j) = Total(hs)
    <3> DEFINE t == Total(gs)
    <3> HIDE DEF t
    <3>1. t \in Nat /\ Total(hs) = t + e.out /\ Len(fs) = t /\ d.works = e.out /\ d.j = 0
      BY <1>1, <1>3 DEF t
    <3> QED
      BY <3>1
  <2> QED
    BY <2>2, <2>3, <2>4 DEF InWork, hs, fs
<1>8. d.pc = "group" \/ d.pc = "work"
  OBVIOUS
<1>9. /\ d.pc = "group" => InGroup(d)
      /\ d.pc = "work" => InWork(d)
  BY <1>6, <1>7
<1> QED
  BY <1>3, <1>8, <1>9 DEF Listing, hs, fs

(* A work is told, and the last of a group ends it.                        *)
LEMMA WorkArith ==
  ASSUME NEW g \in Nat, NEW i \in 0..(g - 1), NEW w \in Nat, NEW j \in 0..(w - 1),
         NEW f \in Nat, NEW t \in Nat, f + (w - j) = t
  PROVE  /\ j # w - 1 => j + 1 \in 0..(w - 1)
         /\ (f + 1) + (w - (j + 1)) = t
         /\ j = w - 1 => i + 1 \in 0..g /\ f + 1 = t /\ (i + 1 = g <=> i = g - 1)
OBVIOUS

(* A work is asked for.                                                    *)
LEMMA WorkListing ==
  ASSUME NEW c, Listing(c), c.pc = "work", IsSeq(c.calls),
         NEW e, NEW d, WorkTold(c, e, d)
  PROVE  Listing(d)
<1> USE DEF WorkTold
<1> DEFINE gs == Groups(c.calls)
           fs == Files(c.calls)
           f == Len(fs)
           t == Total(gs)
<1>1. /\ IsSeq(gs) /\ c.groups \in Nat /\ c.i \in 0..(c.groups - 1) /\ Len(gs) = c.i + 1
      /\ c.works \in Nat /\ c.j \in 0..(c.works - 1)
      /\ t \in Nat /\ IsSeq(fs) /\ f + (c.works - c.j) = t
  BY DEF Listing, InWork
<1>2. Groups(d.calls) = gs /\ Files(d.calls) = Append(fs, e)
  BY CallCounted DEF GroupOp, FileOp
<1>3. IsSeq(Files(d.calls)) /\ Len(Files(d.calls)) = f + 1 /\ f \in Nat
  BY <1>1, <1>2, SeqGrows
<1>4. PICK h \in Nat, l \in {"list", "comma"} :
        Printed(c.reply, Opened((h + 1) + 1), l) /\ (NoneEmpty(gs) <=> h = 0)
  BY DEF Listing, InWork
<1>5. /\ c.j # c.works - 1 => Printed(d.reply, Opened((h + 1) + 1), "comma")
      /\ c.j = c.works - 1 /\ c.i = c.groups - 1 => Printed(d.reply, Opened(h + 1), "endobject")
      /\ c.j = c.works - 1 /\ c.i # c.groups - 1 => Printed(d.reply, Opened(h + 1), "comma")
  <2>1. h + 1 \in Nat
    OBVIOUS
  <2> QED
    BY <1>4, <2>1, PutCloseWork
<1> HIDE DEF gs, fs, f, t
<1>10. /\ c.j # c.works - 1 => c.j + 1 \in 0..(c.works - 1)
       /\ (f + 1) + (c.works - (c.j + 1)) = t
       /\ c.j = c.works - 1 =>
            c.i + 1 \in 0..c.groups /\ f + 1 = t /\ (c.i + 1 = c.groups <=> c.i = c.groups - 1)
  <2> DEFINE g == c.groups
             i == c.i
             w == c.works
             j == c.j
  <2>1. g \in Nat /\ i \in 0..(g - 1) /\ w \in Nat /\ j \in 0..(w - 1)
        /\ f \in Nat /\ t \in Nat /\ f + (w - j) = t
    BY <1>1, <1>3
  <2> HIDE DEF g, i, w, j
  <2>2. /\ j # w - 1 => j + 1 \in 0..(w - 1)
        /\ (f + 1) + (w - (j + 1)) = t
        /\ j = w - 1 => i + 1 \in 0..g /\ f + 1 = t /\ (i + 1 = g <=> i = g - 1)
    BY <2>1, WorkArith
  <2> QED
    BY <2>2 DEF g, i, w, j
<1>6. ASSUME c.j # c.works - 1
      PROVE  InWork(d)
  <2>1. \E k \in Nat : \E m \in {"list", "comma"} :
          /\ Printed(d.reply, Opened((k + 1) + 1), m)
          /\ NoneEmpty(gs) <=> k = 0
    BY <1>4, <1>5, <1>6
  <2>2. /\ d.groups \in Nat /\ d.i \in 0..(d.groups - 1) /\ Len(gs) = d.i + 1
        /\ d.works \in Nat /\ d.j \in 0..(d.works - 1)
        /\ (f + 1) + (d.works - d.j) = t
    BY <1>1, <1>3, <1>6, <1>10
  <2> QED
    BY <1>1, <1>2, <1>3, <2>1, <2>2 DEF InWork, gs, t
<1>7. ASSUME c.j = c.works - 1
      PROVE  InGroup(d)
  <2>1. /\ d.groups \in Nat /\ d.i \in 0..d.groups /\ Len(gs) = d.i /\ f + 1 = t
        /\ (d.i = d.groups <=> c.i = c.groups - 1)
    BY <1>1, <1>3, <1>7, <1>10
  <2>2. \E k \in Nat : \E m \in {"list", "comma", "endobject"} :
          /\ Printed(d.reply, Opened(k + 1), m)
          /\ NoneEmpty(gs) <=> k = 0
          /\ d.i = d.groups => m # "comma"
          /\ d.i # d.groups => m # "endobject"
    <3>1. CASE d.i = d.groups
      <4>1. Printed(d.reply, Opened(h + 1), "endobject")
        BY <1>5, <1>7, <2>1, <3>1
      <4> QED
        BY <1>4, <3>1, <4>1
    <3>2. CASE d.i # d.groups
      <4>1. Printed(d.reply, Opened(h + 1), "comma")
        BY <1>5, <1>7, <2>1, <3>2
      <4> QED
        BY <1>4, <3>2, <4>1
    <3> QED
      BY <3>1, <3>2
  <2> QED
    BY <1>1, <1>2, <1>3, <2>1, <2>2 DEF InGroup, gs, t
<1>8. d.pc = "group" \/ d.pc = "work"
  OBVIOUS
<1>9. /\ d.pc = "group" => InGroup(d)
      /\ d.pc = "work" => InWork(d)
  BY <1>6, <1>7
<1> QED
  BY <1>1, <1>2, <1>3, <1>8, <1>9 DEF Listing, gs

(* The list ends.                                                          *)
LEMMA EndListing ==
  ASSUME NEW c, Listing(c), c.pc = "group", c.i = c.groups,
         NEW d, d.calls = c.calls, d.reply = c.reply \o <<"endlist", "endobject">>,
         d.groups = c.groups, d.pc = "done"
  PROVE  Listing(d)
<1> DEFINE gs == Groups(c.calls)
<1>1. /\ IsSeq(gs) /\ IsSeq(Files(c.calls)) /\ Len(gs) = c.groups
      /\ Len(Files(c.calls)) = Total(gs)
  BY DEF Listing, InGroup
<1>2. PICK h \in Nat, l \in {"list", "comma", "endobject"} :
        /\ Printed(c.reply, Opened(h + 1), l)
        /\ NoneEmpty(gs) <=> h = 0
        /\ l # "comma"
  BY DEF Listing, InGroup
<1>3. l \in {"list", "endobject"}
  BY <1>2
<1>4. Printed(Append(Append(c.reply, "endlist"), "endobject"), Opened(h), "endobject")
  BY <1>2, <1>3, PutEnd
<1>5. d.reply = Append(Append(c.reply, "endlist"), "endobject")
  <2>1. c.reply \in Seq(Words)
    BY <1>2 DEF Printed
  <2>2. \A a \in Words : \A b \in Words : c.reply \o <<a, b>> = Append(Append(c.reply, a), b)
    BY <2>1, Apart
  <2> QED
    BY <2>2, BracketsAreWords
<1>6. WellFormed(d.reply) = (h = 0)
  BY <1>4, <1>5, PrintedWell
<1>7. NoneEmpty(gs) = (h = 0)
  <2>1. NoneEmpty(gs) \in BOOLEAN
    BY DEF NoneEmpty
  <2> HIDE DEF gs
  <2> QED
    BY <1>2, <2>1
<1> QED
  BY <1>1, <1>6, <1>7 DEF Listing, Told

-----------------------------------------------------------------------------
(* The steps of a command keep the list                                    *)

(* The calls are a sequence.                                               *)
LEMMA ShapeIsSeq ==
  ASSUME NEW c, CmdShape(c)
  PROVE  IsSeq(c.calls)
BY DEF CmdShape, IsSeq

(* Nothing is listed yet.                                                  *)
LEMMA WaitListing ==
  ASSUME NEW c, Listing(c), c.pc \in {"idle", "body", "dispatch"},
         NEW d, d.calls = c.calls, d.reply = c.reply, d.i = c.i,
         d.pc \in {"body", "dispatch"} \/ (d.pc = "done" /\ d.ok = FALSE)
  PROVE  Listing(d)
<1>1. /\ IsSeq(Groups(d.calls)) /\ IsSeq(Files(d.calls)) /\ d.i = 0 /\ d.reply = <<>>
      /\ Groups(d.calls) = <<>> /\ Files(d.calls) = <<>>
  BY DEF Listing
<1>2. CASE d.pc \in {"body", "dispatch"}
  BY <1>1, <1>2 DEF Listing
<1>3. CASE d.pc = "done" /\ d.ok = FALSE
  BY <1>1, <1>3, FailedListing
<1> QED
  BY <1>2, <1>3

(* The start of a command asks and prints nothing.                         *)
LEMMA BeginFields ==
  ASSUME CmdShape(cmd), NEW method, NEW in, Begin(method, in)
  PROVE  /\ cmd.pc = "idle" /\ cmd'.calls = cmd.calls /\ cmd'.reply = cmd.reply /\ cmd'.i = cmd.i
         /\ cmd'.pc \in {"body", "dispatch"} \/ (cmd'.pc = "done" /\ cmd'.ok = FALSE)
<1>1. cmd.pc = "idle"
  BY DEF Begin
<1>2. PICK spill \in Spills :
        LET c == [cmd EXCEPT !.spill = spill]
            text == in.name \o THTTPD_strdecode(Upto(in.query, MAX_CNT_CGI))
            buf == Upto(in.buffered, MAX_CNT_CGI - 1)
        IN \/ cmd' = [c EXCEPT !.pc = "done", !.ok = FALSE]
           \/ cmd' = [c EXCEPT !.pc = "dispatch", !.text = text]
           \/ cmd' = [c EXCEPT !.pc = "body", !.text = in.name, !.buf = buf,
                               !.left = in.arriving, !.want = in.contentlength]
  BY DEF Begin
<1> DEFINE text == in.name \o THTTPD_strdecode(Upto(in.query, MAX_CNT_CGI))
           buf == Upto(in.buffered, MAX_CNT_CGI - 1)
<1> HIDE DEF text, buf
<1>3. \/ cmd' = [[cmd EXCEPT !.spill = spill] EXCEPT !.pc = "done", !.ok = FALSE]
      \/ cmd' = [[cmd EXCEPT !.spill = spill] EXCEPT !.pc = "dispatch", !.text = text]
      \/ cmd' = [[cmd EXCEPT !.spill = spill] EXCEPT !.pc = "body", !.text = in.name,
                   !.buf = buf, !.left = in.arriving, !.want = in.contentlength]
  BY <1>2 DEF text, buf
<1>4. /\ cmd'.calls = cmd.calls /\ cmd'.reply = cmd.reply /\ cmd'.i = cmd.i
      /\ cmd'.pc \in {"body", "dispatch"} \/ (cmd'.pc = "done" /\ cmd'.ok = FALSE)
  BY <1>3, CmdFields
<1> QED
  BY <1>1, <1>4

(* The name is taken.                                                      *)
LEMMA BeginListing ==
  ASSUME CmdSane(cmd), Listing(cmd), NEW method, NEW in, Begin(method, in)
  PROVE  Listing(cmd')
<1>1. CmdShape(cmd)
  BY DEF CmdSane
<1> QED
  BY <1>1, BeginFields, WaitListing

(* Nor does reading its body.                                              *)
LEMMA BodyFields ==
  ASSUME CmdShape(cmd), EndBody \/ \E n \in 1..MAX_CNT_CGI : ReadBody(n)
  PROVE  /\ cmd.pc = "body" /\ cmd'.calls = cmd.calls /\ cmd'.reply = cmd.reply
         /\ cmd'.i = cmd.i
         /\ cmd'.pc \in {"body", "dispatch"} \/ (cmd'.pc = "done" /\ cmd'.ok = FALSE)
<1>1. ASSUME EndBody
      PROVE  /\ cmd.pc = "body" /\ cmd'.calls = cmd.calls /\ cmd'.reply = cmd.reply
             /\ cmd'.i = cmd.i
             /\ cmd'.pc \in {"body", "dispatch"} \/ (cmd'.pc = "done" /\ cmd'.ok = FALSE)
  <2> DEFINE text == cmd.text \o THTTPD_strdecode(cmd.buf)
  <2>1. /\ cmd.pc = "body"
        /\ \/ cmd' = [cmd EXCEPT !.pc = "dispatch", !.text = text]
           \/ cmd' = [cmd EXCEPT !.pc = "done", !.ok = FALSE]
    BY <1>1, CmdFields DEF EndBody
  <2> HIDE DEF text
  <2> QED
    BY <2>1, CmdFields
<1>2. ASSUME NEW n, ReadBody(n)
      PROVE  /\ cmd.pc = "body" /\ cmd'.calls = cmd.calls /\ cmd'.reply = cmd.reply
             /\ cmd'.i = cmd.i /\ cmd'.pc \in {"body", "dispatch"}
  <2> DEFINE b == cmd.buf \o SubSeq(cmd.left, 1, n)
             l == SubSeq(cmd.left, n + 1, Len(cmd.left))
  <2>1. cmd.pc = "body" /\ cmd' = [cmd EXCEPT !.buf = b, !.left = l]
    BY <1>2 DEF ReadBody
  <2> HIDE DEF b, l
  <2> QED
    BY <2>1, CmdFields
<1> QED
  BY <1>1, <1>2

(* The text is put together.                                               *)
LEMMA BodyListing ==
  ASSUME CmdSane(cmd), Listing(cmd), EndBody \/ \E n \in 1..MAX_CNT_CGI : ReadBody(n)
  PROVE  Listing(cmd')
<1>1. CmdShape(cmd)
  BY DEF CmdSane
<1>2. /\ cmd.pc = "body" /\ cmd'.calls = cmd.calls /\ cmd'.reply = cmd.reply
      /\ cmd'.i = cmd.i
      /\ cmd'.pc \in {"body", "dispatch"} \/ (cmd'.pc = "done" /\ cmd'.ok = FALSE)
  BY <1>1, BodyFields
<1> QED
  BY <1>2, WaitListing

(* The fields of a command after a call and at its end.                    *)
LEMMA CalledFields ==
  ASSUME NEW c, CmdShape(c), NEW op, NEW args, NEW answer, NEW out
  PROVE  LET c1 == Called(c, op, args, answer, out)
             e == [op |-> op, args |-> args, answer |-> answer, out |-> out]
         IN /\ CmdShape(c1) /\ c1.calls = Append(c.calls, e) /\ e.op = op /\ e.out = out
            /\ c1.reply = c.reply /\ c1.pc = c.pc /\ c1.i = c.i /\ c1.j = c.j
            /\ c1.groups = c.groups /\ c1.works = c.works
<1> DEFINE e == [op |-> op, args |-> args, answer |-> answer, out |-> out]
           calls == Append(c.calls, e)
           c1 == [c EXCEPT !.calls = calls]
<1>1. e.op = op /\ e.out = out
  OBVIOUS
<1>2. Called(c, op, args, answer, out) = c1
  BY CmdFields DEF Called
<1>3. CmdShape(Called(c, op, args, answer, out))
  BY CalledFacts
<1> HIDE DEF calls, e
<1>4. /\ c1.calls = calls /\ c1.reply = c.reply /\ c1.pc = c.pc /\ c1.i = c.i /\ c1.j = c.j
      /\ c1.groups = c.groups /\ c1.works = c.works
  BY CmdFields
<1> HIDE DEF c1
<1> QED
  BY <1>1, <1>2, <1>3, <1>4 DEF calls, e

(* And at its end.                                                         *)
LEMMA FinishFields ==
  ASSUME NEW c, CmdShape(c), NEW ok, NEW reply
  PROVE  LET c1 == Finish(c, ok, reply)
         IN /\ c1.calls = c.calls /\ c1.reply = c.reply \o reply /\ c1.pc = "done"
            /\ c1.ok = ok /\ c1.groups = c.groups
<1> DEFINE out == c.reply \o reply
           c1 == [c EXCEPT !.pc = "done", !.ok = ok, !.reply = out]
<1>1. Finish(c, ok, reply) = c1
  BY CmdFields DEF Finish
<1> HIDE DEF out
<1>2. c1.calls = c.calls /\ c1.reply = out /\ c1.pc = "done" /\ c1.ok = ok /\ c1.groups = c.groups
  BY CmdFields
<1> QED
  BY <1>1, <1>2 DEF out

(* The same at a successful end.                                           *)
LEMMA FinishedFields ==
  ASSUME NEW c, CmdShape(c), NEW reply
  PROVE  LET c1 == Finish(c, TRUE, reply)
         IN /\ c1.calls = c.calls /\ c1.reply = c.reply \o reply /\ c1.pc = "done"
            /\ c1.groups = c.groups
<1> DEFINE out == c.reply \o reply
           c1 == [c EXCEPT !.pc = "done", !.ok = TRUE, !.reply = out]
<1>1. Finish(c, TRUE, reply) = c1
  BY CmdFields DEF Finish
<1> HIDE DEF out
<1>2. c1.calls = c.calls /\ c1.reply = out /\ c1.pc = "done" /\ c1.groups = c.groups
  BY CmdFields
<1> QED
  BY <1>1, <1>2 DEF out

(* A command that ends by itself, without a list.                          *)
LEMMA FinishListing ==
  ASSUME NEW c, CmdShape(c), IsSeq(Groups(c.calls)), IsSeq(Files(c.calls)), NEW reply,
         NEW ok, ok = FALSE \/ (c.reply = <<>> /\ \E w : w # "object" /\ reply = <<w>>)
  PROVE  Listing(Finish(c, ok, reply))
<1> DEFINE d == Finish(c, ok, reply)
<1>1. d.calls = c.calls /\ d.reply = c.reply \o reply /\ d.pc = "done" /\ d.ok = ok
  BY FinishFields
<1> HIDE DEF d
<1>2. CASE ok = FALSE
  <2>1. Listing(d)
    BY <1>1, <1>2, FailedListing
  <2> QED
    BY <2>1 DEF d
<1>3. CASE c.reply = <<>> /\ \E w : w # "object" /\ reply = <<w>>
  <2>1. PICK w : w # "object" /\ reply = <<w>>
    BY <1>3
  <2>2. Listing(d)
    BY <1>1, <1>3, <2>1, WordListing
  <2> QED
    BY <2>2 DEF d
<1> QED
  BY <1>2, <1>3

(* One more call leaves sequences of calls.                                *)
LEMMA CallSeqs ==
  ASSUME NEW c, CmdShape(c), IsSeq(Groups(c.calls)), IsSeq(Files(c.calls)),
         NEW op, NEW args, NEW answer, NEW out
  PROVE  LET c1 == Called(c, op, args, answer, out)
         IN CmdShape(c1) /\ IsSeq(Groups(c1.calls)) /\ IsSeq(Files(c1.calls))
<1> DEFINE c1 == Called(c, op, args, answer, out)
           e == [op |-> op, args |-> args, answer |-> answer, out |-> out]
<1>1. CmdShape(c1) /\ c1.calls = Append(c.calls, e)
  BY CalledFields
<1> HIDE DEF c1, e
<1>2. Groups(c1.calls) = GroupOp(Groups(c.calls), e) /\ Files(c1.calls) = FileOp(Files(c.calls), e)
  BY <1>1, ShapeIsSeq, CallCounted
<1>3. IsSeq(Append(Groups(c.calls), e)) /\ IsSeq(Append(Files(c.calls), e))
  BY SeqGrows
<1> QED
  BY <1>1, <1>2, <1>3 DEF GroupOp, FileOp, c1

(* A handler's first call: a list begins if it asks for the groups.        *)
LEMMA AskListing ==
  ASSUME NEW c, CmdShape(c), Listing(c), c.pc = "dispatch", NEW h, NEW act, NEW val, NEW answer
  PROVE  Listing(Ask(c, h, act, val, answer))
<1> DEFINE takes == IF act = "set" THEN h.takes
                    ELSE IF "index" \in h.needs THEN <<"index">> ELSE <<>>
           op == Operation(h, act)
           args == Given(val, takes)
           e == [op |-> op, args |-> args, answer |-> answer, out |-> 0]
           c1 == Called(c, op, args, answer, 0)
           word == IF act = "set" THEN "success" ELSE "value"
<1>1. \/ Ask(c, h, act, val, answer) = Finish(c1, FALSE, <<"no_sd">>)
      \/ Ask(c, h, act, val, answer) = Finish(c1, h = GetRemoteFileList, <<"rtn_error">>)
      \/ h = GetRemoteFileList /\ Ask(c, h, act, val, answer) = [c1 EXCEPT !.pc = "groups"]
      \/ Ask(c, h, act, val, answer) = Finish(c1, TRUE, <<word>>)
  BY DEF Ask
<1>2. h = GetRemoteFileList => op \notin {"CMD_GET_WORK_NUMBER", "CMD_GET_FILE_NUMBER_CAMID"}
  <2> SUFFICES ASSUME h = GetRemoteFileList
               PROVE  op \notin {"CMD_GET_WORK_NUMBER", "CMD_GET_FILE_NUMBER_CAMID"}
    OBVIOUS
  <2>1. GetVersion = [table |-> <<"?", "act">>, needs |-> {}, takes |-> <<>>,
                      ops |-> Ops("CMD_GET_PARAM_SYS_VERSION", "")]
    BY DEF GetVersion
  <2>2. h.ops = Ops("CMD_GET_GROUP_NUMBER", "")
    BY <2>1 DEF GetRemoteFileList
  <2>3. h.ops.get = "CMD_GET_GROUP_NUMBER" /\ h.ops.set = "" /\ DOMAIN h.ops = {"get", "set"}
    <3> DEFINE o == [get |-> "CMD_GET_GROUP_NUMBER", set |-> ""]
    <3>1. o.get = "CMD_GET_GROUP_NUMBER" /\ o.set = "" /\ DOMAIN o = {"get", "set"}
      OBVIOUS
    <3>2. h.ops = o
      BY <2>2 DEF Ops
    <3> HIDE DEF o
    <3> QED
      BY <3>1, <3>2
  <2>4. op \in {"CMD_GET_GROUP_NUMBER", ""}
    BY <2>3 DEF Operation
  <2> QED
    BY <2>4
<1>3. word # "object"
  OBVIOUS
<1> HIDE DEF op, args, word
<1>4. /\ IsSeq(Groups(c.calls)) /\ IsSeq(Files(c.calls)) /\ c.i = 0 /\ c.reply = <<>>
      /\ Groups(c.calls) = <<>> /\ Files(c.calls) = <<>> /\ IsSeq(c.calls)
  BY ShapeIsSeq DEF Listing
<1>5. /\ CmdShape(c1) /\ IsSeq(Groups(c1.calls)) /\ IsSeq(Files(c1.calls))
  BY <1>4, CallSeqs
<1>6. /\ c1.calls = Append(c.calls, e) /\ e.op = op
      /\ c1.reply = <<>> /\ c1.i = 0
  BY <1>4, CalledFields
<1> HIDE DEF c1, e
<1>7. Listing(Finish(c1, FALSE, <<"no_sd">>))
  BY <1>5, FinishListing
<1>8. Listing(Finish(c1, h = GetRemoteFileList, <<"rtn_error">>))
  <2>1. \E w : w # "object" /\ <<"rtn_error">> = <<w>>
    OBVIOUS
  <2> QED
    BY <1>5, <1>6, <2>1, FinishListing
<1>9. Listing(Finish(c1, TRUE, <<word>>))
  <2>1. \E w : w # "object" /\ <<word>> = <<w>>
    BY <1>3
  <2> QED
    BY <1>5, <1>6, <2>1, FinishListing
<1>10. ASSUME h = GetRemoteFileList
       PROVE  Listing([c1 EXCEPT !.pc = "groups"])
  <2> DEFINE d == [c1 EXCEPT !.pc = "groups"]
  <2>1. d.calls = c1.calls /\ d.reply = c1.reply /\ d.i = c1.i /\ d.pc = "groups"
    BY <1>5, CmdFields
  <2> HIDE DEF d
  <2>2. Groups(d.calls) = <<>> /\ Files(d.calls) = <<>>
    <3>1. Groups(d.calls) = GroupOp(<<>>, e) /\ Files(d.calls) = FileOp(<<>>, e)
      BY <1>4, <1>6, <2>1, CallCounted
    <3> QED
      BY <1>2, <1>6, <1>10, <3>1 DEF GroupOp, FileOp
  <2>3. Listing(d)
    BY <1>5, <1>6, <2>1, <2>2 DEF Listing
  <2> QED
    BY <2>3 DEF d
<1> QED
  BY <1>1, <1>7, <1>8, <1>9, <1>10

(* The command is looked up and run.                                       *)
LEMMA DispatchListing ==
  ASSUME CmdShape(cmd), Listing(cmd), Dispatch
  PROVE  Listing(cmd')
<1> DEFINE p == Parsed(cmd.text)
           h == Handler[p.e.proc]
           a == IF h.table = <<>> THEN [ret |-> "ok", val |-> <<>>, isset |-> {}]
                ELSE ARG_Parser(h.table, p.args, cmd.spill)
           act == Act(p.e, a.val)
           word == IF h = SysTimeCfg THEN "json" ELSE "parser_error"
<1>1. cmd.pc = "dispatch"
  BY DEF Dispatch
<1>2. \/ cmd' = Finish(cmd, FALSE, <<>>)
      \/ cmd' = Finish(cmd, FALSE, <<word>>)
      \/ cmd' = Finish(cmd, FALSE, <<"cmd_invalid">>)
      \/ \E answer \in Answers : cmd' = Ask(cmd, h, act, a.val, answer)
  BY DEF Dispatch, Handle, Parse
<1> HIDE DEF h, a, act, word
<1>3. IsSeq(Groups(cmd.calls)) /\ IsSeq(Files(cmd.calls))
  BY DEF Listing
<1>4. Listing(Finish(cmd, FALSE, <<>>)) /\ Listing(Finish(cmd, FALSE, <<word>>))
      /\ Listing(Finish(cmd, FALSE, <<"cmd_invalid">>))
  BY <1>3, FinishListing
<1>5. \A answer \in Answers : Listing(Ask(cmd, h, act, a.val, answer))
  BY <1>1, AskListing
<1> QED
  BY <1>2, <1>4, <1>5

(* The actions of the list.                                                *)
LEMMA ListStartListing ==
  ASSUME CmdShape(cmd), Listing(cmd), NEW groups \in 0..MaxGroups, ListStart(groups)
  PROVE  Listing(cmd')
<1> DEFINE reply == cmd.reply \o <<"object", "list">>
<1>1. /\ cmd.pc = "groups"
      /\ cmd' = [[cmd EXCEPT !.reply = reply] EXCEPT !.pc = "group", !.groups = groups]
  BY DEF ListStart, Say
<1> HIDE DEF reply
<1>2. /\ cmd'.calls = cmd.calls /\ cmd'.reply = reply /\ cmd'.pc = "group" /\ cmd'.groups = groups
      /\ cmd'.i = cmd.i
  BY <1>1, CmdFields
<1>3. groups \in Nat
  BY ListAssumption
<1> QED
  BY <1>1, <1>2, <1>3, StartListing DEF reply

(* The next group.                                                         *)
LEMMA ListGroupListing ==
  ASSUME CmdShape(cmd), Listing(cmd), NEW answer, NEW works \in 0..MaxWorks,
         ListGroup(answer, works)
  PROVE  Listing(cmd')
<1> DEFINE op == "CMD_GET_WORK_NUMBER"
           args == <<cmd.i>>
           e == [op |-> op, args |-> args, answer |-> answer, out |-> works]
           c == Called(cmd, op, args, answer, works)
           next == IF works = 0 THEN "group" ELSE "work"
           i == IF works = 0 THEN cmd.i + 1 ELSE cmd.i
           reply == cmd.reply \o <<"object", "list">>
<1>1. /\ cmd.pc = "group" /\ cmd.i < cmd.groups
      /\ cmd' = IF answer # 0 THEN Finish(c, FALSE, <<"rtn_error">>)
                ELSE [Say(c, <<"object", "list">>) EXCEPT !.works = works, !.j = 0, !.pc = next,
                                                    !.i = IF works = 0 THEN @ + 1 ELSE @]
  BY DEF ListGroup
<1>2. /\ CmdShape(c) /\ c.calls = Append(cmd.calls, e) /\ e.op = op /\ e.out = works
      /\ c.reply = cmd.reply /\ c.i = cmd.i /\ c.groups = cmd.groups
  BY CalledFields
<1>3. IsSeq(Groups(c.calls)) /\ IsSeq(Files(c.calls))
  BY CallSeqs DEF Listing
<1>4. IsSeq(cmd.calls) /\ works \in Nat
  BY ShapeIsSeq, ListAssumption
<1> HIDE DEF c, args, e, next
<1>5. ASSUME answer # 0
      PROVE  Listing(cmd')
  BY <1>1, <1>2, <1>3, <1>5, FinishListing
<1>6. ASSUME answer = 0
      PROVE  Listing(cmd')
  <2>1. cmd' = [[c EXCEPT !.reply = reply] EXCEPT !.works = works, !.j = 0, !.pc = next, !.i = i]
    <3>1. Say(c, <<"object", "list">>) = [c EXCEPT !.reply = reply]
      BY <1>2 DEF Say
    <3> DEFINE s == [c EXCEPT !.reply = reply]
    <3>2. s.i = cmd.i /\ DOMAIN s = DOMAIN c
      BY <1>2, CmdFields
    <3> HIDE DEF s
    <3>3. cmd' = [s EXCEPT !.works = works, !.j = 0, !.pc = next,
                           !.i = IF works = 0 THEN @ + 1 ELSE @]
      BY <1>1, <1>6, <3>1 DEF s
    <3>4. {"works", "j", "pc", "i"} \subseteq DOMAIN s
      BY <1>2, <3>2, CmdFields
    <3>5. [s EXCEPT !.works = works, !.j = 0, !.pc = next, !.i = IF works = 0 THEN @ + 1 ELSE @]
            = [s EXCEPT !.works = works, !.j = 0, !.pc = next, !.i = i]
      BY <3>2
    <3> QED
      BY <3>3, <3>5 DEF s
  <2> HIDE DEF reply, i
  <2>2. /\ cmd'.calls = c.calls /\ cmd'.reply = reply /\ cmd'.groups = c.groups
        /\ cmd'.works = works /\ cmd'.j = 0 /\ cmd'.pc = next /\ cmd'.i = i
    BY <1>2, <2>1, CmdFields
  <2>3. GroupTold(cmd, e, cmd')
    BY <1>2, <1>4, <2>2 DEF reply, i, next, GroupTold
  <2> QED
    BY <1>1, <1>4, <2>3, GroupListing
<1> QED
  BY <1>5, <1>6

(* The next work.                                                          *)
LEMMA ListWorkListing ==
  ASSUME CmdShape(cmd), Listing(cmd), NEW answer, ListWork(answer)
  PROVE  Listing(cmd')
<1> DEFINE op == "CMD_GET_FILE_NUMBER_CAMID"
           args == <<cmd.i, cmd.j>>
           e == [op |-> op, args |-> args, answer |-> answer, out |-> 0]
           c == Called(cmd, op, args, answer, 0)
           last == cmd.j = cmd.works - 1
           next == IF last THEN "group" ELSE "work"
           i == IF last THEN cmd.i + 1 ELSE cmd.i
           j == cmd.j + 1
           pieces == CloseWork(cmd)
           reply == cmd.reply \o pieces
<1>1. /\ cmd.pc = "work"
      /\ cmd' = IF answer # 0 THEN Finish(c, FALSE, <<"rtn_error">>)
                ELSE [Say(c, pieces) EXCEPT !.pc = next, !.j = @ + 1,
                                            !.i = IF last THEN @ + 1 ELSE @]
  BY DEF ListWork
<1> HIDE DEF op, args
<1>2. /\ CmdShape(c) /\ c.calls = Append(cmd.calls, e) /\ e.op = op
      /\ c.reply = cmd.reply /\ c.i = cmd.i /\ c.j = cmd.j /\ c.groups = cmd.groups
      /\ c.works = cmd.works
  BY CalledFields
<1> USE DEF op
<1>3. IsSeq(Groups(c.calls)) /\ IsSeq(Files(c.calls))
  BY CallSeqs DEF Listing
<1>4. IsSeq(cmd.calls)
  BY ShapeIsSeq
<1> HIDE DEF c, args, e, next, pieces, last
<1>5. ASSUME answer # 0
      PROVE  Listing(cmd')
  BY <1>1, <1>2, <1>3, <1>5, FinishListing
<1>6. ASSUME answer = 0
      PROVE  Listing(cmd')
  <2>1. cmd' = [[c EXCEPT !.reply = reply] EXCEPT !.pc = next, !.j = j, !.i = i]
    <3>1. Say(c, pieces) = [c EXCEPT !.reply = reply]
      BY <1>2 DEF Say
    <3> DEFINE s == [c EXCEPT !.reply = reply]
    <3>2. s.i = cmd.i /\ s.j = cmd.j
      BY <1>2, CmdFields
    <3> HIDE DEF s
    <3>3. cmd' = [s EXCEPT !.pc = next, !.j = @ + 1, !.i = IF last THEN @ + 1 ELSE @]
      BY <1>1, <1>6, <3>1 DEF s
    <3>4. [s EXCEPT !.pc = next, !.j = @ + 1, !.i = IF last THEN @ + 1 ELSE @]
            = [s EXCEPT !.pc = next, !.j = j, !.i = i]
      BY <3>2
    <3> QED
      BY <3>3, <3>4 DEF s
  <2> HIDE DEF reply, i, j
  <2>2. /\ cmd'.calls = c.calls /\ cmd'.reply = reply /\ cmd'.groups = c.groups
        /\ cmd'.works = c.works /\ cmd'.j = j /\ cmd'.pc = next /\ cmd'.i = i
    BY <1>2, <2>1, CmdFields
  <2>3. WorkTold(cmd, e, cmd')
    BY <1>2, <2>2 DEF reply, i, j, next, last, pieces, WorkTold
  <2> QED
    BY <1>1, <1>4, <2>3, WorkListing
<1> QED
  BY <1>5, <1>6

(* The end of the list.                                                    *)
LEMMA ListEndListing ==
  ASSUME CmdShape(cmd), Listing(cmd), ListEnd
  PROVE  Listing(cmd')
<1>1. cmd.pc = "group" /\ cmd.i = cmd.groups
      /\ cmd' = Finish(cmd, TRUE, <<"endlist", "endobject">>)
  BY DEF ListEnd
<1> DEFINE pieces == <<"endlist", "endobject">>
<1> HIDE DEF pieces
<1>2. /\ cmd'.calls = cmd.calls /\ cmd'.reply = cmd.reply \o pieces /\ cmd'.pc = "done"
      /\ cmd'.groups = cmd.groups
  BY <1>1, FinishedFields DEF pieces
<1> QED
  BY <1>1, <1>2, EndListing DEF pieces

(* A step of the command.                                                  *)
LEMMA CgiListing ==
  ASSUME CmdSane(cmd), Listing(cmd), CgiNext
  PROVE  Listing(cmd')
<1>1. CmdShape(cmd)
  BY DEF CmdSane
<1> QED
  BY <1>1, BodyListing, DispatchListing, ListStartListing, ListGroupListing, ListWorkListing,
     ListEndListing DEF CgiNext

(* Only the steps of a command change it.                                  *)
LEMMA OthersKeepCmd ==
  ASSUME [Next]_vars
  PROVE  cmd' = cmd \/ InternalStart \/ InternalStep
<1>1. CASE Resolve
  BY <1>1 DEF Resolve
<1>2. CASE StartRequest
  BY <1>2 DEF StartRequest
<1>3. CASE FindIndex
  BY <1>3 DEF FindIndex
<1>4. CASE ExpandIndex
  BY <1>4 DEF ExpandIndex
<1>5. CASE InternalReply
  BY <1>5 DEF InternalReply
<1>6. CASE List
  BY <1>6 DEF List
<1>7. CASE Serve
  BY <1>7 DEF Serve
<1>8. CASE Map
  BY <1>8 DEF Map
<1>9. ASSUME NEW sz, HandleSend(sz)
      PROVE  cmd' = cmd
  BY <1>9 DEF HandleSend
<1>10. CASE Abort
  BY <1>10 DEF Abort
<1>11. ASSUME NEW p, Unlink(p)
       PROVE  cmd' = cmd
  BY <1>11 DEF Unlink
<1>12. ASSUME NEW p, NEW size, Rewrite(p, size)
       PROVE  cmd' = cmd
  BY <1>12 DEF Rewrite
<1>13. CASE UNCHANGED vars
  BY <1>13 DEF vars
<1> QED
  BY <1>1, <1>2, <1>3, <1>4, <1>5, <1>6, <1>7, <1>8, <1>9, <1>10, <1>11, <1>12, <1>13 DEF Next

(* However long the camera's list is, and wherever the camera fails: a     *)
(* file list that is told in full has the works of all groups, its nesting *)
(* is closed and its pieces follow one another as in JSON; except that a   *)
(* group without works is never closed, and spoils the list.               *)
THEOREM RspListWellFormed == Spec => []ListWellFormed
<1>1. Init => Listing(cmd)
  <2> SUFFICES ASSUME Init
               PROVE  Listing(cmd)
    OBVIOUS
  <2>1. cmd = NoCmd
    BY DEF Init
  <2>2. cmd.calls = <<>> /\ cmd.reply = <<>> /\ cmd.i = 0 /\ cmd.pc = "idle"
    BY <2>1 DEF NoCmd
  <2> QED
    BY <2>2, NoCalls DEF Listing
<1>2. RspInv /\ Listing(cmd) /\ [Next]_vars => Listing(cmd)'
  <2> SUFFICES ASSUME RspInv, Listing(cmd), [Next]_vars
               PROVE  Listing(cmd')
    OBVIOUS
  <2>1. CmdSane(cmd)
    BY DEF RspInv, Typed
  <2>2. CASE cmd' = cmd
    BY <2>2
  <2>3. CASE InternalStart
    BY <2>1, <2>3, BeginListing DEF InternalStart
  <2>4. CASE InternalStep
    BY <2>1, <2>4, CgiListing DEF InternalStep
  <2> QED
    BY <2>2, <2>3, <2>4, OthersKeepCmd
<1>3. Listing(cmd) => ListWellFormed
  BY ListIs DEF Listing
<1> QED
  BY <1>1, <1>2, <1>3, RspInvariant, PTL DEF Spec

-----------------------------------------------------------------------------
(* The arguments of a command                                              *)

Ag == INSTANCE FoldFacts WITH Op <- ParseArg

(* The least and the largest of a set of numbers.                          *)
LEMMA MinIn ==
  ASSUME NEW I \in SUBSET Nat, I # {}
  PROVE  Min(I) \in I /\ \A k \in I : Min(I) <= k
<1>1. PICK m \in I : \A k \in I : ~(<<k, m>> \in OpToRel(<, Nat))
  BY NatLessThanWellFounded, WFMin
<1>2. \A k \in I : ~(k < m)
  BY <1>1 DEF OpToRel
<1>3. \A k \in I : m <= k
  BY <1>2
<1> QED
  BY <1>1, <1>3 DEF Min

(* The largest.                                                            *)
LEMMA MaxIn ==
  ASSUME NEW n \in Nat, NEW I \in SUBSET (0..n), I # {}
  PROVE  Max(I) \in I /\ \A k \in I : k <= Max(I)
<1> DEFINE J == {n - i : i \in I}
<1>1. J \in SUBSET Nat /\ J # {}
  <2>1. \A i \in I : n - i \in Nat
    OBVIOUS
  <2> QED
    BY <2>1
<1>2. Min(J) \in J /\ \A k \in J : Min(J) <= k
  BY <1>1, MinIn
<1>3. PICK m \in I : Min(J) = n - m
  BY <1>2
<1>4. \A k \in I : n - k \in J
  OBVIOUS
<1>5. \A k \in I : n - m <= n - k
  BY <1>2, <1>3, <1>4
<1>6. \A k \in I : k <= m
  BY <1>5
<1> QED
  BY <1>6 DEF Max

(* An argument that names no option goes to one that has no value yet.     *)
LEMMA NoArgIs ==
  ASSUME NEW table, Len(table) \in Nat, NEW isset
  PROVE  LET o == FindOptNoArg(table, isset)
         IN o # "" => o # "?" /\ o \notin isset
<1> DEFINE I == {i \in 1..Len(table) : table[i] # "?" /\ table[i] \notin isset}
<1>1. FindOptNoArg(table, isset) = (LET i == IF I # {} THEN Min(I) ELSE 0
                                    IN IF i = 0 THEN "" ELSE table[i])
  BY DEF FindOptNoArg, SelectInSeq
<1>2. CASE I = {}
  BY <1>1, <1>2
<1>3. CASE I # {}
  <2>1. I \in SUBSET Nat
    OBVIOUS
  <2>2. Min(I) \in I
    BY <1>3, <2>1, MinIn
  <2>3. Min(I) # 0 /\ table[Min(I)] # "?" /\ table[Min(I)] \notin isset
    BY <2>2
  <2> DEFINE i == Min(I)
  <2> HIDE DEF I
  <2>4. FindOptNoArg(table, isset) = table[i]
    BY <1>1, <1>3, <2>3
  <2> QED
    BY <2>3, <2>4
<1> QED
  BY <1>2, <1>3

ParserFields == {"table", "spill", "ret", "cur", "has", "isset", "val"}
Parser(p) == p = [k \in ParserFields |-> p[k]]

\* What option o is set to; the option that shares its memory with "index".
Stored(p, q, o, arg) ==
  /\ o # "" /\ q.has = FALSE /\ DOMAIN q.val = DOMAIN p.val /\ q.isset = p.isset \cup {o}
  /\ \A x \in DOMAIN p.val :
       \/ x = o /\ q.val[x] = ValueOf(o, arg)
       \/ x # o /\ q.val[x] = p.val[x]
       \/ x # o /\ x = p.spill.onto /\ x \in Ints

(* An option set to an argument: what shares its memory with it may change. *)
LEMMA SetValueIs ==
  ASSUME NEW p, Parser(p), NEW o, NEW arg
  PROVE  LET q == SetValue(p, o, arg)
         IN /\ Parser(q) /\ q.table = p.table /\ q.spill = p.spill
            /\ q.ret = "ok" => Stored(p, q, o, arg)
<1> DEFINE q == SetValue(p, o, arg)
           v == ValueOf(o, arg)
           rest(x) == Spilt(p.val[x], Atoi(arg), p.spill.bytes)
           isset == p.isset \cup {o}
           val == [x \in DOMAIN p.val |->
                     CASE x = o -> v
                       [] x # o /\ o = "index" /\ x = p.spill.onto /\ x \in Ints -> rest(x)
                       [] OTHER -> p.val[x]]
<1>1. \/ q = [p EXCEPT !.ret = "not_defined"]
      \/ q = [p EXCEPT !.ret = "not_in_region"]
      \/ o # "" /\ q = [p EXCEPT !.has = FALSE, !.isset = isset, !.val = val]
  BY DEF SetValue
<1> HIDE DEF q, v, rest, isset
<1>2. DOMAIN p = ParserFields
  BY DEF Parser
<1>3. ASSUME NEW ret, ret \in {"not_defined", "not_in_region"}, q = [p EXCEPT !.ret = ret]
      PROVE  Parser(q) /\ q.table = p.table /\ q.spill = p.spill /\ q.ret # "ok"
  BY <1>2, <1>3 DEF Parser, ParserFields
<1>4. ASSUME o # "", q = [p EXCEPT !.has = FALSE, !.isset = isset, !.val = val]
      PROVE  /\ Parser(q) /\ q.table = p.table /\ q.spill = p.spill
             /\ q.has = FALSE /\ q.isset = isset /\ q.val = val
  <2> HIDE DEF val
  <2> QED
    BY <1>2, <1>4 DEF Parser, ParserFields
<1>5. /\ DOMAIN val = DOMAIN p.val
      /\ \A x \in DOMAIN p.val :
           \/ x = o /\ val[x] = v
           \/ x # o /\ val[x] = p.val[x]
           \/ x # o /\ x = p.spill.onto /\ x \in Ints
  OBVIOUS
<1> HIDE DEF val
<1> QED
  BY <1>1, <1>3, <1>4, <1>5 DEF q, v, isset, Stored

(* One argument: a value, for the option before it or the next free one,   *)
(* or the name of an option the table has.                                 *)
LEMMA ParseArgIs ==
  ASSUME NEW p, Parser(p), Len(p.table) \in Nat, NEW arg
  PROVE  LET q == ParseArg(p, arg)
             name == OptName(arg)
             o == IF p.has THEN p.cur ELSE FindOptNoArg(p.table, p.isset)
         IN /\ Parser(q) /\ q.table = p.table /\ q.spill = p.spill
            /\ q.ret = "ok" => p.ret = "ok"
            /\ q.ret = "ok" /\ IsOpt(arg) =>
                 /\ Contains(p.table, name)
                 /\ q.val = p.val
                 /\ name # "?" => q.has = TRUE /\ q.cur = name /\ q.isset = p.isset
                 /\ name = "?" => q.has = FALSE /\ q.isset = p.isset \cup {"?"}
            /\ q.ret = "ok" /\ ~IsOpt(arg) => Stored(p, q, o, arg)
<1> DEFINE q == ParseArg(p, arg)
           name == OptName(arg)
           f == FindOptStr(p.table, name)
           o == IF p.has THEN p.cur ELSE FindOptNoArg(p.table, p.isset)
           v == SetValue(p, o, arg)
           isset == p.isset \cup {f}
<1>1. DOMAIN p = ParserFields
  BY DEF Parser
<1>2. /\ Parser(v) /\ v.table = p.table /\ v.spill = p.spill
      /\ v.ret = "ok" => Stored(p, v, o, arg)
  <2> HIDE DEF o
  <2> QED
    BY SetValueIs
<1>3. f # "" => f = name /\ Contains(p.table, name)
  BY DEF FindOptStr
<1>4. /\ p.ret # "ok" => q = p
      /\ p.ret = "ok" /\ ~IsOpt(arg) => q = v
      /\ p.ret = "ok" /\ IsOpt(arg) =>
           \/ f = "" /\ q = [p EXCEPT !.ret = "wrong_format"]
           \/ f = "?" /\ q = [p EXCEPT !.cur = f, !.has = FALSE, !.isset = isset]
           \/ f # "" /\ f # "?" /\ q = [p EXCEPT !.cur = f, !.has = TRUE]
  <2> HIDE DEF v, f
  <2> QED
    BY DEF ParseArg, v, f
<1> HIDE DEF q, v, f, o, name, isset
<1>5. CASE p.ret # "ok"
  BY <1>4, <1>5 DEF q
<1>6. CASE p.ret = "ok" /\ ~IsOpt(arg)
  <2>1. q = v
    BY <1>4, <1>6
  <2> QED
    BY <1>2, <1>6, <2>1 DEF q, o
<1>7. ASSUME p.ret = "ok", IsOpt(arg), q = [p EXCEPT !.ret = "wrong_format"]
      PROVE  Parser(q) /\ q.table = p.table /\ q.spill = p.spill /\ q.ret # "ok"
  BY <1>1, <1>7 DEF Parser, ParserFields
<1>8. ASSUME p.ret = "ok", q = [p EXCEPT !.cur = f, !.has = FALSE, !.isset = isset]
      PROVE  /\ Parser(q) /\ q.table = p.table /\ q.spill = p.spill
             /\ q.has = FALSE /\ q.isset = isset /\ q.val = p.val
  BY <1>1, <1>8 DEF Parser, ParserFields
<1>9. ASSUME p.ret = "ok", q = [p EXCEPT !.cur = f, !.has = TRUE]
      PROVE  /\ Parser(q) /\ q.table = p.table /\ q.spill = p.spill
             /\ q.has = TRUE /\ q.cur = f /\ q.isset = p.isset /\ q.val = p.val
  BY <1>1, <1>9 DEF Parser, ParserFields
<1>10. CASE p.ret = "ok" /\ IsOpt(arg)
  <2>1. CASE f = "" /\ q = [p EXCEPT !.ret = "wrong_format"]
    BY <1>7, <1>10, <2>1 DEF q
  <2>2. CASE f = "?" /\ q = [p EXCEPT !.cur = f, !.has = FALSE, !.isset = isset]
    BY <1>3, <1>8, <1>10, <2>2 DEF q, name, isset
  <2>3. CASE f # "" /\ f # "?" /\ q = [p EXCEPT !.cur = f, !.has = TRUE]
    BY <1>3, <1>9, <1>10, <2>3 DEF q, name
  <2> QED
    BY <1>4, <1>10, <2>1, <2>2, <2>3
<1> QED
  BY <1>5, <1>6, <1>10

\* Among the first n arguments, t[m] names an option and t[m + 1] is its value.
Pair(t, n, m) ==
  m \in 1..(n - 1) /\ IsOpt(t[m]) /\ OptName(t[m]) # "?" /\ ~IsOpt(t[m + 1])

\* The last pair of this name.
LastPair(t, n, m) ==
  /\ Pair(t, n, m)
  /\ \A k \in (m + 1)..(n - 1) : Pair(t, n, k) => OptName(t[k]) # OptName(t[m])

(* What the parser holds after n arguments: every option is known, one that *)
(* was given a value has one, and it is the last one given by name.        *)
Holding(p, t, n) ==
  /\ p.has <=> (n >= 1 /\ IsOpt(t[n]) /\ OptName(t[n]) # "?")
  /\ p.has => p.cur = OptName(t[n])
Known(p, t, n) == \A k \in 1..n : IsOpt(t[k]) => Contains(p.table, OptName(t[k]))
Query(p, t, n) ==
  \A k \in 1..n : IsOpt(t[k]) /\ OptName(t[k]) = "?" => "?" \in p.isset
Valued(p, t, n) == \A m \in 1..n : Pair(t, n, m) => OptName(t[m]) \in p.isset
Latest(p, t, n) ==
  \A m \in 1..n : LastPair(t, n, m) =>
    LET o == OptName(t[m])
    IN p.val[o] = ValueOf(o, t[m + 1]) \/ (o = p.spill.onto /\ o \in Ints)

ArgInv(p, t, n) ==
  /\ Parser(p)
  /\ p.ret = "ok" => /\ DOMAIN p.val = ToSet(p.table)
                     /\ Holding(p, t, n)
                     /\ Known(p, t, n)
                     /\ Query(p, t, n)
                     /\ Valued(p, t, n)
                     /\ Latest(p, t, n)

(* The pairs among one argument more.                                      *)
LEMMA PairsGrow ==
  ASSUME NEW n \in Nat, NEW t, NEW m \in 1..(n + 1), Pair(t, n + 1, m)
  PROVE  /\ m \in 1..n
         /\ Pair(t, n, m) \/ m = n
         /\ IsOpt(t[n + 1]) => Pair(t, n, m)
         /\ m = n => ~IsOpt(t[n + 1]) /\ IsOpt(t[n]) /\ OptName(t[n]) # "?"
<1>1. m \in 1..n /\ (m \in 1..(n - 1) \/ m = n)
  BY DEF Pair
<1>2. m = n => ~IsOpt(t[n + 1]) /\ IsOpt(t[n]) /\ OptName(t[n]) # "?"
  BY DEF Pair
<1>3. m \in 1..(n - 1) => Pair(t, n, m)
  BY DEF Pair
<1> QED
  BY <1>1, <1>2, <1>3

(* A pair stays one.                                                       *)
LEMMA PairsKept ==
  ASSUME NEW n \in Nat, NEW t, NEW k, Pair(t, n, k)
  PROVE  Pair(t, n + 1, k)
<1>1. k \in 1..(n - 1) => k \in 1..((n + 1) - 1)
  OBVIOUS
<1> QED
  BY <1>1 DEF Pair

(* And the last of its name, unless another of that name follows.          *)
LEMMA LastPairsGrow ==
  ASSUME NEW n \in Nat, NEW t, NEW m \in 1..(n + 1), LastPair(t, n + 1, m)
  PROVE  /\ Pair(t, n + 1, m)
         /\ Pair(t, n, m) => LastPair(t, n, m)
         /\ Pair(t, n + 1, n) /\ m # n => OptName(t[n]) # OptName(t[m])
<1>1. /\ Pair(t, n + 1, m)
      /\ \A k \in (m + 1)..((n + 1) - 1) :
           Pair(t, n + 1, k) => OptName(t[k]) # OptName(t[m])
  BY DEF LastPair
<1>2. ASSUME Pair(t, n, m), NEW k \in (m + 1)..(n - 1), Pair(t, n, k)
      PROVE  OptName(t[k]) # OptName(t[m])
  <2>1. k \in (m + 1)..((n + 1) - 1)
    OBVIOUS
  <2>2. Pair(t, n + 1, k)
    BY <1>2, PairsKept
  <2> QED
    BY <1>1, <2>1, <2>2
<1>3. ASSUME Pair(t, n + 1, n), m # n
      PROVE  OptName(t[n]) # OptName(t[m])
  <2>1. m \in 1..n
    BY <1>1, PairsGrow
  <2>2. n \in (m + 1)..((n + 1) - 1)
    BY <1>3, <2>1
  <2> QED
    BY <1>1, <1>3, <2>2
<1> QED
  BY <1>1, <1>2, <1>3 DEF LastPair

(* One argument more.                                                      *)
LEMMA ArgStep ==
  ASSUME NEW S, NEW A, NEW t \in Seq(A), NEW n \in Nat, n + 1 <= Len(t),
         NEW p, p.table \in Seq(S), ArgInv(p, t, n)
  PROVE  LET q == ParseArg(p, t[n + 1])
         IN ArgInv(q, t, n + 1) /\ q.table = p.table /\ q.spill = p.spill
<1> DEFINE a == t[n + 1]
           q == ParseArg(p, a)
           name == OptName(a)
           to == IF p.has THEN p.cur ELSE FindOptNoArg(p.table, p.isset)
<1>1. /\ Parser(p) /\ Len(p.table) \in Nat /\ DOMAIN p.table = 1..Len(p.table)
  BY DEF ArgInv
<1>2. /\ Parser(q) /\ q.table = p.table /\ q.spill = p.spill
      /\ q.ret = "ok" => p.ret = "ok"
      /\ q.ret = "ok" /\ IsOpt(a) =>
           /\ Contains(p.table, name)
           /\ q.val = p.val
           /\ name # "?" => q.has = TRUE /\ q.cur = name /\ q.isset = p.isset
           /\ name = "?" => q.has = FALSE /\ q.isset = p.isset \cup {"?"}
      /\ q.ret = "ok" /\ ~IsOpt(a) => Stored(p, q, to, a)
  <2> HIDE DEF a
  <2> QED
    BY <1>1, ParseArgIs
<1>3. ASSUME q.ret = "ok"
      PROVE  /\ DOMAIN q.val = ToSet(q.table) /\ Holding(q, t, n + 1) /\ Known(q, t, n + 1)
             /\ Query(q, t, n + 1) /\ Valued(q, t, n + 1) /\ Latest(q, t, n + 1)
  <2>1. /\ DOMAIN p.val = ToSet(p.table) /\ Holding(p, t, n) /\ Known(p, t, n)
        /\ Query(p, t, n) /\ Valued(p, t, n) /\ Latest(p, t, n)
    BY <1>2, <1>3 DEF ArgInv
  <2>2. \A x : Contains(p.table, x) => x \in DOMAIN p.val
    BY <1>1, <2>1 DEF Contains, ToSet
  <2>3. \A k \in 1..n : IsOpt(t[k]) => OptName(t[k]) \in DOMAIN p.val
    BY <2>1, <2>2 DEF Known
  <2>4. \A k \in 1..(n + 1) : k \in 1..n \/ k = n + 1
    OBVIOUS
  <2>6. t[n + 1] = a
    OBVIOUS
  <2> HIDE DEF a, q, to, name
  <2>7. CASE IsOpt(a)
    <3>1. Contains(p.table, name) /\ name \in DOMAIN p.val
      BY <1>2, <1>3, <2>2, <2>7
    <3>2. q.val = p.val
      BY <1>2, <1>3, <2>7
    <3>3. (name = "?" => "?" \in q.isset) /\ p.isset \subseteq q.isset
      BY <1>2, <1>3, <2>7
    <3>4. Holding(q, t, n + 1)
      <4>1. n + 1 >= 1
        OBVIOUS
      <4> QED
        BY <1>2, <1>3, <2>6, <2>7, <4>1 DEF Holding, name
    <3>5. Known(q, t, n + 1)
      BY <1>2, <2>1, <2>4, <2>6, <3>1 DEF Known, name
    <3>6. Query(q, t, n + 1)
      BY <2>1, <2>3, <2>4, <2>6, <3>3 DEF Query, name
    <3>7. ASSUME NEW m \in 1..(n + 1), Pair(t, n + 1, m)
          PROVE  m \in 1..n /\ Pair(t, n, m)
      BY <2>6, <2>7, <3>7, PairsGrow
    <3>8. Valued(q, t, n + 1)
      BY <2>1, <3>3, <3>7 DEF Valued
    <3>9. Latest(q, t, n + 1)
      <4> SUFFICES ASSUME NEW m \in 1..(n + 1), LastPair(t, n + 1, m)
                   PROVE  LET o == OptName(t[m])
                          IN q.val[o] = ValueOf(o, t[m + 1]) \/ (o = q.spill.onto /\ o \in Ints)
        BY DEF Latest
      <4>1. Pair(t, n + 1, m) /\ (Pair(t, n, m) => LastPair(t, n, m))
        BY LastPairsGrow
      <4> QED
        BY <1>2, <2>1, <3>2, <3>7, <4>1 DEF Latest
    <3> QED
      BY <1>2, <2>1, <3>2, <3>4, <3>5, <3>6, <3>8, <3>9
  <2>8. CASE ~IsOpt(a)
    <3>1. Stored(p, q, to, a)
      BY <1>2, <1>3, <2>8
    <3>2. p.isset \subseteq q.isset /\ to \in q.isset
      BY <3>1 DEF Stored
    <3>3. /\ p.has => to = OptName(t[n]) /\ n \in 1..n /\ IsOpt(t[n]) /\ OptName(t[n]) # "?"
          /\ ~p.has => to # "?" /\ to \notin p.isset
      <4>1. p.has => to = OptName(t[n]) /\ n >= 1 /\ IsOpt(t[n]) /\ OptName(t[n]) # "?"
        BY <2>1 DEF Holding, to
      <4>2. ~p.has => to = FindOptNoArg(p.table, p.isset)
        BY DEF to
      <4>3. to # ""
        BY <3>1 DEF Stored
      <4> DEFINE free == FindOptNoArg(p.table, p.isset)
      <4>4. free # "" => free # "?" /\ free \notin p.isset
        BY <1>1, NoArgIs
      <4>5. n >= 1 => n \in 1..n
        OBVIOUS
      <4> HIDE DEF free
      <4>6. ~p.has => to # "?" /\ to \notin p.isset
        BY <4>2, <4>3, <4>4 DEF free
      <4> QED
        BY <4>1, <4>5, <4>6
    <3>4. Holding(q, t, n + 1)
      BY <2>6, <2>8, <3>1 DEF Holding, Stored
    <3>5. Known(q, t, n + 1)
      BY <1>2, <2>1, <2>4, <2>6, <2>8 DEF Known
    <3>6. Query(q, t, n + 1)
      BY <2>1, <2>3, <2>4, <2>6, <2>8, <3>2 DEF Query
    <3>7. ASSUME NEW m \in 1..(n + 1), Pair(t, n + 1, m), ~Pair(t, n, m)
          PROVE  /\ m = n /\ p.has /\ OptName(t[m]) = to
                 /\ q.val[to] = ValueOf(to, a)
      <4>1. m = n /\ IsOpt(t[n]) /\ OptName(t[n]) # "?" /\ n \in 1..n
        BY <3>7, PairsGrow
      <4>2. p.has /\ to = OptName(t[n])
        BY <2>1, <3>3, <4>1 DEF Holding
      <4>3. to \in DOMAIN p.val
        BY <2>3, <4>1, <4>2
      <4> QED
        BY <3>1, <4>1, <4>2, <4>3 DEF Stored
    <3>8. Valued(q, t, n + 1)
      <4> SUFFICES ASSUME NEW m \in 1..(n + 1), Pair(t, n + 1, m)
                   PROVE  OptName(t[m]) \in q.isset
        BY DEF Valued
      <4>1. CASE ~Pair(t, n, m)
        BY <3>2, <3>7, <4>1
      <4>2. CASE Pair(t, n, m)
        <5>1. m \in 1..n /\ IsOpt(t[m])
          BY <4>2, PairsGrow DEF Pair
        <5> QED
          BY <2>1, <2>3, <3>2, <4>2, <5>1 DEF Valued
      <4> QED
        BY <4>1, <4>2
    <3>9. Latest(q, t, n + 1)
      <4> SUFFICES ASSUME NEW m \in 1..(n + 1), LastPair(t, n + 1, m)
                   PROVE  LET o == OptName(t[m])
                          IN q.val[o] = ValueOf(o, t[m + 1]) \/ (o = q.spill.onto /\ o \in Ints)
        BY DEF Latest
      <4>1. /\ Pair(t, n + 1, m) /\ (Pair(t, n, m) => LastPair(t, n, m))
            /\ Pair(t, n + 1, n) /\ m # n => OptName(t[n]) # OptName(t[m])
        BY LastPairsGrow
      <4>2. CASE ~Pair(t, n, m)
        BY <2>6, <3>7, <4>1, <4>2
      <4>3. CASE Pair(t, n, m)
        <5>1. m \in 1..n /\ m # n /\ IsOpt(t[m])
          BY <4>1, <4>3, PairsGrow DEF Pair
        <5> DEFINE o == OptName(t[m])
        <5>2. o \in DOMAIN p.val /\ o \in p.isset
          BY <2>1, <2>3, <4>3, <5>1 DEF Valued
        <5>3. p.val[o] = ValueOf(o, t[m + 1]) \/ (o = p.spill.onto /\ o \in Ints)
          BY <2>1, <4>1, <4>3, <5>1 DEF Latest
        <5>4. o # to
          <6>1. CASE p.has
            <7>1. n \in 1..((n + 1) - 1)
              BY <3>3, <6>1
            <7>2. Pair(t, n + 1, n)
              BY <2>6, <2>8, <3>3, <6>1, <7>1 DEF Pair
            <7> QED
              BY <3>3, <4>1, <5>1, <6>1, <7>2
          <6>2. CASE ~p.has
            BY <3>3, <5>2, <6>2
          <6> QED
            BY <6>1, <6>2
        <5> HIDE DEF o
        <5>5. q.val[o] = p.val[o] \/ (o = p.spill.onto /\ o \in Ints)
          BY <3>1, <5>2, <5>4 DEF Stored
        <5> QED
          BY <1>2, <5>3, <5>5 DEF o
      <4> QED
        BY <4>2, <4>3
    <3> QED
      BY <1>2, <2>1, <3>1, <3>4, <3>5, <3>6, <3>8, <3>9 DEF Stored
  <2> QED
    BY <2>7, <2>8
<1> QED
  BY <1>2, <1>3 DEF ArgInv

ArgBase(table, spill) ==
  [table |-> table, spill |-> spill, ret |-> "ok", cur |-> "", has |-> FALSE,
   isset |-> {}, val |-> [o \in ToSet(table) |-> Zero(o)]]

(* All of them.                                                            *)
LEMMA ArgsParsed ==
  ASSUME NEW S, NEW A, NEW table \in Seq(S), NEW spill, NEW t \in Seq(A)
  PROVE  LET p == Ag!Fold(ArgBase(table, spill), t)
         IN ArgInv(p, t, Len(t)) /\ p.table = table /\ p.spill = spill
<1> DEFINE base == ArgBase(table, spill)
           St(n) == Ag!Fold(base, SubSeq(t, 1, n))
           P == {n \in Nat : n <= Len(t) =>
                   ArgInv(St(n), t, n) /\ St(n).table = table /\ St(n).spill = spill}
<1>1. 0 \in P
  <2>1. SubSeq(t, 1, 0) = <<>>
    OBVIOUS
  <2>2. St(0) = base
    BY <2>1, Ag!FoldEmpty
  <2>3. base.table = table /\ base.spill = spill /\ Parser(base)
    BY DEF ArgBase, Parser, ParserFields
  <2>4. DOMAIN base.val = ToSet(table) /\ base.has = FALSE
    BY DEF ArgBase
  <2>5. \A k : k \notin 1..0
    OBVIOUS
  <2> HIDE DEF base
  <2>6. ArgInv(base, t, 0)
    BY <2>3, <2>4, <2>5 DEF ArgInv, Holding, Known, Query, Valued, Latest
  <2> QED
    BY <2>2, <2>3, <2>6
<1>2. ASSUME NEW n \in Nat, n \in P
      PROVE  n + 1 \in P
  <2> SUFFICES ASSUME n + 1 <= Len(t)
               PROVE  /\ ArgInv(St(n + 1), t, n + 1)
                      /\ St(n + 1).table = table /\ St(n + 1).spill = spill
    OBVIOUS
  <2>1. n + 1 \in 1..Len(t) /\ (n + 1) - 1 = n /\ n <= Len(t)
    OBVIOUS
  <2>2. St(n + 1) = ParseArg(St(n), t[n + 1])
    <3>1. Ag!Fold(base, SubSeq(t, 1, n + 1))
            = ParseArg(Ag!Fold(base, SubSeq(t, 1, (n + 1) - 1)), t[n + 1])
      BY <2>1, Ag!FoldPrefix
    <3> QED
      BY <2>1, <3>1
  <2> DEFINE p == St(n)
  <2>3. ArgInv(p, t, n) /\ p.table = table /\ p.spill = spill
    BY <1>2, <2>1
  <2> HIDE DEF p, P
  <2>4. LET q == ParseArg(p, t[n + 1])
        IN ArgInv(q, t, n + 1) /\ q.table = p.table /\ q.spill = p.spill
    BY <2>3, ArgStep
  <2> QED
    BY <2>2, <2>3, <2>4 DEF p
<1> HIDE DEF P
<1>3. Len(t) \in P
  BY <1>1, <1>2, Ag!NatInd
<1>4. Len(t) \in Nat /\ SubSeq(t, 1, Len(t)) = t
  OBVIOUS
<1> DEFINE p == St(Len(t))
<1>5. p = Ag!Fold(base, t)
  BY <1>4
<1> HIDE DEF p
<1>6. ArgInv(p, t, Len(t)) /\ p.table = table /\ p.spill = spill
  BY <1>3, <1>4 DEF P, p
<1> QED
  BY <1>5, <1>6

\* What the parser makes of its state after the last argument.
Judged(p) ==
  LET IsSet(o) == o \in p.isset
  IN CASE p.ret # "ok" -> p
       [] p.ret = "ok" /\ IsSet("?") /\ \E o \in DOMAIN p.val : o # "?" /\ IsSet(o) ->
            [p EXCEPT !.ret = "failure"]
       [] p.ret = "ok" /\ ~IsSet("?") /\ \E o \in Must \cap DOMAIN p.val : ~IsSet(o) ->
            [p EXCEPT !.ret = "must_not_set"]
       [] OTHER -> p

(* The parser is a fold of its arguments, judged.                          *)
LEMMA ParserIs ==
  ASSUME NEW table, NEW args, NEW spill
  PROVE  ARG_Parser(table, args, spill) = Judged(Ag!Fold(ArgBase(table, spill), args))
BY DEF ARG_Parser, Judged, OptIsSet, ArgBase, Ag!Fold, Ag!FoldLeft, Ag!MapThenFoldSet, Ag!Max,
       FoldLeft, MapThenFoldSet, Max

(* A command whose arguments are taken: all its options are known and none *)
(* is "?" if "act" is named; the last value named counts.                  *)
LEMMA ArgsTaken ==
  ASSUME NEW S, NEW A, NEW table \in Seq(S), NEW spill, NEW t \in Seq(A),
         ARG_Parser(table, t, spill).ret = "ok"
  PROVE  LET val == ARG_Parser(table, t, spill).val
         IN /\ \A k \in 1..Len(t) : IsOpt(t[k]) => Contains(table, OptName(t[k]))
            /\ \A m \in 1..Len(t) : LastPair(t, Len(t), m) =>
                 LET o == OptName(t[m])
                 IN val[o] = ValueOf(o, t[m + 1]) \/ (o = spill.onto /\ o \in Ints)
            /\ \A k, m \in 1..Len(t) : IsOpt(t[k]) /\ Pair(t, Len(t), m) =>
                 OptName(t[k]) # "?"
<1> DEFINE p == Ag!Fold(ArgBase(table, spill), t)
           n == Len(t)
<1>1. ArgInv(p, t, n) /\ p.table = table /\ p.spill = spill
  BY ArgsParsed
<1>2. ARG_Parser(table, t, spill) = Judged(p)
  BY ParserIs
<1>3. Len(table) \in Nat /\ DOMAIN table = 1..Len(table) /\ n \in Nat
  OBVIOUS
<1> HIDE DEF p, n
<1>4. DOMAIN p = ParserFields
  BY <1>1 DEF ArgInv, Parser
<1>5. p.ret = "ok"
  BY <1>2 DEF Judged
<1>6. /\ DOMAIN p.val = ToSet(table) /\ Known(p, t, n) /\ Query(p, t, n)
      /\ Valued(p, t, n) /\ Latest(p, t, n)
  BY <1>1, <1>5 DEF ArgInv
<1>7. Judged(p) = p /\ ("?" \in p.isset => \A o \in DOMAIN p.val : o # "?" => o \notin p.isset)
  <2>1. [p EXCEPT !.ret = "failure"].ret = "failure"
    BY <1>4 DEF ParserFields
  <2>2. [p EXCEPT !.ret = "must_not_set"].ret = "must_not_set"
    BY <1>4 DEF ParserFields
  <2> DEFINE two == "?" \in p.isset /\ \E o \in DOMAIN p.val : o # "?" /\ o \in p.isset
  <2>3. \/ Judged(p) = p /\ ~two
        \/ Judged(p) = [p EXCEPT !.ret = "failure"]
        \/ Judged(p) = [p EXCEPT !.ret = "must_not_set"]
    BY <1>5 DEF Judged
  <2>4. Judged(p) = p /\ ~two
    BY <1>2, <2>1, <2>2, <2>3
  <2> QED
    BY <2>4
<1>8. ASSUME NEW k \in 1..n, NEW m \in 1..n, IsOpt(t[k]), Pair(t, n, m)
      PROVE  OptName(t[k]) # "?"
  <2> DEFINE o == OptName(t[m])
  <2>1. IsOpt(t[m]) /\ o # "?"
    BY <1>8 DEF Pair
  <2>2. o \in DOMAIN p.val
    BY <1>1, <1>3, <1>6, <2>1 DEF Known, Contains, ToSet
  <2>3. o \in p.isset
    BY <1>6, <1>8 DEF Valued
  <2>4. "?" \notin p.isset
    BY <1>7, <2>1, <2>2, <2>3
  <2> QED
    BY <1>6, <1>8, <2>4 DEF Query
<1> QED
  BY <1>1, <1>2, <1>6, <1>7, <1>8 DEF Known, Latest, n

(* The value of an option as CommandExact tells it.                        *)
LEMMA NamedIs ==
  ASSUME NEW A, NEW args \in Seq(A), NEW o, o # "?"
  PROVE  \/ /\ Named(args, o) = <<>>
            /\ \A m \in 1..Len(args) : Pair(args, Len(args), m) => OptName(args[m]) # o
         \/ \E m \in 1..Len(args) : /\ LastPair(args, Len(args), m) /\ OptName(args[m]) = o
                                    /\ Named(args, o) = args[m + 1]
<1> DEFINE n == Len(args)
           Names(m) == IsOpt(args[m]) /\ OptName(args[m]) = o /\ ~IsOpt(args[m + 1])
           I == {m \in 1..(n - 1) : Names(m)}
           J == {m \in 1..(n - 1) : LET k == [l \in DOMAIN args |-> l][m] IN Names(k)}
           k == Max(I)
<1>1. n \in Nat /\ DOMAIN args = 1..n
  OBVIOUS
<1>2. I = J
  <2>1. \A m \in 1..(n - 1) : [l \in DOMAIN args |-> l][m] = m
    BY <1>1
  <2> QED
    BY <2>1
<1>3. Named(args, o) = LET i == IF J # {} THEN Max(J) ELSE 0
                       IN IF i = 0 THEN <<>> ELSE args[i + 1]
  BY DEF Named, SelectLastInSubSeq
<1> HIDE DEF n, J
<1>4. \A m \in 1..n : Pair(args, n, m) /\ OptName(args[m]) = o => m \in I
  BY DEF Pair
<1>5. CASE I = {}
  BY <1>2, <1>3, <1>4, <1>5 DEF n
<1>6. CASE I # {}
  <2>1. I \in SUBSET (0..n)
    BY <1>1
  <2>2. k \in I /\ \A m \in I : m <= k
    BY <1>1, <1>6, <2>1, MaxIn
  <2>3. k \in 1..(n - 1) /\ k # 0 /\ Names(k)
    BY <1>1, <2>2
  <2> HIDE DEF I, k, Names
  <2>4. Named(args, o) = args[k + 1]
    BY <1>2, <1>3, <1>6, <2>3 DEF k
  <2>5. Pair(args, n, k) /\ OptName(args[k]) = o
    BY <2>3 DEF Names, Pair
  <2>6. ASSUME NEW m \in (k + 1)..(n - 1), Pair(args, n, m)
        PROVE  OptName(args[m]) # OptName(args[k])
    <3>1. m \in 1..n /\ ~(m <= k)
      BY <1>1, <2>3
    <3> QED
      BY <1>4, <2>2, <2>5, <2>6, <3>1
  <2>7. LastPair(args, n, k) /\ k \in 1..n
    BY <1>1, <2>3, <2>5, <2>6 DEF LastPair
  <2> QED
    BY <2>4, <2>5, <2>7 DEF n
<1> QED
  BY <1>5, <1>6

(* An option and its value in front of the arguments.                      *)
LEMMA Behind ==
  ASSUME NEW S, NEW args \in Seq(S), NEW x \in S, NEW y \in S, IsOpt(x),
         OptName(x) # "?", ~IsOpt(y)
  PROVE  LET n == Len(args)
             t == <<x, y>> \o args
         IN /\ t \in Seq(S) /\ Len(t) = n + 2
            /\ t[1] = x /\ t[2] = y /\ \A k \in 1..n : t[k + 2] = args[k] /\ k + 2 \in 1..Len(t)
            /\ Pair(t, n + 2, 1)
            /\ \A m \in 1..n : LastPair(args, n, m) => LastPair(t, n + 2, m + 2)
            /\ (\A m \in 1..n : Pair(args, n, m) => OptName(args[m]) # OptName(x)) =>
                 LastPair(t, n + 2, 1)
<1> DEFINE n == Len(args)
           t == <<x, y>> \o args
<1>1. /\ n \in Nat /\ t \in Seq(S) /\ Len(t) = n + 2 /\ t[1] = x /\ t[2] = y
      /\ \A k \in 1..n : t[k + 2] = args[k]
  <2>1. <<x, y>> \in Seq(S) /\ Len(<<x, y>>) = 2 /\ <<x, y>>[1] = x /\ <<x, y>>[2] = y
    OBVIOUS
  <2> DEFINE pre == <<x, y>>
  <2> HIDE DEF pre
  <2>2. /\ pre \o args \in Seq(S) /\ Len(pre \o args) = 2 + n
        /\ (pre \o args)[1] = pre[1] /\ (pre \o args)[2] = pre[2]
        /\ \A k \in 1..n : (pre \o args)[k + 2] = args[k]
    BY <2>1, ConcatProperties DEF pre
  <2> QED
    BY <2>1, <2>2 DEF pre
<1> HIDE DEF n, t
<1>2. \A k \in 1..n : k + 2 \in 1..(n + 2)
  BY <1>1
<1>3. Pair(t, n + 2, 1)
  BY <1>1 DEF Pair
<1>4. ASSUME NEW k \in 1..((n + 2) - 1), Pair(t, n + 2, k), k # 1
      PROVE  k - 2 \in 1..n /\ Pair(args, n, k - 2) /\ t[k] = args[k - 2]
  <2>1. k # 2
    BY <1>1, <1>4 DEF Pair
  <2> DEFINE j == k - 2
  <2>2. j \in 1..(n - 1) /\ j \in 1..n /\ j + 1 \in 1..n /\ k = j + 2 /\ k + 1 = (j + 1) + 2
    BY <1>1, <1>4, <2>1
  <2> HIDE DEF j
  <2>3. t[k] = args[j] /\ t[k + 1] = args[j + 1]
    BY <1>1, <2>2
  <2>4. Pair(args, n, j)
    BY <1>4, <2>2, <2>3 DEF Pair
  <2> QED
    BY <2>2, <2>3, <2>4 DEF j
<1>5. ASSUME NEW m \in 1..n, LastPair(args, n, m)
      PROVE  LastPair(t, n + 2, m + 2)
  <2>1. /\ m \in 1..(n - 1) /\ m + 1 \in 1..n /\ (m + 1) + 2 = (m + 2) + 1
        /\ m + 2 \in 1..((n + 2) - 1)
    BY <1>1, <1>5 DEF LastPair, Pair
  <2>2. t[m + 2] = args[m] /\ t[(m + 2) + 1] = args[m + 1]
    BY <1>1, <2>1
  <2>3. Pair(t, n + 2, m + 2)
    BY <1>5, <2>1, <2>2 DEF LastPair, Pair
  <2>4. ASSUME NEW k \in ((m + 2) + 1)..((n + 2) - 1), Pair(t, n + 2, k)
        PROVE  OptName(t[k]) # OptName(t[m + 2])
    <3>1. k \in 1..((n + 2) - 1) /\ k # 1
      BY <1>1
    <3>2. k - 2 \in 1..n /\ Pair(args, n, k - 2) /\ t[k] = args[k - 2]
      BY <1>4, <2>4, <3>1
    <3>3. k - 2 \in (m + 1)..(n - 1)
      BY <1>1
    <3> QED
      BY <1>5, <2>2, <3>2, <3>3 DEF LastPair
  <2> QED
    BY <2>3, <2>4 DEF LastPair
<1>6. ASSUME \A m \in 1..n : Pair(args, n, m) => OptName(args[m]) # OptName(x)
      PROVE  LastPair(t, n + 2, 1)
  <2>1. ASSUME NEW k \in (1 + 1)..((n + 2) - 1), Pair(t, n + 2, k)
        PROVE  OptName(t[k]) # OptName(t[1])
    <3>1. k \in 1..((n + 2) - 1) /\ k # 1
      BY <1>1
    <3>2. k - 2 \in 1..n /\ Pair(args, n, k - 2) /\ t[k] = args[k - 2]
      BY <1>4, <2>1, <3>1
    <3> QED
      BY <1>1, <1>6, <3>2
  <2> QED
    BY <1>3, <2>1 DEF LastPair
<1> QED
  BY <1>1, <1>2, <1>3, <1>5, <1>6 DEF n, t

(* A sequence with one element more.                                       *)
LEMMA Grown ==
  ASSUME NEW T, NEW s \in Seq(T), NEW u \in Seq(T), NEW e \in T, Len(u) = Len(s) + 1,
         \A i \in 1..Len(s) : u[i] = s[i], u[Len(s) + 1] = e
  PROVE  u = Append(s, e)
<1>1. /\ Append(s, e) \in Seq(T) /\ Len(Append(s, e)) = Len(s) + 1 /\ Len(s) \in Nat
      /\ \A i \in 1..Len(s) : Append(s, e)[i] = s[i]
      /\ Append(s, e)[Len(s) + 1] = e
  BY AppendProperties
<1>2. \A i \in 1..Len(u) : u[i] = Append(s, e)[i]
  <2>1. ASSUME NEW i \in 1..Len(u) PROVE u[i] = Append(s, e)[i]
    <3>1. i \in 1..Len(s) \/ i = Len(s) + 1
      BY <1>1
    <3> QED
      BY <1>1, <3>1
  <2> QED
    BY <2>1
<1> QED
  BY <1>1, <1>2, SeqEqual

\* The first few tokens.
LEMMA Few ==
  ASSUME NEW T, NEW a \in T, NEW b \in T, NEW c \in T, NEW d \in T, NEW e \in T, NEW f \in T,
         NEW g \in T
  PROVE  /\ <<a>> \in Seq(T) /\ <<a, b>> = Append(<<a>>, b)
         /\ <<a, b, c>> = Append(<<a, b>>, c)
         /\ <<a, b, c, d>> = Append(<<a, b, c>>, d)
         /\ <<a, b, c, d, e>> = Append(<<a, b, c, d>>, e)
         /\ <<a, b, c, d, e, f>> = Append(<<a, b, c, d, e>>, f)
         /\ <<a, b, c, d, e, f, g>> = Append(<<a, b, c, d, e, f>>, g)
         /\ <<a>> = Append(<<>>, a)
<1> DEFINE s1 == <<a>>
           s2 == <<a, b>>
           s3 == <<a, b, c>>
           s4 == <<a, b, c, d>>
           s5 == <<a, b, c, d, e>>
           s6 == <<a, b, c, d, e, f>>
           s7 == <<a, b, c, d, e, f, g>>
<1>1. /\ s1 \in Seq(T) /\ s2 \in Seq(T) /\ s3 \in Seq(T) /\ s4 \in Seq(T) /\ s5 \in Seq(T)
      /\ s6 \in Seq(T) /\ s7 \in Seq(T) /\ <<>> \in Seq(T)
  OBVIOUS
<1>2. /\ Len(s1) = 1 /\ s1[1] = a /\ Len(<<>>) = 0
      /\ Len(s2) = 2 /\ s2[1] = a /\ s2[2] = b
      /\ Len(s3) = 3 /\ s3[1] = a /\ s3[2] = b /\ s3[3] = c
  OBVIOUS
<1>3. /\ Len(s4) = 4 /\ s4[1] = a /\ s4[2] = b /\ s4[3] = c /\ s4[4] = d
      /\ Len(s5) = 5 /\ s5[1] = a /\ s5[2] = b /\ s5[3] = c /\ s5[4] = d /\ s5[5] = e
      /\ Len(s6) = 6 /\ s6[1] = a /\ s6[2] = b /\ s6[3] = c /\ s6[4] = d /\ s6[5] = e /\ s6[6] = f
      /\ Len(s7) = 7 /\ s7[1] = a /\ s7[2] = b /\ s7[3] = c /\ s7[4] = d /\ s7[5] = e /\ s7[6] = f
      /\ s7[7] = g
  OBVIOUS
<1> HIDE DEF s1, s2, s3, s4, s5, s6, s7
<1>4. s1 = Append(<<>>, a)
  BY <1>1, <1>2, Grown
<1>5. s2 = Append(s1, b)
  <2>1. /\ Len(s2) = Len(s1) + 1 /\ s2[Len(s1) + 1] = b
        /\ \A i \in 1..Len(s1) : s2[i] = s1[i]
    BY <1>2
  <2> QED
    BY <1>1, <2>1, Grown
<1>6. s3 = Append(s2, c)
  <2>1. /\ Len(s3) = Len(s2) + 1 /\ s3[Len(s2) + 1] = c
        /\ \A i \in 1..Len(s2) : s3[i] = s2[i]
    BY <1>2
  <2> QED
    BY <1>1, <2>1, Grown
<1>7. s4 = Append(s3, d)
  <2>1. /\ Len(s4) = Len(s3) + 1 /\ s4[Len(s3) + 1] = d
        /\ \A i \in 1..Len(s3) : s4[i] = s3[i]
    BY <1>2, <1>3
  <2> QED
    BY <1>1, <2>1, Grown
<1>8. s5 = Append(s4, e)
  <2>1. /\ Len(s5) = Len(s4) + 1 /\ s5[Len(s4) + 1] = e
        /\ \A i \in 1..Len(s4) : s5[i] = s4[i]
    BY <1>2, <1>3
  <2> QED
    BY <1>1, <2>1, Grown
<1>9. s6 = Append(s5, f)
  <2>1. /\ Len(s6) = Len(s5) + 1 /\ s6[Len(s5) + 1] = f
        /\ \A i \in 1..Len(s5) : s6[i] = s5[i]
    BY <1>2, <1>3
  <2> QED
    BY <1>1, <2>1, Grown
<1>10. s7 = Append(s6, g)
  <2>1. /\ Len(s7) = Len(s6) + 1 /\ s7[Len(s6) + 1] = g
        /\ \A i \in 1..Len(s6) : s7[i] = s6[i]
    BY <1>3
  <2> QED
    BY <1>1, <2>1, Grown
<1> QED
  BY <1>1, <1>4, <1>5, <1>6, <1>7, <1>8, <1>9, <1>10 DEF s1, s2, s3, s4, s5, s6, s7

(* The command and the entry's own "-act", joined.                         *)
LEMMA TwoFive ==
  ASSUME NEW T, NEW a \in T, NEW b \in T, NEW c \in T, NEW d \in T, NEW e \in T, NEW f \in T,
         NEW g \in T
  PROVE  <<a, b>> \o <<c, d, e, f, g>> = <<a, b, c, d, e, f, g>>
<1> DEFINE s == <<a, b>>
           t == <<c, d, e, f, g>>
           u == <<a, b, c, d, e, f, g>>
<1>1. s \in Seq(T) /\ t \in Seq(T) /\ u \in Seq(T)
  OBVIOUS
<1>2. /\ Len(s) = 2 /\ s[1] = a /\ s[2] = b
      /\ Len(t) = 5 /\ t[1] = c /\ t[2] = d /\ t[3] = e /\ t[4] = f /\ t[5] = g
  OBVIOUS
<1>3. /\ Len(u) = 7 /\ u[1] = a /\ u[2] = b /\ u[3] = c /\ u[4] = d /\ u[5] = e /\ u[6] = f
      /\ u[7] = g
  OBVIOUS
<1> HIDE DEF s, t, u
<1>4. /\ s \o t \in Seq(T) /\ Len(s \o t) = 7
      /\ \A i \in 1..(2 + 5) : (s \o t)[i] = IF i <= 2 THEN s[i] ELSE t[i - 2]
  <2>1. /\ s \o t \in Seq(T) /\ Len(s \o t) = Len(s) + Len(t)
        /\ \A i \in 1..Len(s) + Len(t) : (s \o t)[i] = IF i <= Len(s) THEN s[i] ELSE t[i - Len(s)]
    BY <1>1, ConcatProperties
  <2> QED
    BY <1>2, <2>1
<1>5. ASSUME NEW i \in 1..7
      PROVE  (s \o t)[i] = u[i]
  <2>1. i \in {1, 2, 3, 4, 5, 6, 7}
    OBVIOUS
  <2>2. /\ (s \o t)[1] = a /\ (s \o t)[2] = b /\ (s \o t)[3] = c
        /\ (s \o t)[4] = d /\ (s \o t)[5] = e /\ (s \o t)[6] = f /\ (s \o t)[7] = g
    BY <1>2, <1>4
  <2> QED
    BY <1>3, <2>1, <2>2
<1>6. s \o t = u
  BY <1>1, <1>3, <1>4, <1>5, SeqEqual
<1> QED
  BY <1>6 DEF s, t, u

-----------------------------------------------------------------------------
(* The text of a command                                                   *)

\* The pieces of a text, a fold of it.
Pc == INSTANCE FoldFacts WITH Op <- Piece

Cuts == Seq(Tokens) \ {<<>>}
IsPieces(p) ==
  /\ p = [done |-> p.done, open |-> p.open]
  /\ p.done \in Seq(Cuts) /\ p.open \in Seq(Tokens)

\* The pieces p with others in front.
After(base, p) == [done |-> base \o p.done, open |-> p.open]

(* Close() and the fold, brought together.                                 *)
LEMMA PiecesAre ==
  ASSUME NEW s
  PROVE  Pieces(s) = Close(Pc!Fold(NoPiece, s)).done
BY DEF Pieces, Pc!Fold, Pc!FoldLeft, Pc!MapThenFoldSet, Pc!Max, FoldLeft, MapThenFoldSet, Max

(* A piece cut to its buffer is not empty.                                 *)
LEMMA CutIs ==
  ASSUME NEW s \in Cuts
  PROVE  /\ Upto(s, MAX_CNT_EVERYCMD - 1) \in Cuts
         /\ Len(s) <= 2 => Upto(s, MAX_CNT_EVERYCMD - 1) = s
<1>1. MAX_CNT_EVERYCMD \in Nat /\ MAX_CNT_EVERYCMD > 2
  BY BuffersAssumption
<1>2. s \in Seq(Tokens) /\ Len(s) \in Nat /\ Len(s) # 0
  BY EmptySeq DEF Cuts
<1> DEFINE n == IF MAX_CNT_EVERYCMD - 1 < Len(s) THEN MAX_CNT_EVERYCMD - 1 ELSE Len(s)
           u == SubSeq(s, 1, n)
<1>3. n \in 1..Len(s) /\ (Len(s) <= 2 => n = Len(s))
  BY <1>1, <1>2
<1>4. Upto(s, MAX_CNT_EVERYCMD - 1) = u
  BY DEF Upto
<1> HIDE DEF n
<1>5. u \in Seq(Tokens) /\ Len(u) = n
  <2>1. \A k \in 1..n : s[k] \in Tokens
    BY <1>2, <1>3
  <2> QED
    BY <1>2, <1>3, <2>1, SubSeqProperties
<1>6. u # <<>>
  BY <1>3, <1>5
<1>7. Len(s) <= 2 => u = s
  BY <1>2, <1>3
<1> QED
  BY <1>4, <1>5, <1>6, <1>7 DEF Cuts

(* The end of a piece.                                                     *)
LEMMA CloseBehind ==
  ASSUME NEW p, IsPieces(p), NEW base \in Seq(Cuts)
  PROVE  IsPieces(Close(p)) /\ Close(After(base, p)) = After(base, Close(p))
<1> DEFINE c == Upto(p.open, MAX_CNT_EVERYCMD - 1)
           d == Append(p.done, c)
           b == Append(base \o p.done, c)
           e == base \o p.done
<1>1. /\ p.open = <<>> => Close(p) = [done |-> p.done, open |-> <<>>]
      /\ p.open # <<>> => Close(p) = [done |-> d, open |-> <<>>]
      /\ p.open = <<>> => Close(After(base, p)) = [done |-> e, open |-> <<>>]
      /\ p.open # <<>> => Close(After(base, p)) = [done |-> b, open |-> <<>>]
  BY DEF Close, After
<1>2. p.open # <<>> => c \in Cuts
  BY CutIs DEF IsPieces, Cuts
<1> HIDE DEF c
<1>3. p.done \in Seq(Cuts) /\ <<>> \in Seq(Tokens)
  BY DEF IsPieces
<1>4. c \in Cuts => d \in Seq(Cuts) /\ b = base \o d
  <2> SUFFICES ASSUME c \in Cuts PROVE d \in Seq(Cuts) /\ b = base \o d
    OBVIOUS
  <2>1. <<c>> \in Seq(Cuts)
    OBVIOUS
  <2>2. d \in Seq(Cuts) /\ d = p.done \o <<c>>
    BY <1>3, AppendProperties, AppendIsConcat
  <2>3. e \in Seq(Cuts)
    BY <1>3, ConcatProperties
  <2>4. b = e \o <<c>>
    BY <2>3, AppendIsConcat
  <2> DEFINE pre == p.done
             cs == <<c>>
  <2>5. pre \in Seq(Cuts) /\ cs \in Seq(Cuts)
    BY <1>3, <2>1
  <2> HIDE DEF pre, cs
  <2>6. (base \o pre) \o cs = base \o (pre \o cs)
    BY <2>5, ConcatAssociative
  <2> QED
    BY <2>2, <2>4, <2>6 DEF pre, cs
<1> HIDE DEF d, b, e
<1>5. CASE p.open = <<>>
  <2>1. Close(p) = [done |-> p.done, open |-> <<>>]
    BY <1>1, <1>5
  <2>2. Close(After(base, p)) = [done |-> e, open |-> <<>>]
    BY <1>1, <1>5
  <2> QED
    BY <1>3, <2>1, <2>2 DEF IsPieces, After, e
<1>6. CASE p.open # <<>>
  <2>1. Close(p) = [done |-> d, open |-> <<>>]
    BY <1>1, <1>6
  <2>2. Close(After(base, p)) = [done |-> b, open |-> <<>>]
    BY <1>1, <1>6
  <2>3. d \in Seq(Cuts) /\ b = base \o d
    BY <1>2, <1>4, <1>6
  <2> QED
    BY <1>3, <2>1, <2>2, <2>3 DEF IsPieces, After
<1> QED
  BY <1>5, <1>6

(* One token more.                                                         *)
LEMMA PieceBehind ==
  ASSUME NEW p, IsPieces(p), NEW base \in Seq(Cuts), NEW e \in Tokens
  PROVE  IsPieces(Piece(p, e)) /\ Piece(After(base, p), e) = After(base, Piece(p, e))
<1>1. CASE e \in {"&", "="}
  <2>1. Piece(p, e) = Close(p) /\ Piece(After(base, p), e) = Close(After(base, p))
    BY <1>1 DEF Piece
  <2> QED
    BY <2>1, CloseBehind
<1>2. CASE e \notin {"&", "="}
  <2> DEFINE u == Append(p.open, e)
             d == p.done
             f == base \o p.done
  <2>1. Piece(p, e) = [p EXCEPT !.open = u]
    BY <1>2 DEF Piece
  <2>2. Piece(After(base, p), e) = [After(base, p) EXCEPT !.open = Append(@, e)]
    BY <1>2 DEF Piece
  <2>3. After(base, p) = [done |-> f, open |-> p.open]
    BY DEF After
  <2>4. u \in Seq(Tokens) /\ d \in Seq(Cuts) /\ p = [done |-> d, open |-> p.open]
    BY DEF IsPieces
  <2> HIDE DEF d, f
  <2>5. Piece(After(base, p), e) = [done |-> f, open |-> u]
    <3> DEFINE o == p.open
               q == [done |-> f, open |-> o]
    <3>1. q.open = o /\ [q EXCEPT !.open = u] = [done |-> f, open |-> u]
      <4> HIDE DEF o, u
      <4> QED
        OBVIOUS
    <3>2. [q EXCEPT !.open = Append(@, e)] = [q EXCEPT !.open = Append(q.open, e)]
      OBVIOUS
    <3> HIDE DEF o
    <3>3. After(base, p) = q
      BY <2>3 DEF o
    <3> HIDE DEF q
    <3>4. Piece(After(base, p), e) = [q EXCEPT !.open = u]
      BY <2>2, <3>1, <3>2, <3>3 DEF u, o
    <3> QED
      BY <3>1, <3>4
  <2> HIDE DEF u
  <2>6. Piece(p, e) = [done |-> d, open |-> u]
    BY <2>1, <2>4
  <2> QED
    BY <2>4, <2>5, <2>6 DEF IsPieces, After, d, f
<1> QED
  BY <1>1, <1>2

(* What was split before stays in front.                                   *)
LEMMA PiecesBehind ==
  ASSUME NEW s \in Seq(Tokens), NEW base \in Seq(Cuts)
  PROVE  /\ IsPieces(Pc!Fold(NoPiece, s))
         /\ Pc!Fold(After(base, NoPiece), s) = After(base, Pc!Fold(NoPiece, s))
<1> DEFINE F(b, n) == Pc!Fold(b, SubSeq(s, 1, n))
           from == After(base, NoPiece)
           P == {n \in Nat : n <= Len(s) =>
                   IsPieces(F(NoPiece, n)) /\ F(from, n) = After(base, F(NoPiece, n))}
<1>1. 0 \in P
  <2>1. SubSeq(s, 1, 0) = <<>>
    OBVIOUS
  <2>2. F(NoPiece, 0) = NoPiece /\ F(from, 0) = from
    BY <2>1, Pc!FoldEmpty
  <2>3. IsPieces(NoPiece)
    BY DEF IsPieces, NoPiece
  <2> HIDE DEF F
  <2> QED
    BY <2>2, <2>3
<1>2. ASSUME NEW n \in Nat, n \in P
      PROVE  n + 1 \in P
  <2> SUFFICES ASSUME n + 1 <= Len(s)
               PROVE  /\ IsPieces(F(NoPiece, n + 1))
                      /\ F(from, n + 1) = After(base, F(NoPiece, n + 1))
    OBVIOUS
  <2>1. n + 1 \in 1..Len(s) /\ (n + 1) - 1 = n /\ n <= Len(s) /\ s[n + 1] \in Tokens
    OBVIOUS
  <2>2. ASSUME NEW b
        PROVE  F(b, n + 1) = Piece(F(b, n), s[n + 1])
    <3>1. Pc!Fold(b, SubSeq(s, 1, n + 1)) = Piece(Pc!Fold(b, SubSeq(s, 1, (n + 1) - 1)), s[n + 1])
      BY <2>1, Pc!FoldPrefix
    <3> QED
      BY <2>1, <3>1
  <2> DEFINE f == F(NoPiece, n)
             e == s[n + 1]
  <2>3. IsPieces(f) /\ F(from, n) = After(base, f)
    BY <1>2, <2>1
  <2>4. F(NoPiece, n + 1) = Piece(f, e) /\ F(from, n + 1) = Piece(F(from, n), e)
    BY <2>2
  <2> HIDE DEF F, f, e, P, from
  <2>5. e \in Tokens
    BY <2>1 DEF e
  <2>6. IsPieces(Piece(f, e)) /\ Piece(After(base, f), e) = After(base, Piece(f, e))
    BY <2>3, <2>5, PieceBehind
  <2> QED
    BY <2>3, <2>4, <2>6
<1> HIDE DEF P
<1>3. Len(s) \in P
  BY <1>1, <1>2, Pc!NatInd
<1>4. Len(s) \in Nat /\ SubSeq(s, 1, Len(s)) = s
  OBVIOUS
<1>5. F(NoPiece, Len(s)) = Pc!Fold(NoPiece, s) /\ F(from, Len(s)) = Pc!Fold(from, s)
  BY <1>4
<1> HIDE DEF F, from
<1>6. IsPieces(F(NoPiece, Len(s))) /\ F(from, Len(s)) = After(base, F(NoPiece, Len(s)))
  BY <1>3, <1>4 DEF P
<1> QED
  BY <1>5, <1>6 DEF from

(* A piece that ends, and what a token adds to an open one.                *)
LEMMA PieceIs ==
  ASSUME NEW d, NEW o \in Seq(Tokens), NEW e
  PROVE  /\ e \notin {"&", "="} =>
              Piece([done |-> d, open |-> o], e) = [done |-> d, open |-> Append(o, e)]
         /\ e \in {"&", "="} /\ o = <<>> =>
              Piece([done |-> d, open |-> o], e) = [done |-> d, open |-> <<>>]
         /\ e \in {"&", "="} /\ o # <<>> /\ Len(o) <= 2 =>
              Piece([done |-> d, open |-> o], e) = [done |-> Append(d, o), open |-> <<>>]
<1> DEFINE p == [done |-> d, open |-> o]
<1>1. p.done = d /\ p.open = o /\ DOMAIN p = {"done", "open"}
  OBVIOUS
<1>2. ASSUME e \notin {"&", "="} PROVE Piece(p, e) = [done |-> d, open |-> Append(o, e)]
  BY <1>2 DEF Piece
<1> DEFINE c == Upto(o, MAX_CNT_EVERYCMD - 1)
<1>3. ASSUME e \in {"&", "="}, o = <<>> PROVE Piece(p, e) = [done |-> d, open |-> <<>>]
  BY <1>1, <1>3 DEF Piece, Close
<1>4. ASSUME e \in {"&", "="}, o # <<>>, Len(o) <= 2
      PROVE  Piece(p, e) = [done |-> Append(d, o), open |-> <<>>]
  <2>1. c = o
    BY <1>4, CutIs DEF Cuts
  <2>2. Piece(p, e) = [done |-> Append(d, c), open |-> <<>>]
    BY <1>1, <1>4 DEF Piece, Close
  <2> QED
    BY <2>1, <2>2
<1> QED
  BY <1>2, <1>3, <1>4

Split(d, o) == [done |-> d, open |-> o]

\* The text t is s and one token more; the pieces of s; what e does to them.
GrowsBy(s, e, t) == s \in Seq(Tokens) /\ e \in Tokens /\ t = Append(s, e)
SplitAs(s, d, o) == Pc!Fold(NoPiece, s) = Split(d, o)
Goes(e, o, u) == e \notin {"&", "="} /\ o \in Seq(Tokens) /\ u = Append(o, e)
Ends(e, d, o, c) == e \in {"&", "="} /\ o \in Cuts /\ Len(o) <= 2 /\ c = Append(d, o)

(* One token more of a text: it belongs to a piece.                        *)
LEMMA OpenOne ==
  ASSUME NEW s, NEW e, NEW t, GrowsBy(s, e, t), NEW d, NEW o, NEW u, Goes(e, o, u),
         SplitAs(s, d, o)
  PROVE  SplitAs(t, d, u)
<1>1. Pc!Fold(NoPiece, Append(s, e)) = Piece(Pc!Fold(NoPiece, s), e)
  BY Pc!FoldAppend DEF GrowsBy
<1>2. Piece(Split(d, o), e) = Split(d, Append(o, e))
  BY PieceIs DEF Split, Goes
<1> QED
  BY <1>1, <1>2 DEF GrowsBy, Goes, SplitAs

(* Or it ends one.                                                         *)
LEMMA CloseOne ==
  ASSUME NEW s, NEW e, NEW t, GrowsBy(s, e, t), NEW d, NEW o, NEW c, Ends(e, d, o, c),
         SplitAs(s, d, o)
  PROVE  SplitAs(t, c, <<>>)
<1>1. Pc!Fold(NoPiece, Append(s, e)) = Piece(Pc!Fold(NoPiece, s), e)
  BY Pc!FoldAppend DEF GrowsBy
<1>2. Piece(Split(d, o), e) = Split(Append(d, o), <<>>)
  BY PieceIs DEF Split, Cuts, Ends
<1> QED
  BY <1>1, <1>2 DEF GrowsBy, Ends, SplitAs

\* The pieces of an entry's own text.
OwnPieces(act) == << <<"cmd">>, <<"-", "act">>, <<act>> >>

(* The entry's own "-act" comes first.                                     *)
LEMMA CommandPieces ==
  ASSUME NEW act \in Tokens, act \notin {"&", "="}, NEW rest \in Seq(Tokens)
  PROVE  LET s == (<<"cmd", "&">> \o <<"-", "act", "=", act, "&">>) \o rest
         IN /\ Pieces(rest) \in Seq(Cuts) /\ OwnPieces(act) \in Seq(Cuts)
            /\ Pieces(s) = OwnPieces(act) \o Pieces(rest)
<1> DEFINE first == "cmd"
           amp == "&"
           dash == "-"
           word == "act"
           eq == "="
           s1 == <<first>>
           s2 == <<first, amp>>
           s3 == <<first, amp, dash>>
           s4 == <<first, amp, dash, word>>
           s5 == <<first, amp, dash, word, eq>>
           s6 == <<first, amp, dash, word, eq, act>>
           s7 == <<first, amp, dash, word, eq, act, amp>>
           w0 == <<>>
           w1 == <<first>>
           w2 == <<dash>>
           w3 == <<dash, word>>
           w4 == <<act>>
           c1 == <<w1>>
           c2 == <<w1, w3>>
           c3 == <<w1, w3, w4>>
           two == <<first, amp>> \o <<dash, word, eq, act, amp>>
<1>1. /\ first \in Tokens /\ amp \in Tokens /\ dash \in Tokens /\ word \in Tokens
      /\ eq \in Tokens
  BY DEF Tokens
<1>2. /\ first \notin {"&", "="} /\ dash \notin {"&", "="} /\ word \notin {"&", "="}
      /\ amp \in {"&", "="} /\ eq \in {"&", "="}
  OBVIOUS
<1> HIDE DEF first, amp, dash, word, eq
<1>3. /\ s1 = Append(<<>>, first) /\ s2 = Append(s1, amp) /\ s3 = Append(s2, dash)
      /\ s4 = Append(s3, word)
  BY <1>1, Few
<1>4. s5 = Append(s4, eq) /\ s6 = Append(s5, act) /\ s7 = Append(s6, amp)
  BY <1>1, Few
<1>5. /\ s1 \in Seq(Tokens) /\ s2 \in Seq(Tokens) /\ s3 \in Seq(Tokens)
      /\ s4 \in Seq(Tokens) /\ s5 \in Seq(Tokens) /\ s6 \in Seq(Tokens)
      /\ s7 \in Seq(Tokens) /\ <<>> \in Seq(Tokens)
  BY <1>1
<1>6. two = s7
  BY <1>1, TwoFive
<1>7. /\ w1 = Append(w0, first) /\ w2 = Append(w0, dash) /\ w3 = Append(w2, word)
      /\ w4 = Append(w0, act)
  BY <1>1, Few
<1>8. w1 \in Cuts /\ w3 \in Cuts /\ w4 \in Cuts
  BY <1>1 DEF Cuts
<1>9. Len(w1) <= 2 /\ Len(w3) <= 2 /\ Len(w4) <= 2
  OBVIOUS
<1>10. w0 \in Seq(Tokens) /\ w1 \in Seq(Tokens) /\ w2 \in Seq(Tokens) /\ w4 \in Seq(Tokens)
  BY <1>1
<1> HIDE DEF s1, s2, s3, s4, s5, s6, s7, w1, w2, w3, w4, two
<1>11. /\ c1 = Append(w0, w1) /\ c2 = Append(c1, w3) /\ c3 = Append(c2, w4)
       /\ c3 \in Seq(Cuts)
  BY <1>8, Few
<1>12. SplitAs(w0, w0, w0)
  BY Pc!FoldEmpty DEF NoPiece, Split, SplitAs
<1> HIDE DEF w0, c1, c2, c3
<1>13. /\ GrowsBy(w0, first, s1) /\ GrowsBy(s1, amp, s2) /\ GrowsBy(s2, dash, s3)
       /\ GrowsBy(s3, word, s4)
  BY <1>1, <1>3, <1>5 DEF GrowsBy, w0
<1>14. GrowsBy(s4, eq, s5) /\ GrowsBy(s5, act, s6) /\ GrowsBy(s6, amp, s7)
  BY <1>1, <1>4, <1>5 DEF GrowsBy
<1>15. Goes(first, w0, w1) /\ Goes(dash, w0, w2) /\ Goes(word, w2, w3) /\ Goes(act, w0, w4)
  BY <1>2, <1>7, <1>10 DEF Goes
<1>16. Ends(amp, w0, w1, c1) /\ Ends(eq, c1, w3, c2) /\ Ends(amp, c2, w4, c3)
  BY <1>2, <1>8, <1>9, <1>11 DEF Ends
<1>17. w0 = <<>>
  BY DEF w0
<1>18. SplitAs(s2, c1, w0)
  BY <1>12, <1>13, <1>15, <1>16, <1>17, OpenOne, CloseOne
<1>19. SplitAs(s5, c2, w0)
  <2>1. SplitAs(s3, c1, w2)
    BY <1>13, <1>15, <1>18, OpenOne
  <2>2. SplitAs(s4, c1, w3)
    BY <1>13, <1>15, <2>1, OpenOne
  <2>3. GrowsBy(s4, eq, s5) /\ Ends(eq, c1, w3, c2)
    BY <1>14, <1>16
  <2> QED
    BY <1>17, <2>2, <2>3, CloseOne
<1>20. SplitAs(s7, c3, w0)
  BY <1>14, <1>15, <1>16, <1>17, <1>19, OpenOne, CloseOne
<1>21. Split(c3, w0) = After(c3, NoPiece)
  <2>1. c3 \o <<>> = c3
    BY <1>11, ConcatEmptySeq
  <2> QED
    BY <2>1 DEF Split, After, NoPiece, w0
<1> DEFINE g == Pc!Fold(NoPiece, rest)
<1>22. IsPieces(g) /\ Pc!Fold(Split(c3, w0), rest) = After(c3, g)
  BY <1>11, <1>21, PiecesBehind
<1>23. Pc!Fold(NoPiece, s7 \o rest) = After(c3, g)
  <2>1. Pc!Fold(NoPiece, s7 \o rest) = Pc!Fold(Pc!Fold(NoPiece, s7), rest)
    BY <1>5, Pc!FoldConcat
  <2> QED
    BY <1>20, <1>22, <2>1 DEF SplitAs
<1>24. Pieces(rest) = Close(g).done /\ Pieces(two \o rest) = Close(After(c3, g)).done
  BY <1>6, <1>23, PiecesAre
<1> HIDE DEF g
<1>25. IsPieces(Close(g)) /\ Close(After(c3, g)) = After(c3, Close(g))
  BY <1>11, <1>22, CloseBehind
<1>26. Close(g).done \in Seq(Cuts) /\ After(c3, Close(g)).done = c3 \o Close(g).done
  BY <1>25 DEF IsPieces, After
<1>27. c3 = OwnPieces(act)
  BY DEF c3, w1, w3, w4, first, dash, word, OwnPieces
<1> QED
  BY <1>11, <1>24, <1>25, <1>26, <1>27 DEF two, first, amp, dash, word, eq

(* What is left of a sequence.                                            *)
LEMMA RestIs ==
  ASSUME NEW S, NEW s \in Seq(S), NEW m \in 1..(Len(s) + 1)
  PROVE  /\ SubSeq(s, m, Len(s)) \in Seq(S)
         /\ Len(SubSeq(s, m, Len(s))) = Len(s) - m + 1
         /\ \A k \in 1..(Len(s) - m + 1) :
              SubSeq(s, m, Len(s))[k] = s[m + k - 1] /\ m + k - 1 \in 1..Len(s)
<1>1. Len(s) \in Nat /\ m \in Int /\ Len(s) \in Int /\ \A j \in m..Len(s) : s[j] \in S
  OBVIOUS
<1> DEFINE n == Len(s)
           t == SubSeq(s, m, n)
<1> HIDE DEF n
<1>2. \A j \in m..n : s[j] \in S
  BY <1>1 DEF n
<1>3. m \in Int /\ n \in Int /\ m \in 1..(n + 1)
  BY <1>1 DEF n
<1>4. t \in Seq(S) 
  BY <1>2, <1>3, SubSeqProperties
<1>5. Len(t) = IF m <= n THEN n - m + 1 ELSE 0
  BY <1>2, <1>3, SubSeqProperties
<1>6. \A k \in 1..(n - m + 1) : t[k] = s[m + k - 1]
  BY <1>2, <1>3, SubSeqProperties
<1> HIDE DEF t
<1>7. Len(t) = n - m + 1
  BY <1>3, <1>5
<1>8. \A k \in 1..(n - m + 1) : m + k - 1 \in 1..n
  BY <1>3
<1> QED
  BY <1>4, <1>6, <1>7, <1>8 DEF t, n

-----------------------------------------------------------------------------
(* The table of commands                                                   *)

(* The words of the names in the table.                                    *)
NameWords ==
  << {"get", "systime"}, {"set", "systime"}, {"get", "version"}, {"get", "sdstatus"},
     {"set", "sdformat"}, {"get", "gpsinfo"}, {"get", "timeinterval"}, {"set", "timeinterval"},
     {"get", "exposureattr"}, {"set", "exposureattr"}, {"get", "exposuremode"},
     {"set", "exposuremode"}, {"set", "start", "snap", "task"}, {"set", "stop", "snap", "task"},
     {"set", "snap", "calibration"}, {"set", "start", "snap", "once"}, {"get", "filelist"} >>

(* The entries one by one.                                                 *)
LEMMA OneToMany ==
  ASSUME NEW m \in 1..17
  PROVE  m \in {1, 2, 3, 4, 5, 6, 7, 8, 9, 10, 11, 12, 13, 14, 15, 16, 17}
OBVIOUS

\* An entry of the table, and its words.
EntryAt(m) ==
  LET e == cgi_cmd[m]
  IN /\ ToSet(e.cgi) = NameWords[m] /\ e.cgi \in Seq(NameWords[m])
     /\ e.proc \in DOMAIN Handler
     /\ e.act \in {"get", "set"} \/ e.proc = "SetSDFormat"

Two(a, b) == <<a, b>>
Three(a, b, c) == <<a, b, c>>
Four(a, b, c, d) == <<a, b, c, d>>

(* The words of a name of two, three or four words.                        *)
LEMMA NameTwo ==
  ASSUME NEW a, NEW b
  PROVE  ToSet(Two(a, b)) = {a, b} /\ Two(a, b) \in Seq({a, b})
BY DEF ToSet, Two

(* Of three.                                                               *)
LEMMA NameThree ==
  ASSUME NEW a, NEW b, NEW c
  PROVE  ToSet(Three(a, b, c)) = {a, b, c} /\ Three(a, b, c) \in Seq({a, b, c})
BY DEF ToSet, Three

(* Of four.                                                                *)
LEMMA NameFour ==
  ASSUME NEW a, NEW b, NEW c, NEW d
  PROVE  ToSet(Four(a, b, c, d)) = {a, b, c, d} /\ Four(a, b, c, d) \in Seq({a, b, c, d})
BY DEF ToSet, Four

(* The handlers.                                                           *)
LEMMA ProcNames ==
  {"SysTimeCfg", "GetVersion", "GetSDStatus", "SetSDFormat", "GetGPSInfo", "TimeIntervalCfg",
   "ExposureAttrCfg", "ExposureModeCfg", "SetStartSnapTask", "SetStopSnapTask",
   "SetSnapCalibration", "SetStartSnapOnce", "GetRemoteFileList"} = DOMAIN Handler
BY DEF Handler

(* What an entry of the table is put together from.                        *)
LEMMA EntryFrom ==
  ASSUME NEW m, NEW c, NEW W, NEW act, NEW proc,
         cgi_cmd[m] = Command(c, act, proc), NameWords[m] = W,
         ToSet(c) = W, c \in Seq(W), proc \in DOMAIN Handler,
         act \in {"get", "set"} \/ proc = "SetSDFormat"
  PROVE  EntryAt(m)
<1>1. cgi_cmd[m].cgi = c /\ cgi_cmd[m].act = act /\ cgi_cmd[m].proc = proc
  BY DEF Command
<1> QED
  BY <1>1 DEF EntryAt

(* Every entry of cgi_cmd has its words and a handler.                     *)
LEMMA Entries ==
  Len(cgi_cmd) = 17 /\ DOMAIN cgi_cmd = 1..17 /\ \A m \in 1..17 : EntryAt(m)
<1>0. Len(cgi_cmd) = 17 /\ DOMAIN cgi_cmd = 1..17
  BY DEF cgi_cmd
<1>1. EntryAt(1)
  <2>1. /\ cgi_cmd[1] = Command(Two("get", "systime"), "get", "SysTimeCfg")
        /\ NameWords[1] = {"get", "systime"}
    BY DEF cgi_cmd, NameWords, Two, Three, Four
  <2>2. /\ ToSet(Two("get", "systime")) = {"get", "systime"}
        /\ Two("get", "systime") \in Seq({"get", "systime"})
    BY NameTwo
  <2> QED
    BY <2>1, <2>2, ProcNames, EntryFrom
<1>2. EntryAt(2)
  <2>1. /\ cgi_cmd[2] = Command(Two("set", "systime"), "set", "SysTimeCfg")
        /\ NameWords[2] = {"set", "systime"}
    BY DEF cgi_cmd, NameWords, Two, Three, Four
  <2>2. /\ ToSet(Two("set", "systime")) = {"set", "systime"}
        /\ Two("set", "systime") \in Seq({"set", "systime"})
    BY NameTwo
  <2> QED
    BY <2>1, <2>2, ProcNames, EntryFrom
<1>3. EntryAt(3)
  <2>1. /\ cgi_cmd[3] = Command(Two("get", "version"), "get", "GetVersion")
        /\ NameWords[3] = {"get", "version"}
    BY DEF cgi_cmd, NameWords, Two, Three, Four
  <2>2. /\ ToSet(Two("get", "version")) = {"get", "version"}
        /\ Two("get", "version") \in Seq({"get", "version"})
    BY NameTwo
  <2> QED
    BY <2>1, <2>2, ProcNames, EntryFrom
<1>4. EntryAt(4)
  <2>1. /\ cgi_cmd[4] = Command(Two("get", "sdstatus"), "get", "GetSDStatus")
        /\ NameWords[4] = {"get", "sdstatus"}
    BY DEF cgi_cmd, NameWords, Two, Three, Four
  <2>2. /\ ToSet(Two("get", "sdstatus")) = {"get", "sdstatus"}
        /\ Two("get", "sdstatus") \in Seq({"get", "sdstatus"})
    BY NameTwo
  <2> QED
    BY <2>1, <2>2, ProcNames, EntryFrom
<1>5. EntryAt(5)
  <2>1. /\ cgi_cmd[5] = Command(Two("set", "sdformat"), "", "SetSDFormat")
        /\ NameWords[5] = {"set", "sdformat"}
    BY DEF cgi_cmd, NameWords, Two, Three, Four
  <2>2. /\ ToSet(Two("set", "sdformat")) = {"set", "sdformat"}
        /\ Two("set", "sdformat") \in Seq({"set", "sdformat"})
    BY NameTwo
  <2> QED
    BY <2>1, <2>2, ProcNames, EntryFrom
<1>6. EntryAt(6)
  <2>1. /\ cgi_cmd[6] = Command(Two("get", "gpsinfo"), "get", "GetGPSInfo")
        /\ NameWords[6] = {"get", "gpsinfo"}
    BY DEF cgi_cmd, NameWords, Two, Three, Four
  <2>2. /\ ToSet(Two("get", "gpsinfo")) = {"get", "gpsinfo"}
        /\ Two("get", "gpsinfo") \in Seq({"get", "gpsinfo"})
    BY NameTwo
  <2> QED
    BY <2>1, <2>2, ProcNames, EntryFrom
<1>7. EntryAt(7)
  <2>1. /\ cgi_cmd[7] = Command(Two("get", "timeinterval"), "get", "TimeIntervalCfg")
        /\ NameWords[7] = {"get", "timeinterval"}
    BY DEF cgi_cmd, NameWords, Two, Three, Four
  <2>2. /\ ToSet(Two("get", "timeinterval")) = {"get", "timeinterval"}
        /\ Two("get", "timeinterval") \in Seq({"get", "timeinterval"})
    BY NameTwo
  <2> QED
    BY <2>1, <2>2, ProcNames, EntryFrom
<1>8. EntryAt(8)
  <2>1. /\ cgi_cmd[8] = Command(Two("set", "timeinterval"), "set", "TimeIntervalCfg")
        /\ NameWords[8] = {"set", "timeinterval"}
    BY DEF cgi_cmd, NameWords, Two, Three, Four
  <2>2. /\ ToSet(Two("set", "timeinterval")) = {"set", "timeinterval"}
        /\ Two("set", "timeinterval") \in Seq({"set", "timeinterval"})
    BY NameTwo
  <2> QED
    BY <2>1, <2>2, ProcNames, EntryFrom
<1>9. EntryAt(9)
  <2>1. /\ cgi_cmd[9] = Command(Two("get", "exposureattr"), "get", "ExposureAttrCfg")
        /\ NameWords[9] = {"get", "exposureattr"}
    BY DEF cgi_cmd, NameWords, Two, Three, Four
  <2>2. /\ ToSet(Two("get", "exposureattr")) = {"get", "exposureattr"}
        /\ Two("get", "exposureattr") \in Seq({"get", "exposureattr"})
    BY NameTwo
  <2> QED
    BY <2>1, <2>2, ProcNames, EntryFrom
<1>10. EntryAt(10)
  <2>1. /\ cgi_cmd[10] = Command(Two("set", "exposureattr"), "set", "ExposureAttrCfg")
        /\ NameWords[10] = {"set", "exposureattr"}
    BY DEF cgi_cmd, NameWords, Two, Three, Four
  <2>2. /\ ToSet(Two("set", "exposureattr")) = {"set", "exposureattr"}
        /\ Two("set", "exposureattr") \in Seq({"set", "exposureattr"})
    BY NameTwo
  <2> QED
    BY <2>1, <2>2, ProcNames, EntryFrom
<1>11. EntryAt(11)
  <2>1. /\ cgi_cmd[11] = Command(Two("get", "exposuremode"), "get", "ExposureModeCfg")
        /\ NameWords[11] = {"get", "exposuremode"}
    BY DEF cgi_cmd, NameWords, Two, Three, Four
  <2>2. /\ ToSet(Two("get", "exposuremode")) = {"get", "exposuremode"}
        /\ Two("get", "exposuremode") \in Seq({"get", "exposuremode"})
    BY NameTwo
  <2> QED
    BY <2>1, <2>2, ProcNames, EntryFrom
<1>12. EntryAt(12)
  <2>1. /\ cgi_cmd[12] = Command(Two("set", "exposuremode"), "set", "ExposureModeCfg")
        /\ NameWords[12] = {"set", "exposuremode"}
    BY DEF cgi_cmd, NameWords, Two, Three, Four
  <2>2. /\ ToSet(Two("set", "exposuremode")) = {"set", "exposuremode"}
        /\ Two("set", "exposuremode") \in Seq({"set", "exposuremode"})
    BY NameTwo
  <2> QED
    BY <2>1, <2>2, ProcNames, EntryFrom
<1>13. EntryAt(13)
  <2>1. /\ cgi_cmd[13] = Command(Four("set", "start", "snap", "task"), "set", "SetStartSnapTask")
        /\ NameWords[13] = {"set", "start", "snap", "task"}
    BY DEF cgi_cmd, NameWords, Two, Three, Four
  <2>2. /\ ToSet(Four("set", "start", "snap", "task")) = {"set", "start", "snap", "task"}
        /\ Four("set", "start", "snap", "task") \in Seq({"set", "start", "snap", "task"})
    BY NameFour
  <2> QED
    BY <2>1, <2>2, ProcNames, EntryFrom
<1>14. EntryAt(14)
  <2>1. /\ cgi_cmd[14] = Command(Four("set", "stop", "snap", "task"), "set", "SetStopSnapTask")
        /\ NameWords[14] = {"set", "stop", "snap", "task"}
    BY DEF cgi_cmd, NameWords, Two, Three, Four
  <2>2. /\ ToSet(Four("set", "stop", "snap", "task")) = {"set", "stop", "snap", "task"}
        /\ Four("set", "stop", "snap", "task") \in Seq({"set", "stop", "snap", "task"})
    BY NameFour
  <2> QED
    BY <2>1, <2>2, ProcNames, EntryFrom
<1>15. EntryAt(15)
  <2>1. /\ cgi_cmd[15] = Command(Three("set", "snap", "calibration"), "set", "SetSnapCalibration")
        /\ NameWords[15] = {"set", "snap", "calibration"}
    BY DEF cgi_cmd, NameWords, Two, Three, Four
  <2>2. /\ ToSet(Three("set", "snap", "calibration")) = {"set", "snap", "calibration"}
        /\ Three("set", "snap", "calibration") \in Seq({"set", "snap", "calibration"})
    BY NameThree
  <2> QED
    BY <2>1, <2>2, ProcNames, EntryFrom
<1>16. EntryAt(16)
  <2>1. /\ cgi_cmd[16] = Command(Four("set", "start", "snap", "once"), "set", "SetStartSnapOnce")
        /\ NameWords[16] = {"set", "start", "snap", "once"}
    BY DEF cgi_cmd, NameWords, Two, Three, Four
  <2>2. /\ ToSet(Four("set", "start", "snap", "once")) = {"set", "start", "snap", "once"}
        /\ Four("set", "start", "snap", "once") \in Seq({"set", "start", "snap", "once"})
    BY NameFour
  <2> QED
    BY <2>1, <2>2, ProcNames, EntryFrom
<1>17. EntryAt(17)
  <2>1. /\ cgi_cmd[17] = Command(Two("get", "filelist"), "get", "GetRemoteFileList")
        /\ NameWords[17] = {"get", "filelist"}
    BY DEF cgi_cmd, NameWords, Two, Three, Four
  <2>2. /\ ToSet(Two("get", "filelist")) = {"get", "filelist"}
        /\ Two("get", "filelist") \in Seq({"get", "filelist"})
    BY NameTwo
  <2> QED
    BY <2>1, <2>2, ProcNames, EntryFrom
<1> QED
  BY <1>0, <1>1, <1>2, <1>3, <1>4, <1>5, <1>6, <1>7, <1>8, <1>9, <1>10, <1>11, <1>12, <1>13, <1>14,
     <1>15, <1>16, <1>17, OneToMany

(* No name of the table is part of another's.                              *)
LEMMA NamesApart ==
  ASSUME NEW l \in 1..17, NEW m \in 1..17, NameWords[m] \subseteq NameWords[l]
  PROVE  l = m
<1>1. CASE m = 1
  BY <1>1, OneToMany DEF NameWords
<1>2. CASE m = 2
  BY <1>2, OneToMany DEF NameWords
<1>3. CASE m = 3
  BY <1>3, OneToMany DEF NameWords
<1>4. CASE m = 4
  BY <1>4, OneToMany DEF NameWords
<1>5. CASE m = 5
  BY <1>5, OneToMany DEF NameWords
<1>6. CASE m = 6
  BY <1>6, OneToMany DEF NameWords
<1>7. CASE m = 7
  BY <1>7, OneToMany DEF NameWords
<1>8. CASE m = 8
  BY <1>8, OneToMany DEF NameWords
<1>9. CASE m = 9
  BY <1>9, OneToMany DEF NameWords
<1>10. CASE m = 10
  BY <1>10, OneToMany DEF NameWords
<1>11. CASE m = 11
  BY <1>11, OneToMany DEF NameWords
<1>12. CASE m = 12
  BY <1>12, OneToMany DEF NameWords
<1>13. CASE m = 13
  BY <1>13, OneToMany DEF NameWords
<1>14. CASE m = 14
  BY <1>14, OneToMany DEF NameWords
<1>15. CASE m = 15
  BY <1>15, OneToMany DEF NameWords
<1>16. CASE m = 16
  BY <1>16, OneToMany DEF NameWords
<1>17. CASE m = 17
  BY <1>17, OneToMany DEF NameWords
<1> QED
  BY <1>1, <1>2, <1>3, <1>4, <1>5, <1>6, <1>7, <1>8, <1>9, <1>10, <1>11, <1>12, <1>13, <1>14,
     <1>15, <1>16, <1>17, OneToMany

(* The first entry whose name contains a full name is the one of that name. *)
LEMMA LookupExact ==
  ASSUME NEW e \in ToSet(cgi_cmd), Lookup(e.cgi) # 0
  PROVE  /\ cgi_cmd[Lookup(e.cgi)] = e
         /\ e.proc \in DOMAIN Handler
         /\ e.act \in {"get", "set"} \/ e.proc = "SetSDFormat"
<1>1. PICK m \in 1..17 : e = cgi_cmd[m]
  BY Entries DEF ToSet
<1> DEFINE name == e.cgi
           c(l) == cgi_cmd[l].cgi
           Within(l) == \E i \in 1..(Len(c(l)) + 1) : IsPrefix(name, SubSeq(c(l), i, Len(c(l))))
           I == {l \in 1..Len(cgi_cmd) : Within(l)}
           l0 == Lookup(name)
<1>2. l0 = IF I # {} THEN Min(I) ELSE 0
  BY DEF Lookup, SelectInSeq
<1>3. I \in SUBSET Nat
  <2>1. Len(cgi_cmd) = 17
    BY Entries
  <2>2. \A l \in 1..17 : l \in Nat
    OBVIOUS
  <2> HIDE DEF Within
  <2> QED
    BY <2>1, <2>2
<1>4. l0 \in I
  BY <1>2, <1>3, MinIn
<1>5. l0 \in 1..17 /\ Within(l0)
  BY <1>4, Entries
<1>6. /\ name \in Seq(NameWords[m]) /\ ToSet(name) = NameWords[m]
      /\ c(l0) \in Seq(NameWords[l0]) /\ ToSet(c(l0)) = NameWords[l0]
  BY <1>1, <1>5, Entries DEF EntryAt
<1> DEFINE d == c(l0)
<1>7. PICK i \in 1..(Len(d) + 1) : IsPrefix(name, SubSeq(d, i, Len(d)))
  BY <1>5
<1>8. d \in Seq(NameWords[l0]) /\ ToSet(d) = NameWords[l0] /\ DOMAIN name = 1..Len(name)
  BY <1>6
<1> HIDE DEF name, d, I, l0, Within, c
<1>9. ASSUME NEW k \in 1..Len(name)
      PROVE  name[k] \in ToSet(d)
  <2> DEFINE t == SubSeq(d, i, Len(d))
  <2>1. /\ t \in Seq(NameWords[l0]) /\ Len(t) = Len(d) - i + 1
        /\ \A j \in 1..Len(t) : t[j] = d[i + j - 1] /\ i + j - 1 \in 1..Len(d)
    BY <1>7, <1>8, RestIs
  <2>2. Len(name) <= Len(t) /\ SubSeq(name, 1, Len(name)) = SubSeq(t, 1, Len(name))
    BY <1>7 DEF IsPrefix
  <2>3. Len(name) \in Nat /\ k \in 1..Len(t)
    BY <1>6, <2>1, <2>2
  <2>4. SubSeq(name, 1, Len(name))[k] = name[k]
    BY <1>6, <2>3
  <2> HIDE DEF t
  <2>5. SubSeq(t, 1, Len(name))[k] = t[k]
    <3>1. 1 \in Int /\ Len(name) \in Int /\ \A j \in 1..Len(name) : t[j] \in NameWords[l0]
      BY <2>1, <2>2, <2>3
    <3>2. SubSeq(t, 1, Len(name))[k] = t[1 + k - 1]
      BY <2>3, <3>1, SubSeqProperties
    <3> QED
      BY <3>2
  <2>6. i + k - 1 \in 1..Len(d) /\ name[k] = d[i + k - 1]
    BY <2>1, <2>2, <2>3, <2>4, <2>5
  <2>7. DOMAIN d = 1..Len(d)
    BY <1>8
  <2> QED
    BY <2>6, <2>7 DEF ToSet
<1>10. NameWords[m] \subseteq NameWords[l0]
  BY <1>6, <1>8, <1>9 DEF ToSet
<1>11. l0 = m
  BY <1>5, <1>10, NamesApart
<1> QED
  BY <1>1, <1>11, Entries DEF l0, name, EntryAt

\* A table of options with "?" in front.
Led(t) ==
  /\ \E S : t \in Seq(S)
  /\ \A k \in 1..Len(t) : t[k] = "?" => k = 1
  /\ t[1] = "?"

(* A table of two options.                                                 *)
LEMMA LedTwo ==
  ASSUME NEW a, a # "?"
  PROVE  Led(Two("?", a))
<1> DEFINE t == Two("?", a)
<1>1. t \in Seq({"?", a}) /\ Len(t) = 2 /\ t[1] = "?" /\ t[2] = a
  BY DEF Two
<1> HIDE DEF t
<1>2. \E S : t \in Seq(S)
  BY <1>1
<1>3. \A k \in 1..Len(t) : t[k] = "?" => k = 1
  BY <1>1
<1> QED
  BY <1>1, <1>2, <1>3 DEF Led, t

(* Of three.                                                               *)
LEMMA LedThree ==
  ASSUME NEW a, NEW b, a # "?", b # "?"
  PROVE  Led(Three("?", a, b))
<1> DEFINE t == Three("?", a, b)
<1>1. t \in Seq({"?", a, b}) /\ Len(t) = 3 /\ t[1] = "?" /\ t[2] = a /\ t[3] = b
  BY DEF Three
<1> HIDE DEF t
<1>2. \E S : t \in Seq(S)
  BY <1>1
<1>3. \A k \in 1..Len(t) : t[k] = "?" => k = 1
  BY <1>1
<1> QED
  BY <1>1, <1>2, <1>3 DEF Led, t

Five(a, b, c, d, e) == <<a, b, c, d, e>>

(* Of five.                                                                *)
LEMMA LedFive ==
  ASSUME NEW a, NEW b, NEW c, NEW d, a # "?", b # "?", c # "?", d # "?"
  PROVE  Led(Five("?", a, b, c, d))
<1> DEFINE t == Five("?", a, b, c, d)
<1>1. /\ t \in Seq({"?", a, b, c, d}) /\ Len(t) = 5
      /\ t[1] = "?" /\ t[2] = a /\ t[3] = b /\ t[4] = c /\ t[5] = d
  BY DEF Five
<1> HIDE DEF t
<1>2. \E S : t \in Seq(S)
  BY <1>1
<1>3. \A k \in 1..Len(t) : t[k] = "?" => k = 1
  BY <1>1
<1> QED
  BY <1>1, <1>2, <1>3 DEF Led, t

\* The options that have values for the camera.
Values == Ints \cup {"time"}

\* What the handlers' options and operations have in common.
Taking(h) ==
  /\ DOMAIN h.ops = {"get", "set"}
  /\ h.table # <<>> =>
       /\ Led(h.table)
       /\ \A k \in DOMAIN h.takes : h.takes[k] \in Values

(* All handlers declare "?" first, and take none of it.                    *)
LEMMA Taken ==
  ASSUME NEW p \in DOMAIN Handler
  PROVE  Taking(Handler[p])
<1> DEFINE OpsOf(h) == DOMAIN h.ops = {"get", "set"}
           Plain(h) == h.table = <<"?", "act">> /\ h.takes = <<>> /\ OpsOf(h)
<1>1. Plain(GetVersion)
  BY DEF GetVersion, Ops
<1>2. /\ Plain(GetSDStatus) /\ Plain(GetGPSInfo) /\ Plain(SetStartSnapTask)
      /\ Plain(SetStopSnapTask)
  BY DEF GetVersion, GetSDStatus, GetGPSInfo, SetStartSnapTask, SetStopSnapTask, Ops
<1>3. Plain(SetSnapCalibration) /\ Plain(SetStartSnapOnce) /\ Plain(GetRemoteFileList)
  BY DEF GetVersion, SetSnapCalibration, SetStartSnapOnce, GetRemoteFileList, Ops
<1>4. ASSUME NEW h, Plain(h)
      PROVE  Taking(h)
  <2> DEFINE t == Two("?", "act")
  <2>1. Led(t)
    BY LedTwo
  <2>2. h.table = t /\ h.takes = <<>> /\ OpsOf(h)
    BY <1>4 DEF Two
  <2> HIDE DEF t
  <2> QED
    BY <2>1, <2>2 DEF Taking
<1>5. Taking(SysTimeCfg)
  <2> DEFINE t == Three("?", "act", "time")
  <2>1. Led(t)
    BY LedThree
  <2>2. /\ SysTimeCfg.table = t /\ OpsOf(SysTimeCfg)
        /\ \A k \in DOMAIN SysTimeCfg.takes : SysTimeCfg.takes[k] \in Values
    BY DEF SysTimeCfg, Ops, Three, Values, Ints
  <2> HIDE DEF t
  <2> QED
    BY <2>1, <2>2 DEF Taking
<1>6. Taking(TimeIntervalCfg)
  <2> DEFINE t == Three("?", "act", "interval")
  <2>1. Led(t)
    BY LedThree
  <2>2. /\ TimeIntervalCfg.table = t /\ OpsOf(TimeIntervalCfg)
        /\ \A k \in DOMAIN TimeIntervalCfg.takes : TimeIntervalCfg.takes[k] \in Values
    BY DEF TimeIntervalCfg, Ops, Three, Values, Ints
  <2> HIDE DEF t
  <2> QED
    BY <2>1, <2>2 DEF Taking
<1>7. Taking(ExposureModeCfg)
  <2> DEFINE t == Three("?", "act", "expmode")
  <2>1. Led(t)
    BY LedThree
  <2>2. /\ ExposureModeCfg.table = t /\ OpsOf(ExposureModeCfg)
        /\ \A k \in DOMAIN ExposureModeCfg.takes : ExposureModeCfg.takes[k] \in Values
    BY DEF ExposureModeCfg, Ops, Three, Values, Ints
  <2> HIDE DEF t
  <2> QED
    BY <2>1, <2>2 DEF Taking
<1>8. Taking(ExposureAttrCfg)
  <2> DEFINE t == Five("?", "act", "index", "exptime", "expgain")
  <2>1. Led(t)
    BY LedFive
  <2>2. /\ ExposureAttrCfg.table = t /\ OpsOf(ExposureAttrCfg)
        /\ \A k \in DOMAIN ExposureAttrCfg.takes : ExposureAttrCfg.takes[k] \in Values
    BY DEF ExposureAttrCfg, Ops, Five, Values, Ints
  <2> HIDE DEF t
  <2> QED
    BY <2>1, <2>2 DEF Taking
<1>9. Taking(SetSDFormat)
  BY DEF Taking, SetSDFormat, GetVersion, Ops
<1> HIDE DEF Plain
<1>10. /\ Handler["SysTimeCfg"] = SysTimeCfg /\ Handler["GetVersion"] = GetVersion
       /\ Handler["GetSDStatus"] = GetSDStatus /\ Handler["SetSDFormat"] = SetSDFormat
       /\ Handler["GetGPSInfo"] = GetGPSInfo /\ Handler["TimeIntervalCfg"] = TimeIntervalCfg
       /\ Handler["ExposureAttrCfg"] = ExposureAttrCfg
       /\ Handler["ExposureModeCfg"] = ExposureModeCfg
       /\ Handler["SetStartSnapTask"] = SetStartSnapTask
       /\ Handler["SetStopSnapTask"] = SetStopSnapTask
       /\ Handler["SetSnapCalibration"] = SetSnapCalibration
       /\ Handler["SetStartSnapOnce"] = SetStartSnapOnce
       /\ Handler["GetRemoteFileList"] = GetRemoteFileList
  BY DEF Handler
<1> QED
  BY <1>1, <1>2, <1>3, <1>4, <1>5, <1>6, <1>7, <1>8, <1>9, <1>10, ProcNames

(* Formatting leaves its arguments alone.                                  *)
LEMMA FormatTakesNothing == Handler["SetSDFormat"].table = <<>>
BY DEF Handler, SetSDFormat, GetVersion

(* What follows the name of the command.                                   *)
LEMMA PastIs ==
  ASSUME NEW text \in Seq(Tokens), NEW end, Contains(text, end)
  PROVE  Past(text, end) \in Seq(Tokens)
<1> DEFINE I == {k \in 1..Len(text) : text[k] = end}
           l == SelectInSeq(text, LAMBDA t : t = end)
<1>1. l = IF I # {} THEN Min(I) ELSE 0
  BY DEF SelectInSeq
<1>2. I # {} /\ I \in SUBSET Nat
  BY DEF Contains
<1>3. l \in I
  BY <1>1, <1>2, MinIn
<1>4. Past(text, end) = SubSeq(text, l + 1, Len(text))
  BY DEF Past
<1>5. l \in 1..Len(text)
  BY <1>3
<1> HIDE DEF l
<1>6. l + 1 \in 1..(Len(text) + 1)
  BY <1>5
<1> QED
  BY <1>4, <1>6, RestIs

EndOf(text) == IF Contains(text, ".cgi") THEN ".cgi" ELSE "&"

(* The length of two sequences joined.                                     *)
LEMMA Joined ==
  ASSUME NEW S, NEW s \in Seq(S), NEW t \in Seq(S)
  PROVE  Len(s \o t) = Len(s) + Len(t) /\ Len(s) \in Nat /\ Len(t) \in Nat
OBVIOUS

\* The entry's own "-act" in front of the arguments.
WithAct(act, args) == << <<"-", "act">>, <<act>> >> \o args

(* The arguments of a command of the table, if there are not too many.     *)
LEMMA ArgumentsAre ==
  ASSUME NEW text \in Seq(Tokens), Parsed(text).found,
         NEW e \in ToSet(cgi_cmd), e.cgi = Until(text, EndOf(text)), e.act \in {"get", "set"},
         Len(Pieces(Past(text, EndOf(text)))) + 3 <= MAX_NUM_CMD
  PROVE  LET args == Pieces(Past(text, EndOf(text)))
         IN /\ Parsed(text).e = e
            /\ args \in Seq(Cuts)
            /\ Parsed(text).args = WithAct(e.act, args)
<1> DEFINE end == EndOf(text)
           name == Until(text, end)
           rest == Past(text, end)
           args == Pieces(rest)
           e1 == cgi_cmd[Lookup(name)]
           found == /\ Contains(text, end)
                    /\ Len(name) <= MAX_CGI_INTER - 1
                    /\ Lookup(name) # 0
                    /\ Fits(Template(e1), rest)
           argv == StrCommandParse(Template(e1) \o rest)
<1>1. Parsed(text) = IF ~found THEN [found |-> FALSE]
                     ELSE [found |-> TRUE, e |-> e1, args |-> Tail(argv)]
  BY DEF Parsed, EndOf
<1>2. found
  BY <1>1
<1>3. Lookup(e.cgi) # 0
  BY <1>2
<1>4. e1 = e
  BY <1>3, LookupExact
<1>5. rest \in Seq(Tokens)
  BY <1>2, PastIs
<1>6. Template(e1) = <<"cmd", "&">> \o <<"-", "act", "=", e.act, "&">>
  BY <1>4 DEF Template
<1>7. e.act \in Tokens /\ e.act \notin {"&", "="} 
  BY DEF Tokens
<1>8. Parsed(text).e = e /\ Parsed(text).args = Tail(argv)
  BY <1>1, <1>2, <1>4
<1> DEFINE act == e.act
           c1 == <<"cmd">>
           opt == <<"-", "act">>
           to == <<act>>
           c3 == <<c1, opt, to>>
           t == <<opt, to>>
           whole == (<<"cmd", "&">> \o <<"-", "act", "=", act, "&">>) \o rest
<1>9. argv = StrCommandParse(whole)
  BY <1>6
<1>10. args \in Seq(Cuts) /\ OwnPieces(act) \in Seq(Cuts) /\ Pieces(whole) = OwnPieces(act) \o args
  BY <1>5, <1>7, CommandPieces
<1>11. c1 \in Cuts /\ opt \in Cuts /\ to \in Cuts
  <2>1. "cmd" \in Tokens /\ "-" \in Tokens /\ "act" \in Tokens
    BY DEF Tokens
  <2> QED
    BY <1>7, <2>1 DEF Cuts
<1>12. Pieces(whole) = c3 \o args /\ WithAct(act, args) = t \o args
  BY <1>10 DEF OwnPieces, WithAct
<1> HIDE DEF c1, opt, to
<1>13. Len(args) + 3 <= MAX_NUM_CMD /\ MAX_NUM_CMD \in Nat
  BY BuffersAssumption
<1>14. /\ c3 \in Seq(Cuts) /\ Len(c3) = 3 /\ c3[1] = c1 /\ c3[2] = opt /\ c3[3] = to
       /\ t \in Seq(Cuts) /\ Len(t) = 2 /\ t[1] = opt /\ t[2] = to
  BY <1>11
<1> HIDE DEF argv, whole, args, c3, t, rest, act
<1>15. c3 \o args \in Seq(Cuts) /\ Len(c3 \o args) = Len(args) + 3 /\ Len(args) \in Nat
  <2>1. c3 \o args \in Seq(Cuts) /\ Len(c3 \o args) = Len(c3) + Len(args)
    <3>1. c3 \o args \in Seq(Cuts)
      BY <1>10, <1>14, ConcatProperties
    <3>2. c3 \in Seq(Cuts) /\ args \in Seq(Cuts)
      BY <1>10, <1>14
    <3>3. Len(c3 \o args) = Len(c3) + Len(args)
      BY <3>2, Joined
    <3> QED
      BY <3>1, <3>3
  <2> QED
    BY <1>14, <2>1
<1>16. argv = c3 \o args
  <2> DEFINE q == c3 \o args
  <2>1. argv = Upto(q, MAX_NUM_CMD)
    BY <1>9, <1>12 DEF StrCommandParse
  <2>2. q \in Seq(Cuts) /\ Len(q) <= MAX_NUM_CMD /\ Len(q) \in Nat
    BY <1>13, <1>15
  <2> HIDE DEF q
  <2>3. Upto(q, MAX_NUM_CMD) = SubSeq(q, 1, Len(q))
    BY <1>13, <2>2 DEF Upto
  <2>4. SubSeq(q, 1, Len(q)) = q
    BY <2>2
  <2> QED
    BY <2>1, <2>3, <2>4 DEF q
<1>17. Tail(c3 \o args) = t \o args
  <2> DEFINE q == c3 \o args
             r == t \o args
  <2>1. /\ q \in Seq(Cuts) /\ Len(q) = Len(args) + 3
        /\ \A k \in 1..(3 + Len(args)) : q[k] = IF k <= 3 THEN c3[k] ELSE args[k - 3]
    <3>1. \A k \in 1..(Len(c3) + Len(args)) : q[k] = IF k <= Len(c3) THEN c3[k] ELSE args[k - Len(c3)]
      BY <1>10, <1>14, ConcatProperties
    <3> QED
      BY <1>15, <1>14, <3>1
  <2>2. /\ r \in Seq(Cuts) /\ Len(r) = Len(args) + 2
        /\ \A k \in 1..(2 + Len(args)) : r[k] = IF k <= 2 THEN t[k] ELSE args[k - 2]
    <3>1. \A k \in 1..(Len(t) + Len(args)) : r[k] = IF k <= Len(t) THEN t[k] ELSE args[k - Len(t)]
      <4>1. t \in Seq(Cuts) /\ args \in Seq(Cuts)
        BY <1>10, <1>14
      <4> QED
        BY <4>1, ConcatProperties
    <3>2. r \in Seq(Cuts)
      BY <1>10, <1>14, ConcatProperties
    <3>3. Len(r) = Len(t) + Len(args)
      <4>1. t \in Seq(Cuts) /\ args \in Seq(Cuts)
        BY <1>10, <1>14
      <4> QED
        BY <4>1, Joined
    <3> QED
      BY <1>15, <1>14, <3>1, <3>2, <3>3
  <2> HIDE DEF q, r
  <2>3. q # <<>>
    BY <1>15, <2>1
  <2>4. /\ Tail(q) \in Seq(Cuts) /\ Len(Tail(q)) = Len(q) - 1
        /\ \A k \in 1..Len(Tail(q)) : Tail(q)[k] = q[k + 1]
    BY <2>1, <2>3, HeadTailProperties
  <2>5. ASSUME NEW k \in 1..Len(Tail(q))
        PROVE  Tail(q)[k] = r[k]
    <3>1. k \in 1..(Len(args) + 2) /\ Tail(q)[k] = q[k + 1] /\ k + 1 \in 1..(3 + Len(args))
      BY <1>15, <2>1, <2>4
    <3>2. k = 1 \/ k = 2 \/ (k > 2 /\ k + 1 > 3 /\ (k + 1) - 3 = k - 2)
      BY <3>1
    <3> QED
      BY <1>15, <1>14, <2>1, <2>2, <3>1, <3>2
  <2>6. Tail(q) = r
    BY <1>15, <2>1, <2>2, <2>4, <2>5, SeqEqual
  <2> QED
    BY <2>6 DEF q, r
<1> QED
  BY <1>8, <1>10, <1>12, <1>16, <1>17 DEF args, rest, act

(* The first call is for what the text asks, as CommandExact tells it.     *)
FirstExact(text, spill, call) ==
  LET args == Pieces(Past(text, EndOf(text)))
  IN \A e \in ToSet(cgi_cmd) : e.cgi = Until(text, EndOf(text)) =>
       LET h == Handler[e.proc]
           act == IF Named(args, "act") = <<>> THEN e.act ELSE Named(args, "act")[1]
       IN (h.table # <<>> /\ Len(args) + 3 <= MAX_NUM_CMD) =>
            /\ \A k \in DOMAIN args : IsOpt(args[k]) => Contains(Tail(h.table), OptName(args[k]))
            /\ call.op = h.ops[act]
            /\ act = "set" => \A k \in DOMAIN h.takes :
                 (Named(args, h.takes[k]) # <<>> /\ h.takes[k] # spill.onto)
                   => call.args[k] = Meant(h.takes[k], Named(args, h.takes[k]))

\* The handler's options but "?".
LEMMA AllButQuery ==
  ASSUME NEW t, Led(t), NEW x, x # "?", Contains(t, x)
  PROVE  Contains(Tail(t), x)
<1>1. PICK S : t \in Seq(S)
  BY DEF Led
<1>2. PICK k \in 1..Len(t) : t[k] = x
  BY DEF Contains
<1>3. k # 1 /\ t # <<>>
  BY <1>1, <1>2 DEF Led
<1>4. /\ Len(Tail(t)) = Len(t) - 1
      /\ \A i \in 1..Len(Tail(t)) : Tail(t)[i] = t[i + 1]
  BY <1>1, <1>3, HeadTailProperties
<1>5. k - 1 \in 1..Len(Tail(t)) /\ (k - 1) + 1 = k
  BY <1>1, <1>2, <1>3, <1>4
<1> QED
  BY <1>2, <1>4, <1>5 DEF Contains

(* What the camera is given for an option.                                 *)
LEMMA GivenIs ==
  ASSUME NEW val, NEW takes, NEW k \in DOMAIN takes
  PROVE  Given(val, takes)[k] = ToCamera(takes[k], val[takes[k]])
BY DEF Given

(* A value set, and told to the camera, is the value meant.                *)
LEMMA MeantIs ==
  ASSUME NEW o \in Values, NEW arg
  PROVE  ToCamera(o, ValueOf(o, arg)) = Meant(o, arg)
<1> DEFINE n == Atoi(arg)
           cut == Upto(arg, HISNET_MAX_TIMESIZE - 1)
<1> HIDE DEF n, cut
<1>1. CASE o = "time"
  <2>1. ValueOf(o, arg) = cut /\ Meant(o, arg) = cut
    BY <1>1 DEF ValueOf, Meant, Ints, cut
  <2> QED
    BY <1>1, <2>1 DEF ToCamera
<1>2. CASE o = "index"
  <2>1. ValueOf(o, arg) = n % Byte /\ Meant(o, arg) = n % Byte
    BY <1>2 DEF ValueOf, Meant, Ints, n
  <2> QED
    BY <1>2, <2>1 DEF ToCamera
<1>3. CASE o = "expmode"
  <2>1. ValueOf(o, arg) = n
    BY <1>3 DEF ValueOf, Ints, n
  <2> QED
    BY <1>3, <2>1 DEF ToCamera, Meant, n
<1>4. CASE o \in {"interval", "exptime", "expgain"}
  <2>1. ValueOf(o, arg) = n /\ Meant(o, arg) = n
    BY <1>4 DEF ValueOf, Meant, Ints, n
  <2> QED
    BY <1>4, <2>1 DEF ToCamera
<1> QED
  BY <1>1, <1>2, <1>3, <1>4 DEF Values, Ints

\* The word is not a digit.
LEMMA DigitNames == "act" \notin DOMAIN Digit
<1> DEFINE d == <<"1", "2", "3", "4", "5", "6", "7", "8", "9">>
<1>1. DOMAIN Digit = ToSet(d) \cup {"0"}
  BY DEF Digit
<1>2. ToSet(d) = {"1", "2", "3", "4", "5", "6", "7", "8", "9"}
  BY DEF ToSet
<1> QED
  BY <1>1, <1>2

\* What is named has its value.
NamedHave(args, act, table, val) ==
  /\ \A k \in DOMAIN args : IsOpt(args[k]) => Contains(Tail(table), OptName(args[k]))
  /\ val["act"] = IF Named(args, "act") = <<>> THEN act ELSE Named(args, "act")[1]
NamedKept(args, spill, val) ==
  \A o : o # "?" /\ Named(args, o) # <<>> /\ o # spill.onto => val[o] = ValueOf(o, Named(args, o))

(* With the entry's "-act" in front, what is named has its value.          *)
LEMMA ValuesNamed ==
  ASSUME NEW args \in Seq(Cuts), NEW act \in {"get", "set"}, NEW table, Led(table), NEW spill,
         ARG_Parser(table, WithAct(act, args), spill).ret = "ok"
  PROVE  LET val == ARG_Parser(table, WithAct(act, args), spill).val
         IN NamedHave(args, act, table, val) /\ NamedKept(args, spill, val)
<1> DEFINE n == Len(args)
           t == WithAct(act, args)
           val == ARG_Parser(table, t, spill).val
<1> DEFINE opt == <<"-", "act">>
           to == <<act>>
<1>1. /\ opt \in Cuts /\ to \in Cuts /\ IsOpt(opt) /\ OptName(opt) = "act"
      /\ OptName(opt) # "?" /\ ~IsOpt(to)
      /\ ValueOf("act", to) = act /\ \A v : ValueOf("act", v) = v[1]
  <2>1. "-" \in Tokens /\ "act" \in Tokens /\ act \in Tokens
    BY DEF Tokens
  <2>2. opt \in Cuts /\ to \in Cuts
    BY <2>1 DEF Cuts
  <2>3. Len(opt) = 2 /\ opt[1] = "-" /\ opt[2] = "act" /\ to[1] = act
    OBVIOUS
  <2>4. OptName(opt) = "act"
    BY <2>3 DEF OptName
  <2>5. "act" \notin DOMAIN Digit
    BY DigitNames
  <2>6. IsOpt(opt)
    BY <2>3, <2>5 DEF IsOpt
  <2>7. ~IsOpt(to)
    BY <2>3 DEF IsOpt
  <2>8. \A v : ValueOf("act", v) = v[1]
    BY DEF ValueOf, Ints
  <2> QED
    BY <2>2, <2>3, <2>4, <2>6, <2>7, <2>8
<1> HIDE DEF opt, to
<1>2. /\ t \in Seq(Cuts) /\ Len(t) = n + 2
      /\ t[1] = opt /\ t[2] = to /\ \A k \in 1..n : t[k + 2] = args[k] /\ k + 2 \in 1..Len(t)
      /\ Pair(t, n + 2, 1)
      /\ \A m \in 1..n : LastPair(args, n, m) => LastPair(t, n + 2, m + 2)
      /\ (\A m \in 1..n : Pair(args, n, m) => OptName(args[m]) # OptName(opt)) =>
           LastPair(t, n + 2, 1)
  BY <1>1, Behind DEF WithAct, opt, to
<1>3. n \in Nat /\ DOMAIN args = 1..n
  OBVIOUS
<1>4. PICK S : table \in Seq(S)
  BY DEF Led
<1> HIDE DEF t, n
<1>5. /\ \A k \in 1..Len(t) : IsOpt(t[k]) => Contains(table, OptName(t[k]))
      /\ \A m \in 1..Len(t) : LastPair(t, Len(t), m) =>
           LET o == OptName(t[m])
           IN val[o] = ValueOf(o, t[m + 1]) \/ (o = spill.onto /\ o \in Ints)
      /\ \A k, m \in 1..Len(t) : IsOpt(t[k]) /\ Pair(t, Len(t), m) => OptName(t[k]) # "?"
  <2>1. ARG_Parser(table, t, spill).ret = "ok"
    BY DEF t
  <2> QED
    <3>1. t \in Seq(Cuts)
      BY <1>2
    <3>2. LET v == ARG_Parser(table, t, spill).val
          IN /\ \A k \in 1..Len(t) : IsOpt(t[k]) => Contains(table, OptName(t[k]))
             /\ \A m \in 1..Len(t) : LastPair(t, Len(t), m) =>
                  LET o == OptName(t[m])
                  IN v[o] = ValueOf(o, t[m + 1]) \/ (o = spill.onto /\ o \in Ints)
             /\ \A k, m \in 1..Len(t) : IsOpt(t[k]) /\ Pair(t, Len(t), m) => OptName(t[k]) # "?"
      BY <1>4, <2>1, <3>1, ArgsTaken
    <3> QED
      BY <3>2
<1> HIDE DEF val
<1>6. ASSUME NEW k \in DOMAIN args, IsOpt(args[k])
      PROVE  Contains(Tail(table), OptName(args[k]))
  <2>1. k + 2 \in 1..Len(t) /\ t[k + 2] = args[k] /\ 1 \in 1..Len(t)
    BY <1>2, <1>3
  <2>2. Contains(table, OptName(args[k])) /\ OptName(args[k]) # "?"
    BY <1>2, <1>5, <1>6, <2>1
  <2> QED
    BY <2>2, AllButQuery
<1>7. ASSUME NEW o, o # "?", NEW m \in 1..n, LastPair(args, n, m), OptName(args[m]) = o
      PROVE  /\ val[o] = ValueOf(o, args[m + 1]) \/ (o = spill.onto /\ o \in Ints)
             /\ args[m + 1] # <<>>
  <2>1. LastPair(t, n + 2, m + 2) /\ Pair(t, n + 2, m + 2)
    BY <1>2, <1>7 DEF LastPair
  <2>2. m \in 1..(n - 1)
    BY <1>7 DEF LastPair, Pair
  <2>3. m + 2 \in 1..Len(t) /\ t[m + 2] = args[m]
    BY <1>2, <1>7
  <2>4. m + 1 \in 1..n /\ (m + 1) + 2 = (m + 2) + 1
    BY <1>3, <2>2
  <2>5. t[(m + 2) + 1] = args[m + 1]
    BY <1>2, <2>4
  <2>6. args[m + 1] # <<>>
    BY <1>3, <2>4 DEF Cuts, n
  <2> QED
    BY <1>2, <1>5, <1>7, <2>1, <2>3, <2>5, <2>6
<1>8. ASSUME NEW o, o # "?", Named(args, o) # <<>>, o # spill.onto
      PROVE  val[o] = ValueOf(o, Named(args, o))
  <2>1. PICK m \in 1..n : /\ LastPair(args, n, m) /\ OptName(args[m]) = o
                          /\ Named(args, o) = args[m + 1]
    <3>1. \/ /\ Named(args, o) = <<>>
             /\ \A m \in 1..Len(args) : Pair(args, Len(args), m) => OptName(args[m]) # o
          \/ \E m \in 1..Len(args) : /\ LastPair(args, Len(args), m) /\ OptName(args[m]) = o
                                     /\ Named(args, o) = args[m + 1]
      <4>1. o # "?"
        BY <1>8
      <4> QED
        BY <4>1, NamedIs
    <3> QED
      BY <1>8, <3>1 DEF n
  <2> QED
    BY <1>7, <1>8, <2>1
<1>9. val["act"] = IF Named(args, "act") = <<>> THEN act ELSE Named(args, "act")[1]
  <2>0. "act" \notin Ints
    BY DEF Ints
  <2>1. CASE /\ Named(args, "act") = <<>>
             /\ \A m \in 1..n : Pair(args, n, m) => OptName(args[m]) # "act"
    <3>1. \A m \in 1..n : Pair(args, n, m) => OptName(args[m]) # OptName(opt)
      BY <1>1, <2>1
    <3>2. LastPair(t, n + 2, 1) /\ 1 \in 1..Len(t) /\ t[1 + 1] = to
      BY <1>2, <1>3, <3>1
    <3>3. OptName(t[1]) = "act" /\ LastPair(t, Len(t), 1)
      BY <1>1, <1>2, <3>2
    <3> QED
      BY <1>1, <1>5, <2>0, <2>1, <3>2, <3>3
  <2>2. CASE \E m \in 1..n : /\ LastPair(args, n, m) /\ OptName(args[m]) = "act"
                             /\ Named(args, "act") = args[m + 1]
    BY <1>1, <1>7, <2>0, <2>2
  <2>3. \/ /\ Named(args, "act") = <<>>
           /\ \A m \in 1..Len(args) : Pair(args, Len(args), m) => OptName(args[m]) # "act"
        \/ \E m \in 1..Len(args) : /\ LastPair(args, Len(args), m) /\ OptName(args[m]) = "act"
                                   /\ Named(args, "act") = args[m + 1]
    <3>1. "act" # "?"
      OBVIOUS
    <3> QED
      BY <3>1, NamedIs
  <2> QED
    BY <2>1, <2>2, <2>3 DEF n
<1>10. NamedHave(args, act, table, val)
  BY <1>6, <1>9 DEF NamedHave
<1>11. NamedKept(args, spill, val)
  BY <1>8 DEF NamedKept
<1> QED
  BY <1>10, <1>11 DEF val, t

\* The handler's first call, made of what its arguments were parsed to.
Asking(text, spill, a, call) ==
  LET p == Parsed(text)
      h == Handler[p.e.proc]
      act == Act(p.e, a.val)
  IN /\ h.table # <<>> => a = ARG_Parser(h.table, p.args, spill)
     /\ a.ret = "ok"
     /\ Operation(h, act) # ""
     /\ call.op = Operation(h, act)
     /\ act = "set" => call.args = Given(a.val, h.takes)

(* A command that asks the camera, asks it first for what its text says.   *)
LEMMA FirstCall ==
  ASSUME NEW text \in Seq(Tokens), Parsed(text).found, NEW spill, NEW a, NEW call,
         Asking(text, spill, a, call)
  PROVE  FirstExact(text, spill, call)
<1> DEFINE args == Pieces(Past(text, EndOf(text)))
<1> SUFFICES ASSUME NEW e \in ToSet(cgi_cmd), e.cgi = Until(text, EndOf(text)),
                    Handler[e.proc].table # <<>>, Len(args) + 3 <= MAX_NUM_CMD
             PROVE  LET h == Handler[e.proc]
                        act == IF Named(args, "act") = <<>> THEN e.act ELSE Named(args, "act")[1]
                    IN /\ \A k \in DOMAIN args :
                            IsOpt(args[k]) => Contains(Tail(h.table), OptName(args[k]))
                       /\ call.op = h.ops[act]
                       /\ act = "set" => \A k \in DOMAIN h.takes :
                            (Named(args, h.takes[k]) # <<>> /\ h.takes[k] # spill.onto)
                              => call.args[k] = Meant(h.takes[k], Named(args, h.takes[k]))
  BY DEF FirstExact
<1> DEFINE h == Handler[e.proc]
           act == Act(e, a.val)
           named == IF Named(args, "act") = <<>> THEN e.act ELSE Named(args, "act")[1]
<1>1. Lookup(e.cgi) # 0
  BY DEF Parsed, EndOf
<1>2. e.proc \in DOMAIN Handler /\ e.act \in {"get", "set"}
  BY <1>1, LookupExact, FormatTakesNothing
<1>3. Taking(h)
  BY <1>2, Taken
<1>4. Parsed(text).e = e /\ args \in Seq(Cuts) /\ Parsed(text).args = WithAct(e.act, args)
  BY <1>2, ArgumentsAre
<1>5. a = ARG_Parser(h.table, WithAct(e.act, args), spill) /\ a.ret = "ok"
  BY <1>4 DEF Asking
<1>6. /\ Operation(h, act) # "" /\ call.op = Operation(h, act)
      /\ act = "set" => call.args = Given(a.val, h.takes)
  BY <1>4 DEF Asking
<1>7. act = a.val["act"]
  BY <1>2 DEF Act
<1>8. Led(h.table) /\ DOMAIN h.ops = {"get", "set"} /\ \A k \in DOMAIN h.takes : h.takes[k] \in Values
  BY <1>3 DEF Taking
<1> HIDE DEF args, h, act
<1>9. /\ \A k \in DOMAIN args : IsOpt(args[k]) => Contains(Tail(h.table), OptName(args[k]))
      /\ a.val["act"] = named
      /\ \A o : o # "?" /\ Named(args, o) # <<>> /\ o # spill.onto =>
           a.val[o] = ValueOf(o, Named(args, o))
  <2>1. LET val == ARG_Parser(h.table, WithAct(e.act, args), spill).val
        IN NamedHave(args, e.act, h.table, val) /\ NamedKept(args, spill, val)
    <3>1. ARG_Parser(h.table, WithAct(e.act, args), spill).ret = "ok"
      BY <1>5
    <3>2. args \in Seq(Cuts)
      BY <1>4
    <3> QED
      BY <1>2, <1>8, <3>1, <3>2, ValuesNamed
  <2>2. NamedHave(args, e.act, h.table, a.val) /\ NamedKept(args, spill, a.val)
    BY <1>5, <2>1
  <2> QED
    BY <2>2 DEF NamedHave, NamedKept
<1>10. act \in {"get", "set"} /\ call.op = h.ops[act]
  BY <1>6, <1>8 DEF Operation
<1>11. act = named
  BY <1>7, <1>9, <1>10
<1>12. \A k \in DOMAIN h.takes :
         Given(a.val, h.takes)[k] = ToCamera(h.takes[k], a.val[h.takes[k]])
  BY GivenIs
<1>13. ASSUME act = "set", NEW k \in DOMAIN h.takes, Named(args, h.takes[k]) # <<>>,
              h.takes[k] # spill.onto
       PROVE  call.args[k] = Meant(h.takes[k], Named(args, h.takes[k]))
  <2> DEFINE o == h.takes[k]
  <2>1. o \in Values /\ o # "?"
    BY <1>8 DEF Values, Ints
  <2>2. call.args[k] = ToCamera(o, a.val[o])
    BY <1>6, <1>12, <1>13
  <2>3. Named(args, o) # <<>> /\ o # spill.onto
    BY <1>13
  <2> HIDE DEF o
  <2>4. a.val[o] = ValueOf(o, Named(args, o))
    BY <1>9, <2>1, <2>3
  <2> QED
    BY <2>1, <2>2, <2>4, MeantIs DEF o
<1> QED
  BY <1>9, <1>10, <1>11, <1>13 DEF h, args

-----------------------------------------------------------------------------
(* What a command asks for, and what its text has been read from.          *)
Exact(c) ==
  /\ c.text \in Seq(Tokens) /\ c.buf \in Seq(Tokens) /\ c.left \in Seq(Tokens)
  /\ c.pc \in {"groups", "group", "work"} => c.calls # <<>>
  /\ c.calls # <<>> => FirstExact(c.text, c.spill, c.calls[1])

\* The fields no handler changes.
SameText(c, d) == d.text = c.text /\ d.buf = c.buf /\ d.left = c.left /\ d.spill = c.spill

\* As long as nothing is asked.
LEMMA UnaskedExact ==
  ASSUME NEW d, d.text \in Seq(Tokens), d.buf \in Seq(Tokens), d.left \in Seq(Tokens),
         d.calls = <<>>, d.pc \notin {"groups", "group", "work"}
  PROVE  Exact(d)
BY DEF Exact

\* Later calls leave the first alone.
LEMMA LaterExact ==
  ASSUME NEW c, CmdShape(c), Exact(c), NEW d, SameText(c, d), c.calls # <<>>,
         d.calls = c.calls \/ \E e : d.calls = Append(c.calls, e)
  PROVE  Exact(d)
<1>1. IsSeq(c.calls)
  BY ShapeIsSeq
<1>2. d.calls # <<>> /\ d.calls[1] = c.calls[1]
  <2>1. CASE d.calls = c.calls
    BY <2>1
  <2>2. CASE \E e : d.calls = Append(c.calls, e)
    <3>1. PICK e : d.calls = Append(c.calls, e)
      BY <2>2
    <3>2. /\ Len(c.calls) \in Nat /\ Len(Append(c.calls, e)) = Len(c.calls) + 1
          /\ \A k \in 1..Len(c.calls) : Append(c.calls, e)[k] = c.calls[k]
      <4> DEFINE s == c.calls
      <4>1. IsSeq(s)
        BY <1>1
      <4> HIDE DEF s
      <4>2. /\ Len(s) \in Nat /\ Len(Append(s, e)) = Len(s) + 1
            /\ \A k \in 1..Len(s) : Append(s, e)[k] = s[k]
        BY <4>1, SeqGrows
      <4> QED
        BY <4>2 DEF s
    <3>3. Len(c.calls) # 0
      BY <3>2
    <3>4. 1 \in 1..Len(c.calls)
      BY <3>2, <3>3
    <3>5. Append(c.calls, e) # <<>>
      <4>1. Len(<<>>) = 0
        OBVIOUS
      <4> QED
        BY <3>2, <4>1
    <3> QED
      BY <3>1, <3>2, <3>4, <3>5
  <2> QED
    BY <2>1, <2>2
<1> QED
  BY <1>2 DEF Exact, SameText

(* A call leaves the text alone.                                           *)
LEMMA CalledText ==
  ASSUME NEW c, CmdShape(c), NEW op, NEW args, NEW answer, NEW out
  PROVE  SameText(c, Called(c, op, args, answer, out))
<1> DEFINE e == [op |-> op, args |-> args, answer |-> answer, out |-> out]
           calls == Append(c.calls, e)
           c1 == [c EXCEPT !.calls = calls]
<1>1. Called(c, op, args, answer, out) = c1
  BY CmdFields DEF Called
<1> HIDE DEF calls
<1>2. SameText(c, c1)
  BY CmdFields DEF SameText
<1> QED
  BY <1>1, <1>2

(* So does the end of a handler.                                           *)
LEMMA FinishText ==
  ASSUME NEW c, CmdShape(c), NEW ok, NEW reply
  PROVE  SameText(c, Finish(c, ok, reply))
<1> DEFINE out == c.reply \o reply
           c1 == [c EXCEPT !.pc = "done", !.ok = ok, !.reply = out]
<1>1. Finish(c, ok, reply) = c1
  BY CmdFields DEF Finish
<1> HIDE DEF out
<1>2. SameText(c, c1)
  BY CmdFields DEF SameText
<1> QED
  BY <1>1, <1>2

(* The texts a request brings.                                             *)
LEMMA UptoTokens ==
  ASSUME NEW s \in Seq(Tokens), NEW n \in Nat
  PROVE  Upto(s, n) \in Seq(Tokens)
<1> DEFINE m == IF n < Len(s) THEN n ELSE Len(s)
<1>1. m \in 0..Len(s)
  OBVIOUS
<1> HIDE DEF m
<1>2. SubSeq(s, 1, m) \in Seq(Tokens)
  BY <1>1
<1> QED
  BY <1>2 DEF Upto, m

(* A text decoded is a text.                                               *)
LEMMA DecodedTokens ==
  ASSUME NEW s \in Seq(Tokens)
  PROVE  THTTPD_strdecode(s) \in Seq(Tokens)
<1>1. \A t \in DOMAIN Escaped : Escaped[t] \in Tokens
  BY DEF Escaped, Tokens
<1>2. \A i \in 1..Len(s) : (IF s[i] \in DOMAIN Escaped THEN Escaped[s[i]] ELSE s[i]) \in Tokens
  BY <1>1
<1>3. DOMAIN s = 1..Len(s) /\ Len(s) \in Nat
  OBVIOUS
<1> QED
  BY <1>2, <1>3 DEF THTTPD_strdecode

(* The name is taken, and the query of a GET.                              *)
LEMMA BeginExact ==
  ASSUME CmdSane(cmd), Exact(cmd), NEW r \in Requests, NEW method, Begin(method, r.icgi)
  PROVE  Exact(cmd')
<1> DEFINE in == r.icgi
           text == in.name \o THTTPD_strdecode(Upto(in.query, MAX_CNT_CGI))
           buf == Upto(in.buffered, MAX_CNT_CGI - 1)
<1>1. cmd.pc = "idle" /\ CmdShape(cmd) /\ cmd.calls = <<>>
  BY DEF Begin, CmdSane
<1>2. /\ in.name \in Seq(Tokens) /\ in.query \in Seq(Tokens) /\ in.buffered \in Seq(Tokens)
      /\ in.arriving \in Seq(Tokens)
  BY RequestsAssumption
<1>3. text \in Seq(Tokens) /\ buf \in Seq(Tokens)
  <2>1. MAX_CNT_CGI \in Nat /\ MAX_CNT_CGI - 1 \in Nat
    BY BuffersAssumption
  <2>2. buf \in Seq(Tokens) /\ THTTPD_strdecode(Upto(in.query, MAX_CNT_CGI)) \in Seq(Tokens)
    BY <1>2, <2>1, UptoTokens, DecodedTokens
  <2> QED
    BY <1>2, <2>2, ConcatProperties
<1>4. /\ cmd'.calls = cmd.calls
      /\ cmd'.pc \in {"body", "dispatch"} \/ (cmd'.pc = "done" /\ cmd'.ok = FALSE)
  BY <1>1, BeginFields
<1>5. PICK spill \in Spills :
        LET c == [cmd EXCEPT !.spill = spill]
        IN \/ cmd' = [c EXCEPT !.pc = "done", !.ok = FALSE]
           \/ cmd' = [c EXCEPT !.pc = "dispatch", !.text = text]
           \/ cmd' = [c EXCEPT !.pc = "body", !.text = in.name, !.buf = buf,
                               !.left = in.arriving, !.want = in.contentlength]
  BY DEF Begin
<1> DEFINE name == in.name
           left == in.arriving
           want == in.contentlength
<1> HIDE DEF text, buf
<1>6. \/ cmd' = [[cmd EXCEPT !.spill = spill] EXCEPT !.pc = "done", !.ok = FALSE]
      \/ cmd' = [[cmd EXCEPT !.spill = spill] EXCEPT !.pc = "dispatch", !.text = text]
      \/ cmd' = [[cmd EXCEPT !.spill = spill] EXCEPT !.pc = "body", !.text = name,
                   !.buf = buf, !.left = left, !.want = want]
  BY <1>5
<1>7. name \in Seq(Tokens) /\ left \in Seq(Tokens)
  BY <1>2
<1> HIDE DEF name, left, want, in
<1>8. cmd'.text \in {cmd.text, text, name} /\ cmd'.buf \in {cmd.buf, buf} /\ cmd'.left \in {cmd.left, left}
  BY <1>1, <1>6, CmdFields
<1> QED
  BY <1>1, <1>3, <1>4, <1>7, <1>8, UnaskedExact DEF Exact

(* The body is read, and the text put together.                            *)
LEMMA BodyExactly ==
  ASSUME CmdSane(cmd), Exact(cmd), EndBody \/ \E n \in 1..MAX_CNT_CGI : ReadBody(n)
  PROVE  Exact(cmd')
<1>1. CmdShape(cmd)
  BY DEF CmdSane
<1>2. /\ cmd.pc = "body" /\ cmd'.calls = cmd.calls
      /\ cmd'.pc \in {"body", "dispatch"} \/ (cmd'.pc = "done" /\ cmd'.ok = FALSE)
  BY <1>1, BodyFields
<1>3. cmd.calls = <<>> /\ cmd.text \in Seq(Tokens) /\ cmd.buf \in Seq(Tokens) /\ cmd.left \in Seq(Tokens)
  BY <1>2 DEF CmdSane, Exact
<1>4. ASSUME EndBody
      PROVE  cmd'.text \in Seq(Tokens) /\ cmd'.buf \in Seq(Tokens) /\ cmd'.left \in Seq(Tokens)
  <2> DEFINE t == cmd.text \o THTTPD_strdecode(cmd.buf)
  <2>1. t \in Seq(Tokens)
    BY <1>3, DecodedTokens, ConcatProperties
  <2>2. \/ cmd' = [cmd EXCEPT !.pc = "dispatch", !.text = t]
        \/ cmd' = [cmd EXCEPT !.pc = "done", !.ok = FALSE]
    BY <1>1, <1>4, CmdFields DEF EndBody
  <2> HIDE DEF t
  <2>3. cmd'.text \in {t, cmd.text} /\ cmd'.buf = cmd.buf /\ cmd'.left = cmd.left
    BY <1>1, <2>2, CmdFields
  <2> QED
    BY <1>3, <2>1, <2>3
<1>5. ASSUME NEW n \in 1..MAX_CNT_CGI, ReadBody(n)
      PROVE  cmd'.text \in Seq(Tokens) /\ cmd'.buf \in Seq(Tokens) /\ cmd'.left \in Seq(Tokens)
  <2> DEFINE b == cmd.buf \o SubSeq(cmd.left, 1, n)
             l == SubSeq(cmd.left, n + 1, Len(cmd.left))
  <2>1. n \in Nat /\ n <= Len(cmd.left)
    <3>1. MAX_CNT_CGI \in Nat
      BY BuffersAssumption
    <3>2. n \in Nat
      BY <3>1
    <3> QED
      BY <1>5, <3>2 DEF ReadBody
  <2>2. SubSeq(cmd.left, 1, n) \in Seq(Tokens) /\ l \in Seq(Tokens)
    <3> DEFINE s == cmd.left
    <3>1. s \in Seq(Tokens) /\ n \in 0..Len(s)
      BY <1>3, <2>1
    <3> HIDE DEF s
    <3>2. SubSeq(s, 1, n) \in Seq(Tokens) /\ SubSeq(s, n + 1, Len(s)) \in Seq(Tokens)
      BY <3>1
    <3> QED
      BY <3>2 DEF s
  <2>3. b \in Seq(Tokens)
    BY <1>3, <2>2, ConcatProperties
  <2>4. cmd' = [cmd EXCEPT !.buf = b, !.left = l]
    BY <1>5 DEF ReadBody
  <2> HIDE DEF b, l
  <2>5. cmd'.text = cmd.text /\ cmd'.buf = b /\ cmd'.left = l
    BY <1>1, <2>4, CmdFields
  <2> QED
    BY <1>3, <2>2, <2>3, <2>5
<1>6. cmd'.text \in Seq(Tokens) /\ cmd'.buf \in Seq(Tokens) /\ cmd'.left \in Seq(Tokens)
  BY <1>4, <1>5
<1> QED
  BY <1>2, <1>3, <1>6, UnaskedExact

(* The first call, and what it leads to.                                   *)
LEMMA AskExact ==
  ASSUME NEW c, CmdShape(c), Exact(c), c.calls = <<>>, NEW h, NEW act, NEW val, NEW answer,
         \A call : /\ call.op = Operation(h, act)
                   /\ act = "set" => call.args = Given(val, h.takes)
                   => FirstExact(c.text, c.spill, call)
  PROVE  Exact(Ask(c, h, act, val, answer))
<1> DEFINE takes == IF act = "set" THEN h.takes
                    ELSE IF "index" \in h.needs THEN <<"index">> ELSE <<>>
           op == Operation(h, act)
           args == Given(val, takes)
           e == [op |-> op, args |-> args, answer |-> answer, out |-> 0]
           c1 == Called(c, op, args, answer, 0)
           word == IF act = "set" THEN "success" ELSE "value"
<1>1. \/ Ask(c, h, act, val, answer) = Finish(c1, FALSE, <<"no_sd">>)
      \/ Ask(c, h, act, val, answer) = Finish(c1, h = GetRemoteFileList, <<"rtn_error">>)
      \/ Ask(c, h, act, val, answer) = [c1 EXCEPT !.pc = "groups"]
      \/ Ask(c, h, act, val, answer) = Finish(c1, TRUE, <<word>>)
  BY DEF Ask
<1>2. act = "set" => args = Given(val, h.takes)
  OBVIOUS
<1>3. e.op = op /\ e.args = args
  OBVIOUS
<1>4. FirstExact(c.text, c.spill, e)
  <2> HIDE DEF e, args
  <2> QED
    BY <1>2, <1>3
<1>5. CmdShape(c1) /\ c1.calls = Append(c.calls, e)
  BY CalledFields
<1>6. SameText(c, c1)
  BY CalledText
<1> HIDE DEF e, c1, word, op, args, takes
<1>7. c1.calls # <<>> /\ c1.calls[1] = e
  <2>1. c1.calls = <<e>>
    BY <1>5
  <2> QED
    BY <2>1
<1>8. Exact(c1)
  <2>1. c1.text = c.text /\ c1.buf = c.buf /\ c1.left = c.left /\ c1.spill = c.spill
    BY <1>6 DEF SameText
  <2> QED
    BY <1>4, <1>7, <2>1 DEF Exact
<1>9. ASSUME NEW ok, NEW reply
      PROVE  Exact(Finish(c1, ok, reply))
  <2> DEFINE d == Finish(c1, ok, reply)
  <2>1. d.calls = c1.calls
    BY <1>5, FinishFields
  <2>2. SameText(c1, d)
    BY <1>5, FinishText
  <2> HIDE DEF d
  <2>3. Exact(d)
    BY <1>5, <1>7, <1>8, <2>1, <2>2, LaterExact
  <2> QED
    BY <2>3 DEF d
<1>10. Exact([c1 EXCEPT !.pc = "groups"])
  <2> DEFINE d == [c1 EXCEPT !.pc = "groups"]
  <2>1. d.calls = c1.calls /\ SameText(c1, d)
    BY <1>5, CmdFields DEF SameText
  <2> HIDE DEF d
  <2>2. Exact(d)
    BY <1>5, <1>7, <1>8, <2>1, LaterExact
  <2> QED
    BY <2>2 DEF d
<1>11. Exact(Finish(c1, FALSE, <<"no_sd">>))
  BY <1>9
<1>12. Exact(Finish(c1, h = GetRemoteFileList, <<"rtn_error">>))
  BY <1>9
<1>13. Exact(Finish(c1, TRUE, <<word>>))
  BY <1>9
<1> QED
  BY <1>1, <1>10, <1>11, <1>12, <1>13

(* The command is looked up and run.                                       *)
LEMMA DispatchExact ==
  ASSUME CmdSane(cmd), Exact(cmd), Dispatch
  PROVE  Exact(cmd')
<1> DEFINE p == Parsed(cmd.text)
           h == Handler[p.e.proc]
           a == IF h.table = <<>> THEN [ret |-> "ok", val |-> <<>>, isset |-> {}]
                ELSE ARG_Parser(h.table, p.args, cmd.spill)
           act == Act(p.e, a.val)
           word == IF h = SysTimeCfg THEN "json" ELSE "parser_error"
<1>1. CmdShape(cmd) /\ cmd.calls = <<>>
  BY DEF Dispatch, CmdSane
<1>2. \/ cmd' = Finish(cmd, FALSE, <<>>)
      \/ cmd' = Finish(cmd, FALSE, <<word>>)
      \/ cmd' = Finish(cmd, FALSE, <<"cmd_invalid">>)
      \/ /\ p.found /\ a.ret = "ok" /\ Operation(h, act) # ""
         /\ \E answer \in Answers : cmd' = Ask(cmd, h, act, a.val, answer)
  BY DEF Dispatch, Handle, Parse
<1>3. h.table # <<>> => a = ARG_Parser(h.table, p.args, cmd.spill)
  OBVIOUS
<1> HIDE DEF a, word
<1>4. ASSUME NEW ok, NEW reply
      PROVE  Exact(Finish(cmd, ok, reply))
  <2> DEFINE d == Finish(cmd, ok, reply)
  <2>1. d.calls = cmd.calls /\ d.pc = "done"
    BY <1>1, FinishFields
  <2>2. SameText(cmd, d)
    BY <1>1, FinishText
  <2> HIDE DEF d
  <2>3. Exact(d)
    BY <1>1, <2>1, <2>2, UnaskedExact DEF Exact, SameText
  <2> QED
    BY <2>3 DEF d
<1>5. ASSUME p.found, a.ret = "ok", Operation(h, act) # "", NEW answer
      PROVE  Exact(Ask(cmd, h, act, a.val, answer))
  <2>1. ASSUME NEW call, call.op = Operation(h, act), act = "set" => call.args = Given(a.val, h.takes)
        PROVE  FirstExact(cmd.text, cmd.spill, call)
    <3>1. Asking(cmd.text, cmd.spill, a, call)
      BY <1>3, <1>5, <2>1 DEF Asking
    <3>2. cmd.text \in Seq(Tokens)
      BY DEF Exact
    <3> QED
      BY <1>5, <3>1, <3>2, FirstCall
  <2> HIDE DEF h, act
  <2> QED
    BY <1>1, <2>1, AskExact
<1> QED
  BY <1>2, <1>4, <1>5

(* The list asks again, for more.                                          *)
LEMMA ListExact ==
  ASSUME CmdSane(cmd), Exact(cmd),
         \/ \E groups \in 0..MaxGroups : ListStart(groups)
         \/ \E answer \in Answers, works \in 0..MaxWorks : ListGroup(answer, works)
         \/ \E answer \in Answers : ListWork(answer)
         \/ ListEnd
  PROVE  Exact(cmd')
<1>1. CmdShape(cmd)
  BY DEF CmdSane
<1>2. cmd.calls # <<>>
  BY DEF Exact, ListStart, ListGroup, ListWork, ListEnd
<1>3. ASSUME NEW c, CmdShape(c), SameText(cmd, c), NEW ok, NEW reply
      PROVE  Finish(c, ok, reply).calls = c.calls /\ SameText(cmd, Finish(c, ok, reply))
  <2>1. SameText(c, Finish(c, ok, reply)) /\ Finish(c, ok, reply).calls = c.calls
    BY <1>3, FinishText, FinishFields
  <2> QED
    BY <1>3, <2>1 DEF SameText
<1>4. SameText(cmd, cmd)
  BY DEF SameText
<1>5. ASSUME NEW groups, ListStart(groups)
      PROVE  cmd'.calls = cmd.calls /\ SameText(cmd, cmd')
  <2> DEFINE reply == cmd.reply \o <<"object", "list">>
  <2>1. cmd' = [[cmd EXCEPT !.reply = reply] EXCEPT !.pc = "group", !.groups = groups]
    BY <1>5 DEF ListStart, Say
  <2> HIDE DEF reply
  <2> QED
    BY <1>1, <2>1, CmdFields DEF SameText
<1>6. ASSUME NEW answer, NEW works, ListGroup(answer, works)
      PROVE  (\E e : cmd'.calls = Append(cmd.calls, e)) /\ SameText(cmd, cmd')
  <2> DEFINE op == "CMD_GET_WORK_NUMBER"
             args == <<cmd.i>>
             e == [op |-> op, args |-> args, answer |-> answer, out |-> works]
             c == Called(cmd, op, args, answer, works)
             next == IF works = 0 THEN "group" ELSE "work"
             pieces == <<"object", "list">>
             reply == c.reply \o pieces
  <2>1. cmd' = IF answer # 0 THEN Finish(c, FALSE, <<"rtn_error">>)
               ELSE [Say(c, pieces) EXCEPT !.works = works, !.j = 0, !.pc = next,
                                           !.i = IF works = 0 THEN @ + 1 ELSE @]
    BY <1>6 DEF ListGroup
  <2>2. CmdShape(c) /\ c.calls = Append(cmd.calls, e) /\ SameText(cmd, c)
    BY <1>1, CalledFields, CalledText
  <2> HIDE DEF c, e, next, pieces
  <2>3. CASE answer # 0
    BY <1>3, <2>1, <2>2, <2>3
  <2>4. CASE answer = 0
    <3> DEFINE s == [c EXCEPT !.reply = reply]
    <3>1. Say(c, pieces) = s
      BY <2>2, CmdFields DEF Say
    <3>2. s.calls = c.calls /\ SameText(c, s) /\ DOMAIN s = DOMAIN c
      BY <2>2, CmdFields DEF SameText
    <3> DEFINE i == IF works = 0 THEN s.i + 1 ELSE s.i
    <3> HIDE DEF s
    <3>3. cmd' = [s EXCEPT !.works = works, !.j = 0, !.pc = next, !.i = i]
      BY <2>1, <2>4, <3>1
    <3> HIDE DEF i
    <3>4. cmd'.calls = s.calls /\ SameText(s, cmd')
      BY <2>2, <3>2, <3>3, CmdFields DEF SameText
    <3> QED
      BY <2>2, <3>2, <3>4 DEF SameText
  <2> QED
    BY <2>3, <2>4
<1>7. ASSUME NEW answer, ListWork(answer)
      PROVE  (\E e : cmd'.calls = Append(cmd.calls, e)) /\ SameText(cmd, cmd')
  <2> DEFINE op == "CMD_GET_FILE_NUMBER_CAMID"
             args == <<cmd.i, cmd.j>>
             e == [op |-> op, args |-> args, answer |-> answer, out |-> 0]
             c == Called(cmd, op, args, answer, 0)
             last == cmd.j = cmd.works - 1
             next == IF last THEN "group" ELSE "work"
             pieces == CloseWork(cmd)
             reply == c.reply \o pieces
  <2>1. cmd' = IF answer # 0 THEN Finish(c, FALSE, <<"rtn_error">>)
               ELSE [Say(c, pieces) EXCEPT !.pc = next, !.j = @ + 1,
                                           !.i = IF last THEN @ + 1 ELSE @]
    BY <1>7 DEF ListWork
  <2> HIDE DEF op, args
  <2>2. CmdShape(c) /\ c.calls = Append(cmd.calls, e) /\ SameText(cmd, c)
    BY <1>1, CalledFields, CalledText
  <2> HIDE DEF c, e, next, pieces, last
  <2>3. CASE answer # 0
    BY <1>3, <2>1, <2>2, <2>3
  <2>4. CASE answer = 0
    <3> DEFINE s == [c EXCEPT !.reply = reply]
    <3>1. Say(c, pieces) = s
      BY <2>2, CmdFields DEF Say
    <3>2. s.calls = c.calls /\ SameText(c, s) /\ DOMAIN s = DOMAIN c
      BY <2>2, CmdFields DEF SameText
    <3> DEFINE i == IF last THEN s.i + 1 ELSE s.i
               j == s.j + 1
    <3> HIDE DEF s
    <3>3. cmd' = [s EXCEPT !.pc = next, !.j = j, !.i = i]
      BY <2>1, <2>4, <3>1
    <3> HIDE DEF i, j
    <3>4. cmd'.calls = s.calls /\ SameText(s, cmd')
      BY <2>2, <3>2, <3>3, CmdFields DEF SameText
    <3> QED
      BY <2>2, <3>2, <3>4 DEF SameText
  <2> QED
    BY <2>3, <2>4
<1>8. ASSUME ListEnd
      PROVE  cmd'.calls = cmd.calls /\ SameText(cmd, cmd')
  BY <1>1, <1>3, <1>4, <1>8 DEF ListEnd
<1>9. (cmd'.calls = cmd.calls \/ \E e : cmd'.calls = Append(cmd.calls, e)) /\ SameText(cmd, cmd')
  BY <1>5, <1>6, <1>7, <1>8
<1> QED
  BY <1>1, <1>2, <1>9, LaterExact

(* Whatever the client sends: the camera is asked nothing unless every     *)
(* option of the request is known and the command is, and then first for   *)
(* what the request says, looked up by its full name, with the last value  *)
(* given to each option by name.                                           *)
THEOREM RspCommandExact == Spec => []CommandExact
<1>1. Init => Exact(cmd)
  <2> SUFFICES ASSUME Init
               PROVE  Exact(cmd)
    OBVIOUS
  <2>1. cmd = NoCmd
    BY DEF Init
  <2>2. /\ cmd.calls = <<>> /\ cmd.pc = "idle"
        /\ cmd.text = <<>> /\ cmd.buf = <<>> /\ cmd.left = <<>>
    BY <2>1 DEF NoCmd
  <2>3. <<>> \in Seq(Tokens)
    OBVIOUS
  <2> QED
    BY <2>2, <2>3, UnaskedExact
<1>2. RspInv /\ Exact(cmd) /\ [Next]_vars => Exact(cmd)'
  <2> SUFFICES ASSUME RspInv, Exact(cmd), [Next]_vars
               PROVE  Exact(cmd')
    OBVIOUS
  <2>1. CmdSane(cmd) /\ req \in Requests
    BY DEF RspInv, Typed
  <2>2. CASE cmd' = cmd
    BY <2>2
  <2>3. CASE InternalStart
    BY <2>1, <2>3, BeginExact DEF InternalStart
  <2>4. CASE InternalStep
    BY <2>1, <2>4, BodyExactly, DispatchExact, ListExact DEF InternalStep, CgiNext
  <2> QED
    BY <2>2, <2>3, <2>4, OthersKeepCmd
<1>3. Exact(cmd) /\ SuccessHonest => CommandExact
  BY DEF Exact, FirstExact, CommandExact, EndOf
<1> QED
  BY <1>1, <1>2, <1>3, RspInvariant, RspSuccessHonest, PTL DEF Spec

=============================================================================
