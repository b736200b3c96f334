--------------------------- MODULE RequestProofs ---------------------------
(***************************************************************************)
(* Proofs about an entry of connects[] and the request it reads, for all    *)
(* sizes, whatever the clients send and however the reads cut it up: the    *)
(* buffer grows in time, the fields are made from the bytes read for this   *)
(* request only, and no file name the parser accepts leaves the root.       *)
(***************************************************************************)
EXTENDS Request, PathsProofs, TLAPS

USE SizesAssumption

-----------------------------------------------------------------------------
(* httpd_realloc_str()                                                      *)

(* A buffer that is there grows to what is asked for, at least; so does     *)
(* one that is not, whose size is 0.                                        *)
LEMMA ReallocEnough ==
  ASSUME NEW max \in Nat, NEW size \in Nat
  PROVE  /\ Realloc(max, size) \in Nat
         /\ Realloc(max, size) >= size /\ Realloc(max, size) >= max
<1>1. (size * 5) \div 4 \in Nat /\ (size * 5) \div 4 >= size
  OBVIOUS
<1>2. CASE max = 0
  BY <1>2 DEF Realloc, Larger
<1>3. CASE max # 0 /\ size > max
  <2> DEFINE more == (size * 5) \div 4
  <2>1. more \in Nat /\ more >= size
    BY <1>1
  <2>2. Realloc(max, size) = Larger(max * 2, more)
    BY <1>3 DEF Realloc
  <2> HIDE DEF more
  <2> QED
    BY <1>3, <2>1, <2>2 DEF Larger
<1>4. CASE max # 0 /\ ~(size > max)
  BY <1>4 DEF Realloc
<1> QED
  BY <1>2, <1>3, <1>4

-----------------------------------------------------------------------------
(* The inductive invariant                                                  *)

(* What is read fits into the buffer, in every state of the entry: the      *)
(* buffer is kept when a connection ends, and so is read_idx.               *)
Fits ==
  /\ read_size \in Nat /\ read_idx \in Nat
  /\ read_idx <= read_size

(* A full buffer that may grow gets room for one byte at least.             *)
LEMMA RoomFacts ==
  ASSUME Fits
  PROVE  /\ Room \in Nat /\ read_idx <= Room /\ read_size <= Room
         /\ ~TooLong => read_idx < Room
<1>1. read_size + ReadMore \in Nat
  BY DEF Fits
<1> DEFINE new == Realloc(read_size, read_size + ReadMore)
<1>2. new \in Nat /\ new >= read_size + ReadMore
  BY <1>1, ReallocEnough DEF Fits
<1>3. Room = IF Full THEN new ELSE read_size
  BY DEF Room
<1> HIDE DEF new
<1>4. CASE Full
  BY <1>2, <1>3, <1>4 DEF Fits
<1>5. CASE ~Full
  BY <1>3, <1>5 DEF Fits, Full
<1> QED
  BY <1>4, <1>5

(* An entry that was never used has no buffer and nothing read.             *)
LEMMA FitsInit == Init => Fits
BY DEF Init, Fits

(* Every step reads no more than there is room for.                         *)
LEMMA FitsNext == Fits /\ [Next]_vars => Fits'
<1> SUFFICES ASSUME Fits, [Next]_vars PROVE Fits'
  OBVIOUS
<1>1. CASE Accept
  <2>1. read_idx' = 0
        /\ read_size' = IF read_size = 0 THEN Realloc(0, ReadInit) ELSE read_size
    BY <1>1 DEF Accept
  <2>2. Realloc(0, ReadInit) \in Nat
    BY ReallocEnough
  <2> QED
    BY <2>1, <2>2 DEF Fits
<1>2. CASE ReadTooLong
  BY <1>2 DEF ReadTooLong, Fits
<1>3. CASE ReadFails \/ ReadNothing
  <2>1. read_idx' = read_idx /\ read_size' = Room
    BY <1>3 DEF ReadFails, ReadNothing
  <2> QED
    BY <2>1, RoomFacts DEF Fits
<1>4. ASSUME NEW sz \in 1..Len(sent), ReadSome(sz) PROVE Fits'
  <2>1. /\ sz <= Room - read_idx
        /\ read_size' = Room /\ read_idx' = read_idx + sz
    BY <1>4 DEF ReadSome
  <2>2. sz \in Nat
    OBVIOUS
  <2>3. Room \in Nat /\ read_idx \in Nat
    BY RoomFacts DEF Fits
  <2> QED
    BY <2>1, <2>2, <2>3 DEF Fits
<1>5. CASE UNCHANGED vars
  BY <1>5 DEF vars, Fits
<1> QED
  BY <1>1, <1>2, <1>3, <1>4, <1>5 DEF Next, handle_read

-----------------------------------------------------------------------------
(* The theorems                                                             *)

(* Nothing is ever read beyond the end of the buffer, whatever the sizes    *)
(* of the buffer, of what is sent and of the pieces it comes in, from one   *)
(* connection of the entry to the next.                                     *)
THEOREM ReqFits == Spec => []Fits
<1> QED
  BY FitsInit, FitsNext, PTL DEF Spec

(* A request is refused for its length only if it is longer than ReadMax:   *)
(* until then handle_read() finds or makes room before each read().         *)
THEOREM ReqBufferGrows == Spec => []BufferGrows
<1>1. Fits => BufferGrows
  <2> SUFFICES ASSUME Fits
               PROVE  /\ read_idx <= read_size
                      /\ TooLong => read_idx > ReadMax
                      /\ ~TooLong => Room > read_idx
    BY DEF BufferGrows
  <2>1. TooLong => read_idx > ReadMax
    BY DEF TooLong, Full, Fits
  <2>2. Room \in Nat /\ (~TooLong => read_idx < Room)
    BY RoomFacts
  <2> QED
    BY <2>1, <2>2 DEF Fits
<1> QED
  BY <1>1, ReqFits, PTL

-----------------------------------------------------------------------------
(* strpbrk(), strspn() and the terminating NUL.                             *)

(* The bytes before the first one of S.                                     *)
LEMMA BeforeIs ==
  ASSUME NEW s \in Path, NEW S
  PROVE  \E n \in 0..Len(s) :
           /\ Before(s, S) \in Path /\ Before(s, S) = SubSeq(s, 1, n) /\ Len(Before(s, S)) = n
           /\ \A k \in 1..n : Before(s, S)[k] = s[k] /\ s[k] \notin S
           /\ n < Len(s) => s[n + 1] \in S
<1> DEFINE N == {i \in 1..Len(s) : s[i] \in S}
<1>1. /\ SelectInSeq(s, LAMBDA c : c \in S) = IF N # {} THEN Min(N) ELSE 0
      /\ Len(s) \in Nat /\ N \in SUBSET Nat /\ SubSeq(s, 1, Len(s)) = s
  BY DEF SelectInSeq, Path
<1>2. CASE N = {}
  <2>1. Before(s, S) = s
    BY <1>1, <1>2 DEF Before
  <2> QED
    BY <1>1, <1>2, <2>1
<1>3. CASE N # {}
  <2>1. Min(N) \in N /\ \A y \in N : Min(N) <= y
    BY <1>1, <1>3, MinIs
  <2> DEFINE at == Min(N)
  <2>2. at \in 1..Len(s) /\ s[at] \in S /\ \A k \in 1..Len(s) : s[k] \in S => at <= k
    BY <2>1
  <2>3. Before(s, S) = SubSeq(s, 1, at - 1)
    <3>1. at # 0
      BY <1>1, <2>2
    <3> QED
      BY <1>1, <1>3, <3>1 DEF Before
  <2> HIDE DEF at, N
  <2>4. /\ 1 \in Nat \ {0} /\ at - 1 \in Nat /\ at - 1 <= Len(s) /\ (at - 1) - 1 + 1 = at - 1
        /\ at - 1 \in 0..Len(s) /\ (at - 1) + 1 = at
    BY <1>1, <2>2
  <2>5. /\ SubSeq(s, 1, at - 1) \in Path
        /\ Len(SubSeq(s, 1, at - 1)) = IF 1 <= at - 1 THEN (at - 1) - 1 + 1 ELSE 0
        /\ \A k \in 1..((at - 1) - 1 + 1) : SubSeq(s, 1, at - 1)[k] = s[1 + k - 1]
    BY <2>4, SubPath
  <2>6. \A k \in 1..(at - 1) : 1 + k - 1 = k /\ s[k] \notin S
    BY <1>1, <2>2
  <2>7. Len(SubSeq(s, 1, at - 1)) = at - 1
    BY <2>4, <2>5
  <2> QED
    BY <2>2, <2>3, <2>4, <2>5, <2>6, <2>7
<1> QED
  BY <1>2, <1>3

(* The rest, from that one on.                                              *)
LEMMA FromIs ==
  ASSUME NEW s \in Path, NEW S
  PROVE  /\ From(s, S) \in Path
         /\ From(s, S) = << >> <=> \A k \in 1..Len(s) : s[k] \notin S
<1>1. PICK n \in 0..Len(s) : /\ Len(Before(s, S)) = n
                             /\ \A k \in 1..n : s[k] \notin S
                             /\ n < Len(s) => s[n + 1] \in S
  BY BeforeIs
<1>2. Len(s) \in Nat /\ n + 1 \in Nat \ {0} /\ Len(s) <= Len(s)
  BY DEF Path
<1>3. From(s, S) = SubSeq(s, n + 1, Len(s))
  BY <1>1 DEF From
<1>4. /\ SubSeq(s, n + 1, Len(s)) \in Path
      /\ Len(SubSeq(s, n + 1, Len(s))) = IF n + 1 <= Len(s) THEN Len(s) - (n + 1) + 1 ELSE 0
  BY <1>2, SubPath
<1>5. CASE n = Len(s)
  <2>1. Len(SubSeq(s, n + 1, Len(s))) = 0
    BY <1>2, <1>4, <1>5
  <2>2. SubSeq(s, n + 1, Len(s)) = << >>
    BY <1>4, <2>1 DEF Path
  <2> QED
    BY <1>1, <1>3, <1>4, <1>5, <2>2
<1>6. CASE n < Len(s)
  <2>1. Len(SubSeq(s, n + 1, Len(s))) > 0 /\ n + 1 \in 1..Len(s)
    BY <1>2, <1>4, <1>6
  <2> DEFINE u == SubSeq(s, n + 1, Len(s))
  <2>2. u # << >>
    <3>1. Len(u) > 0
      BY <2>1
    <3> HIDE DEF u
    <3> QED
      BY <3>1
  <2> QED
    BY <1>1, <1>3, <1>4, <1>6, <2>1, <2>2
<1> QED
  BY <1>2, <1>5, <1>6

(* What follows the blanks.                                                 *)
LEMMA TrimLeftType ==
  ASSUME NEW s \in Path, NEW S
  PROVE  TrimLeft(s, S) \in Path
<1> DEFINE N == {i \in 1..Len(s) : s[i] \notin S}
<1>1. /\ SelectInSeq(s, LAMBDA c : c \notin S) = IF N # {} THEN Min(N) ELSE 0
      /\ Len(s) \in Nat /\ N \in SUBSET Nat
  BY DEF SelectInSeq, Path
<1>2. CASE N = {}
  BY <1>1, <1>2, TokenFacts DEF TrimLeft
<1>3. CASE N # {}
  <2>1. Min(N) \in N
    BY <1>1, <1>3, MinIs
  <2>2. Min(N) \in Nat \ {0} /\ Len(s) <= Len(s)
    BY <1>1, <2>1
  <2>3. TrimLeft(s, S) = SubSeq(s, Min(N), Len(s))
    BY <1>1, <1>3, <2>2 DEF TrimLeft
  <2> HIDE DEF N
  <2> QED
    BY <1>1, <2>2, <2>3, SubPath
<1> QED
  BY <1>2, <1>3

(* The name behind the first slash.                                         *)
LEMMA TailIs ==
  ASSUME NEW s \in Path, s # << >>
  PROVE  /\ Tail(s) \in Path /\ Len(Tail(s)) = Len(s) - 1 /\ Len(s) \in Nat \ {0}
         /\ \A k \in 1..(Len(s) - 1) : Tail(s)[k] = s[k + 1]
         /\ s[1] = Slash => s = <<Slash>> \o Tail(s) /\ Resolve(s) = Resolve(Tail(s))
<1>1. Len(s) \in Nat \ {0}
  BY DEF Path
<1>2. /\ Tail(s) \in Path /\ Len(Tail(s)) = Len(s) - 1
      /\ \A k \in 1..(Len(s) - 1) : Tail(s)[k] = s[k + 1]
  BY HeadTailProperties DEF Path
<1>3. ASSUME s[1] = Slash
      PROVE  s = <<Slash>> \o Tail(s) /\ Resolve(s) = Resolve(Tail(s))
  <2>1. s = SubSeq(s, 1, 1 - 1) \o <<Slash>> \o SubSeq(s, 1 + 1, Len(s))
    <3>1. 1 \in 1..Len(s)
      BY <1>1
    <3> QED
      BY <1>3, <3>1, SplitPath
  <2>2. SubSeq(s, 1, 1 - 1) = << >> /\ SubSeq(s, 1 + 1, Len(s)) = Tail(s)
    BY <1>1, TailIsSubSeq DEF Path
  <2>3. s = << >> \o <<Slash>> \o Tail(s)
    BY <2>1, <2>2
  <2>4. << >> \in Path /\ << >> \in Names
    BY DEF Path, Names
  <2>5. Go(<< >>, << >> \o <<Slash>> \o Tail(s)) = Go(Go(<< >>, << >>), Tail(s))
    BY <1>2, <2>4, GoSlash
  <2>6. Go(<< >>, << >>) = << >>
    BY <2>4, GoWord, StepFacts
  <2>7. << >> \o <<Slash>> = <<Slash>>
    OBVIOUS
  <2> QED
    BY <2>3, <2>5, <2>6, <2>7, ResolveIs
<1> QED
  BY <1>1, <1>2, <1>3

(* The empty name and "." are the root itself.                              *)
LEMMA EmptyDot == Resolve(<< >>) = << >> /\ Resolve(<<Dot>>) = << >>
<1>1. << >> \in Names
  BY DEF Names
<1>2. Go(<< >>, << >>) = Step(<< >>, << >>) /\ Go(<< >>, <<Dot>>) = Step(<< >>, <<Dot>>)
  BY GoWord, TokenFacts
<1> QED
  BY <1>1, <1>2, StepFacts, ResolveIs

-----------------------------------------------------------------------------
(* The file name of a request.                                              *)

(* %2F becomes a slash, what is none becomes none.                          *)
LEMMA StrdecodeIs ==
  ASSUME NEW u \in Path
  PROVE  /\ strdecode(u) \in Path /\ Len(strdecode(u)) = Len(u)
         /\ (u # << >> /\ u[1] = Slash) => strdecode(u)[1] = Slash
<1>1. Len(u) \in Nat /\ DOMAIN u = 1..Len(u) /\ \A i \in 1..Len(u) : u[i] \in Tokens
  BY DEF Path
<1>2. \A t \in DOMAIN Decoded : Decoded[t] \in Tokens
  BY DEF Decoded, Tokens
<1>3. Slash \notin DOMAIN Decoded
  BY DEF Decoded, Slash
<1>4. \A i \in 1..Len(u) : strdecode(u)[i] = IF u[i] \in DOMAIN Decoded THEN Decoded[u[i]] ELSE u[i]
  BY <1>1 DEF strdecode
<1>5. strdecode(u) \in [1..Len(u) -> Tokens]
  BY <1>1, <1>2 DEF strdecode
<1>6. strdecode(u) \in Path /\ Len(strdecode(u)) = Len(u)
  BY <1>1, <1>5 DEF Path
<1>7. ASSUME u # << >>, u[1] = Slash
      PROVE  strdecode(u)[1] = Slash
  <2>1. 1 \in 1..Len(u)
    BY <1>1, <1>7 DEF Path
  <2> QED
    BY <1>3, <1>4, <1>7, <2>1
<1> QED
  BY <1>6, <1>7

(* The path asked for begins with a slash.                                  *)
LEMMA AskedPath ==
  ASSUME NEW u \in Path, u # << >>, u[1] = Slash
  PROVE  LET p == CString(strdecode(u)) IN p \in Path /\ p # << >> /\ p[1] = Slash
<1> DEFINE v == strdecode(u)
           p == CString(v)
<1>1. v \in Path /\ v[1] = Slash /\ Len(v) \in Nat \ {0}
  BY StrdecodeIs DEF Path
<1> HIDE DEF v
<1>2. PICK n \in 0..Len(v) :
           /\ p \in Path /\ Len(p) = n
           /\ \A k \in 1..n : p[k] = v[k] /\ v[k] \notin {"NUL"}
           /\ n < Len(v) => v[n + 1] \in {"NUL"}
  BY <1>1, BeforeIs DEF CString
<1>3. n # 0
  BY <1>1, <1>2 DEF Slash
<1>4. 1 \in 1..n /\ n \in Nat
  BY <1>1, <1>3
<1> HIDE DEF p
<1>5. p # << >> /\ p[1] = Slash
  BY <1>1, <1>2, <1>3, <1>4
<1> QED
  BY <1>2, <1>5 DEF p, v

(* Without its slash, and "." for nothing, it means the same, ...           *)
LEMMA NameMeans ==
  ASSUME NEW p \in Path, p # << >>, p[1] = Slash
  PROVE  LET orig == IF Tail(p) = << >> THEN <<Dot>> ELSE Tail(p)
         IN orig \in Path /\ Resolve(orig) = Resolve(p)
BY TailIs, EmptyDot, TokenFacts

(* ... also without the query.                                              *)
LEMMA BareMeans ==
  ASSUME NEW p \in Path, p # << >>, p[1] = Slash
  PROVE  LET orig == IF Tail(p) = << >> THEN <<Dot>> ELSE Tail(p)
         IN /\ Before(orig, {"?"}) \in Path
            /\ Resolve(Before(orig, {"?"})) = Resolve(Before(p, {"?"}))
<1> DEFINE Q == {"?"}
           b == Before(p, Q)
           name == Tail(p)
<1>0. /\ Len(p) \in Nat \ {0} /\ name \in Path /\ Len(name) = Len(p) - 1
      /\ \A k \in 1..(Len(p) - 1) : name[k] = p[k + 1]
  BY TailIs
<1>1. PICK n \in 0..Len(p) :
           /\ b \in Path /\ Len(b) = n
           /\ \A k \in 1..n : b[k] = p[k] /\ p[k] \notin Q
           /\ n < Len(p) => p[n + 1] \in Q
  BY BeforeIs
<1>2. n \in Nat \ {0}
  <2>1. 0 + 1 = 1 /\ Slash \notin Q
    BY DEF Slash
  <2> QED
    BY <1>0, <1>1, <2>1
<1>3. b # << >> /\ b[1] = Slash
  <2>1. 1 \in 1..n
    BY <1>2
  <2> HIDE DEF b
  <2> QED
    BY <1>1, <1>2, <2>1
<1>4. /\ Resolve(b) = Resolve(Tail(b)) /\ Tail(b) \in Path /\ Len(Tail(b)) = n - 1
      /\ \A k \in 1..(n - 1) : Tail(b)[k] = b[k + 1]
  <2> HIDE DEF b
  <2> QED
    BY <1>1, <1>3, TailIs
<1>5. CASE name = << >>
  <2>1. Len(p) = 1
    <3> HIDE DEF name
    <3> QED
      BY <1>0, <1>5
  <2>2. n = 1
    BY <1>1, <1>2, <2>1
  <2> DEFINE c == Tail(b)
  <2>3. Tail(b) = << >>
    <3>1. c \in Path /\ Len(c) = 0
      BY <1>4, <2>2
    <3> HIDE DEF c
    <3>2. c = << >>
      BY <3>1 DEF Path
    <3> QED
      BY <3>2 DEF c
  <2> DEFINE d == <<Dot>>
  <2>4. d \in Path /\ Len(d) = 1 /\ d[1] = Dot /\ SubSeq(d, 1, 1) = d
    <3>1. d \in Path /\ Len(d) = 1 /\ d[1] = Dot
      BY TokenFacts
    <3> HIDE DEF d
    <3> QED
      BY <3>1, SubSeqFull DEF Path
  <2> HIDE DEF d
  <2>5. PICK m \in 0..1 : /\ Before(d, Q) \in Path /\ Before(d, Q) = SubSeq(d, 1, m)
                          /\ m < 1 => d[m + 1] \in Q
    BY <2>4, BeforeIs
  <2>6. m = 1
    <3>1. Dot \notin Q
      BY DEF Dot
    <3> QED
      BY <2>4, <2>5, <3>1
  <2>7. Before(d, Q) = d
    BY <2>4, <2>5, <2>6
  <2> QED
    BY <1>4, <1>5, <2>3, <2>4, <2>7, EmptyDot DEF d
<1>6. CASE name # << >>
  <2> HIDE DEF name, b
  <2>1. PICK m \in 0..Len(name) :
             /\ Before(name, Q) \in Path /\ Len(Before(name, Q)) = m
             /\ \A k \in 1..m : Before(name, Q)[k] = name[k] /\ name[k] \notin Q
             /\ m < Len(name) => name[m + 1] \in Q
    BY <1>0, BeforeIs
  <2>2. m \in Nat /\ m <= Len(p) - 1 /\ n <= Len(p)
    BY <1>0, <1>1, <2>1
  <2>3. ~(m < n - 1)
    <3> SUFFICES ASSUME m < n - 1
                 PROVE  FALSE
      OBVIOUS
    <3>1. m < Len(name) /\ m + 1 \in 1..(Len(p) - 1) /\ (m + 1) + 1 \in 1..n
      BY <1>0, <1>2, <2>2
    <3>2. name[m + 1] \in Q /\ name[m + 1] = p[(m + 1) + 1]
      BY <1>0, <2>1, <3>1
    <3> QED
      BY <1>1, <3>1, <3>2
  <2>4. ~(m > n - 1)
    <3> SUFFICES ASSUME m > n - 1
                 PROVE  FALSE
      OBVIOUS
    <3>1. n < Len(p) /\ n \in 1..m /\ n \in 1..(Len(p) - 1)
      BY <1>0, <1>2, <2>2
    <3>2. p[n + 1] \in Q /\ name[n] = p[n + 1] /\ name[n] \notin Q
      BY <1>0, <1>1, <2>1, <3>1
    <3> QED
      BY <3>2
  <2>5. m = n - 1
    BY <1>2, <2>2, <2>3, <2>4
  <2>6. ASSUME NEW k \in 1..m
        PROVE  Before(name, Q)[k] = Tail(b)[k]
    <3>1. k \in 1..(n - 1) /\ k + 1 \in 1..n /\ k \in 1..(Len(p) - 1)
      BY <1>2, <2>2, <2>5
    <3>2. Tail(b)[k] = b[k + 1] /\ b[k + 1] = p[k + 1] /\ name[k] = p[k + 1]
      BY <1>0, <1>1, <1>4, <3>1
    <3> QED
      BY <2>1, <3>2
  <2>7. Before(name, Q) = Tail(b)
    BY <1>4, <2>1, <2>5, <2>6, SeqEqual DEF Path
  <2> QED
    BY <1>4, <1>6, <2>7 DEF b, name
<1> QED
  BY <1>5, <1>6

(* The fields of a httpd_conn the parser fills in.                          *)
Fields == DOMAIN FreshConn

(* What PathsInside says of one request.                                    *)
Inside(h) ==
  LET path == CString(strdecode(h.encodedurl))
      asked == IF Contains(h.encodedurl, "?") THEN Before(path, {"?"}) ELSE path
  IN /\ ~Climbs(h.origfilename)
     /\ ~IsPrefix(<<Slash>>, h.origfilename)
     /\ Resolve(h.origfilename) = Resolve(asked)

(* Their names, one by one.                                                 *)
LEMMA FieldNames ==
  {"method", "status", "encodedurl", "protocol", "origfilename", "query", "text",
   "accept", "accepte", "reqhost", "hdrhost", "ims", "range_if", "contentlength",
   "mime_flag", "one_one", "got_range", "first", "last", "keep_alive",
   "should_linger"} = Fields
BY DEF Fields, FreshConn

(* What the parser does not refuse is inside.                               *)
LEMMA NotOutside ==
  ASSUME NEW x \in Path, ~Outside(de_dotdot(x))
  PROVE  /\ ~Climbs(de_dotdot(x)) /\ ~IsPrefix(<<Slash>>, de_dotdot(x))
         /\ Resolve(de_dotdot(x)) = Resolve(x)
<1> DEFINE g == de_dotdot(x)
<1>1. g \in Path /\ Resolve(g) = Resolve(x) /\ Normal(g) /\ NoParent(g)
  BY DeDotDot
<1>2. ~IsPrefix(<<Slash>>, g) /\ g # <<Dot, Dot>>
  BY DEF Outside
<1> HIDE DEF g
<1>3. IsPrefix(<<Slash>>, g) <=> Len(g) >= 1 /\ g[1] = Slash
  <2> DEFINE z == <<Slash>>
  <2>1. z \in Path /\ Len(z) = 1 /\ z[1] = Slash /\ z # << >> /\ Len(g) \in Nat
    BY <1>1, TokenFacts DEF Path
  <2> HIDE DEF z
  <2>2. IsPrefix(z, g) <=> Len(z) <= Len(g) /\ \A k \in 1..Len(z) : g[k] = z[k]
    BY <1>1, <2>1, PrefixOccurs
  <2>3. (\A k \in 1..1 : g[k] = z[k]) <=> g[1] = z[1]
    OBVIOUS
  <2> QED
    BY <2>1, <2>2, <2>3 DEF z
<1>4. ~Climbs(g)
  BY <1>1, <1>2, <1>3, StaysInside
<1> QED
  BY <1>1, <1>2, <1>4 DEF g

(* The file name in the fields is what the path in them asked for, and a    *)
(* name outside sets the status to 400.                                     *)
LEMMA ParsePathInside ==
  ASSUME NEW h, DOMAIN h = Fields, h.encodedurl \in Path, h.encodedurl # << >>,
         h.encodedurl[1] = Slash, h.status = 0
  PROVE  /\ DOMAIN ParsePath(h) = Fields
         /\ ParsePath(h).status \in {0, 400}
         /\ ParsePath(h).status = 0 => Inside(ParsePath(h))
<1> DEFINE u == h.encodedurl
           p == CString(strdecode(u))
           name == Tail(p)
           orig == IF name = << >> THEN <<Dot>> ELSE name
           query == From(u, {"?"})
           x == IF query = << >> THEN orig ELSE Before(orig, {"?"})
           file == de_dotdot(x)
           q == IF query = << >> THEN h.query ELSE Tail(query)
           h1 == [h EXCEPT !.origfilename = file, !.query = q]
<1>1. ParsePath(h) = IF Outside(file) THEN Fail(h1, 400) ELSE h1
  BY DEF ParsePath
<1>2. u \in Path /\ u # << >> /\ u[1] = Slash
  OBVIOUS
<1> HIDE DEF u
<1>3. p \in Path /\ p # << >> /\ p[1] = Slash
  BY <1>2, AskedPath
<1>4. query = << >> <=> ~Contains(u, "?")
  <2>1. query = << >> <=> \A k \in 1..Len(u) : u[k] \notin {"?"}
    BY <1>2, FromIs
  <2> HIDE DEF query
  <2> QED
    BY <2>1 DEF Contains
<1> HIDE DEF p, query
<1>5. orig \in Path /\ Resolve(orig) = Resolve(p)
  BY <1>3, NameMeans
<1>6. Before(orig, {"?"}) \in Path /\ Resolve(Before(orig, {"?"})) = Resolve(Before(p, {"?"}))
  BY <1>3, BareMeans
<1> HIDE DEF orig
<1>7. x \in Path /\ Resolve(x) = Resolve(IF Contains(u, "?") THEN Before(p, {"?"}) ELSE p)
  BY <1>4, <1>5, <1>6
<1> HIDE DEF x
<1>8. ~Outside(file) => /\ ~Climbs(file) /\ ~IsPrefix(<<Slash>>, file)
                        /\ Resolve(file) = Resolve(x)
  BY <1>7, NotOutside
<1> HIDE DEF file, q
<1>9. /\ DOMAIN h1 = Fields /\ h1.origfilename = file /\ h1.encodedurl = u
      /\ h1.status = 0
  BY FieldNames DEF u
<1> HIDE DEF h1
<1>10. DOMAIN Fail(h1, 400) = Fields /\ Fail(h1, 400).status = 400
  BY <1>9, FieldNames DEF Fail
<1>11. ~Outside(file) => Inside(h1)
  BY <1>7, <1>8, <1>9 DEF Inside, p
<1> QED
  BY <1>1, <1>9, <1>10, <1>11

-----------------------------------------------------------------------------
(* The fields of a request.                                                 *)

(* A request the parser has not refused has a file name inside.             *)
Good(h) ==
  /\ DOMAIN h = Fields
  /\ h.status \in {0, 400, 501}
  /\ h.status = 0 => Inside(h)

(* Only the path and the status matter.                                     *)
LEMMA GoodOf ==
  ASSUME NEW h, NEW g, DOMAIN g = Fields,
         \/ g.status \in {400, 501}
         \/ /\ Good(h) /\ g.status = h.status
            /\ g.origfilename = h.origfilename /\ g.encodedurl = h.encodedurl
  PROVE  Good(g)
BY DEF Good, Inside

(* A request that is refused has no name to speak of.                       *)
LEMMA FailGood ==
  ASSUME NEW h, NEW code \in {400, 501}, DOMAIN h = Fields
  PROVE  Good(Fail(h, code))
<1>1. DOMAIN Fail(h, code) = Fields /\ Fail(h, code).status = code
  BY FieldNames DEF Fail
<1> QED
  BY <1>1, GoodOf

(* A path that begins with a slash has one.                                 *)
LEMMA OnePrefix ==
  ASSUME NEW f \in Path
  PROVE  IsPrefix(<<Slash>>, f) => f # << >> /\ f[1] = Slash
<1> DEFINE z == <<Slash>>
<1>1. z \in Path /\ Len(z) = 1 /\ z[1] = Slash /\ z # << >> /\ Len(f) \in Nat
  BY TokenFacts DEF Path
<1> HIDE DEF z
<1>2. IsPrefix(z, f) <=> Len(z) <= Len(f) /\ \A k \in 1..Len(z) : f[k] = z[k]
  BY <1>1, PrefixOccurs
<1>3. IsPrefix(z, f) => Len(f) >= 1 /\ f[1] = Slash
  BY <1>1, <1>2
<1> QED
  BY <1>3 DEF z

(* A path or an absolute URL: the part from the slash on is the path.       *)
LEMMA ParseTargetGood ==
  ASSUME NEW h, DOMAIN h = Fields, h.status = 0, NEW method_str, NEW url \in Path
  PROVE  Good(ParseTarget(h, method_str, url))
<1> DEFINE absolute == IsPrefix(<<"http://">>, url)
           host == Before(Tail(url), {Slash})
           path == IF absolute THEN From(Tail(url), {Slash}) ELSE url
           badHost == ~h.one_one \/ path = << >> \/ IsPrefix(<<Dot>>, host)
           h1 == IF absolute THEN [h EXCEPT !.reqhost = host] ELSE h
           h2 == [h1 EXCEPT !.method = method_str[1], !.encodedurl = path]
<1>1. \/ ParseTarget(h, method_str, url) = Fail(h, 400)
      \/ ParseTarget(h, method_str, url) = Fail(h1, 400)
      \/ ParseTarget(h, method_str, url) = Fail(h1, 501)
      \/ IsPrefix(<<Slash>>, path) /\ ParseTarget(h, method_str, url) = ParsePath(h2)
  BY DEF ParseTarget
<1>2. path \in Path
  <2>1. absolute => Len(url) >= 1
    BY DEF IsPrefix
  <2>2. absolute => url # << >>
    BY <2>1
  <2>3. absolute => Tail(url) \in Path
    BY <2>2, TailIs
  <2> QED
    BY <2>3, FromIs
<1> HIDE DEF absolute, host, path
<1>3. DOMAIN h1 = Fields /\ h1.status = 0
  BY FieldNames
<1> HIDE DEF h1
<1>4. DOMAIN h2 = Fields /\ h2.status = 0 /\ h2.encodedurl = path
  BY <1>3, FieldNames
<1> HIDE DEF h2
<1>5. ASSUME IsPrefix(<<Slash>>, path)
      PROVE  Good(ParsePath(h2))
  <2>1. path # << >> /\ path[1] = Slash
    BY <1>2, <1>5, OnePrefix
  <2> QED
    BY <1>2, <1>4, <2>1, ParsePathInside DEF Good
<1>6. Good(Fail(h, 400)) /\ Good(Fail(h1, 400)) /\ Good(Fail(h1, 501))
  BY <1>3, FailGood
<1> QED
  BY <1>1, <1>5, <1>6

(* A first line of one word is refused, else its second word is the URL.    *)
LEMMA ParseFirstLineGood ==
  ASSUME NEW h, DOMAIN h = Fields, h.status = 0, NEW line \in Path
  PROVE  Good(ParseFirstLine(h, line))
<1> DEFINE rest == TrimLeft(From(line, Blank), Blank)
           url == Before(rest, Blank)
           bare == From(rest, Blank) = << >>
           protocol == IF bare THEN <<"HTTP/0.9">>
                       ELSE Before(TrimLeft(From(rest, Blank), Blank), Blank)
           flag == h.mime_flag /\ ~bare
           one == h.one_one \/ (~bare /\ protocol \notin {<< >>, <<"HTTP/1.0">>})
           h1 == [h EXCEPT !.protocol = protocol, !.mime_flag = flag, !.one_one = one]
           m == Before(line, Blank)
<1>1. ParseFirstLine(h, line) = IF From(line, Blank) = << >> THEN Fail(h, 400)
                                ELSE ParseTarget(h1, m, url)
  BY DEF ParseFirstLine
<1>2. rest \in Path
  BY FromIs, TrimLeftType
<1> HIDE DEF rest
<1>3. url \in Path
  BY <1>2, BeforeIs
<1> HIDE DEF url, protocol, flag, one
<1>4. DOMAIN h1 = Fields /\ h1.status = 0
  BY FieldNames
<1> HIDE DEF h1, m
<1>5. Good(ParseTarget(h1, m, url))
  BY <1>3, <1>4, ParseTargetGood
<1> QED
  BY <1>1, <1>5, FailGood

(* No header changes the file name.                                         *)
LEMMA ParseHeaderGood ==
  ASSUME NEW h, Good(h), NEW buf
  PROVE  Good(ParseHeader(h, buf))
<1> DEFINE value == TrimLeft(Tail(buf), Blank)
           name == buf[1]
<1>0. DOMAIN h = Fields
  BY DEF Good
<1>1. ASSUME NEW v
      PROVE  /\ Good([h EXCEPT !.text = v]) /\ Good([h EXCEPT !.accept = v])
             /\ Good([h EXCEPT !.accepte = v]) /\ Good([h EXCEPT !.ims = v])
             /\ Good([h EXCEPT !.range_if = v]) /\ Good([h EXCEPT !.contentlength = v])
             /\ Good([h EXCEPT !.keep_alive = v])
  BY <1>0, FieldNames, GoodOf
<1>2. Good(ParseHost(h, value))
  <2> DEFINE hst == Before(value, {":"})
             h1 == [h EXCEPT !.hdrhost = hst]
  <2>1. ParseHost(h, value) = h1 \/ ParseHost(h, value) = Fail(h1, 400)
    BY DEF ParseHost
  <2> HIDE DEF hst
  <2>2. DOMAIN h1 = Fields /\ Good(h1)
    BY <1>0, FieldNames, GoodOf
  <2> HIDE DEF h1, value
  <2> QED
    BY <2>1, <2>2, FailGood
<1>3. Good(ParseAccept(h, value))
  BY <1>1 DEF ParseAccept
<1>4. Good(ParseRange(h, buf))
  <2> DEFINE spec == From(buf, {"="})
             first == Before(Tail(spec), {"-"})
             dash == From(Tail(spec), {"-"})
             last == Tail(dash)
             a == Atoi(first)
             b == IF last # << >> /\ last[1] \in DOMAIN Number THEN Atoi(last) ELSE h.last
             g == [h EXCEPT !.got_range = TRUE, !.first = a, !.last = b]
  <2>1. ParseRange(h, buf) = h \/ ParseRange(h, buf) = g
    BY DEF ParseRange
  <2> HIDE DEF a, b
  <2>2. /\ DOMAIN g = Fields /\ g.status = h.status
        /\ g.origfilename = h.origfilename /\ g.encodedurl = h.encodedurl
    BY <1>0, FieldNames
  <2> HIDE DEF g
  <2> QED
    BY <2>1, <2>2, GoodOf
<1> HIDE DEF value
<1> DEFINE text == [h.text EXCEPT ![name] = value]
           dat == tdate_parse(value)
           n == Atoi(value)
           alive == h.keep_alive \/ value = <<"keep-alive">>
<1>5. \/ ParseHeader(h, buf) = h
      \/ ParseHeader(h, buf) = ParseHost(h, value)
      \/ ParseHeader(h, buf) = ParseAccept(h, value)
      \/ ParseHeader(h, buf) = ParseRange(h, buf)
      \/ ParseHeader(h, buf) = [h EXCEPT !.text = text]
      \/ ParseHeader(h, buf) = [h EXCEPT !.accepte = value]
      \/ ParseHeader(h, buf) = [h EXCEPT !.ims = dat]
      \/ ParseHeader(h, buf) = [h EXCEPT !.range_if = dat]
      \/ ParseHeader(h, buf) = [h EXCEPT !.contentlength = n]
      \/ ParseHeader(h, buf) = [h EXCEPT !.keep_alive = alive]
  <2> HIDE DEF dat, n, name
  <2>1. ParseHeader(h, buf) =
          CASE name \in TextHeaders -> [h EXCEPT !.text = text]
            [] name = "Host:" -> ParseHost(h, value)
            [] name = "Accept:" -> ParseAccept(h, value)
            [] name = "Accept-Encoding:" ->
                 IF Len(h.accepte) > AcceptMax THEN h ELSE [h EXCEPT !.accepte = value]
            [] name = "If-Modified-Since:" -> [h EXCEPT !.ims = dat]
            [] name = "Range:" -> ParseRange(h, buf)
            [] name \in {"If-Range:", "Range-If:"} -> [h EXCEPT !.range_if = dat]
            [] name = "Content-Length:" -> [h EXCEPT !.contentlength = n]
            [] name = "Connection:" -> [h EXCEPT !.keep_alive = alive]
            [] OTHER -> h
    BY DEF ParseHeader, value, name, dat, n
  <2> HIDE DEF text, alive
  <2> QED
    BY <2>1
<1> HIDE DEF text, dat, n, alive
<1> QED
  BY <1>1, <1>2, <1>3, <1>4, <1>5

(* The header lines, one after the other.                                   *)
Hd == INSTANCE FoldFacts WITH Op <- ParseLine

(* One header line.                                                         *)
LEMMA ParseLineGood ==
  ASSUME NEW acc, Good(acc.h), NEW buf
  PROVE  Good(ParseLine(acc, buf).h)
<1> DEFINE h1 == IF buf = << >> THEN acc.h ELSE ParseHeader(acc.h, buf)
<1>1. ParseLine(acc, buf) = IF acc.over THEN acc ELSE HeaderRead(acc, buf, h1)
  BY DEF ParseLine
<1>2. Good(h1)
  BY ParseHeaderGood
<1> HIDE DEF h1
<1>3. HeaderRead(acc, buf, h1).h = h1
  BY DEF HeaderRead
<1> QED
  BY <1>1, <1>2, <1>3

(* All of them, however many there are.                                     *)
LEMMA ParseHeadersGood ==
  ASSUME NEW h, Good(h), NEW S, NEW lines \in Seq(S)
  PROVE  Good(ParseHeaders(h, lines).h)
<1> DEFINE base == [h |-> h, read |-> 1, over |-> FALSE]
<1>1. FoldLeft(ParseLine, base, lines) = Hd!Fold(base, lines)
  BY DEF Hd!Fold, Hd!FoldLeft, Hd!MapThenFoldSet, Hd!Max, FoldLeft, MapThenFoldSet, Max
<1>2. base.h = h
  OBVIOUS
<1> HIDE DEF base
<1>3. PICK r : Hd!Run(base, lines, r) /\ r[Len(lines)] = Hd!Fold(base, lines)
  BY Hd!FoldRun
<1>4. Len(lines) \in Nat
  OBVIOUS
<1> DEFINE P == {k \in Nat : k <= Len(lines) => Good(r[k].h)}
<1>5. 0 \in P
  BY <1>2, <1>3 DEF Hd!Run
<1>6. ASSUME NEW k \in Nat, k \in P
      PROVE  k + 1 \in P
  <2> SUFFICES ASSUME k + 1 <= Len(lines)
               PROVE  Good(r[k + 1].h)
    OBVIOUS
  <2>1. k + 1 \in 1..Len(lines) /\ (k + 1) - 1 = k
    BY <1>4
  <2>2. Good(r[k].h)
    BY <1>4, <1>6
  <2>3. r[k + 1] = ParseLine(r[k], lines[k + 1])
    BY <1>3, <2>1 DEF Hd!Run
  <2> QED
    BY <2>2, <2>3, ParseLineGood
<1> HIDE DEF P
<1>7. Len(lines) \in P
  BY <1>4, <1>5, <1>6, Hd!NatInd
<1>8. Good(Hd!Fold(base, lines).h)
  BY <1>3, <1>4, <1>7 DEF P
<1> QED
  BY <1>1, <1>8 DEF ParseHeaders, base

(* The test for a host.                                                     *)
LEMMA CheckHostGood ==
  ASSUME NEW h, Good(h)
  PROVE  Good(CheckHost(h))
<1>0. DOMAIN h = Fields
  BY DEF Good
<1>1. \A b : Good([h EXCEPT !.should_linger = b])
  BY <1>0, FieldNames, GoodOf
<1>2. Good(Fail(h, 400))
  BY <1>0, FailGood
<1> DEFINE v == h.should_linger \/ h.keep_alive
<1>3. \/ CheckHost(h) = h \/ CheckHost(h) = Fail(h, 400)
      \/ CheckHost(h) = [h EXCEPT !.should_linger = v]
  BY DEF CheckHost
<1> HIDE DEF v
<1> QED
  BY <1>1, <1>2, <1>3

(* The parser as a whole, on bytes that have a line.                        *)
LEMMA ParsedGood ==
  ASSUME NEW h, DOMAIN h = Fields, h.status = 0, NEW s, BufGets(s) \in Seq(Path) \ {<< >>}
  PROVE  Good(httpd_parse_request(h, s).hc)
<1> DEFINE lines == BufGets(s)
           h1 == ParseFirstLine(h, Head(lines))
           acc == ParseHeaders(h1, Tail(lines))
<1>1. Head(lines) \in Path /\ Tail(lines) \in Seq(Path)
  BY HeadTailProperties
<1>2. Good(h1)
  BY <1>1, ParseFirstLineGood
<1> HIDE DEF h1
<1>3. Good(acc.h)
  BY <1>1, <1>2, ParseHeadersGood
<1>4. httpd_parse_request(h, s).hc = CheckHost(acc.h)
  BY DEF httpd_parse_request, ParseLines, Parsed, h1
<1> HIDE DEF acc
<1> QED
  BY <1>3, <1>4, CheckHostGood

-----------------------------------------------------------------------------
(* The scanner and the lines.                                               *)

(* One byte: the row of the table, or the verdict that stays.               *)
ScanOp(st, c) == IF st \in Verdicts THEN st ELSE Table[st][Class(c)]
Sc == INSTANCE FoldFacts WITH Op <- ScanOp

(* The scanner takes the bytes one by one.                                  *)
LEMMA GotRequestIs ==
  ASSUME NEW state, NEW s
  PROVE  GotRequest(state, s) = Sc!Fold(state, s)
BY DEF GotRequest, ScanOp, Sc!Fold, Sc!FoldLeft, Sc!MapThenFoldSet, Sc!Max,
       FoldLeft, MapThenFoldSet, Max

(* bufgets() of one byte.                                                   *)
LineOp(acc, c) ==
  CASE c = "LF" /\ acc.cr -> [acc EXCEPT !.cr = FALSE]
    [] c \in Newline /\ ~(c = "LF" /\ acc.cr) ->
         [lines |-> Append(acc.lines, CString(acc.line)), line |-> << >>, cr |-> c = "CR"]
    [] OTHER -> [acc EXCEPT !.line = Append(@, c), !.cr = FALSE]
Ln == INSTANCE FoldFacts WITH Op <- LineOp

(* No line yet, and what is kept of the lines found.                        *)
NoLines == [lines |-> << >>, line |-> << >>, cr |-> FALSE]
Lines == [lines : Seq(Path), line : Path, cr : BOOLEAN]

(* The lines are found byte by byte.                                        *)
LEMMA BufGetsIs ==
  ASSUME NEW s
  PROVE  BufGets(s) = Ln!Fold(NoLines, s).lines
BY DEF BufGets, LineOp, NoLines, Ln!Fold, Ln!FoldLeft, Ln!MapThenFoldSet, Ln!Max,
       FoldLeft, MapThenFoldSet, Max

(* The states of the scanner before a verdict.                              *)
States == DOMAIN Table

(* A row has a next state or a verdict for every byte.                      *)
LEMMA ScanOpType ==
  ASSUME NEW st \in States \cup Verdicts, NEW c
  PROVE  ScanOp(st, c) \in States \cup Verdicts
BY DEF ScanOp, States, Table, Verdicts, Class

(* A line is made of tokens.                                                *)
LEMMA LineOpType ==
  ASSUME NEW acc \in Lines, NEW c \in Tokens
  PROVE  LineOp(acc, c) \in Lines
<1>1. acc.lines \in Seq(Path) /\ acc.line \in Path /\ acc.cr \in BOOLEAN
  BY DEF Lines
<1>2. CASE c = "LF" /\ acc.cr
  <2>1. LineOp(acc, c) = [acc EXCEPT !.cr = FALSE]
    BY <1>2 DEF LineOp
  <2> QED
    BY <2>1 DEF Lines
<1>3. CASE ~(c = "LF" /\ acc.cr) /\ c \in Newline
  <2> DEFINE ls == Append(acc.lines, CString(acc.line))
             cr == c = "CR"
  <2>1. LineOp(acc, c) = [lines |-> ls, line |-> << >>, cr |-> cr]
    BY <1>3 DEF LineOp
  <2>2. CString(acc.line) \in Path
    BY <1>1, BeforeIs DEF CString
  <2>3. ls \in Seq(Path) /\ cr \in BOOLEAN /\ << >> \in Path
    BY <1>1, <2>2, TokenFacts
  <2> HIDE DEF ls, cr
  <2> QED
    BY <2>1, <2>3 DEF Lines
<1>4. CASE c \notin Newline
  <2> DEFINE l == Append(acc.line, c)
  <2>1. LineOp(acc, c) = [acc EXCEPT !.line = l, !.cr = FALSE]
    BY <1>4 DEF LineOp, Newline
  <2>2. l \in Path
    BY <1>1 DEF Path
  <2> HIDE DEF l
  <2> QED
    BY <2>1, <2>2 DEF Lines
<1> QED
  BY <1>2, <1>3, <1>4

(* The lines of a buffer.                                                   *)
LEMMA LinesType ==
  ASSUME NEW s \in Path
  PROVE  Ln!Fold(NoLines, s) \in Lines /\ BufGets(s) \in Seq(Path)
<1>1. NoLines \in Lines
  <2>1. << >> \in Seq(Path) /\ << >> \in Path
    BY TokenFacts
  <2> QED
    BY <2>1 DEF NoLines, Lines
<1>2. \A acc \in Lines : \A c \in Tokens : LineOp(acc, c) \in Lines
  BY LineOpType
<1>3. s \in Seq(Tokens)
  BY DEF Path
<1>4. Ln!Fold(NoLines, s) \in Lines
  BY <1>1, <1>2, <1>3, Ln!FoldClosed
<1> QED
  BY <1>4, BufGetsIs DEF Lines

(* Without a newline the scanner is still in the first line.                *)
FirstStates == {"FIRSTWORD", "FIRSTWS", "SECONDWORD", "SECONDWS", "THIRDWORD", "THIRDWS", "BAD"}

(* Beyond the first line there is a line.                                   *)
HasLine(st, acc) ==
  /\ st \in States \cup Verdicts
  /\ acc \in Lines
  /\ acc.cr => acc.lines # << >>
  /\ st \in FirstStates \/ acc.lines # << >>

(* One more byte.                                                           *)
LEMMA HasLineStep ==
  ASSUME NEW st, NEW acc, HasLine(st, acc), NEW c \in Tokens
  PROVE  HasLine(ScanOp(st, c), LineOp(acc, c))
<1>1. ScanOp(st, c) \in States \cup Verdicts /\ LineOp(acc, c) \in Lines
  BY ScanOpType, LineOpType DEF HasLine
<1>2. acc.lines \in Seq(Path) /\ acc.line \in Path /\ acc.cr \in BOOLEAN
  BY DEF Lines, HasLine
<1>3. CASE c \in Newline
  <2>1. LineOp(acc, c).lines # << >>
    <3>1. CASE c = "LF" /\ acc.cr
      <4>1. LineOp(acc, c) = [acc EXCEPT !.cr = FALSE]
        BY <3>1 DEF LineOp
      <4>2. [acc EXCEPT !.cr = FALSE].lines = acc.lines
        BY DEF HasLine, Lines
      <4> QED
        BY <3>1, <4>1, <4>2 DEF HasLine
    <3>2. CASE ~(c = "LF" /\ acc.cr)
      <4>1. LineOp(acc, c).lines = Append(acc.lines, CString(acc.line))
        BY <1>3, <3>2 DEF LineOp
      <4>2. CString(acc.line) \in Path
        BY <1>2, BeforeIs DEF CString
      <4> QED
        BY <1>2, <4>1, <4>2
    <3> QED
      BY <3>1, <3>2
  <2> QED
    BY <1>1, <2>1 DEF HasLine
<1>4. CASE c \notin Newline
  <2>1. LineOp(acc, c) = [acc EXCEPT !.line = Append(acc.line, c), !.cr = FALSE]
    BY <1>4 DEF LineOp, Newline
  <2>2. LineOp(acc, c).lines = acc.lines /\ LineOp(acc, c).cr = FALSE
    BY <2>1 DEF Lines, HasLine
  <2>3. st \in FirstStates => ScanOp(st, c) \in FirstStates
    BY <1>4 DEF FirstStates, ScanOp, Table, Class, Verdicts, Newline
  <2> QED
    BY <1>1, <2>2, <2>3 DEF HasLine
<1> QED
  BY <1>3, <1>4

(* All bytes.                                                               *)
LEMMA HasLineAll ==
  ASSUME NEW s \in Path
  PROVE  HasLine(GotRequest("FIRSTWORD", s), Ln!Fold(NoLines, s))
<1> DEFINE F(n) == SubSeq(s, 1, n)
           P == {n \in Nat : n <= Len(s) =>
                   HasLine(Sc!Fold("FIRSTWORD", F(n)), Ln!Fold(NoLines, F(n)))}
<1>0. s \in Seq(Tokens) /\ Len(s) \in Nat /\ F(Len(s)) = s /\ F(0) = << >>
  BY DEF Path
<1>1. 0 \in P
  <2>1. Sc!Fold("FIRSTWORD", << >>) = "FIRSTWORD" /\ Ln!Fold(NoLines, << >>) = NoLines
    BY Sc!FoldEmpty, Ln!FoldEmpty
  <2>2. NoLines \in Lines
    BY LinesType, <1>0, Ln!FoldEmpty, TokenFacts
  <2>3. HasLine("FIRSTWORD", NoLines)
    BY <2>2 DEF HasLine, States, Table, FirstStates, NoLines
  <2> QED
    BY <1>0, <2>1, <2>3
<1>2. ASSUME NEW n \in Nat, n \in P
      PROVE  n + 1 \in P
  <2> SUFFICES ASSUME n + 1 <= Len(s)
               PROVE  HasLine(Sc!Fold("FIRSTWORD", F(n + 1)), Ln!Fold(NoLines, F(n + 1)))
    OBVIOUS
  <2>1. n + 1 \in 1..Len(s) /\ (n + 1) - 1 = n /\ s[n + 1] \in Tokens
    BY <1>0
  <2>2. HasLine(Sc!Fold("FIRSTWORD", F(n)), Ln!Fold(NoLines, F(n)))
    BY <1>0, <1>2
  <2>3. Sc!Fold("FIRSTWORD", F((n + 1))) = ScanOp(Sc!Fold("FIRSTWORD", F((n + 1) - 1)), s[n + 1])
    BY <1>0, <2>1, Sc!FoldPrefix
  <2>4. Ln!Fold(NoLines, F((n + 1))) = LineOp(Ln!Fold(NoLines, F((n + 1) - 1)), s[n + 1])
    BY <1>0, <2>1, Ln!FoldPrefix
  <2> HIDE DEF F
  <2> QED
    BY <2>1, <2>2, <2>3, <2>4, HasLineStep
<1> HIDE DEF P, F
<1>3. Len(s) \in P
  BY <1>0, <1>1, <1>2, Sc!NatInd
<1>4. HasLine(Sc!Fold("FIRSTWORD", s), Ln!Fold(NoLines, s))
  BY <1>0, <1>3 DEF P
<1> QED
  BY <1>4, GotRequestIs

(* What the scanner takes has a line.                                       *)
LEMMA GotHasLine ==
  ASSUME NEW s \in Path, GotRequest("FIRSTWORD", s) = "GOT"
  PROVE  BufGets(s) \in Seq(Path) \ {<< >>}
<1>1. "GOT" \notin FirstStates
  BY DEF FirstStates
<1> QED
  BY <1>1, HasLineAll, LinesType, BufGetsIs DEF HasLine

(* The scanner stays in its states.                                         *)
LEMMA GotRequestType ==
  ASSUME NEW s \in Path, NEW st \in States \cup Verdicts
  PROVE  GotRequest(st, s) \in States \cup Verdicts
<1>1. \A a \in States \cup Verdicts : \A c \in Tokens : ScanOp(a, c) \in States \cup Verdicts
  BY ScanOpType
<1> QED
  BY <1>1, Sc!FoldClosed, GotRequestIs DEF Path

(* The scanner goes on where it stopped.                                    *)
LEMMA GotRequestOn ==
  ASSUME NEW s \in Path, NEW i \in 0..Len(s), NEW j \in i..Len(s), NEW st
  PROVE  GotRequest(GotRequest(st, SubSeq(s, 1, i)), SubSeq(s, i + 1, j))
           = GotRequest(st, SubSeq(s, 1, j))
<1> DEFINE a == SubSeq(s, 1, i)
           b == SubSeq(s, i + 1, j)
<1>0. s \in Seq(Tokens) /\ Len(s) \in Nat /\ i \in Nat /\ j \in Nat /\ i <= j /\ j <= Len(s)
  BY DEF Path
<1>1. a \in Seq(Tokens) /\ b \in Seq(Tokens)
  <2>1. /\ 1 \in Nat \ {0} /\ i \in Nat /\ i <= Len(s) /\ i + 1 \in Nat \ {0}
        /\ j \in Nat /\ j <= Len(s)
    BY <1>0
  <2> QED
    BY <2>1, SubPath DEF Path
<1>2. SubSeq(s, 1, j) = a \o b
  <2>1. 1 \in 1..(Len(s) + 1) /\ i \in (1 - 1)..Len(s) /\ j \in i..Len(s)
    BY <1>0
  <2> QED
    BY <1>0, <2>1, ConcatAdjacentSubSeq
<1> HIDE DEF a, b
<1>3. Sc!Fold(st, a \o b) = Sc!Fold(Sc!Fold(st, a), b)
  BY <1>1, Sc!FoldConcat
<1> QED
  BY <1>2, <1>3, GotRequestIs DEF a, b

(* httpd_get_conn() sets every field: nothing of the last connection is     *)
(* left.                                                                    *)
LEMMA GetConnFresh ==
  ASSUME NEW h, DOMAIN h = Fields
  PROVE  httpd_get_conn(h) = FreshConn
<1> DEFINE g == httpd_get_conn(h)
<1>1. /\ g = [x \in DOMAIN g |-> g[x]] /\ DOMAIN g = Fields
  BY DEF httpd_get_conn
<1>2. FreshConn = [x \in Fields |-> FreshConn[x]]
  BY DEF FreshConn, Fields
<1>3. /\ g.method = FreshConn.method /\ g.status = FreshConn.status
      /\ g.encodedurl = FreshConn.encodedurl /\ g.protocol = FreshConn.protocol
      /\ g.origfilename = FreshConn.origfilename /\ g.query = FreshConn.query
      /\ g.text = FreshConn.text /\ g.accept = FreshConn.accept
      /\ g.accepte = FreshConn.accepte /\ g.reqhost = FreshConn.reqhost
      /\ g.hdrhost = FreshConn.hdrhost /\ g.ims = FreshConn.ims
      /\ g.range_if = FreshConn.range_if /\ g.contentlength = FreshConn.contentlength
      /\ g.mime_flag = FreshConn.mime_flag /\ g.one_one = FreshConn.one_one
      /\ g.got_range = FreshConn.got_range /\ g.first = FreshConn.first
      /\ g.last = FreshConn.last /\ g.keep_alive = FreshConn.keep_alive
      /\ g.should_linger = FreshConn.should_linger
  BY FieldNames DEF httpd_get_conn, FreshConn
<1> HIDE DEF g
<1>4. \A x \in Fields : g[x] = FreshConn[x]
  BY <1>3, FieldNames
<1> QED
  BY <1>1, <1>2, <1>4 DEF g

(* How far the scanner looks: to the end, unless it is settled before.      *)
LEMMA ScannedIs ==
  ASSUME NEW s \in Path, NEW st \in States \cup Verdicts
  PROVE  /\ Scanned(st, s) \in 0..Len(s)
         /\ GotRequest(st, s) \notin Verdicts => Scanned(st, s) = Len(s)
<1> DEFINE q == [n \in DOMAIN s |-> GotRequest(st, SubSeq(s, 1, n))]
           N == {i \in 1..Len(q) : q[i] \in Verdicts}
           at == SelectInSeq(q, LAMBDA x : x \in Verdicts)
<1>1. Len(s) \in Nat /\ DOMAIN s = 1..Len(s) /\ SubSeq(s, 1, Len(s)) = s
  BY DEF Path
<1>2. Len(q) = Len(s)
  BY <1>1
<1>3. at = IF N # {} THEN Min(N) ELSE 0
  BY DEF SelectInSeq
<1>4. Scanned(st, s) = IF at = 0 THEN Len(s) ELSE at - 1
  BY DEF Scanned
<1>5. \A i \in 1..Len(s) : q[i] = GotRequest(st, SubSeq(s, 1, i))
  BY <1>1
<1>6. ASSUME GotRequest(st, s) \notin Verdicts
      PROVE  N = {}
  <2> SUFFICES ASSUME NEW i \in 1..Len(s), GotRequest(st, SubSeq(s, 1, i)) \in Verdicts
               PROVE  FALSE
    BY <1>2, <1>5
  <2> DEFINE v == GotRequest(st, SubSeq(s, 1, i))
             r == SubSeq(s, i + 1, Len(s))
  <2>1. i \in 0..Len(s) /\ Len(s) \in i..Len(s)
    BY <1>1
  <2>2. GotRequest(v, r) = GotRequest(st, s)
    BY <1>1, <2>1, GotRequestOn
  <2>3. r \in Path
    <3>1. i + 1 \in Nat \ {0} /\ Len(s) <= Len(s)
      BY <1>1
    <3> QED
      BY <1>1, <3>1, SubPath
  <2>4. v \in Verdicts
    OBVIOUS
  <2> HIDE DEF v, r
  <2>5. \A a \in {v} : \A c \in Tokens : ScanOp(a, c) \in {v}
    BY <2>4 DEF ScanOp
  <2>6. Sc!Fold(v, r) \in {v}
    <3>1. r \in Seq(Tokens) /\ v \in {v}
      BY <2>3 DEF Path
    <3> QED
      BY <2>5, <3>1, Sc!FoldClosed
  <2> QED
    BY <1>6, <2>2, <2>4, <2>6, GotRequestIs
<1>7. N # {} => Min(N) \in 1..Len(s)
  <2>1. N \in SUBSET Nat
    BY <1>1, <1>2
  <2> QED
    BY <1>2, <2>1, MinIs
<1> HIDE DEF N, at, q
<1> QED
  BY <1>1, <1>3, <1>4, <1>6, <1>7

-----------------------------------------------------------------------------
(* The inductive invariant of a request.                                    *)

(* What was read of this request.                                           *)
Got == SubSeq(sent, 1, read_idx)

(* While an entry reads, its fields are those of a httpd_conn never used    *)
(* and the scanner has seen what is read; once the request is taken, the    *)
(* fields are what the parser made of what was read.                        *)
ReqInv ==
  /\ pc \in {"free", "reading", "failed", "parsed"}
  /\ sent \in Path
  /\ read_idx \in 0..Len(sent)
  /\ DOMAIN hc = Fields
  /\ checked_state \in States \cup Verdicts
  /\ pc = "reading" => /\ hc = FreshConn
                       /\ checked_idx = read_idx
                       /\ checked_state \notin Verdicts
                       /\ checked_state = GotRequest("FIRSTWORD", Got)
  /\ pc = "parsed" => hc.status = 0 /\ checked_state = "GOT"
  /\ checked_state = "GOT" => /\ GotRequest("FIRSTWORD", Got) = "GOT"
                              /\ hc = httpd_parse_request(FreshConn, Got).hc

(* The first bytes of a string are one.                                     *)
LEMMA PrefixType ==
  ASSUME NEW s \in Path, NEW n \in 0..Len(s)
  PROVE  SubSeq(s, 1, n) \in Path /\ Len(SubSeq(s, 1, n)) = n
<1>1. n \in Nat /\ n <= Len(s) /\ 1 \in Nat \ {0} /\ Len(s) \in Nat
  BY DEF Path
<1>2. /\ SubSeq(s, 1, n) \in Path
      /\ Len(SubSeq(s, 1, n)) = IF 1 <= n THEN n - 1 + 1 ELSE 0
  BY <1>1, SubPath
<1> QED
  BY <1>1, <1>2

(* An entry that was never used.                                            *)
LEMMA ReqInit == Init => ReqInv
<1> SUFFICES ASSUME Init PROVE ReqInv
  OBVIOUS
<1>1. "FIRSTWORD" \in States /\ "FIRSTWORD" # "GOT"
  BY DEF States, Table
<1> QED
  BY <1>1, TokenFacts DEF Init, ReqInv, Fields

(* A connection is taken.                                                   *)
LEMMA ReqAccept == ReqInv /\ Accept => ReqInv'
<1> SUFFICES ASSUME ReqInv, Accept PROVE ReqInv'
  OBVIOUS
<1>1. /\ pc' = "reading" /\ read_idx' = 0 /\ checked_idx' = 0
      /\ checked_state' = "FIRSTWORD" /\ hc' = httpd_get_conn(hc)
      /\ sent' \in Inputs \cup NextInputs
  BY DEF Accept
<1>2. sent' \in Path
  BY <1>1, InputsAssumption DEF Path
<1>3. hc' = FreshConn
  BY <1>1, GetConnFresh DEF ReqInv
<1>4. "FIRSTWORD" \in States /\ "FIRSTWORD" # "GOT" /\ "FIRSTWORD" \notin Verdicts
  BY DEF States, Table, Verdicts
<1>5. Got' = << >>
  <2>1. Got' = SubSeq(sent', 1, 0)
    BY <1>1 DEF Got
  <2> QED
    BY <1>2, <2>1, SubSeqEmpty DEF Path
<1>6. GotRequest("FIRSTWORD", << >>) = "FIRSTWORD"
  BY Sc!FoldEmpty, GotRequestIs
<1>7. 0 \in 0..Len(sent')
  BY <1>2 DEF Path
<1> QED
  BY <1>1, <1>2, <1>3, <1>4, <1>5, <1>6, <1>7 DEF ReqInv, Fields

(* The end of the connection, or no news: nothing else changes.             *)
LEMMA ReqOther == ReqInv /\ (ReadTooLong \/ ReadFails \/ ReadNothing) => ReqInv'
<1> SUFFICES ASSUME ReqInv, ReadTooLong \/ ReadFails \/ ReadNothing PROVE ReqInv'
  OBVIOUS
<1>1. /\ sent' = sent /\ read_idx' = read_idx /\ checked_idx' = checked_idx
      /\ checked_state' = checked_state /\ Got' = Got /\ pc = "reading"
  BY DEF ReadTooLong, ReadFails, ReadNothing, Got
<1>2. (pc' = "failed" /\ hc' = Fail(hc, 400)) \/ (pc' = pc /\ hc' = hc)
  BY DEF ReadTooLong, ReadFails, ReadNothing
<1>3. DOMAIN Fail(hc, 400) = Fields
  BY FieldNames DEF Fail, ReqInv
<1>4. checked_state # "GOT"
  BY <1>1 DEF ReqInv, Verdicts
<1> QED
  BY <1>1, <1>2, <1>3, <1>4 DEF ReqInv

(* Bytes come: the scanner goes on where it was, and the parser runs on     *)
(* all that was read.                                                       *)
LEMMA ReqSome ==
  ASSUME ReqInv, NEW sz \in 1..Len(sent), ReadSome(sz)
  PROVE  ReqInv'
<1> DEFINE i == read_idx
           j == read_idx + sz
           s == SubSeq(sent, 1, j)
           new == SubSeq(sent, i + 1, j)
           st == GotRequest(checked_state, new)
           parse == httpd_parse_request(hc, s)
<1>1. /\ pc = "reading" /\ j <= Len(sent) /\ read_idx' = j /\ sent' = sent
      /\ sent \in Path /\ i \in 0..Len(sent) /\ hc = FreshConn /\ checked_idx = i
      /\ checked_state = GotRequest("FIRSTWORD", SubSeq(sent, 1, i))
      /\ checked_state \notin Verdicts /\ checked_state \in States \cup Verdicts
      /\ CheckNew(new, s)
  BY DEF ReadSome, ReqInv, Got
<1>2. i \in Nat /\ j \in i..Len(sent) /\ j \in 0..Len(sent) /\ Len(sent) \in Nat /\ j - i = sz
  BY <1>1 DEF Path
<1>3. s \in Path /\ Len(s) = j
  BY <1>1, <1>2, PrefixType
<1>4. st = GotRequest("FIRSTWORD", s)
  BY <1>1, <1>2, GotRequestOn
<1>5. st \in States \cup Verdicts
  <2>1. "FIRSTWORD" \in States \cup Verdicts
    BY DEF States, Table
  <2> QED
    BY <1>3, <1>4, <2>1, GotRequestType
<1>6. Got' = s
  BY <1>1 DEF Got
<1>7. Len(new) = sz /\ new \in Path
  <2>1. i + 1 \in Nat \ {0} /\ j \in Nat /\ j <= Len(sent) /\ i + 1 <= j /\ j - (i + 1) + 1 = sz
    BY <1>2
  <2> QED
    BY <1>1, <2>1, SubPath
<1> HIDE DEF s, new, j
<1>8. CASE st = "GOT"
  <2>1. /\ checked_state' = "GOT" /\ hc' = parse.hc
        /\ pc' = IF parse.hc.status # 0 THEN "failed" ELSE "parsed"
    BY <1>1, <1>8 DEF CheckNew, Look, Settle, Verdicts
  <2>2. Good(parse.hc)
    <3>1. BufGets(s) \in Seq(Path) \ {<< >>}
      BY <1>3, <1>4, <1>8, GotHasLine
    <3>2. DOMAIN FreshConn = Fields /\ FreshConn.status = 0
      BY DEF Fields, FreshConn
    <3> QED
      BY <1>1, <3>1, <3>2, ParsedGood
  <2>3. DOMAIN hc' = Fields
    BY <2>1, <2>2 DEF Good
  <2> HIDE DEF parse, st
  <2> QED
    BY <1>1, <1>2, <1>4, <1>5, <1>6, <1>8, <2>1, <2>3 DEF ReqInv, parse
<1>9. CASE st # "GOT"
  <2> DEFINE h == IF st = "BAD" THEN Fail(hc, 400) ELSE hc
  <2>1. /\ checked_state' = st /\ hc' = h
        /\ pc' = IF st \notin Verdicts THEN "reading"
                 ELSE IF h.status # 0 THEN "failed" ELSE "parsed"
        /\ checked_idx' = i + Scanned(checked_state, new)
    BY <1>1, <1>9 DEF CheckNew, Look, Settle
  <2>2. CASE st = "BAD"
    <3>1. DOMAIN Fail(hc, 400) = Fields /\ Fail(hc, 400).status = 400
      BY <1>1, FieldNames DEF Fail, Fields
    <3>2. pc' = "failed" /\ checked_state' = "BAD" /\ DOMAIN hc' = Fields
      BY <2>1, <2>2, <3>1 DEF Verdicts
    <3> QED
      BY <1>1, <1>2, <1>5, <2>2, <3>2 DEF ReqInv
  <2>3. CASE st \notin Verdicts
    <3>1. pc' = "reading" /\ hc' = FreshConn
      BY <1>1, <2>1, <2>3 DEF Verdicts
    <3>2. Scanned(checked_state, new) = Len(new)
      BY <1>1, <1>7, <2>3, ScannedIs
    <3>3. checked_idx' = j
      BY <1>2, <1>7, <2>1, <3>2
    <3> HIDE DEF st
    <3> QED
      BY <1>1, <1>2, <1>4, <1>5, <1>6, <2>1, <2>3, <3>1, <3>3 DEF ReqInv, Fields, Verdicts
  <2> QED
    BY <1>5, <1>9, <2>2, <2>3 DEF Verdicts
<1> QED
  BY <1>8, <1>9

(* Every step.                                                              *)
LEMMA ReqNext == ReqInv /\ [Next]_vars => ReqInv'
<1> SUFFICES ASSUME ReqInv, [Next]_vars PROVE ReqInv'
  OBVIOUS
<1>1. CASE Accept
  BY <1>1, ReqAccept
<1>2. CASE ReadTooLong \/ ReadFails \/ ReadNothing
  BY <1>2, ReqOther
<1>3. CASE \E sz \in 1..Len(sent) : ReadSome(sz)
  BY <1>3, ReqSome
<1>4. CASE UNCHANGED vars
  BY <1>4 DEF vars, ReqInv, Got
<1> QED
  BY <1>1, <1>2, <1>3, <1>4 DEF Next, handle_read

(* A connection begins with the fields of a httpd_conn never used,          *)
(* whatever the one before it left, and its request is what the parser      *)
(* makes of the bytes read, whatever the cuts between them.                 *)
THEOREM ReqOwnFields == Spec => []ReqInv
<1> QED
  BY ReqInit, ReqNext, PTL DEF Spec

(* A file name the parser accepts climbs above the root at none of its      *)
(* steps, is not absolute, and is what the URL asked for: de_dotdot() and   *)
(* the tests behind it, for URLs of any length.                             *)
THEOREM ReqPathsInside == Spec => []PathsInside
<1>1. ReqInv => PathsInside
  <2> SUFFICES ASSUME ReqInv, pc = "parsed"
               PROVE  Inside(hc)
    BY DEF PathsInside, Inside
  <2>1. /\ hc.status = 0 /\ GotRequest("FIRSTWORD", Got) = "GOT"
        /\ hc = httpd_parse_request(FreshConn, Got).hc
    BY DEF ReqInv
  <2>2. Got \in Path
    BY PrefixType DEF ReqInv, Got
  <2>3. BufGets(Got) \in Seq(Path) \ {<< >>}
    BY <2>1, <2>2, GotHasLine
  <2>4. DOMAIN FreshConn = Fields /\ FreshConn.status = 0
    BY DEF Fields, FreshConn
  <2>5. Good(hc)
    BY <2>1, <2>3, <2>4, ParsedGood
  <2> QED
    BY <2>1, <2>5 DEF Good
<1> QED
  BY <1>1, ReqOwnFields, PTL

-----------------------------------------------------------------------------
(* Types                                                                    *)

(* Every header line is counted, and counting starts at the first line.     *)
LEMMA ReadLines ==
  ASSUME NEW h, NEW S, NEW lines \in Seq(S)
  PROVE  LET acc == ParseHeaders(h, lines) IN acc.read \in 1..(Len(lines) + 1)
<1> DEFINE base == [h |-> h, read |-> 1, over |-> FALSE]
<1>1. FoldLeft(ParseLine, base, lines) = Hd!Fold(base, lines)
  BY DEF Hd!Fold, Hd!FoldLeft, Hd!MapThenFoldSet, Hd!Max, FoldLeft, MapThenFoldSet, Max
<1>2. base.read = 1
  OBVIOUS
<1>3. Len(lines) \in Nat
  OBVIOUS
<1>4. ~(h.mime_flag /\ h.status = 0) => ParseHeaders(h, lines).read = 1
  BY DEF ParseHeaders
<1>5. (h.mime_flag /\ h.status = 0) => ParseHeaders(h, lines) = Hd!Fold(base, lines)
  BY <1>1 DEF ParseHeaders
<1> HIDE DEF base
<1>6. PICK r : Hd!Run(base, lines, r) /\ r[Len(lines)] = Hd!Fold(base, lines)
  BY Hd!FoldRun
<1> DEFINE P == {k \in Nat : k <= Len(lines) => r[k].read \in 1..(k + 1)}
<1>7. 0 \in P
  BY <1>2, <1>6 DEF Hd!Run
<1>8. ASSUME NEW k \in Nat, k \in P
      PROVE  k + 1 \in P
  <2> SUFFICES ASSUME k + 1 <= Len(lines)
               PROVE  r[k + 1].read \in 1..((k + 1) + 1)
    OBVIOUS
  <2>1. k + 1 \in 1..Len(lines) /\ (k + 1) - 1 = k
    BY <1>3
  <2>2. r[k].read \in 1..(k + 1)
    BY <1>3, <1>8
  <2>3. r[k + 1] = ParseLine(r[k], lines[k + 1])
    BY <1>6, <2>1 DEF Hd!Run
  <2>4. r[k + 1].read \in {r[k].read, r[k].read + 1}
    BY <2>3 DEF ParseLine, HeaderRead
  <2> QED
    BY <2>2, <2>4
<1> HIDE DEF P
<1>9. Len(lines) \in P
  BY <1>3, <1>7, <1>8, Hd!NatInd
<1>10. Hd!Fold(base, lines).read \in 1..(Len(lines) + 1)
  BY <1>3, <1>6, <1>9 DEF P
<1> QED
  BY <1>3, <1>4, <1>5, <1>10

(* A line of the buffer ends in the buffer.                                 *)
LEMMA LineEndIs ==
  ASSUME NEW s \in Path, NEW n \in 1..Len(BufGets(s))
  PROVE  \E k \in 1..Len(s) :
           /\ Len(BufGets(SubSeq(s, 1, k))) >= n
           /\ \A j \in 1..Len(s) : Len(BufGets(SubSeq(s, 1, j))) >= n => k <= j
           /\ LineEnd(s, n) = IF k < Len(s) /\ s[k] = "CR" /\ s[k + 1] = "LF" THEN k + 1 ELSE k
<1> DEFINE q == [i \in DOMAIN s |-> Len(BufGets(SubSeq(s, 1, i)))]
           N == {i \in 1..Len(q) : q[i] >= n}
           k == SelectInSeq(q, LAMBDA lines : lines >= n)
<1>1. Len(s) \in Nat /\ DOMAIN s = 1..Len(s) /\ SubSeq(s, 1, Len(s)) = s
  BY DEF Path
<1>2. Len(q) = Len(s)
  BY <1>1
<1>3. k = IF N # {} THEN Min(N) ELSE 0
  BY DEF SelectInSeq
<1>4. \A i \in 1..Len(s) : q[i] = Len(BufGets(SubSeq(s, 1, i)))
  BY <1>1
<1>5. Len(s) \in N
  <2>1. Len(s) # 0
    <3> SUFFICES ASSUME Len(s) = 0
                 PROVE  FALSE
      OBVIOUS
    <3>1. s = << >>
      BY DEF Path
    <3>2. BufGets(<< >>) = << >>
      BY BufGetsIs, Ln!FoldEmpty DEF NoLines
    <3> QED
      BY <3>1, <3>2
  <2>2. Len(s) \in 1..Len(q)
    BY <1>1, <1>2, <2>1
  <2>3. q[Len(s)] = Len(BufGets(s))
    BY <1>1, <1>2, <1>4, <2>2
  <2> HIDE DEF q
  <2>4. Len(BufGets(s)) >= n
    OBVIOUS
  <2> QED
    BY <2>2, <2>3, <2>4
<1>6. N \in SUBSET Nat
  BY <1>1, <1>2
<1>7. Min(N) \in N /\ \A y \in N : Min(N) <= y
  BY <1>5, <1>6, MinIs
<1>8. k \in N /\ \A y \in N : k <= y
  BY <1>3, <1>5, <1>7
<1>9. LineEnd(s, n) = IF k < Len(s) /\ s[k] = "CR" /\ s[k + 1] = "LF" THEN k + 1 ELSE k
  BY DEF LineEnd
<1> HIDE DEF k, q
<1>10. k \in 1..Len(s) /\ q[k] >= n /\ \A j \in 1..Len(s) : q[j] >= n => k <= j
  BY <1>2, <1>8
<1> QED
  BY <1>4, <1>9, <1>10

(* What the parser says of where it stopped is a place in the buffer.       *)
LEMMA ParsedPlace ==
  ASSUME NEW h, NEW s \in Path, BufGets(s) \in Seq(Path) \ {<< >>}
  PROVE  httpd_parse_request(h, s).checked_idx \in 0..Len(s)
<1> DEFINE lines == BufGets(s)
           h1 == ParseFirstLine(h, Head(lines))
           acc == ParseHeaders(h1, Tail(lines))
<1>1. Tail(lines) \in Seq(Path) /\ Len(Tail(lines)) + 1 = Len(lines) /\ Len(s) \in Nat
  BY HeadTailProperties DEF Path
<1> HIDE DEF h1
<1>2. acc.read \in 1..Len(lines)
  <2>1. acc.read \in 1..(Len(Tail(lines)) + 1)
    BY <1>1, ReadLines
  <2> QED
    BY <1>1, <2>1
<1>3. httpd_parse_request(h, s).checked_idx = IF acc.over THEN LineEnd(s, acc.read) ELSE Len(s)
  BY DEF httpd_parse_request, ParseLines, Parsed, h1
<1> HIDE DEF acc
<1>4. PICK k \in 1..Len(s) : LineEnd(s, acc.read) = IF k < Len(s) /\ s[k] = "CR" /\ s[k + 1] = "LF" THEN k + 1 ELSE k
  BY <1>2, LineEndIs
<1>5. LineEnd(s, acc.read) \in 0..Len(s)
  BY <1>1, <1>4
<1> QED
  BY <1>1, <1>3, <1>5

(* Where the scanner is, and what the parser answers.                       *)
Places ==
  /\ checked_idx \in 0..read_idx
  /\ hc.status \in {0, 400, 501}

(* An entry that was never used, and every step.                            *)
LEMMA PlacesInit == Init => Places
BY DEF Init, Places, FreshConn

(* Bytes come: what is read is scanned up to the byte that settles it, or   *)
(* parsed up to the line the parser stops at.                               *)
LEMMA PlacesSome ==
  ASSUME ReqInv, Places, NEW sz \in 1..Len(sent), ReadSome(sz)
  PROVE  Places'
<1> DEFINE i == read_idx
           j == read_idx + sz
           s == SubSeq(sent, 1, j)
           new == SubSeq(sent, i + 1, j)
           st == GotRequest(checked_state, new)
           parse == httpd_parse_request(hc, s)
<1>1. /\ j <= Len(sent) /\ read_idx' = j /\ sent \in Path /\ i \in 0..Len(sent)
      /\ hc = FreshConn /\ checked_idx = i
      /\ checked_state = GotRequest("FIRSTWORD", SubSeq(sent, 1, i))
      /\ checked_state \in States \cup Verdicts
      /\ CheckNew(new, s)
  BY DEF ReadSome, ReqInv, Got
<1>2. i \in Nat /\ j \in i..Len(sent) /\ j \in 0..Len(sent) /\ Len(sent) \in Nat /\ j - i = sz
  BY <1>1 DEF Path
<1>3. s \in Path /\ Len(s) = j
  BY <1>1, <1>2, PrefixType
<1>4. st = GotRequest("FIRSTWORD", s)
  BY <1>1, <1>2, GotRequestOn
<1>5. Len(new) = sz /\ new \in Path
  <2>1. i + 1 \in Nat \ {0} /\ j \in Nat /\ j <= Len(sent) /\ i + 1 <= j /\ j - (i + 1) + 1 = sz
    BY <1>2
  <2> QED
    BY <1>1, <2>1, SubPath
<1>6. DOMAIN FreshConn = Fields /\ FreshConn.status = 0
  BY DEF Fields, FreshConn
<1> HIDE DEF s, new, j
<1>7. CASE st = "GOT"
  <2>1. BufGets(s) \in Seq(Path) \ {<< >>}
    BY <1>3, <1>4, <1>7, GotHasLine
  <2>2. Good(parse.hc) /\ parse.checked_idx \in 0..Len(s)
    BY <1>1, <1>3, <1>6, <2>1, ParsedGood, ParsedPlace
  <2>3. hc' = parse.hc /\ checked_idx' = parse.checked_idx
    BY <1>1, <1>7 DEF CheckNew, Look, Settle
  <2> HIDE DEF parse
  <2> QED
    BY <1>1, <1>3, <2>2, <2>3 DEF Places, Good
<1>8. CASE st # "GOT"
  <2>1. /\ hc' = IF st = "BAD" THEN Fail(hc, 400) ELSE hc
        /\ checked_idx' = i + Scanned(checked_state, new)
    BY <1>1, <1>8 DEF CheckNew, Look, Settle
  <2>2. Scanned(checked_state, new) \in 0..sz
    BY <1>1, <1>5, ScannedIs
  <2>3. Fail(hc, 400).status = 400
    BY <1>1, <1>6, FieldNames DEF Fail
  <2> HIDE DEF st
  <2>4. hc'.status \in {0, 400}
    BY <1>1, <1>6, <2>1, <2>3
  <2>5. checked_idx' \in 0..j
    BY <1>2, <2>1, <2>2
  <2> QED
    BY <1>1, <2>4, <2>5 DEF Places
<1> QED
  BY <1>7, <1>8

(* Every step.                                                              *)
LEMMA PlacesNext == ReqInv /\ Places /\ [Next]_vars => Places'
<1> SUFFICES ASSUME ReqInv, Places, [Next]_vars PROVE Places'
  OBVIOUS
<1>1. CASE Accept
  <2>1. hc' = FreshConn /\ checked_idx' = 0 /\ read_idx' = 0
    BY <1>1, GetConnFresh DEF Accept, ReqInv
  <2> QED
    BY <2>1 DEF Places, FreshConn
<1>2. CASE ReadTooLong \/ ReadFails \/ ReadNothing
  <2>1. Fail(hc, 400).status = 400
    BY FieldNames DEF Fail, ReqInv
  <2> QED
    BY <1>2, <2>1 DEF ReadTooLong, ReadFails, ReadNothing, Places
<1>3. CASE \E sz \in 1..Len(sent) : ReadSome(sz)
  BY <1>3, PlacesSome
<1>4. CASE UNCHANGED vars
  BY <1>4 DEF vars, Places
<1> QED
  BY <1>1, <1>2, <1>3, <1>4 DEF Next, handle_read

(* The variables have their types: no scanner position is beyond what was   *)
(* read, also where the parser leaves it.                                   *)
THEOREM ReqTypeCorrect == Spec => []TypeOK
<1>1. ReqInv /\ Places /\ Fits => TypeOK
  BY DEF ReqInv, Places, Fits, TypeOK, States, Fields
<1>2. Spec => []Places
  BY PlacesInit, PlacesNext, ReqOwnFields, PTL DEF Spec
<1> QED
  BY <1>1, <1>2, ReqOwnFields, ReqFits, PTL

-----------------------------------------------------------------------------
(* The scanner, the lines and the words, byte by byte                       *)

WordOp(ws, c) ==
  IF c # "SP" THEN [ws EXCEPT ![Len(ws)] = Append(@, c)]
  ELSE IF ws[Len(ws)] = << >> /\ Len(ws) > 1 THEN ws
  ELSE Append(ws, << >>)
Wd == INSTANCE FoldFacts WITH Op <- WordOp

NoWords == << << >> >>

(* After n bytes of s: the scanner, the lines and the words.                *)
V(s, n) == Sc!Fold("FIRSTWORD", SubSeq(s, 1, n))
A(s, n) == Ln!Fold(NoLines, SubSeq(s, 1, n))
W(s, n) == Wd!Fold(NoWords, SubSeq(s, 1, n))

(* Words is a fold.                                                        *)
LEMMA WordsIs ==
  ASSUME NEW s
  PROVE  Words(s) = Wd!Fold(NoWords, s)
BY DEF Words, WordOp, NoWords, Wd!Fold, Wd!FoldLeft, Wd!MapThenFoldSet, Wd!Max,
       FoldLeft, MapThenFoldSet, Max

(* What they are of the operators of the model.                             *)
LEMMA AtIs ==
  ASSUME NEW s \in Path, NEW n \in 0..Len(s)
  PROVE  /\ GotRequest("FIRSTWORD", SubSeq(s, 1, n)) = V(s, n)
         /\ BufGets(SubSeq(s, 1, n)) = A(s, n).lines
         /\ Words(SubSeq(s, 1, n)) = W(s, n)
         /\ V(s, n) \in States \cup Verdicts
         /\ A(s, n) \in Lines
         /\ SubSeq(s, 1, n) \in Path /\ Len(SubSeq(s, 1, n)) = n
<1>1. SubSeq(s, 1, n) \in Path /\ Len(SubSeq(s, 1, n)) = n
  BY PrefixType
<1>2. GotRequest("FIRSTWORD", SubSeq(s, 1, n)) \in States \cup Verdicts
  <2>1. "FIRSTWORD" \in States \cup Verdicts
    BY DEF States, Table
  <2> QED
    BY <1>1, <2>1, GotRequestType
<1>3. Ln!Fold(NoLines, SubSeq(s, 1, n)) \in Lines
  BY <1>1, LinesType
<1> QED
  BY <1>1, <1>2, <1>3, GotRequestIs, BufGetsIs, WordsIs DEF V, A, W

(* One more byte.                                                           *)
LEMMA AtStep ==
  ASSUME NEW s \in Path, NEW n \in 1..Len(s)
  PROVE  /\ V(s, n) = ScanOp(V(s, n - 1), s[n])
         /\ A(s, n) = LineOp(A(s, n - 1), s[n])
         /\ W(s, n) = WordOp(W(s, n - 1), s[n])
         /\ s[n] \in Tokens /\ n - 1 \in 0..Len(s)
<1>1. s \in Seq(Tokens) /\ Len(s) \in Nat
  BY DEF Path
<1>2. Sc!Fold("FIRSTWORD", SubSeq(s, 1, n)) = ScanOp(Sc!Fold("FIRSTWORD", SubSeq(s, 1, n - 1)), s[n])
  BY <1>1, Sc!FoldPrefix
<1>3. Ln!Fold(NoLines, SubSeq(s, 1, n)) = LineOp(Ln!Fold(NoLines, SubSeq(s, 1, n - 1)), s[n])
  BY <1>1, Ln!FoldPrefix
<1>4. Wd!Fold(NoWords, SubSeq(s, 1, n)) = WordOp(Wd!Fold(NoWords, SubSeq(s, 1, n - 1)), s[n])
  BY <1>1, Wd!FoldPrefix
<1>5. s[n] \in Tokens /\ n - 1 \in 0..Len(s)
  BY <1>1
<1> QED
  BY <1>2, <1>3, <1>4, <1>5 DEF V, A, W

(* No byte yet.                                                             *)
LEMMA AtStart ==
  ASSUME NEW s
  PROVE  V(s, 0) = "FIRSTWORD" /\ A(s, 0) = NoLines /\ W(s, 0) = NoWords
<1>1. SubSeq(s, 1, 0) = << >>
  BY SubSeqEmpty
<1> QED
  BY <1>1, Sc!FoldEmpty, Ln!FoldEmpty, Wd!FoldEmpty DEF V, A, W

(* The three cases of bufgets().                                            *)
LEMMA LineOpIs ==
  ASSUME NEW acc \in Lines, NEW c \in Tokens
  PROVE  /\ (c = "LF" /\ acc.cr) =>
              /\ LineOp(acc, c).lines = acc.lines
              /\ LineOp(acc, c).line = acc.line
              /\ ~LineOp(acc, c).cr
         /\ (c \in Newline /\ ~(c = "LF" /\ acc.cr)) =>
              /\ LineOp(acc, c).lines = Append(acc.lines, CString(acc.line))
              /\ LineOp(acc, c).line = << >>
              /\ LineOp(acc, c).cr <=> c = "CR"
         /\ c \notin Newline =>
              /\ LineOp(acc, c).lines = acc.lines
              /\ LineOp(acc, c).line = Append(acc.line, c)
              /\ ~LineOp(acc, c).cr
         /\ acc.lines \in Seq(Path) /\ acc.line \in Path /\ acc.cr \in BOOLEAN
         /\ CString(acc.line) \in Path
<1>1. acc.lines \in Seq(Path) /\ acc.line \in Path /\ acc.cr \in BOOLEAN
  BY DEF Lines
<1>2. CASE c = "LF" /\ acc.cr
  <2>1. LineOp(acc, c) = [acc EXCEPT !.cr = FALSE]
    BY <1>2 DEF LineOp
  <2>2. [acc EXCEPT !.cr = FALSE].lines = acc.lines /\ [acc EXCEPT !.cr = FALSE].line = acc.line
        /\ ~[acc EXCEPT !.cr = FALSE].cr
    BY DEF Lines
  <2> QED
    BY <1>1, <1>2, <2>1, <2>2, BeforeIs DEF Newline, CString
<1>3. CASE c \in Newline /\ ~(c = "LF" /\ acc.cr)
  <2> DEFINE ls == Append(acc.lines, CString(acc.line))
             cr == c = "CR"
  <2>1. LineOp(acc, c) = [lines |-> ls, line |-> << >>, cr |-> cr]
    BY <1>3 DEF LineOp
  <2>2. LineOp(acc, c).lines = ls /\ LineOp(acc, c).line = << >> /\ LineOp(acc, c).cr = cr
    BY <2>1
  <2> QED
    BY <1>1, <1>3, <2>2, BeforeIs DEF CString
<1>4. CASE c \notin Newline
  <2> DEFINE l == Append(acc.line, c)
  <2>1. LineOp(acc, c) = [acc EXCEPT !.line = l, !.cr = FALSE]
    BY <1>4 DEF LineOp, Newline
  <2> HIDE DEF l
  <2>2. LineOp(acc, c).lines = acc.lines /\ LineOp(acc, c).line = l /\ ~LineOp(acc, c).cr
    BY <2>1 DEF Lines
  <2> QED
    BY <1>1, <1>4, <2>2, BeforeIs DEF CString, l, Newline
<1> QED
  BY <1>2, <1>3, <1>4


(* Induction over the places from a to b.                                   *)
LEMMA RangeInd ==
  ASSUME NEW a \in Nat, NEW b \in Nat, NEW P, a \in P,
         \A n \in (a + 1)..b : n - 1 \in P => n \in P
  PROVE  a..b \subseteq P
<1> DEFINE Q == {d \in Nat : a + d <= b => a + d \in P}
<1>1. 0 \in Q
  OBVIOUS
<1>2. ASSUME NEW d \in Nat, d \in Q
      PROVE  d + 1 \in Q
  <2> SUFFICES ASSUME a + (d + 1) <= b
               PROVE  a + (d + 1) \in P
    OBVIOUS
  <2>1. a + (d + 1) \in (a + 1)..b /\ (a + (d + 1)) - 1 = a + d /\ a + d <= b
    OBVIOUS
  <2>2. a + d \in P
    BY <1>2, <2>1
  <2> QED
    BY <2>1, <2>2
<1> HIDE DEF Q
<1>3. Nat \subseteq Q
  BY <1>1, <1>2, Sc!NatInd
<1>4. ASSUME NEW n \in a..b
      PROVE  n \in P
  <2>1. n - a \in Nat /\ a + (n - a) = n /\ n <= b
    OBVIOUS
  <2> QED
    BY <1>3, <2>1 DEF Q
<1> QED
  BY <1>4

(* A verdict stays.                                                         *)
LEMMA VerdictStays ==
  ASSUME NEW s \in Path, NEW i \in 0..Len(s), NEW j \in i..Len(s), V(s, i) \in Verdicts
  PROVE  V(s, j) = V(s, i)
<1> DEFINE P == {n \in i..Len(s) : V(s, n) = V(s, i)}
<1>1. i \in Nat /\ Len(s) \in Nat /\ i \in P
  BY DEF Path
<1>2. ASSUME NEW n \in (i + 1)..Len(s), n - 1 \in P
      PROVE  n \in P
  <2>1. n \in 1..Len(s) /\ n \in i..Len(s)
    BY <1>1
  <2>2. V(s, n) = ScanOp(V(s, n - 1), s[n]) /\ V(s, n - 1) = V(s, i)
    BY <1>2, <2>1, AtStep
  <2> QED
    BY <2>1, <2>2 DEF ScanOp
<1> HIDE DEF P
<1>3. i..Len(s) \subseteq P
  BY <1>1, <1>2, RangeInd
<1> QED
  BY <1>3 DEF P

(* Lines are only added.                                                    *)
Grows(l, m) == Len(l) <= Len(m) /\ \A k \in 1..Len(l) : m[k] = l[k]

(* The lines of the first i bytes are the first lines of all of them.      *)
LEMMA LinesGrow ==
  ASSUME NEW s \in Path, NEW i \in 0..Len(s), NEW j \in i..Len(s)
  PROVE  Grows(A(s, i).lines, A(s, j).lines)
<1> DEFINE P == {n \in i..Len(s) : Grows(A(s, i).lines, A(s, n).lines)}
           l == A(s, i).lines
<1>1. i \in Nat /\ Len(s) \in Nat
  BY DEF Path
<1>2. l \in Seq(Path)
  BY AtIs DEF Lines
<1>3. i \in P
  BY <1>1, <1>2 DEF Grows
<1>4. ASSUME NEW n \in (i + 1)..Len(s), n - 1 \in P
      PROVE  n \in P
  <2> DEFINE acc == A(s, n - 1)
             new == A(s, n)
  <2>1. n \in 1..Len(s) /\ n \in i..Len(s)
    BY <1>1
  <2>2. new = LineOp(acc, s[n]) /\ s[n] \in Tokens /\ n - 1 \in 0..Len(s)
    BY <2>1, AtStep
  <2>3. acc \in Lines
    BY <2>2, AtIs
  <2>4. Grows(l, acc.lines)
    BY <1>4
  <2> HIDE DEF new, acc, l, P
  <2>5. /\ acc.lines \in Seq(Path) /\ CString(acc.line) \in Path
        /\ new.lines = acc.lines \/ new.lines = Append(acc.lines, CString(acc.line))
    BY <2>2, <2>3, LineOpIs
  <2>6. Grows(l, new.lines)
    <3> DEFINE e == CString(acc.line)
    <3> HIDE DEF e
    <3>1. CASE new.lines = acc.lines
      BY <2>4, <3>1
    <3>2. CASE new.lines = Append(acc.lines, e)
      <4>1. /\ Len(new.lines) = Len(acc.lines) + 1 /\ Len(acc.lines) \in Nat /\ Len(l) \in Nat
            /\ \A k \in 1..Len(acc.lines) : new.lines[k] = acc.lines[k]
        BY <1>2, <2>5, <3>2, AppendProperties DEF e
      <4>2. Len(l) <= Len(acc.lines)
        BY <2>4 DEF Grows
      <4>3. \A k \in 1..Len(l) : k \in 1..Len(acc.lines)
        BY <4>1, <4>2
      <4>4. \A k \in 1..Len(l) : new.lines[k] = l[k]
        BY <2>4, <4>1, <4>3 DEF Grows
      <4> QED
        BY <4>1, <4>2, <4>4 DEF Grows
    <3> QED
      BY <2>5, <3>1, <3>2 DEF e
  <2> QED
    BY <2>1, <2>6 DEF P, new, l
<1> HIDE DEF P
<1>5. i..Len(s) \subseteq P
  BY <1>1, <1>3, <1>4, RangeInd
<1> QED
  BY <1>5 DEF P

(* A blank line below the first.                                            *)
Blanks(ls) == \E k \in 2..Len(ls) : ls[k] = << >>

(* A blank line stays one.                                                 *)
LEMMA BlanksStay ==
  ASSUME NEW l \in Seq(Path), NEW m \in Seq(Path), Grows(l, m), Blanks(l)
  PROVE  Blanks(m)
<1>1. PICK k \in 2..Len(l) : l[k] = << >>
  BY DEF Blanks
<1>2. k \in 1..Len(l) /\ k \in 2..Len(m)
  BY DEF Grows
<1> QED
  BY <1>1, <1>2 DEF Blanks, Grows

(* It is a line of what the parser takes for the headers.                  *)
LEMMA BlanksTail ==
  ASSUME NEW ls \in Seq(Path) \ {<< >>}
  PROVE  Contains(Tail(ls), << >>) <=> Blanks(ls)
<1>1. /\ Len(Tail(ls)) = Len(ls) - 1 /\ Len(ls) \in Nat \ {0}
      /\ \A i \in 1..Len(Tail(ls)) : Tail(ls)[i] = ls[i + 1]
  BY HeadTailProperties
<1>2. ASSUME NEW i \in 1..Len(Tail(ls)), Tail(ls)[i] = << >>
      PROVE  Blanks(ls)
  <2>1. i + 1 \in 2..Len(ls) /\ ls[i + 1] = << >>
    BY <1>1, <1>2
  <2> QED
    BY <2>1 DEF Blanks
<1>3. ASSUME NEW k \in 2..Len(ls), ls[k] = << >>
      PROVE  \E i \in 1..Len(Tail(ls)) : Tail(ls)[i] = << >>
  <2>1. k - 1 \in 1..Len(Tail(ls)) /\ (k - 1) + 1 = k
    BY <1>1
  <2> QED
    BY <1>1, <1>3, <2>1
<1> QED
  BY <1>2, <1>3 DEF Contains, Blanks


-----------------------------------------------------------------------------
(* The first line                                                           *)

(* It ends before the first newline, however much of the rest is there.     *)
FirstEnd(s) == Len(FirstLine(s))

(* The bytes before the first newline, or all of them.                     *)
LEMMA FirstLineIs ==
  ASSUME NEW s \in Path
  PROVE  /\ FirstEnd(s) \in 0..Len(s)
         /\ FirstLine(s) = SubSeq(s, 1, FirstEnd(s))
         /\ \A k \in 1..FirstEnd(s) : s[k] \notin Newline
         /\ FirstEnd(s) < Len(s) => s[FirstEnd(s) + 1] \in Newline
BY BeforeIs DEF FirstLine, FirstEnd

(* The same one for every prefix that holds it.                            *)
LEMMA FirstLineOf ==
  ASSUME NEW s \in Path, NEW m \in FirstEnd(s)..Len(s)
  PROVE  FirstLine(SubSeq(s, 1, m)) = SubSeq(s, 1, FirstEnd(s))
<1> DEFINE p == FirstEnd(s)
           z == SubSeq(s, 1, m)
           q == FirstEnd(z)
<1>1. /\ p \in 0..Len(s) /\ \A k \in 1..p : s[k] \notin Newline
      /\ p < Len(s) => s[p + 1] \in Newline
      /\ Len(s) \in Nat
  BY FirstLineIs DEF Path
<1> HIDE DEF p
<1>2. m \in 0..Len(s) /\ p <= m /\ m \in Nat /\ p \in Nat
  BY <1>1 DEF p
<1>3. z \in Path /\ Len(z) = m
  BY <1>2, PrefixType
<1>4. \A k \in 1..m : z[k] = s[k]
  BY <1>2
<1> HIDE DEF z
<1>5. /\ q \in 0..m /\ FirstLine(z) = SubSeq(z, 1, q)
      /\ \A k \in 1..q : z[k] \notin Newline
      /\ q < m => z[q + 1] \in Newline
  BY <1>3, FirstLineIs
<1> HIDE DEF q
<1>6. ~(q < p)
  <2> SUFFICES ASSUME q < p
               PROVE  FALSE
    OBVIOUS
  <2>1. q + 1 \in 1..p /\ q + 1 \in 1..m /\ q < m
    BY <1>2, <1>5
  <2> QED
    BY <1>1, <1>4, <1>5, <2>1
<1>7. ~(p < q)
  <2> SUFFICES ASSUME p < q
               PROVE  FALSE
    OBVIOUS
  <2>1. p + 1 \in 1..q /\ p + 1 \in 1..m /\ p < Len(s)
    BY <1>2, <1>5
  <2> QED
    BY <1>1, <1>4, <1>5, <2>1
<1>8. q = p
  BY <1>2, <1>5, <1>6, <1>7
<1>9. SubSeq(z, 1, p) = SubSeq(s, 1, p)
  <2>1. p <= Len(z) /\ p <= Len(s) /\ p \in 0..Len(z) /\ p \in 0..Len(s)
    BY <1>1, <1>2, <1>3
  <2>2. /\ SubSeq(z, 1, p) \in Path /\ Len(SubSeq(z, 1, p)) = p
        /\ SubSeq(s, 1, p) \in Path /\ Len(SubSeq(s, 1, p)) = p
    BY <1>3, <2>1, PrefixType
  <2>3. ASSUME NEW k \in 1..p
        PROVE  SubSeq(z, 1, p)[k] = SubSeq(s, 1, p)[k]
    <3>1. k \in 1..m
      BY <1>2
    <3>2. SubSeq(z, 1, p)[k] = z[k] /\ SubSeq(s, 1, p)[k] = s[k]
      BY <1>2, <1>3, <2>1
    <3> QED
      BY <1>4, <3>1, <3>2
  <2> QED
    BY <2>2, <2>3, SeqEqual DEF Path
<1> QED
  BY <1>5, <1>8, <1>9 DEF p, z

(* What the scanner knows of the words of the first line, ...               *)
WordLists == Seq(Path) \ {<< >>}

Shape(st, ws) ==
  /\ st \in FirstStates
  /\ ws \in WordLists
  /\ st = "FIRSTWORD" => Len(ws) = 1
  /\ st = "FIRSTWS" => Len(ws) = 2 /\ ws[Len(ws)] = << >>
  /\ st = "SECONDWORD" => Len(ws) = 2 /\ ws[Len(ws)] # << >>
  /\ st = "SECONDWS" => Len(ws) = 3 /\ ws[Len(ws)] = << >>
  /\ st = "THIRDWORD" => Len(ws) = 3 /\ ws[Len(ws)] # << >>
  /\ st = "THIRDWS" => Len(ws) = 4 /\ ws[Len(ws)] = << >>

(* The two cases of Words: a character, or a blank that ends a word.       *)
LEMMA WordOpIs ==
  ASSUME NEW ws \in WordLists, NEW c \in Tokens
  PROVE  /\ WordOp(ws, c) \in WordLists /\ Len(ws) \in Nat \ {0}
         /\ c # "SP" => Len(WordOp(ws, c)) = Len(ws) /\ WordOp(ws, c)[Len(ws)] # << >>
         /\ (c = "SP" /\ ws[Len(ws)] = << >> /\ Len(ws) > 1) => WordOp(ws, c) = ws
         /\ (c = "SP" /\ ~(ws[Len(ws)] = << >> /\ Len(ws) > 1)) =>
              Len(WordOp(ws, c)) = Len(ws) + 1 /\ WordOp(ws, c)[Len(ws) + 1] = << >>
<1>1. ws \in Seq(Path) /\ Len(ws) \in Nat \ {0} /\ Len(ws) \in 1..Len(ws)
  BY DEF WordLists
<1>2. CASE c # "SP"
  <2> DEFINE w == Append(ws[Len(ws)], c)
  <2>1. WordOp(ws, c) = [ws EXCEPT ![Len(ws)] = w]
    BY <1>2 DEF WordOp
  <2>2. w \in Path /\ w # << >>
    <3>1. ws[Len(ws)] \in Path
      BY <1>1, ElementOfSeq
    <3> QED
      BY <3>1, AppendProperties DEF Path
  <2> HIDE DEF w
  <2>3. /\ [ws EXCEPT ![Len(ws)] = w] \in Seq(Path)
        /\ Len([ws EXCEPT ![Len(ws)] = w]) = Len(ws)
        /\ [ws EXCEPT ![Len(ws)] = w][Len(ws)] = w
    BY <1>1, <2>2, ExceptSeq
  <2>4. [ws EXCEPT ![Len(ws)] = w] # << >>
    BY <1>1, <2>3
  <2> QED
    BY <1>1, <1>2, <2>1, <2>2, <2>3, <2>4 DEF WordLists
<1>3. CASE c = "SP" /\ ws[Len(ws)] = << >> /\ Len(ws) > 1
  BY <1>1, <1>3 DEF WordOp
<1>4. CASE c = "SP" /\ ~(ws[Len(ws)] = << >> /\ Len(ws) > 1)
  <2>1. WordOp(ws, c) = Append(ws, << >>)
    BY <1>4 DEF WordOp
  <2>2. /\ Append(ws, << >>) \in Seq(Path) /\ Append(ws, << >>) # << >>
        /\ Len(Append(ws, << >>)) = Len(ws) + 1 /\ Append(ws, << >>)[Len(ws) + 1] = << >>
    BY <1>1, TokenFacts, AppendProperties
  <2> QED
    BY <1>1, <1>4, <2>1, <2>2 DEF WordLists
<1> QED
  BY <1>2, <1>3, <1>4

(* One more byte of the first line.                                        *)
LEMMA ShapeStep ==
  ASSUME NEW st, NEW ws, Shape(st, ws), NEW c \in Tokens \ Newline
  PROVE  Shape(ScanOp(st, c), WordOp(ws, c))
<1> DEFINE new == WordOp(ws, c)
           to == ScanOp(st, c)
<1>1. /\ new \in WordLists /\ Len(ws) \in Nat \ {0}
      /\ c # "SP" => Len(new) = Len(ws) /\ new[Len(ws)] # << >>
      /\ (c = "SP" /\ ws[Len(ws)] = << >> /\ Len(ws) > 1) => new = ws
      /\ (c = "SP" /\ ~(ws[Len(ws)] = << >> /\ Len(ws) > 1)) =>
           Len(new) = Len(ws) + 1 /\ new[Len(ws) + 1] = << >>
  BY WordOpIs DEF Shape
<1>2. /\ c = "SP" => /\ st = "FIRSTWORD" => to = "FIRSTWS"
                     /\ st = "FIRSTWS" => to = "FIRSTWS"
                     /\ st = "SECONDWORD" => to = "SECONDWS"
                     /\ st = "SECONDWS" => to = "SECONDWS"
                     /\ st = "THIRDWORD" => to = "THIRDWS"
                     /\ st = "THIRDWS" => to = "THIRDWS"
      /\ c # "SP" => /\ st = "FIRSTWORD" => to = "FIRSTWORD"
                     /\ st = "FIRSTWS" => to = "SECONDWORD"
                     /\ st = "SECONDWORD" => to = "SECONDWORD"
                     /\ st = "SECONDWS" => to = "THIRDWORD"
                     /\ st = "THIRDWORD" => to = "THIRDWORD"
                     /\ st = "THIRDWS" => to = "BAD"
      /\ st = "BAD" => to = "BAD"
  BY DEF ScanOp, Table, Class, Verdicts, Newline
<1>3. /\ c # "SP" => Len(new) = Len(ws) /\ new[Len(new)] # << >>
      /\ (c = "SP" /\ ~(ws[Len(ws)] = << >> /\ Len(ws) > 1)) =>
           Len(new) = Len(ws) + 1 /\ new[Len(new)] = << >>
  <2> HIDE DEF new
  <2> QED
    BY <1>1
<1> DEFINE n == Len(ws)
           m == Len(new)
           e == ws[Len(ws)]
           f == new[Len(new)]
<1>4. /\ st \in FirstStates /\ n \in Nat
      /\ st = "FIRSTWORD" => n = 1
      /\ st = "FIRSTWS" => n = 2 /\ e = << >>
      /\ st = "SECONDWORD" => n = 2 /\ e # << >>
      /\ st = "SECONDWS" => n = 3 /\ e = << >>
      /\ st = "THIRDWORD" => n = 3 /\ e # << >>
      /\ st = "THIRDWS" => n = 4 /\ e = << >>
  BY <1>1 DEF Shape
<1>5. /\ c # "SP" => m = n /\ f # << >>
      /\ (c = "SP" /\ e = << >> /\ n > 1) => m = n /\ f = e
      /\ (c = "SP" /\ ~(e = << >> /\ n > 1)) => m = n + 1 /\ f = << >>
  BY <1>1, <1>3
<1>6. Shape(to, new) <=>
        /\ to \in FirstStates /\ new \in WordLists
        /\ to = "FIRSTWORD" => m = 1
        /\ to = "FIRSTWS" => m = 2 /\ f = << >>
        /\ to = "SECONDWORD" => m = 2 /\ f # << >>
        /\ to = "SECONDWS" => m = 3 /\ f = << >>
        /\ to = "THIRDWORD" => m = 3 /\ f # << >>
        /\ to = "THIRDWS" => m = 4 /\ f = << >>
  BY DEF Shape
<1>7. new \in WordLists
  BY <1>1
<1> HIDE DEF new, to, n, m, e, f
<1>8. ASSUME NEW x, st = x, x \in FirstStates
      PROVE  Shape(to, new)
  BY <1>2, <1>4, <1>5, <1>6, <1>7, <1>8 DEF FirstStates
<1> QED
  BY <1>4, <1>8 DEF new, to

(* All along the first line.                                               *)
LEMMA FirstShape ==
  ASSUME NEW s \in Path, NEW n \in 0..FirstEnd(s)
  PROVE  Shape(V(s, n), W(s, n))
<1> DEFINE p == FirstEnd(s)
           P == {k \in 0..p : Shape(V(s, k), W(s, k))}
<1>1. p \in Nat /\ p <= Len(s) /\ Len(s) \in Nat /\ \A k \in 1..p : s[k] \notin Newline
  BY FirstLineIs DEF Path
<1> HIDE DEF p
<1>2. 0 \in P
  <2>1. NoWords \in WordLists /\ Len(NoWords) = 1
    <3>1. << >> \in Path
      BY TokenFacts
    <3> DEFINE e == << >>
    <3> HIDE DEF e
    <3>2. e \in Path => <<e>> \in Seq(Path) \ {<< >>} /\ Len(<<e>>) = 1
      OBVIOUS
    <3> QED
      BY <3>1, <3>2 DEF e, NoWords, WordLists
  <2>2. Shape("FIRSTWORD", NoWords)
    BY <2>1 DEF Shape, FirstStates
  <2> QED
    BY <1>1, <2>2, AtStart
<1>3. ASSUME NEW k \in (0 + 1)..p, k - 1 \in P
      PROVE  k \in P
  <2>1. k \in 1..Len(s) /\ k \in 0..p /\ k \in 1..p
    BY <1>1
  <2>2. /\ V(s, k) = ScanOp(V(s, k - 1), s[k]) /\ W(s, k) = WordOp(W(s, k - 1), s[k])
        /\ s[k] \in Tokens
    BY <2>1, AtStep
  <2>3. Shape(V(s, k - 1), W(s, k - 1)) /\ s[k] \in Tokens \ Newline
    BY <1>1, <1>3, <2>1, <2>2
  <2> QED
    BY <2>1, <2>2, <2>3, ShapeStep
<1> HIDE DEF P
<1>4. 0..p \subseteq P
  BY <1>1, <1>2, <1>3, RangeInd
<1> QED
  BY <1>4 DEF P, p


(* Until its end there is one line, which is not over.                      *)
LEMMA FirstAcc ==
  ASSUME NEW s \in Path, NEW n \in 0..FirstEnd(s)
  PROVE  A(s, n).lines = << >> /\ A(s, n).line = SubSeq(s, 1, n) /\ ~A(s, n).cr
<1> DEFINE p == FirstEnd(s)
           P == {k \in 0..p : A(s, k).lines = << >> /\ A(s, k).line = SubSeq(s, 1, k) /\ ~A(s, k).cr}
<1>1. p \in Nat /\ p <= Len(s) /\ Len(s) \in Nat /\ \A k \in 1..p : s[k] \notin Newline
  BY FirstLineIs DEF Path
<1> HIDE DEF p
<1>2. 0 \in P
  <2>1. SubSeq(s, 1, 0) = << >>
    BY SubSeqEmpty
  <2>2. NoLines.lines = << >> /\ NoLines.line = << >> /\ ~NoLines.cr
    BY DEF NoLines
  <2>3. A(s, 0) = NoLines /\ 0 \in 0..p
    BY <1>1, AtStart
  <2>4. A(s, 0).lines = << >> /\ A(s, 0).line = SubSeq(s, 1, 0) /\ ~A(s, 0).cr
    BY <2>1, <2>2, <2>3
  <2> QED
    BY <2>3, <2>4
<1>3. ASSUME NEW k \in (0 + 1)..p, k - 1 \in P
      PROVE  k \in P
  <2>1. k \in 1..Len(s) /\ k \in 0..p /\ k \in 1..p
    BY <1>1
  <2>2. A(s, k) = LineOp(A(s, k - 1), s[k]) /\ s[k] \in Tokens /\ k - 1 \in 0..Len(s)
    BY <2>1, AtStep
  <2>3. s[k] \notin Newline /\ A(s, k - 1) \in Lines
    BY <1>1, <2>1, <2>2, AtIs
  <2>4. /\ A(s, k).lines = A(s, k - 1).lines
        /\ A(s, k).line = Append(A(s, k - 1).line, s[k]) /\ ~A(s, k).cr
    BY <2>2, <2>3, LineOpIs
  <2>5. SubSeq(s, 1, k) = Append(SubSeq(s, 1, k - 1), s[k])
    <3>1. s \in Seq(Tokens) /\ 1 \in 1..Len(s) /\ k \in 1..Len(s)
      BY <2>1 DEF Path
    <3>2. SubSeq(s, 1, k) = SubSeq(s, 1, k - 1) \o <<s[k]>>
      BY <3>1, SubSeqRecursiveSecond
    <3>3. SubSeq(s, 1, k - 1) \in Seq(Tokens)
      BY <2>2, PrefixType DEF Path
    <3> QED
      BY <2>2, <3>2, <3>3, AppendIsConcat
  <2> QED
    BY <1>3, <2>1, <2>4, <2>5
<1> HIDE DEF P
<1>4. 0..p \subseteq P
  BY <1>1, <1>2, <1>3, RangeInd
<1> QED
  BY <1>4 DEF P, p

(* Its newline makes it a line.                                             *)
LEMMA FirstOver ==
  ASSUME NEW s \in Path, FirstEnd(s) < Len(s)
  PROVE  LET p == FirstEnd(s)
         IN /\ A(s, p + 1).lines = << CString(SubSeq(s, 1, p)) >>
            /\ A(s, p + 1).line = << >>
            /\ A(s, p + 1).cr <=> s[p + 1] = "CR"
            /\ V(s, p + 1) = ScanOp(V(s, p), s[p + 1])
            /\ p + 1 \in 1..Len(s) /\ s[p + 1] \in Newline
<1> DEFINE p == FirstEnd(s)
<1>1. p \in 0..Len(s) /\ p \in 0..FirstEnd(s) /\ p + 1 \in 1..Len(s) /\ (p + 1) - 1 = p
      /\ s[p + 1] \in Newline
  BY FirstLineIs DEF Path
<1> HIDE DEF p
<1>2. A(s, p).lines = << >> /\ A(s, p).line = SubSeq(s, 1, p) /\ ~A(s, p).cr
  BY <1>1, FirstAcc
<1>3. /\ A(s, p + 1) = LineOp(A(s, p), s[p + 1]) /\ s[p + 1] \in Tokens
      /\ V(s, p + 1) = ScanOp(V(s, p), s[p + 1])
  <2> DEFINE n == p + 1
  <2>1. n \in 1..Len(s) /\ n - 1 = p
    BY <1>1
  <2> HIDE DEF n
  <2>2. A(s, n) = LineOp(A(s, n - 1), s[n]) /\ s[n] \in Tokens /\ V(s, n) = ScanOp(V(s, n - 1), s[n])
    BY <2>1, AtStep
  <2> QED
    BY <2>1, <2>2 DEF n
<1>4. A(s, p) \in Lines
  BY <1>1, AtIs
<1>5. /\ A(s, p + 1).lines = Append(A(s, p).lines, CString(A(s, p).line))
      /\ A(s, p + 1).line = << >> /\ (A(s, p + 1).cr <=> s[p + 1] = "CR")
  <2> DEFINE acc == A(s, p)
             new == A(s, p + 1)
             c == s[p + 1]
  <2>1. acc \in Lines /\ ~acc.cr /\ c \in Newline /\ c \in Tokens /\ new = LineOp(acc, c)
    BY <1>1, <1>2, <1>3, <1>4
  <2> HIDE DEF acc, new, c
  <2>2. new.lines = Append(acc.lines, CString(acc.line)) /\ new.line = << >> /\ (new.cr <=> c = "CR")
    BY <2>1, LineOpIs
  <2> QED
    BY <2>2 DEF acc, new, c
<1>6. Append(<< >>, CString(SubSeq(s, 1, p))) = << CString(SubSeq(s, 1, p)) >>
  OBVIOUS
<1> QED
  BY <1>1, <1>2, <1>3, <1>5, <1>6 DEF p

(* The rows of the table, one by one.                                       *)
LEMMA ScanRows ==
  ASSUME NEW st \in States \cup Verdicts, NEW c
  PROVE  /\ st \in {"FIRSTWORD", "FIRSTWS", "SECONDWORD", "SECONDWS", "THIRDWORD", "THIRDWS",
                    "LINE", "LF", "CR", "CRLF", "CRLFCR", "GOT", "BAD"}
         /\ c = "SP" =>
              /\ st = "FIRSTWORD" => ScanOp(st, c) = "FIRSTWS"
              /\ st = "FIRSTWS" => ScanOp(st, c) = "FIRSTWS"
              /\ st = "SECONDWORD" => ScanOp(st, c) = "SECONDWS"
              /\ st = "SECONDWS" => ScanOp(st, c) = "SECONDWS"
              /\ st = "THIRDWORD" => ScanOp(st, c) = "THIRDWS"
              /\ st = "THIRDWS" => ScanOp(st, c) = "THIRDWS"
              /\ st = "LINE" => ScanOp(st, c) = "LINE"
              /\ st = "LF" => ScanOp(st, c) = "LINE"
              /\ st = "CR" => ScanOp(st, c) = "LINE"
              /\ st = "CRLF" => ScanOp(st, c) = "LINE"
              /\ st = "CRLFCR" => ScanOp(st, c) = "LINE"
              /\ st = "GOT" => ScanOp(st, c) = "GOT"
              /\ st = "BAD" => ScanOp(st, c) = "BAD"
         /\ c = "LF" =>
              /\ st = "FIRSTWORD" => ScanOp(st, c) = "BAD"
              /\ st = "FIRSTWS" => ScanOp(st, c) = "BAD"
              /\ st = "SECONDWORD" => ScanOp(st, c) = "GOT"
              /\ st = "SECONDWS" => ScanOp(st, c) = "BAD"
              /\ st = "THIRDWORD" => ScanOp(st, c) = "LF"
              /\ st = "THIRDWS" => ScanOp(st, c) = "LF"
              /\ st = "LINE" => ScanOp(st, c) = "LF"
              /\ st = "LF" => ScanOp(st, c) = "GOT"
              /\ st = "CR" => ScanOp(st, c) = "CRLF"
              /\ st = "CRLF" => ScanOp(st, c) = "GOT"
              /\ st = "CRLFCR" => ScanOp(st, c) = "GOT"
              /\ st = "GOT" => ScanOp(st, c) = "GOT"
              /\ st = "BAD" => ScanOp(st, c) = "BAD"
         /\ c = "CR" =>
              /\ st = "FIRSTWORD" => ScanOp(st, c) = "BAD"
              /\ st = "FIRSTWS" => ScanOp(st, c) = "BAD"
              /\ st = "SECONDWORD" => ScanOp(st, c) = "GOT"
              /\ st = "SECONDWS" => ScanOp(st, c) = "BAD"
              /\ st = "THIRDWORD" => ScanOp(st, c) = "CR"
              /\ st = "THIRDWS" => ScanOp(st, c) = "CR"
              /\ st = "LINE" => ScanOp(st, c) = "CR"
              /\ st = "LF" => ScanOp(st, c) = "CR"
              /\ st = "CR" => ScanOp(st, c) = "GOT"
              /\ st = "CRLF" => ScanOp(st, c) = "CRLFCR"
              /\ st = "CRLFCR" => ScanOp(st, c) = "GOT"
              /\ st = "GOT" => ScanOp(st, c) = "GOT"
              /\ st = "BAD" => ScanOp(st, c) = "BAD"
         /\ (c # "SP" /\ c \notin Newline) =>
              /\ st = "FIRSTWORD" => ScanOp(st, c) = "FIRSTWORD"
              /\ st = "FIRSTWS" => ScanOp(st, c) = "SECONDWORD"
              /\ st = "SECONDWORD" => ScanOp(st, c) = "SECONDWORD"
              /\ st = "SECONDWS" => ScanOp(st, c) = "THIRDWORD"
              /\ st = "THIRDWORD" => ScanOp(st, c) = "THIRDWORD"
              /\ st = "THIRDWS" => ScanOp(st, c) = "BAD"
              /\ st = "LINE" => ScanOp(st, c) = "LINE"
              /\ st = "LF" => ScanOp(st, c) = "LINE"
              /\ st = "CR" => ScanOp(st, c) = "LINE"
              /\ st = "CRLF" => ScanOp(st, c) = "LINE"
              /\ st = "CRLFCR" => ScanOp(st, c) = "LINE"
              /\ st = "GOT" => ScanOp(st, c) = "GOT"
              /\ st = "BAD" => ScanOp(st, c) = "BAD"
<1>1. st \in {"FIRSTWORD", "FIRSTWS", "SECONDWORD", "SECONDWS", "THIRDWORD", "THIRDWS",
             "LINE", "LF", "CR", "CRLF", "CRLFCR", "GOT", "BAD"}
  BY DEF States, Table, Verdicts
<1>2. CASE c = "SP"
  BY <1>1, <1>2 DEF ScanOp, Table, Class, Verdicts, Newline
<1>3. CASE c = "LF"
  BY <1>1, <1>3 DEF ScanOp, Table, Class, Verdicts, Newline
<1>4. CASE c = "CR"
  BY <1>1, <1>4 DEF ScanOp, Table, Class, Verdicts, Newline
<1>5. CASE c # "SP" /\ c \notin Newline
  BY <1>1, <1>5 DEF ScanOp, Table, Class, Verdicts, Newline
<1> QED
  BY <1>1, <1>2, <1>3, <1>4, <1>5 DEF Newline

(* No third word: no blank behind a word behind a blank.                    *)
NoThird(x) ==
  \A i, j, k \in 1..Len(x) :
    (i < j /\ j < k /\ x[i] = "SP" /\ x[j] # "SP") => x[k] # "SP"

Spaced(s, n) ==
  /\ V(s, n) = "FIRSTWORD" => \A j \in 1..n : s[j] # "SP"
  /\ V(s, n) = "FIRSTWS" =>
       \A j, k \in 1..n : (j < k /\ s[j] = "SP") => s[k] = "SP"
  /\ V(s, n) = "SECONDWORD" =>
       /\ n > 0 /\ s[n] # "SP"
       /\ \A i, j, k \in 1..n :
            (i < j /\ j < k /\ s[i] = "SP" /\ s[j] # "SP") => s[k] # "SP"

(* One more byte of the first line.                                        *)
LEMMA SpacedStep ==
  ASSUME NEW s \in Path, NEW n \in 1..Len(s), Spaced(s, n - 1), s[n] \notin Newline
  PROVE  Spaced(s, n)
<1>1. /\ n \in Nat /\ \A k \in 1..n : k \in Nat /\ (k \in 1..(n - 1) \/ k = n)
      /\ \A j, k \in 1..n : j < k => j \in 1..(n - 1)
      /\ Len(s) \in Nat
  BY DEF Path
<1>2. V(s, n) = ScanOp(V(s, n - 1), s[n]) /\ n - 1 \in 0..Len(s)
  BY AtStep
<1>3. V(s, n - 1) \in States \cup Verdicts
  BY <1>2, AtIs
<1>4. /\ V(s, n) = "FIRSTWORD" => V(s, n - 1) = "FIRSTWORD" /\ s[n] # "SP"
      /\ V(s, n) = "FIRSTWS" => V(s, n - 1) \in {"FIRSTWORD", "FIRSTWS"} /\ s[n] = "SP"
      /\ V(s, n) = "SECONDWORD" => V(s, n - 1) \in {"FIRSTWS", "SECONDWORD"} /\ s[n] # "SP"
  <2> DEFINE c == s[n]
             st == V(s, n - 1)
             to == V(s, n)
  <2>1. to = ScanOp(st, c) /\ st \in States \cup Verdicts /\ c \notin Newline
    BY <1>2, <1>3
  <2> HIDE DEF c, st, to
  <2>2. ASSUME NEW x, st = x,
               x \in {"FIRSTWORD", "FIRSTWS", "SECONDWORD", "SECONDWS", "THIRDWORD", "THIRDWS",
                     "LINE", "LF", "CR", "CRLF", "CRLFCR", "GOT", "BAD"}
        PROVE  /\ to = "FIRSTWORD" => st = "FIRSTWORD" /\ c # "SP"
               /\ to = "FIRSTWS" => st \in {"FIRSTWORD", "FIRSTWS"} /\ c = "SP"
               /\ to = "SECONDWORD" => st \in {"FIRSTWS", "SECONDWORD"} /\ c # "SP"
    <3>1. CASE c = "SP"
      BY <2>1, <2>2, <3>1, ScanRows
    <3>2. CASE c # "SP" /\ c \notin Newline
      BY <2>1, <2>2, <3>2, ScanRows
    <3> QED
      BY <2>1, <3>1, <3>2
  <2> QED
    BY <2>1, <2>2, ScanRows DEF c, st, to
<1>5. CASE V(s, n) = "FIRSTWORD"
  BY <1>1, <1>4, <1>5 DEF Spaced
<1>6. CASE V(s, n) = "FIRSTWS"
  <2>1. \A j \in 1..(n - 1) : \A k \in 1..(n - 1) : (j < k /\ s[j] = "SP") => s[k] = "SP"
    BY <1>1, <1>4, <1>6 DEF Spaced
  <2> QED
    BY <1>1, <1>4, <1>6, <2>1 DEF Spaced
<1>7. CASE V(s, n) = "SECONDWORD"
  <2>1. \A i, j, k \in 1..(n - 1) :
          (i < j /\ j < k /\ s[i] = "SP" /\ s[j] # "SP") => s[k] # "SP"
    BY <1>1, <1>4, <1>7 DEF Spaced
  <2>2. ASSUME NEW i \in 1..n, NEW j \in 1..n, NEW k \in 1..n,
               i < j, j < k, s[i] = "SP", s[j] # "SP"
        PROVE  s[k] # "SP"
    <3>1. i \in 1..(n - 1) /\ j \in 1..(n - 1) /\ (k \in 1..(n - 1) \/ k = n)
      BY <1>1, <2>2
    <3> QED
      BY <1>4, <1>7, <2>1, <2>2, <3>1
  <2> QED
    BY <1>1, <1>4, <1>7, <2>2 DEF Spaced
<1>8. CASE V(s, n) \notin {"FIRSTWORD", "FIRSTWS", "SECONDWORD"}
  BY <1>8 DEF Spaced
<1> QED
  BY <1>5, <1>6, <1>7, <1>8

(* All along the first line.                                               *)
LEMMA FirstSpaced ==
  ASSUME NEW s \in Path, NEW n \in 0..FirstEnd(s)
  PROVE  Spaced(s, n)
<1> DEFINE p == FirstEnd(s)
           P == {k \in 0..p : Spaced(s, k)}
<1>1. p \in Nat /\ p <= Len(s) /\ Len(s) \in Nat /\ \A k \in 1..p : s[k] \notin Newline
  BY FirstLineIs DEF Path
<1> HIDE DEF p
<1>2. 0 \in P
  BY <1>1, AtStart DEF Spaced
<1>3. ASSUME NEW k \in (0 + 1)..p, k - 1 \in P
      PROVE  k \in P
  <2>1. k \in 1..Len(s) /\ k \in 0..p /\ k \in 1..p
    BY <1>1
  <2> QED
    BY <1>1, <1>3, <2>1, SpacedStep
<1> HIDE DEF P
<1>4. 0..p \subseteq P
  BY <1>1, <1>2, <1>3, RangeInd
<1> QED
  BY <1>4 DEF P, p

(* The rest behind the first word and its blanks.                           *)
LEMMA RestIs ==
  ASSUME NEW x \in Path, NoThird(x)
  PROVE  From(TrimLeft(From(x, Blank), Blank), Blank) = << >>
<1> DEFINE f == From(x, Blank)
           rest == TrimLeft(f, Blank)
           N == {i \in 1..Len(f) : f[i] \notin Blank}
<1>1. PICK n \in 0..Len(x) : /\ Len(Before(x, Blank)) = n
                             /\ n < Len(x) => x[n + 1] \in Blank
  BY BeforeIs
<1>2. Len(x) \in Nat /\ n + 1 \in Nat \ {0} /\ Len(x) <= Len(x)
  BY DEF Path
<1>3. f = SubSeq(x, n + 1, Len(x))
  BY <1>1 DEF From
<1>4. /\ f \in Path
      /\ Len(f) = IF n + 1 <= Len(x) THEN Len(x) - (n + 1) + 1 ELSE 0
      /\ \A k \in 1..(Len(x) - (n + 1) + 1) : f[k] = x[(n + 1) + k - 1]
  <2>1. /\ SubSeq(x, n + 1, Len(x)) \in Path
        /\ Len(SubSeq(x, n + 1, Len(x))) = IF n + 1 <= Len(x) THEN Len(x) - (n + 1) + 1 ELSE 0
        /\ \A k \in 1..(Len(x) - (n + 1) + 1) : SubSeq(x, n + 1, Len(x))[k] = x[(n + 1) + k - 1]
    BY <1>2, SubPath
  <2> QED
    BY <1>3, <2>1
<1> HIDE DEF f
<1>5. Len(f) = Len(x) - n /\ \A k \in 1..Len(f) : f[k] = x[n + k]
  BY <1>1, <1>2, <1>4
<1>6. /\ SelectInSeq(f, LAMBDA c : c \notin Blank) = IF N # {} THEN Min(N) ELSE 0
      /\ Len(f) \in Nat /\ N \in SUBSET Nat
  BY <1>4 DEF SelectInSeq, Path
<1>7. CASE N = {}
  <2>1. rest = << >>
    BY <1>6, <1>7 DEF TrimLeft
  <2> HIDE DEF rest
  <2>2. From(<< >>, Blank) = << >>
    BY TokenFacts, FromIs
  <2> QED
    BY <2>1, <2>2 DEF rest, f
<1>8. CASE N # {}
  <2> DEFINE a == Min(N)
  <2>1. a \in N
    BY <1>6, <1>8, MinIs
  <2>2. a \in 1..Len(f) /\ f[a] \notin Blank
    BY <2>1
  <2>3. rest = SubSeq(f, a, Len(f))
    <3>1. a # 0
      BY <1>6, <2>2
    <3> QED
      BY <1>6, <1>8, <3>1 DEF TrimLeft
  <2> HIDE DEF a, N, rest
  <2>4. a \in Nat \ {0} /\ Len(f) <= Len(f) /\ a <= Len(f)
    BY <1>6, <2>2
  <2>5. /\ rest \in Path /\ Len(rest) = Len(f) - a + 1
        /\ \A k \in 1..(Len(f) - a + 1) : rest[k] = f[a + k - 1]
    BY <1>4, <1>6, <2>3, <2>4, SubPath
  <2>6. ASSUME NEW k \in 1..Len(rest)
        PROVE  rest[k] \notin Blank
    <3>1. k \in 1..(Len(f) - a + 1) /\ a + k - 1 \in 1..Len(f)
      BY <1>6, <2>4, <2>5
    <3>2. rest[k] = f[a + k - 1] /\ f[a + k - 1] = x[n + (a + k - 1)] /\ f[a] = x[n + a] /\ f[1] = x[n + 1]
      <4>1. 1 \in 1..Len(f)
        BY <1>6, <2>4
      <4> QED
        BY <1>5, <2>2, <2>5, <3>1, <4>1
    <3>3. x[n + 1] = "SP"
      BY <1>1, <1>2, <1>5, <1>6, <2>4 DEF Blank
    <3>4. x[n + a] # "SP"
      BY <2>2, <3>2 DEF Blank
    <3>5. CASE k = 1
      <4>1. a + k - 1 = a
        BY <2>4, <3>5
      <4> QED
        BY <2>2, <3>2, <4>1
    <3>6. CASE k # 1
      <4> DEFINE i1 == n + 1
                 i2 == n + a
                 i3 == n + (a + k - 1)
      <4>1. a # 1
        BY <3>3, <3>4
      <4> DEFINE lx == Len(x)
                 lf == Len(f)
      <4>2. /\ i1 \in 1..lx /\ i2 \in 1..lx /\ i3 \in 1..lx
            /\ i1 < i2 /\ i2 < i3
        <5>1. /\ lx \in Nat /\ lf \in Nat /\ n \in 0..lx /\ lf = lx - n
              /\ a \in 1..lf /\ k \in 1..(lf - a + 1)
          BY <1>2, <1>5, <1>6, <2>2, <3>1
        <5> HIDE DEF lx, lf
        <5> QED
          BY <3>6, <4>1, <5>1
      <4> HIDE DEF i1, i2, i3
      <4>3. x[i1] = "SP" /\ x[i2] # "SP"
        BY <3>3, <3>4 DEF i1, i2
      <4>4. x[i3] # "SP"
        BY <4>2, <4>3 DEF NoThird
      <4> QED
        BY <3>2, <4>4 DEF i3, Blank
    <3> QED
      BY <3>5, <3>6
  <2>7. From(rest, Blank) = << >>
    BY <2>5, <2>6, FromIs
  <2> QED
    BY <2>7 DEF rest, f
<1> QED
  BY <1>7, <1>8


-----------------------------------------------------------------------------
(* The lines below the first                                                *)

(* A line is added, blank or not.                                          *)
LEMMA BlanksAppend ==
  ASSUME NEW l \in Seq(Path), NEW e \in Path, Blanks(l) \/ (e = << >> /\ Len(l) >= 1)
  PROVE  Blanks(Append(l, e))
<1> DEFINE m == Append(l, e)
<1>1. /\ Len(m) = Len(l) + 1 /\ Len(l) \in Nat
      /\ \A i \in 1..Len(l) : m[i] = l[i]
      /\ m[Len(l) + 1] = e
  BY AppendProperties
<1> HIDE DEF m
<1>2. CASE Blanks(l)
  <2>1. PICK k \in 2..Len(l) : l[k] = << >>
    BY <1>2 DEF Blanks
  <2>2. k \in 1..Len(l) /\ k \in 2..Len(m)
    BY <1>1
  <2> QED
    BY <1>1, <2>1, <2>2 DEF Blanks, m
<1>3. CASE e = << >> /\ Len(l) >= 1
  <2>1. Len(l) + 1 \in 2..Len(m)
    BY <1>1, <1>3
  <2>2. m[Len(l) + 1] = << >>
    BY <1>1, <1>3
  <2> QED
    BY <2>1, <2>2 DEF Blanks, m
<1> QED
  BY <1>2, <1>3

(* An empty line is the empty C string.                                    *)
LEMMA EmptyCString == CString(<< >>) = << >>
<1>1. << >> \in Path /\ Len(<< >>) = 0
  BY TokenFacts
<1>2. PICK n \in 0..0 : CString(<< >>) \in Path /\ Len(CString(<< >>)) = n
  BY <1>1, BeforeIs DEF CString
<1>3. CString(<< >>) \in Path /\ Len(CString(<< >>)) = 0
  BY <1>2
<1> QED
  BY <1>3 DEF Path

(* What the scanner knows of the lines: after prev and last, a newline.     *)
Under == {"LINE", "LF", "CR", "CRLF", "CRLFCR", "GOT"}

Knows(st, acc, prev, last) ==
  /\ st \in Under /\ acc \in Lines
  /\ Len(acc.lines) >= 1
  /\ st \in {"LF", "CR", "CRLF"} => acc.line = << >>
  /\ st = "CR" => acc.cr
  /\ st \in {"LINE", "LF", "CRLF"} => ~acc.cr
  /\ st \in {"CRLFCR", "GOT"} => Blanks(acc.lines)
  /\ st = "LINE" => acc.line # << >> /\ last \notin Newline
  /\ st = "LF" => last = "LF" /\ prev \notin Newline
  /\ st = "CR" => last = "CR"
  /\ st = "CRLF" => last = "LF" /\ prev = "CR"
  /\ st = "CRLFCR" => last = "CR"

(* One more byte below the first line.                                     *)
LEMMA KnowsStep ==
  ASSUME NEW st, NEW acc, NEW prev, NEW last, Knows(st, acc, prev, last), NEW c \in Tokens
  PROVE  Knows(ScanOp(st, c), LineOp(acc, c), last, c)
<1> DEFINE to == ScanOp(st, c)
           new == LineOp(acc, c)
<1>1. st \in Under /\ acc \in Lines /\ Len(acc.lines) >= 1
  BY DEF Knows
<1>2. st \in States \cup Verdicts
  BY <1>1 DEF Under, States, Table, Verdicts
<1>3. new \in Lines
  BY <1>1, LineOpType
<1>4. /\ (c = "LF" /\ acc.cr) => new.lines = acc.lines /\ new.line = acc.line /\ ~new.cr
      /\ (c \in Newline /\ ~(c = "LF" /\ acc.cr)) =>
           /\ new.lines = Append(acc.lines, CString(acc.line))
           /\ new.line = << >> /\ (new.cr <=> c = "CR")
      /\ c \notin Newline => /\ new.lines = acc.lines
                             /\ new.line = Append(acc.line, c) /\ ~new.cr
      /\ acc.lines \in Seq(Path) /\ acc.line \in Path /\ CString(acc.line) \in Path
  BY <1>1, LineOpIs
<1> HIDE DEF new
<1>5. new.lines \in {acc.lines, Append(acc.lines, CString(acc.line))}
  BY <1>4
<1>6. Len(new.lines) >= 1
  <2> DEFINE e == CString(acc.line)
             l == acc.lines
  <2>1. l \in Seq(Path) /\ e \in Path /\ Len(l) >= 1
    BY <1>1, <1>4
  <2> HIDE DEF l, e
  <2>2. Len(Append(l, e)) = Len(l) + 1 /\ Len(l) \in Nat
    BY <2>1, AppendProperties
  <2> QED
    BY <1>5, <2>1, <2>2 DEF l, e
<1>7. Blanks(acc.lines) => Blanks(new.lines)
  BY <1>4, <1>5, BlanksAppend
<1>8. ASSUME c \in Newline, ~(c = "LF" /\ acc.cr), acc.line = << >>
      PROVE  Blanks(new.lines)
  <2>1. CString(acc.line) = << >>
    BY <1>8, EmptyCString
  <2> QED
    BY <1>1, <1>4, <1>8, <2>1, BlanksAppend
<1>9. c \notin Newline => new.line # << >>
  <2> DEFINE l == acc.line
  <2>1. l \in Path
    BY <1>4
  <2> HIDE DEF l
  <2>2. Append(l, c) # << >>
    BY <2>1, AppendProperties DEF Path
  <2> QED
    BY <1>4, <2>2 DEF l
<1> DEFINE E0 == acc.line = << >>
           E1 == new.line = << >>
           R0 == acc.cr = TRUE
           R1 == new.cr = TRUE
           B0 == Blanks(acc.lines)
           B1 == Blanks(new.lines)
<1>10. acc.cr \in BOOLEAN /\ new.cr \in BOOLEAN
  BY <1>1, <1>3 DEF Lines
<1>11. /\ st \in {"LF", "CR", "CRLF"} => E0
       /\ st = "CR" => R0
       /\ st \in {"LINE", "LF", "CRLF"} => ~R0
       /\ st \in {"CRLFCR", "GOT"} => B0
       /\ st = "LINE" => last \notin Newline
       /\ st = "LF" => last = "LF" /\ prev \notin Newline
       /\ st = "CR" => last = "CR"
       /\ st = "CRLF" => last = "LF" /\ prev = "CR"
       /\ st = "CRLFCR" => last = "CR"
  BY <1>10 DEF Knows
<1>12. /\ (c = "LF" /\ R0) => (E0 => E1) /\ ~R1
       /\ (c = "LF" /\ ~R0) => E1 /\ ~R1
       /\ c = "CR" => E1 /\ R1
       /\ c \notin Newline => ~E1 /\ ~R1
       /\ B0 => B1
       /\ (E0 /\ (c = "CR" \/ (c = "LF" /\ ~R0))) => B1
  <2>1. "LF" \in Newline /\ "CR" \in Newline
    BY DEF Newline
  <2>2. CASE c = "LF"
    BY <1>4, <1>7, <1>8, <1>10, <2>1, <2>2
  <2>3. CASE c = "CR"
    BY <1>4, <1>7, <1>8, <1>10, <2>1, <2>3
  <2>4. CASE c \notin Newline
    BY <1>4, <1>7, <1>9, <1>10, <2>1, <2>4
  <2> QED
    BY <2>2, <2>3, <2>4 DEF Newline
<1>13. Knows(to, new, last, c) <=>
         /\ to \in Under
         /\ to \in {"LF", "CR", "CRLF"} => E1
         /\ to = "CR" => R1
         /\ to \in {"LINE", "LF", "CRLF"} => ~R1
         /\ to \in {"CRLFCR", "GOT"} => B1
         /\ to = "LINE" => ~E1 /\ c \notin Newline
         /\ to = "LF" => c = "LF" /\ last \notin Newline
         /\ to = "CR" => c = "CR"
         /\ to = "CRLF" => c = "LF" /\ last = "CR"
         /\ to = "CRLFCR" => c = "CR"
  BY <1>3, <1>6, <1>10 DEF Knows
<1> SUFFICES Knows(to, new, last, c)
  BY DEF new
<1> HIDE DEF E0, E1, R0, R1, B0, B1, to
<1>14. CASE c = "LF"
  <2>1. /\ st = "LINE" => to = "LF"
        /\ st = "LF" => to = "GOT"
        /\ st = "CR" => to = "CRLF"
        /\ st = "CRLF" => to = "GOT"
        /\ st = "CRLFCR" => to = "GOT"
        /\ st = "GOT" => to = "GOT"
    BY <1>2, <1>14, ScanRows DEF to
  <2>2. CASE st = "LINE"
    BY <1>11, <1>12, <1>13, <1>14, <2>1, <2>2 DEF Under, Newline
  <2>3. CASE st = "LF"
    BY <1>11, <1>12, <1>13, <1>14, <2>1, <2>3 DEF Under, Newline
  <2>4. CASE st = "CR"
    BY <1>11, <1>12, <1>13, <1>14, <2>1, <2>4 DEF Under, Newline
  <2>5. CASE st = "CRLF"
    BY <1>11, <1>12, <1>13, <1>14, <2>1, <2>5 DEF Under, Newline
  <2>6. CASE st = "CRLFCR"
    BY <1>11, <1>12, <1>13, <1>14, <2>1, <2>6 DEF Under, Newline
  <2>7. CASE st = "GOT"
    BY <1>11, <1>12, <1>13, <1>14, <2>1, <2>7 DEF Under, Newline
  <2> QED
    BY <1>1, <2>2, <2>3, <2>4, <2>5, <2>6, <2>7 DEF Under
<1>15. CASE c = "CR"
  <2>1. /\ st = "LINE" => to = "CR"
        /\ st = "LF" => to = "CR"
        /\ st = "CR" => to = "GOT"
        /\ st = "CRLF" => to = "CRLFCR"
        /\ st = "CRLFCR" => to = "GOT"
        /\ st = "GOT" => to = "GOT"
    BY <1>2, <1>15, ScanRows DEF to
  <2>2. CASE st = "LINE"
    BY <1>11, <1>12, <1>13, <1>15, <2>1, <2>2 DEF Under, Newline
  <2>3. CASE st = "LF"
    BY <1>11, <1>12, <1>13, <1>15, <2>1, <2>3 DEF Under, Newline
  <2>4. CASE st = "CR"
    BY <1>11, <1>12, <1>13, <1>15, <2>1, <2>4 DEF Under, Newline
  <2>5. CASE st = "CRLF"
    BY <1>11, <1>12, <1>13, <1>15, <2>1, <2>5 DEF Under, Newline
  <2>6. CASE st = "CRLFCR"
    BY <1>11, <1>12, <1>13, <1>15, <2>1, <2>6 DEF Under, Newline
  <2>7. CASE st = "GOT"
    BY <1>11, <1>12, <1>13, <1>15, <2>1, <2>7 DEF Under, Newline
  <2> QED
    BY <1>1, <2>2, <2>3, <2>4, <2>5, <2>6, <2>7 DEF Under
<1>16. CASE c \notin Newline
  <2>1. to = IF st = "GOT" THEN "GOT" ELSE "LINE"
    <3>1. CASE c = "SP"
      BY <1>1, <1>2, <3>1, ScanRows DEF Under, to
    <3>2. CASE c # "SP"
      BY <1>1, <1>2, <1>16, <3>2, ScanRows DEF Under, to
    <3> QED
      BY <3>1, <3>2
  <2> QED
    BY <1>11, <1>12, <1>13, <1>16, <2>1 DEF Under
<1> QED
  BY <1>1, <1>14, <1>15, <1>16 DEF Newline

(* A first line of three words.                                             *)
Three(s) ==
  /\ FirstEnd(s) < Len(s)
  /\ V(s, FirstEnd(s)) \in {"THIRDWORD", "THIRDWS"}

(* All along the lines below a first line of three words.                  *)
LEMMA Below ==
  ASSUME NEW s \in Path, Three(s), NEW n \in (FirstEnd(s) + 1)..Len(s)
  PROVE  /\ Knows(V(s, n), A(s, n), s[n - 1], s[n])
         /\ n - 1 \in 1..Len(s) /\ FirstEnd(s) \in 1..Len(s)
<1> DEFINE p == FirstEnd(s)
           P == {k \in (p + 1)..Len(s) : Knows(V(s, k), A(s, k), s[k - 1], s[k])}
<1>1. /\ p \in 0..Len(s) /\ p < Len(s) /\ Len(s) \in Nat /\ p \in 0..p
      /\ \A k \in 1..p : s[k] \notin Newline
      /\ V(s, p) \in {"THIRDWORD", "THIRDWS"}
  BY FirstLineIs DEF Path, Three
<1>2. p # 0
  BY <1>1, AtStart
<1>3. /\ A(s, p + 1).lines = << CString(SubSeq(s, 1, p)) >>
      /\ A(s, p + 1).line = << >> /\ (A(s, p + 1).cr <=> s[p + 1] = "CR")
      /\ V(s, p + 1) = ScanOp(V(s, p), s[p + 1])
      /\ p + 1 \in 1..Len(s) /\ s[p + 1] \in Newline
  BY <1>1, FirstOver
<1> HIDE DEF p
<1>4. p + 1 \in P
  <2> DEFINE c == s[p + 1]
             acc == A(s, p + 1)
             to == V(s, p + 1)
             prev == s[p]
  <2>1. prev \notin Newline /\ (p + 1) - 1 = p
    BY <1>1, <1>2
  <2>2. acc \in Lines
    <3>1. p + 1 \in 0..Len(s)
      BY <1>1
    <3> QED
      BY <3>1, AtIs
  <2>3. Len(acc.lines) = 1
    <3> DEFINE e == CString(SubSeq(s, 1, p))
    <3>1. acc.lines = <<e>>
      BY <1>3
    <3> HIDE DEF e, acc
    <3> QED
      BY <3>1
  <2>4. to = c
    <3>1. V(s, p) \in States \cup Verdicts
      BY <1>1 DEF States, Table
    <3> QED
      BY <1>1, <1>3, <3>1, ScanRows DEF Newline
  <2>5. acc.line = << >> /\ (acc.cr <=> c = "CR") /\ c \in {"LF", "CR"}
    BY <1>3 DEF Newline
  <2> HIDE DEF c, acc, to, prev
  <2>6. Knows(to, acc, prev, c)
    BY <2>1, <2>2, <2>3, <2>4, <2>5 DEF Knows, Under
  <2>7. p + 1 \in (p + 1)..Len(s)
    BY <1>1
  <2> QED
    BY <2>1, <2>6, <2>7 DEF c, acc, to, prev
<1>5. ASSUME NEW k \in ((p + 1) + 1)..Len(s), k - 1 \in P
      PROVE  k \in P
  <2>1. k \in 1..Len(s) /\ k \in (p + 1)..Len(s)
    BY <1>1
  <2>2. V(s, k) = ScanOp(V(s, k - 1), s[k]) /\ A(s, k) = LineOp(A(s, k - 1), s[k]) /\ s[k] \in Tokens
    BY <2>1, AtStep
  <2>3. Knows(V(s, k - 1), A(s, k - 1), s[(k - 1) - 1], s[k - 1])
    BY <1>5
  <2>4. Knows(V(s, k), A(s, k), s[k - 1], s[k])
    BY <2>2, <2>3, KnowsStep
  <2> QED
    BY <2>1, <2>4
<1> HIDE DEF P
<1>6. (p + 1)..Len(s) \subseteq P
  <2>1. p + 1 \in Nat
    BY <1>1
  <2> QED
    BY <1>1, <1>4, <1>5, <2>1, RangeInd
<1>7. n \in (p + 1)..Len(s) /\ n - 1 \in 1..Len(s) /\ p \in 1..Len(s)
  BY <1>1, <1>2 DEF p
<1> QED
  BY <1>6, <1>7 DEF P, p


-----------------------------------------------------------------------------
(* Two words or three                                                       *)

(* A scanner that has not refused the first line knows of two words or      *)
(* three.                                                                   *)
LEMMA TwoOrThree ==
  ASSUME NEW s \in Path, NEW n \in 0..Len(s), FirstEnd(s) < n, V(s, n) # "BAD"
  PROVE  \/ V(s, FirstEnd(s)) = "SECONDWORD" /\ V(s, FirstEnd(s) + 1) = "GOT" /\ V(s, n) = "GOT"
         \/ Three(s)
<1> DEFINE p == FirstEnd(s)
<1>1. p \in 0..Len(s) /\ p \in 0..p /\ p < Len(s) /\ Len(s) \in Nat
  BY FirstLineIs DEF Path
<1>2. V(s, p + 1) = ScanOp(V(s, p), s[p + 1]) /\ p + 1 \in 1..Len(s) /\ s[p + 1] \in Newline
  BY <1>1, FirstOver
<1>3. V(s, p) \in FirstStates /\ V(s, p) \in States \cup Verdicts
  BY <1>1, FirstShape, AtIs DEF Shape
<1>4. ASSUME V(s, p + 1) \in Verdicts
      PROVE  V(s, n) = V(s, p + 1)
  <2>1. n \in (p + 1)..Len(s) /\ p + 1 \in 0..Len(s)
    BY <1>1, <1>2
  <2> QED
    BY <1>4, <2>1, VerdictStays
<1> DEFINE st == V(s, p)
           to == V(s, p + 1)
           c == s[p + 1]
<1>5. to = ScanOp(st, c) /\ c \in Newline /\ st \in FirstStates /\ st \in States \cup Verdicts
  BY <1>2, <1>3
<1>6. /\ to \in Verdicts => to # "BAD"
      /\ to \in Verdicts => V(s, n) = to
  BY <1>4
<1>7. (st = "SECONDWORD" /\ to = "GOT") \/ st \in {"THIRDWORD", "THIRDWS"}
  <2> HIDE DEF st, to, c
  <2>1. CASE c = "LF"
    BY <1>5, <1>6, <2>1, ScanRows DEF FirstStates, Verdicts
  <2>2. CASE c = "CR"
    BY <1>5, <1>6, <2>2, ScanRows DEF FirstStates, Verdicts
  <2> QED
    BY <1>5, <2>1, <2>2 DEF Newline
<1> QED
  BY <1>1, <1>6, <1>7 DEF Three, Verdicts

(* The words of the first line, whatever is below it.                       *)
LEMMA CountIs ==
  ASSUME NEW s \in Path, NEW m \in FirstEnd(s)..Len(s)
  PROVE  /\ V(s, FirstEnd(s)) = "SECONDWORD" => WordCount(SubSeq(s, 1, m)) = 2
         /\ V(s, FirstEnd(s)) \in {"THIRDWORD", "THIRDWS"} => WordCount(SubSeq(s, 1, m)) = 3
<1> DEFINE p == FirstEnd(s)
           ws == W(s, p)
           st == V(s, p)
<1>1. p \in 0..Len(s) /\ p \in 0..p
  BY FirstLineIs DEF Path
<1>2. Words(FirstLine(SubSeq(s, 1, m))) = ws
  BY <1>1, FirstLineOf, AtIs
<1>3. Shape(st, ws)
  BY <1>1, FirstShape
<1>4. WordCount(SubSeq(s, 1, m)) = IF Len(ws) > 1 /\ ws[Len(ws)] = << >> THEN Len(ws) - 1 ELSE Len(ws)
  BY <1>2 DEF WordCount
<1> HIDE DEF ws, st
<1>5. st = "SECONDWORD" => WordCount(SubSeq(s, 1, m)) = 2
  BY <1>3, <1>4 DEF Shape
<1>6. st = "THIRDWORD" => WordCount(SubSeq(s, 1, m)) = 3
  BY <1>3, <1>4 DEF Shape
<1>7. st = "THIRDWS" => WordCount(SubSeq(s, 1, m)) = 3
  <2> SUFFICES ASSUME st = "THIRDWS"
               PROVE  WordCount(SubSeq(s, 1, m)) = 3
    OBVIOUS
  <2>1. Len(ws) = 4 /\ ws[Len(ws)] = << >>
    BY <1>3 DEF Shape
  <2>2. WordCount(SubSeq(s, 1, m)) = Len(ws) - 1
    BY <1>4, <2>1
  <2> QED
    BY <2>1, <2>2
<1> QED
  BY <1>5, <1>6, <1>7 DEF st

(* A request that is taken has a first line that is over.                   *)
LEMMA GotOver ==
  ASSUME NEW s \in Path, NEW n \in 0..Len(s), V(s, n) = "GOT"
  PROVE  FirstEnd(s) < n
<1> DEFINE p == FirstEnd(s)
<1>1. p \in Nat /\ n \in Nat
  BY FirstLineIs DEF Path
<1>2. CASE n <= p
  <2>1. n \in 0..p
    BY <1>1, <1>2
  <2>2. V(s, n) \in FirstStates
    BY <2>1, FirstShape DEF Shape
  <2> QED
    BY <2>2 DEF FirstStates
<1> HIDE DEF p
<1>3. ~(n <= p) => p < n
  BY <1>1
<1> QED
  BY <1>2, <1>3 DEF p

(* The bytes up to where it is taken.                                       *)
LEMMA TakenIs ==
  ASSUME NEW s \in Path, V(s, Len(s)) = "GOT"
  PROVE  \E t \in 1..Len(s) :
           /\ Taken(s) = SubSeq(s, 1, t) /\ V(s, t) = "GOT"
           /\ \A m \in 0..(t - 1) : V(s, m) \notin Verdicts
           /\ FirstEnd(s) < t
<1> DEFINE G == {n \in 0..Len(s) : V(s, n) = "GOT"}
           Q(n) == /\ GotRequest("FIRSTWORD", SubSeq(s, 1, n)) = "GOT"
                   /\ \A m \in 0..(n - 1) : GotRequest("FIRSTWORD", SubSeq(s, 1, m)) # "GOT"
           u == CHOOSE n \in 0..Len(s) : Q(n)
<1>1. Len(s) \in Nat /\ G \in SUBSET Nat /\ Len(s) \in G
  BY DEF Path
<1>2. Min(G) \in G /\ \A y \in G : Min(G) <= y
  BY <1>1, MinIs
<1>3. \A n \in 0..Len(s) : GotRequest("FIRSTWORD", SubSeq(s, 1, n)) = V(s, n)
  BY AtIs
<1>4. \E n \in 0..Len(s) : Q(n)
  <2> DEFINE g == Min(G)
  <2>1. g \in 0..Len(s) /\ V(s, g) = "GOT"
    BY <1>2
  <2>2. ASSUME NEW m \in 0..(g - 1)
        PROVE  V(s, m) # "GOT" /\ m \in 0..Len(s)
    <3>1. m \in 0..Len(s) /\ ~(g <= m)
      BY <1>1, <2>1
    <3> QED
      BY <1>2, <3>1
  <2> HIDE DEF g
  <2>3. Q(g)
    BY <1>3, <2>1, <2>2
  <2> HIDE DEF Q
  <2> QED
    BY <2>1, <2>3
<1>5. u \in 0..Len(s) /\ Q(u)
  <2> HIDE DEF Q
  <2> QED
    BY <1>4
<1>6. Taken(s) = SubSeq(s, 1, u)
  BY DEF Taken
<1> HIDE DEF u
<1>7. V(s, u) = "GOT" /\ u \in Nat /\ u <= Len(s)
  BY <1>1, <1>3, <1>5
<1>8. FirstEnd(s) < u /\ FirstEnd(s) \in Nat
  BY <1>5, <1>7, GotOver, FirstLineIs
<1>9. ASSUME NEW m \in 0..(u - 1)
      PROVE  V(s, m) \notin Verdicts
  <2>1. m \in 0..Len(s) /\ u \in m..Len(s)
    BY <1>1, <1>7
  <2>2. V(s, m) # "GOT"
    BY <1>3, <1>5, <2>1
  <2>3. V(s, m) \in Verdicts => V(s, u) = V(s, m)
    BY <2>1, VerdictStays
  <2> QED
    BY <1>7, <2>2, <2>3
<1>10. u \in 1..Len(s)
  BY <1>1, <1>7, <1>8
<1> QED
  BY <1>6, <1>7, <1>8, <1>9, <1>10

(* It has two words, or three and a blank line below them.                  *)
LEMMA TakenWords ==
  ASSUME NEW s \in Path, NEW t \in 1..Len(s), V(s, t) = "GOT", FirstEnd(s) < t
  PROVE  /\ WordCount(SubSeq(s, 1, t)) \in {2, 3}
         /\ WordCount(SubSeq(s, 1, t)) = 3 => Three(s)
         /\ Three(s) => Blanks(A(s, t).lines)
         /\ A(s, t).lines \in Seq(Path) \ {<< >>}
         /\ ~Three(s) => V(s, FirstEnd(s)) = "SECONDWORD"
<1> DEFINE p == FirstEnd(s)
<1>1. p \in 0..Len(s) /\ Len(s) \in Nat /\ t \in 0..Len(s) /\ t \in p..Len(s) /\ t \in (p + 1)..Len(s)
      /\ p < Len(s)
  BY FirstLineIs DEF Path
<1>2. V(s, p) = "SECONDWORD" \/ Three(s)
  BY <1>1, TwoOrThree
<1>3. /\ V(s, p) = "SECONDWORD" => WordCount(SubSeq(s, 1, t)) = 2
      /\ Three(s) => WordCount(SubSeq(s, 1, t)) = 3
  BY <1>1, CountIs DEF Three
<1>4. ASSUME Three(s)
      PROVE  Blanks(A(s, t).lines)
  <2>1. Knows(V(s, t), A(s, t), s[t - 1], s[t])
    BY <1>1, <1>4, Below
  <2> QED
    BY <2>1 DEF Knows
<1>5. A(s, t).lines \in Seq(Path) \ {<< >>}
  <2>1. GotRequest("FIRSTWORD", SubSeq(s, 1, t)) = "GOT" /\ BufGets(SubSeq(s, 1, t)) = A(s, t).lines
        /\ SubSeq(s, 1, t) \in Path
    BY <1>1, AtIs
  <2> QED
    BY <2>1, GotHasLine
<1> QED
  BY <1>2, <1>3, <1>4, <1>5


-----------------------------------------------------------------------------
(* The parser and what came after the request                               *)

(* A first line without a third word has no headers below it.               *)
LEMMA PathKeepsMime ==
  ASSUME NEW h, DOMAIN h = Fields
  PROVE  ParsePath(h).mime_flag = h.mime_flag
<1> DEFINE u == h.encodedurl
           name == Tail(CString(strdecode(u)))
           orig == IF name = << >> THEN <<Dot>> ELSE name
           query == From(u, {"?"})
           file == de_dotdot(IF query = << >> THEN orig ELSE Before(orig, {"?"}))
           q == IF query = << >> THEN h.query ELSE Tail(query)
           h1 == [h EXCEPT !.origfilename = file, !.query = q]
<1>1. ParsePath(h) = IF Outside(file) THEN Fail(h1, 400) ELSE h1
  BY DEF ParsePath
<1> HIDE DEF file, q
<1>2. DOMAIN h1 = Fields /\ h1.mime_flag = h.mime_flag
  BY FieldNames
<1> HIDE DEF h1
<1>3. Fail(h1, 400).mime_flag = h1.mime_flag
  BY <1>2, FieldNames DEF Fail
<1> QED
  BY <1>1, <1>2, <1>3

(* Nor does the target tell whether headers follow.                        *)
LEMMA TargetKeepsMime ==
  ASSUME NEW h, DOMAIN h = Fields, NEW method_str, NEW url
  PROVE  ParseTarget(h, method_str, url).mime_flag = h.mime_flag
<1> DEFINE absolute == IsPrefix(<<"http://">>, url)
           host == Before(Tail(url), {Slash})
           path == IF absolute THEN From(Tail(url), {Slash}) ELSE url
           h1 == IF absolute THEN [h EXCEPT !.reqhost = host] ELSE h
           h2 == [h1 EXCEPT !.method = method_str[1], !.encodedurl = path]
<1>1. \/ ParseTarget(h, method_str, url) = Fail(h, 400)
      \/ ParseTarget(h, method_str, url) = Fail(h1, 400)
      \/ ParseTarget(h, method_str, url) = Fail(h1, 501)
      \/ ParseTarget(h, method_str, url) = ParsePath(h2)
  BY DEF ParseTarget
<1> HIDE DEF absolute, host, path
<1>2. DOMAIN h1 = Fields /\ h1.mime_flag = h.mime_flag
  BY FieldNames
<1> HIDE DEF h1
<1>3. DOMAIN h2 = Fields /\ h2.mime_flag = h1.mime_flag
  BY <1>2, FieldNames
<1> HIDE DEF h2
<1>4. \A x : DOMAIN x = Fields => \A code : Fail(x, code).mime_flag = x.mime_flag
  BY FieldNames DEF Fail
<1> QED
  BY <1>1, <1>2, <1>3, <1>4, PathKeepsMime

(* A line without a third word is refused, or turns the headers off.       *)
LEMMA MimeOff ==
  ASSUME NEW h, DOMAIN h = Fields, NEW line \in Path, NoThird(line)
  PROVE  ParseFirstLine(h, line).status # 0 \/ ~ParseFirstLine(h, line).mime_flag
<1> DEFINE rest == TrimLeft(From(line, Blank), Blank)
           url == Before(rest, Blank)
           bare == From(rest, Blank) = << >>
           protocol == IF bare THEN <<"HTTP/0.9">>
                       ELSE Before(TrimLeft(From(rest, Blank), Blank), Blank)
           flag == h.mime_flag /\ ~bare
           one == h.one_one \/ (~bare /\ protocol \notin {<< >>, <<"HTTP/1.0">>})
           h1 == [h EXCEPT !.protocol = protocol, !.mime_flag = flag, !.one_one = one]
           m == Before(line, Blank)
<1>1. ParseFirstLine(h, line) = IF From(line, Blank) = << >> THEN Fail(h, 400)
                                ELSE ParseTarget(h1, m, url)
  BY DEF ParseFirstLine
<1>2. bare
  BY RestIs
<1>3. ~flag
  BY <1>2
<1> HIDE DEF rest, url, protocol, flag, one
<1>4. DOMAIN h1 = Fields /\ h1.mime_flag = flag
  BY FieldNames
<1> HIDE DEF h1, m
<1>5. ParseTarget(h1, m, url).mime_flag = flag
  BY <1>4, TargetKeepsMime
<1>6. Fail(h, 400).status = 400
  BY FieldNames DEF Fail
<1> QED
  BY <1>1, <1>3, <1>5, <1>6

(* The first line of a request of two words, as bufgets() gives it.         *)
LEMMA BareLine ==
  ASSUME NEW s \in Path, FirstEnd(s) < Len(s), V(s, FirstEnd(s)) = "SECONDWORD"
  PROVE  LET line == CString(SubSeq(s, 1, FirstEnd(s))) IN line \in Path /\ NoThird(line)
<1> DEFINE p == FirstEnd(s)
           x == SubSeq(s, 1, p)
           line == CString(x)
<1>1. p \in 0..Len(s) /\ p \in 0..p /\ p \in Nat
  BY FirstLineIs DEF Path
<1>2. /\ \A i, j, k \in 1..p :
            (i < j /\ j < k /\ s[i] = "SP" /\ s[j] # "SP") => s[k] # "SP"
  BY <1>1, FirstSpaced DEF Spaced
<1> HIDE DEF p
<1>3. x \in Path /\ Len(x) = p /\ \A k \in 1..p : x[k] = s[k]
  BY <1>1, PrefixType
<1> HIDE DEF x
<1>4. PICK n \in 0..Len(x) : /\ line \in Path /\ Len(line) = n
                             /\ \A k \in 1..n : line[k] = x[k]
  BY <1>3, BeforeIs DEF CString
<1> HIDE DEF line
<1>5. \A k \in 1..n : k \in 1..p /\ line[k] = s[k]
  BY <1>1, <1>3, <1>4
<1>6. NoThird(line)
  BY <1>2, <1>4, <1>5 DEF NoThird
<1> QED
  BY <1>4, <1>6 DEF line, x, p

(* The blank line ends the headers.                                         *)
HeadBase(h) == [h |-> h, read |-> 1, over |-> FALSE]

(* The headers are a fold over the lines.                                  *)
LEMMA HeadersAre ==
  ASSUME NEW h, NEW lines
  PROVE  ParseHeaders(h, lines) = IF h.mime_flag /\ h.status = 0
                                  THEN Hd!Fold(HeadBase(h), lines)
                                  ELSE [h |-> h, read |-> 1, over |-> TRUE]
BY DEF ParseHeaders, HeadBase, Hd!Fold, Hd!FoldLeft, Hd!MapThenFoldSet, Hd!Max,
       FoldLeft, MapThenFoldSet, Max

(* Once they are over, no line makes a difference.                         *)
LEMMA OverStays ==
  ASSUME NEW acc, acc.over, NEW lines \in Seq(Path)
  PROVE  Hd!Fold(acc, lines) = acc
<1>1. \A a \in {acc} : \A e \in Path : ParseLine(a, e) \in {acc}
  BY DEF ParseLine
<1>2. Hd!Fold(acc, lines) \in {acc}
  BY <1>1, Hd!FoldClosed
<1> QED
  BY <1>2

(* They are over once a blank line was among them.                         *)
LEMMA OverAtBlank ==
  ASSUME NEW base, NEW lines \in Seq(Path), NEW k \in 1..Len(lines), lines[k] = << >>
  PROVE  Hd!Fold(base, lines).over
<1> DEFINE a == SubSeq(lines, 1, k)
           b == SubSeq(lines, k + 1, Len(lines))
           acc == Hd!Fold(base, SubSeq(lines, 1, k - 1))
<1>1. Len(lines) \in Nat /\ k \in Nat
  OBVIOUS
<1>2. a \in Seq(Path) /\ b \in Seq(Path) /\ lines = a \o b
  <2>1. 1 \in 1..(Len(lines) + 1) /\ k \in (1 - 1)..Len(lines) /\ Len(lines) \in k..Len(lines)
    BY <1>1
  <2>2. a \o b = SubSeq(lines, 1, Len(lines))
    BY <2>1, ConcatAdjacentSubSeq
  <2>3. SubSeq(lines, 1, Len(lines)) = lines
    BY SubSeqFull
  <2>4. \A i \in 1..k : lines[i] \in Path
    BY <1>1
  <2>5. \A i \in (k + 1)..Len(lines) : lines[i] \in Path
    BY <1>1
  <2>6. 1 \in Int /\ k \in Int /\ k + 1 \in Int /\ Len(lines) \in Int
    BY <1>1
  <2>7. a \in Seq(Path)
    BY <2>4, <2>6, SubSeqProperties
  <2>8. b \in Seq(Path)
    BY <2>5, <2>6, SubSeqProperties
  <2> QED
    BY <2>2, <2>3, <2>7, <2>8
<1>3. Hd!Fold(base, a) = ParseLine(acc, lines[k])
  <2>1. Hd!Fold(base, SubSeq(lines, 1, k)) = ParseLine(Hd!Fold(base, SubSeq(lines, 1, k - 1)), lines[k])
    BY Hd!FoldPrefix
  <2> QED
    BY <2>1
<1> HIDE DEF acc
<1>4. Hd!Fold(base, a).over
  <2> DEFINE over == lines[k] = << >> \/ acc.h.status # 0
  <2>1. CASE acc.over
    BY <1>3, <2>1 DEF ParseLine
  <2>2. CASE ~acc.over
    <3>1. ParseLine(acc, lines[k]) = [h |-> acc.h, read |-> acc.read + 1, over |-> over]
      BY <2>2 DEF ParseLine, HeaderRead
    <3>2. over
      OBVIOUS
    <3>3. ParseLine(acc, lines[k]).over = over
      BY <3>1
    <3> QED
      BY <1>3, <3>2, <3>3
  <2> QED
    BY <2>1, <2>2
<1> HIDE DEF a, b
<1>5. Hd!Fold(base, a \o b) = Hd!Fold(Hd!Fold(base, a), b)
  BY <1>2, Hd!FoldConcat
<1> DEFINE new == Hd!Fold(base, a)
<1> HIDE DEF new
<1>6. Hd!Fold(new, b) = new
  BY <1>2, <1>4, OverStays DEF new
<1> QED
  BY <1>2, <1>4, <1>5, <1>6 DEF new

(* A longer list of lines is the shorter one and the rest.                  *)
LEMMA GrowsSplit ==
  ASSUME NEW l \in Seq(Path), NEW m \in Seq(Path), Grows(l, m)
  PROVE  \E r \in Seq(Path) : m = l \o r
<1> DEFINE r == SubSeq(m, Len(l) + 1, Len(m))
           n == Len(l)
<1>1. n \in Nat /\ Len(m) \in Nat /\ n <= Len(m) /\ \A k \in 1..n : m[k] = l[k]
  BY DEF Grows
<1>2. r \in Seq(Path)
  <2>1. \A i \in (n + 1)..Len(m) : m[i] \in Path
    BY <1>1
  <2> QED
    BY <1>1, <2>1, SubSeqProperties
<1>3. SubSeq(m, 1, n) = l
  <2>1. \A i \in 1..n : m[i] \in Path
    BY <1>1
  <2>2. /\ SubSeq(m, 1, n) \in Seq(Path) /\ Len(SubSeq(m, 1, n)) = n
        /\ \A i \in 1..n : SubSeq(m, 1, n)[i] = m[i]
    BY <1>1, <2>1, SubSeqProperties
  <2> QED
    BY <1>1, <2>2, SeqEqual
<1>4. m = SubSeq(m, 1, n) \o SubSeq(m, n + 1, Len(m))
  <2>1. 1 \in 1..(Len(m) + 1) /\ n \in (1 - 1)..Len(m) /\ Len(m) \in n..Len(m)
    BY <1>1
  <2> QED
    BY <2>1, ConcatAdjacentSubSeq, SubSeqFull
<1> QED
  BY <1>2, <1>3, <1>4


(* The parser makes of a taken request what it makes of it and of whatever  *)
(* came behind it.                                                          *)
LEMMA SameParse ==
  ASSUME NEW s \in Path, NEW t \in 1..Len(s), V(s, t) = "GOT", FirstEnd(s) < t
  PROVE  /\ ParseLines(FreshConn, BufGets(s)) = ParseLines(FreshConn, BufGets(SubSeq(s, 1, t)))
         /\ BufGets(s) = A(s, Len(s)).lines /\ BufGets(SubSeq(s, 1, t)) = A(s, t).lines
<1> DEFINE p == FirstEnd(s)
           l == A(s, t).lines
           m == A(s, Len(s)).lines
<1>1. /\ Len(s) \in Nat /\ t \in Nat /\ t <= Len(s) /\ t \in 0..Len(s) /\ Len(s) \in 0..Len(s)
      /\ SubSeq(s, 1, Len(s)) = s /\ p \in 0..Len(s) /\ p < Len(s) /\ Len(s) \in t..Len(s)
      /\ p + 1 \in 0..Len(s) /\ t \in (p + 1)..Len(s)
  BY FirstLineIs DEF Path
<1>2. BufGets(s) = m /\ BufGets(SubSeq(s, 1, t)) = l
  BY <1>1, AtIs
<1>3. l \in Seq(Path) \ {<< >>} /\ m \in Seq(Path) /\ Grows(l, m) /\ Grows(A(s, p + 1).lines, l)
  <2>1. l \in Seq(Path) \ {<< >>} /\ Grows(l, m) /\ Grows(A(s, p + 1).lines, l)
    BY <1>1, TakenWords, LinesGrow
  <2>2. A(s, Len(s)) \in Lines
    BY <1>1, AtIs
  <2> QED
    BY <2>1, <2>2 DEF Lines
<1>4. /\ (Three(s) => Blanks(l))
      /\ (~Three(s) => V(s, p) = "SECONDWORD")
  BY <1>1, TakenWords
<1> HIDE DEF l, m, p
<1>5. Len(l) \in Nat \ {0} /\ Len(m) \in Nat /\ Len(m) >= Len(l) /\ m # << >>
  BY <1>3 DEF Grows
<1>6. /\ Tail(l) \in Seq(Path) /\ Len(Tail(l)) = Len(l) - 1
      /\ Tail(m) \in Seq(Path) /\ Len(Tail(m)) = Len(m) - 1
      /\ \A i \in 1..Len(Tail(l)) : Tail(l)[i] = l[i + 1]
      /\ \A i \in 1..Len(Tail(m)) : Tail(m)[i] = m[i + 1]
  BY <1>3, <1>5, HeadTailProperties
<1>7. Head(l) = l[1] /\ Head(m) = Head(l)
  BY <1>3, <1>5 DEF Grows
<1>8. Grows(Tail(l), Tail(m))
  <2>1. ASSUME NEW i \in 1..Len(Tail(l))
        PROVE  Tail(m)[i] = Tail(l)[i]
    <3>1. i \in 1..Len(Tail(m)) /\ i + 1 \in 1..Len(l)
      BY <1>5, <1>6
    <3>2. m[i + 1] = l[i + 1]
      BY <1>3, <3>1 DEF Grows
    <3> QED
      BY <1>6, <3>1, <3>2
  <2>2. Len(Tail(l)) <= Len(Tail(m))
    BY <1>5, <1>6
  <2> QED
    BY <2>1, <2>2 DEF Grows
<1>9. PICK r \in Seq(Path) : Tail(m) = Tail(l) \o r
  BY <1>6, <1>8, GrowsSplit
<1> DEFINE h1 == ParseFirstLine(FreshConn, Head(l))
           base == HeadBase(h1)
<1>10. /\ ParseLines(FreshConn, l) = ParseHeaders(h1, Tail(l))
       /\ ParseLines(FreshConn, m) = ParseHeaders(h1, Tail(m))
  BY <1>7 DEF ParseLines
<1>11. ASSUME Three(s)
       PROVE  ParseLines(FreshConn, m) = ParseLines(FreshConn, l)
  <2>1. \E k \in 1..Len(Tail(l)) : Tail(l)[k] = << >>
    <3>1. PICK k \in 2..Len(l) : l[k] = << >>
      BY <1>4, <1>11 DEF Blanks
    <3>2. k - 1 \in 1..Len(Tail(l)) /\ (k - 1) + 1 = k
      BY <1>5, <1>6, <3>1
    <3>3. Tail(l)[k - 1] = << >>
      BY <1>6, <3>1, <3>2
    <3> QED
      BY <3>2, <3>3
  <2>2. Hd!Fold(base, Tail(l)).over
    BY <1>6, <2>1, OverAtBlank
  <2> HIDE DEF base
  <2>3. Hd!Fold(base, Tail(m)) = Hd!Fold(Hd!Fold(base, Tail(l)), r)
    <3>1. \A u \in Seq(Path) : Hd!Fold(base, u \o r) = Hd!Fold(Hd!Fold(base, u), r)
      BY Hd!FoldConcat
    <3>2. Tail(l) \in Seq(Path)
      BY <1>6
    <3>3. Hd!Fold(base, Tail(l) \o r) = Hd!Fold(Hd!Fold(base, Tail(l)), r)
      BY <3>1, <3>2
    <3> QED
      BY <1>9, <3>3
  <2>4. Hd!Fold(base, Tail(m)) = Hd!Fold(base, Tail(l))
    BY <2>2, <2>3, OverStays
  <2>5. ParseHeaders(h1, Tail(l)) = ParseHeaders(h1, Tail(m))
    <3> HIDE DEF h1
    <3> QED
      BY <2>4, HeadersAre DEF base
  <2> QED
    BY <1>10, <2>5
<1>12. ASSUME ~Three(s)
       PROVE  ParseLines(FreshConn, m) = ParseLines(FreshConn, l)
  <2> DEFINE line == CString(SubSeq(s, 1, p))
  <2>1. line \in Path /\ NoThird(line)
    BY <1>1, <1>4, <1>12, BareLine DEF p
  <2>2. A(s, p + 1).lines = << line >>
    BY <1>1, FirstOver DEF p
  <2> HIDE DEF line
  <2>3. l[1] = line
    <3>1. Len(<< line >>) = 1 /\ << line >>[1] = line
      OBVIOUS
    <3>2. \A k \in 1..Len(<< line >>) : l[k] = << line >>[k]
      BY <1>3, <2>2 DEF Grows
    <3> QED
      BY <3>1, <3>2
  <2>4. DOMAIN FreshConn = Fields
    BY DEF Fields
  <2>5. h1.status # 0 \/ ~h1.mime_flag
    BY <1>7, <2>1, <2>3, <2>4, MimeOff
  <2>6. ParseHeaders(h1, Tail(l)) = ParseHeaders(h1, Tail(m))
    <3> HIDE DEF h1
    <3> QED
      BY <2>5, HeadersAre
  <2> QED
    BY <1>10, <2>6
<1> QED
  BY <1>2, <1>11, <1>12 DEF l, m

(* So bytes behind the request change none of its fields.                   *)
LEMMA SameFields ==
  ASSUME NEW s \in Path, NEW t \in 1..Len(s), V(s, t) = "GOT", FirstEnd(s) < t
  PROVE  httpd_parse_request(FreshConn, s).hc = httpd_parse_request(FreshConn, SubSeq(s, 1, t)).hc
BY SameParse DEF httpd_parse_request, Parsed


(* The blank line the headers end at is the first one.                      *)
Stops(acc, lines, k) ==
  /\ ~acc.over => acc.read = k + 1 /\ \A i \in 1..k : lines[i] # << >>
  /\ acc.over => \/ acc.h.status # 0
                 \/ /\ acc.read - 1 \in 1..k /\ lines[acc.read - 1] = << >>
                    /\ \A i \in 1..(acc.read - 2) : lines[i] # << >>

(* One more line.                                                          *)
LEMMA StopsStep ==
  ASSUME NEW lines \in Seq(Path), NEW k \in 1..Len(lines), NEW acc, Stops(acc, lines, k - 1)
  PROVE  Stops(ParseLine(acc, lines[k]), lines, k)
<1>1. k \in Nat /\ (k - 1) + 1 = k
  OBVIOUS
<1>2. CASE acc.over
  <2>1. ParseLine(acc, lines[k]) = acc
    BY <1>2 DEF ParseLine
  <2> DEFINE n == acc.read - 1
  <2>2. \/ acc.h.status # 0
        \/ /\ n \in 1..(k - 1) /\ lines[n] = << >>
           /\ \A i \in 1..(acc.read - 2) : lines[i] # << >>
    BY <1>2 DEF Stops
  <2>3. n \in 1..(k - 1) => n \in 1..k
    BY <1>1
  <2> QED
    BY <1>2, <2>1, <2>2, <2>3 DEF Stops
<1>3. CASE ~acc.over
  <2> DEFINE h1 == IF lines[k] = << >> THEN acc.h ELSE ParseHeader(acc.h, lines[k])
             new == [h |-> h1, read |-> acc.read + 1, over |-> lines[k] = << >> \/ h1.status # 0]
  <2>1. ParseLine(acc, lines[k]) = new
    BY <1>3 DEF ParseLine, HeaderRead
  <2>2. acc.read = k /\ \A i \in 1..(k - 1) : lines[i] # << >>
    BY <1>1, <1>3 DEF Stops
  <2>3. new.h = h1 /\ new.read = k + 1 /\ (new.over <=> (lines[k] = << >> \/ h1.status # 0))
    BY <2>2
  <2> HIDE DEF new, h1
  <2>4. ASSUME ~new.over
        PROVE  \A i \in 1..k : lines[i] # << >>
    <3>1. lines[k] # << >>
      BY <2>3, <2>4
    <3>2. \A i \in 1..k : i = k \/ i \in 1..(k - 1)
      BY <1>1
    <3> QED
      BY <2>2, <3>1, <3>2
  <2>5. (k + 1) - 1 = k /\ (k + 1) - 2 = k - 1 /\ k \in 1..k
    BY <1>1
  <2>6. new.over => \/ new.h.status # 0
                    \/ /\ new.read - 1 \in 1..k /\ lines[new.read - 1] = << >>
                       /\ \A i \in 1..(new.read - 2) : lines[i] # << >>
    BY <2>2, <2>3, <2>5
  <2>7. Stops(new, lines, k)
    BY <2>3, <2>4, <2>6 DEF Stops
  <2> QED
    BY <2>1, <2>7
<1> QED
  BY <1>2, <1>3

(* All the lines.                                                          *)
LEMMA HeadersStop ==
  ASSUME NEW h, NEW lines \in Seq(Path)
  PROVE  Stops(Hd!Fold(HeadBase(h), lines), lines, Len(lines))
<1> DEFINE base == HeadBase(h)
<1>1. base.over = FALSE /\ base.read = 1
  BY DEF HeadBase
<1>2. Len(lines) \in Nat
  OBVIOUS
<1> HIDE DEF base
<1>3. PICK r : Hd!Run(base, lines, r) /\ r[Len(lines)] = Hd!Fold(base, lines)
  BY Hd!FoldRun
<1> DEFINE P == {k \in 0..Len(lines) : Stops(r[k], lines, k)}
<1>4. 0 \in P
  <2>1. r[0] = base
    BY <1>3 DEF Hd!Run
  <2> QED
    BY <1>1, <1>2, <2>1 DEF Stops
<1>5. ASSUME NEW k \in (0 + 1)..Len(lines), k - 1 \in P
      PROVE  k \in P
  <2>1. k \in 1..Len(lines) /\ k \in 0..Len(lines)
    BY <1>2
  <2>2. r[k] = ParseLine(r[k - 1], lines[k])
    BY <1>3, <2>1 DEF Hd!Run
  <2>3. Stops(r[k - 1], lines, k - 1)
    BY <1>5
  <2>4. Stops(r[k], lines, k)
    BY <2>1, <2>2, <2>3, StopsStep
  <2> QED
    BY <2>1, <2>4
<1> HIDE DEF P
<1>6. 0..Len(lines) \subseteq P
  BY <1>2, <1>4, <1>5, RangeInd
<1>7. Len(lines) \in P
  BY <1>2, <1>6
<1>8. Stops(r[Len(lines)], lines, Len(lines))
  BY <1>7 DEF P
<1> QED
  BY <1>3, <1>8 DEF base

(* A blank line n below the first, and none before it.                      *)
BlankAt(ls, n) ==
  /\ n \in 2..Len(ls) /\ ls[n] = << >>
  /\ \A i \in 2..(n - 1) : ls[i] # << >>

(* Where the parser stops, if it refuses nothing: the body is behind it.    *)
LEMMA StopsAtBlank ==
  ASSUME NEW s \in Path, V(s, Len(s)) = "GOT",
         LET h == httpd_parse_request(FreshConn, s).hc IN h.status = 0 /\ h.mime_flag
  PROVE  /\ Three(s)
         /\ \E n \in Nat : /\ BlankAt(BufGets(s), n)
                           /\ httpd_parse_request(FreshConn, s).checked_idx = LineEnd(s, n)
<1> DEFINE m == BufGets(s)
           p == FirstEnd(s)
           h1 == ParseFirstLine(FreshConn, Head(m))
           acc == ParseHeaders(h1, Tail(m))
           hc1 == httpd_parse_request(FreshConn, s).hc
<1>1. /\ Len(s) \in Nat /\ Len(s) \in 0..Len(s) /\ SubSeq(s, 1, Len(s)) = s
  BY DEF Path
<1>2. p \in 0..Len(s) /\ p < Len(s) /\ Len(s) \in 1..Len(s) /\ Len(s) \in (p + 1)..Len(s)
      /\ p + 1 \in 0..Len(s)
  BY <1>1, GotOver, FirstLineIs
<1>3. m = A(s, Len(s)).lines
  BY <1>1, AtIs
<1>4. /\ m \in Seq(Path) \ {<< >>}
      /\ (Three(s) => Blanks(m)) /\ (~Three(s) => V(s, p) = "SECONDWORD")
  BY <1>2, <1>3, TakenWords
<1>5. Grows(A(s, p + 1).lines, m)
  BY <1>2, <1>3, LinesGrow
<1> HIDE DEF m
<1>6. /\ Tail(m) \in Seq(Path) /\ Len(Tail(m)) = Len(m) - 1 /\ Len(m) \in Nat \ {0}
      /\ \A i \in 1..Len(Tail(m)) : Tail(m)[i] = m[i + 1]
      /\ Head(m) = m[1]
  BY <1>4, HeadTailProperties
<1>7. hc1 = CheckHost(acc.h)
      /\ httpd_parse_request(FreshConn, s).checked_idx = IF acc.over THEN LineEnd(s, acc.read) ELSE Len(s)
  BY DEF httpd_parse_request, Parsed, ParseLines, m
<1>8. DOMAIN FreshConn = Fields /\ FreshConn.status = 0
  BY DEF Fields, FreshConn
<1>9. DOMAIN h1 = Fields
  <2>1. Head(m) \in Path
    BY <1>4, <1>6
  <2> QED
    BY <1>8, <2>1, ParseFirstLineGood DEF Good
<1>10. acc.h.status = 0 /\ acc.h.mime_flag
  <2>1. Good(acc.h)
    <3>1. Good(h1)
      BY <1>4, <1>6, <1>8, ParseFirstLineGood
    <3> HIDE DEF h1
    <3> QED
      BY <1>6, <3>1, ParseHeadersGood
  <2>2. DOMAIN acc.h = Fields
    BY <2>1 DEF Good
  <2> DEFINE g == acc.h
  <2>6. hc1.status = 0 /\ hc1.mime_flag /\ hc1 = CheckHost(g)
    BY <1>7
  <2> HIDE DEF acc, hc1
  <2>3. \/ CheckHost(acc.h) = acc.h
        \/ CheckHost(acc.h) = Fail(acc.h, 400)
        \/ CheckHost(acc.h) = [acc.h EXCEPT !.should_linger = @ \/ acc.h.keep_alive]
    BY DEF CheckHost
  <2>4. Fail(acc.h, 400).status # 0
    BY <2>2, FieldNames DEF Fail
  <2>5. [acc.h EXCEPT !.should_linger = @ \/ acc.h.keep_alive].status = acc.h.status
        /\ [acc.h EXCEPT !.should_linger = @ \/ acc.h.keep_alive].mime_flag = acc.h.mime_flag
    BY <2>2, FieldNames
  <2> DEFINE g1 == [g EXCEPT !.should_linger = @ \/ g.keep_alive]
             g2 == Fail(g, 400)
  <2>7. /\ hc1 = g \/ hc1 = g2 \/ hc1 = g1
        /\ g2.status # 0 /\ g1.status = g.status /\ g1.mime_flag = g.mime_flag
    BY <2>3, <2>4, <2>5, <2>6
  <2> HIDE DEF g, g1, g2
  <2>8. g.status = 0 /\ g.mime_flag
    BY <2>6, <2>7
  <2> QED
    BY <2>8 DEF g
<1>11. h1.status = 0 /\ h1.mime_flag /\ acc = Hd!Fold(HeadBase(h1), Tail(m))
  <2> HIDE DEF h1
  <2>1. ~(h1.mime_flag /\ h1.status = 0) => acc.h = h1
    BY HeadersAre
  <2> QED
    BY <1>10, <2>1, HeadersAre
<1>12. Three(s)
  <2> SUFFICES ASSUME ~Three(s)
               PROVE  FALSE
    OBVIOUS
  <2> DEFINE line == CString(SubSeq(s, 1, p))
  <2>1. line \in Path /\ NoThird(line)
    BY <1>2, <1>4, BareLine
  <2>2. A(s, p + 1).lines = << line >>
    BY <1>2, FirstOver
  <2> HIDE DEF line
  <2>3. m[1] = line
    <3>1. Len(<< line >>) = 1 /\ << line >>[1] = line
      OBVIOUS
    <3>2. \A k \in 1..Len(<< line >>) : m[k] = << line >>[k]
      BY <1>5, <2>2 DEF Grows
    <3> QED
      BY <3>1, <3>2
  <2>4. h1.status # 0 \/ ~h1.mime_flag
    BY <1>6, <1>8, <2>1, <2>3, MimeOff
  <2> QED
    BY <1>11, <2>4
<1>13. acc.over
  <2>1. PICK k \in 2..Len(m) : m[k] = << >>
    BY <1>4, <1>12 DEF Blanks
  <2>2. k - 1 \in 1..Len(Tail(m)) /\ (k - 1) + 1 = k
    BY <1>6, <2>1
  <2>3. Tail(m)[k - 1] = << >>
    BY <1>6, <2>1, <2>2
  <2> HIDE DEF h1, acc
  <2>4. Hd!Fold(HeadBase(h1), Tail(m)).over
    BY <1>6, <2>2, <2>3, OverAtBlank
  <2> QED
    BY <1>11, <2>4
<1> DEFINE n == acc.read
<1>14. Stops(acc, Tail(m), Len(Tail(m)))
  <2> HIDE DEF h1, acc
  <2> QED
    BY <1>6, <1>11, HeadersStop
<1> HIDE DEF acc
<1>15. /\ n - 1 \in 1..Len(Tail(m)) /\ Tail(m)[n - 1] = << >>
       /\ \A i \in 1..(n - 2) : Tail(m)[i] # << >>
  BY <1>10, <1>13, <1>14 DEF Stops
<1>16. n \in Nat
  <2>1. n \in 1..(Len(Tail(m)) + 1)
    BY <1>6, ReadLines DEF acc
  <2> QED
    BY <2>1
<1> HIDE DEF n
<1>17. BlankAt(m, n)
  <2>1. n \in 2..Len(m) /\ (n - 1) + 1 = n
    BY <1>6, <1>15, <1>16
  <2>2. ASSUME NEW i \in 2..(n - 1)
        PROVE  m[i] # << >>
    <3>1. i - 1 \in 1..(n - 2) /\ i - 1 \in 1..Len(Tail(m)) /\ (i - 1) + 1 = i
      BY <1>6, <1>16, <2>1
    <3> QED
      BY <1>6, <1>15, <3>1
  <2>3. m[n] = << >>
    BY <1>6, <1>15, <2>1
  <2> QED
    BY <2>1, <2>2, <2>3 DEF BlankAt
<1> QED
  BY <1>7, <1>12, <1>13, <1>16, <1>17 DEF n, m


-----------------------------------------------------------------------------
(* The scanner and the first blank line                                     *)

(* Bytes without NUL: a line that is not empty is none as a C string.       *)
NoNul(x) == \A i \in 1..Len(x) : x[i] # "NUL"

(* It keeps its characters up to the NUL it has not.                       *)
LEMMA LineStays ==
  ASSUME NEW x \in Path, NoNul(x), x # << >>
  PROVE  CString(x) # << >>
<1>1. /\ Len(Before(x, {"NUL"})) \in 0..Len(x)
      /\ Len(Before(x, {"NUL"})) < Len(x) => x[Len(Before(x, {"NUL"})) + 1] \in {"NUL"}
  BY BeforeIs
<1>2. Len(x) \in Nat /\ Len(x) # 0 /\ Len(<< >>) = 0
  BY DEF Path
<1>3. Len(Before(x, {"NUL"})) # 0
  BY <1>1, <1>2 DEF NoNul
<1> QED
  BY <1>2, <1>3 DEF CString

(* The line being read has no NUL if the bytes have none.                  *)
LEMMA LineNoNul ==
  ASSUME NEW s \in Path, NEW n \in 0..Len(s), \A i \in 1..n : s[i] # "NUL"
  PROVE  NoNul(A(s, n).line)
<1> DEFINE P == {k \in 0..n : NoNul(A(s, k).line)}
<1>1. n \in Nat /\ Len(s) \in Nat /\ n <= Len(s)
  BY DEF Path
<1>2. 0 \in P
  BY <1>1, AtStart DEF NoLines, NoNul
<1>3. ASSUME NEW k \in (0 + 1)..n, k - 1 \in P
      PROVE  k \in P
  <2>1. k \in 1..Len(s) /\ k \in 0..n /\ k - 1 \in 0..Len(s) /\ k \in 1..n
    BY <1>1
  <2> DEFINE acc == A(s, k - 1)
             new == A(s, k)
  <2>2. new = LineOp(acc, s[k]) /\ s[k] \in Tokens
    BY <2>1, AtStep
  <2>3. acc \in Lines
    BY <2>1, AtIs
  <2>4. NoNul(acc.line) /\ s[k] # "NUL"
    BY <1>3, <2>1
  <2> HIDE DEF acc, new
  <2>5. /\ new.line \in {acc.line, << >>, Append(acc.line, s[k])}
        /\ acc.line \in Path
    BY <2>2, <2>3, LineOpIs
  <2>6. NoNul(Append(acc.line, s[k]))
    <3>1. /\ Len(Append(acc.line, s[k])) = Len(acc.line) + 1 /\ Len(acc.line) \in Nat
          /\ \A i \in 1..Len(acc.line) : Append(acc.line, s[k])[i] = acc.line[i]
          /\ Append(acc.line, s[k])[Len(acc.line) + 1] = s[k]
      BY <2>2, <2>5, AppendProperties DEF Path
    <3>2. \A i \in 1..(Len(acc.line) + 1) : i = Len(acc.line) + 1 \/ i \in 1..Len(acc.line)
      BY <3>1
    <3> QED
      BY <2>4, <3>1, <3>2 DEF NoNul
  <2>7. NoNul(<< >>)
    BY DEF NoNul
  <2>8. NoNul(new.line)
    BY <2>4, <2>5, <2>6, <2>7
  <2> QED
    BY <2>1, <2>8 DEF new
<1> HIDE DEF P
<1>4. 0..n \subseteq P
  BY <1>1, <1>2, <1>3, RangeInd
<1>5. n \in P
  BY <1>1, <1>4
<1> QED
  BY <1>5 DEF P

(* Newlines of one kind.                                                    *)
LEMMA UniformIs ==
  ASSUME NEW s \in Path, Uniform(s), NEW i \in 1..Len(s), NEW j \in 1..Len(s),
         s[i] = "CR", s[j] = "LF"
  PROVE  \A k \in 1..(Len(s) - 1) : s[k] = "CR" <=> s[k + 1] = "LF"
<1>1. Len(s) \in Nat /\ DOMAIN s = 1..Len(s)
  BY DEF Path
<1>2. Contains(s, "CR") /\ Contains(s, "LF")
  BY <1>1 DEF Contains
<1>3. \A k \in DOMAIN s : (s[k] = "CR" /\ k < Len(s)) <=> (k < Len(s) /\ s[k + 1] = "LF")
  BY <1>2 DEF Uniform
<1>4. ASSUME NEW k \in 1..(Len(s) - 1)
      PROVE  s[k] = "CR" <=> s[k + 1] = "LF"
  <2>1. k \in DOMAIN s /\ k < Len(s)
    BY <1>1
  <2>2. (s[k] = "CR" /\ k < Len(s)) <=> (k < Len(s) /\ s[k + 1] = "LF")
    BY <1>3, <2>1
  <2> QED
    BY <2>1, <2>2
<1> QED
  BY <1>4

(* Where the first blank line is over, the request is taken, or the last    *)
(* half of its CR LF is.                                                    *)
LEMMA FirstBlank ==
  ASSUME NEW s \in Path, Three(s), Uniform(s), NEW n \in Nat, NEW K \in 1..Len(s),
         BlankAt(A(s, K).lines, n),
         \A j \in 1..Len(s) : Len(A(s, j).lines) >= n => K <= j,
         \A i \in 1..K : s[i] # "NUL"
  PROVE  /\ K > 1 /\ K - 1 \in 1..Len(s)
         /\ \A j \in 0..(K - 1) : V(s, j) \notin Verdicts
         /\ \/ V(s, K) = "GOT" /\ ~(K < Len(s) /\ s[K] = "CR" /\ s[K + 1] = "LF")
            \/ /\ V(s, K) = "CRLFCR" /\ s[K] = "CR" /\ s[K - 1] = "LF"
               /\ K < Len(s) => s[K + 1] = "LF" /\ V(s, K + 1) = "GOT"
<1> DEFINE p == FirstEnd(s)
           L == Len(s)
<1>1. /\ L \in Nat /\ p \in 0..L /\ p + 1 \in 1..L /\ p + 1 \in 0..L
      /\ n \in Nat /\ K \in Nat /\ K <= L /\ K \in 0..L
  BY FirstOver, FirstLineIs DEF Path, Three
<1>2. n >= 2 /\ n <= Len(A(s, K).lines)
  <2>1. Len(A(s, K).lines) \in Nat
    <3>1. A(s, K) \in Lines
      BY <1>1, AtIs
    <3> QED
      BY <3>1 DEF Lines
  <2>2. n \in 2..Len(A(s, K).lines)
    BY DEF BlankAt
  <2> QED
    BY <2>1, <2>2
<1>3. K > p + 1
  <2>1. K # p + 1
    <3> SUFFICES ASSUME K = p + 1
                 PROVE  FALSE
      OBVIOUS
    <3> DEFINE e == CString(SubSeq(s, 1, p))
    <3>1. A(s, p + 1).lines = << e >>
      BY FirstOver DEF Three
    <3> HIDE DEF e, p
    <3>2. Len(A(s, K).lines) = 1
      BY <3>1
    <3> DEFINE q == Len(A(s, K).lines)
    <3>3. n >= 2 /\ n <= q /\ q = 1
      BY <1>2, <3>2
    <3> HIDE DEF q
    <3> QED
      BY <1>1, <3>3
  <2>2. ASSUME K <= p
        PROVE  FALSE
    <3>1. K \in 0..p
      BY <1>1, <2>2
    <3>2. A(s, K).lines = << >>
      BY <3>1, FirstAcc
    <3>3. Len(A(s, K).lines) = 0
      BY <3>2
    <3> QED
      BY <1>2, <3>3
  <2> QED
    BY <1>1, <2>1, <2>2
<1>4. /\ K - 1 \in 1..L /\ K - 1 \in (p + 1)..L /\ K \in (p + 1)..L /\ K > 1 /\ K - 1 \in 0..L
      /\ (K - 1) - 1 \in Nat /\ (K - 1) - 1 = K - 2
  BY <1>1, <1>3
<1>5. /\ Knows(V(s, K - 1), A(s, K - 1), s[K - 2], s[K - 1])
      /\ K - 2 \in 1..L
  BY <1>4, Below
<1> DEFINE acc == A(s, K - 1)
           new == A(s, K)
           l == acc.lines
           m == new.lines
           c == s[K]
<1>6. new = LineOp(acc, c) /\ c \in Tokens /\ V(s, K) = ScanOp(V(s, K - 1), c)
  BY AtStep
<1>7. acc \in Lines /\ new \in Lines
  BY <1>1, <1>4, AtIs
<1>8. l \in Seq(Path) /\ m \in Seq(Path) /\ Grows(l, m) /\ Len(l) \in Nat /\ Len(m) \in Nat
  <2>1. Grows(l, m)
    BY <1>1, <1>4, LinesGrow
  <2> QED
    BY <1>7, <2>1 DEF Lines
<1>9. Len(l) < n
  <2>1. Len(A(s, K - 1).lines) >= n => K <= K - 1
    BY <1>4
  <2>2. ~(K <= K - 1)
    BY <1>1
  <2> QED
    BY <1>1, <1>8, <2>1, <2>2
<1> HIDE DEF acc, new
<1>10. /\ ~(c = "LF" /\ acc.cr) /\ c \in Newline
       /\ m = Append(l, CString(acc.line))
  <2>1. m # l
    BY <1>2, <1>9 DEF new
  <2> QED
    BY <1>6, <1>7, <2>1, LineOpIs
<1>11. Len(m) = Len(l) + 1 /\ m[Len(l) + 1] = CString(acc.line)
  <2>1. CString(acc.line) \in Path
    BY <1>6, <1>7, LineOpIs
  <2> DEFINE e == CString(acc.line)
  <2> HIDE DEF e, l
  <2>2. m = Append(l, e) /\ e \in Path
    BY <1>10, <2>1 DEF e
  <2> HIDE DEF m
  <2>3. Len(m) = Len(l) + 1 /\ m[Len(l) + 1] = e
    BY <1>8, <2>2, AppendProperties
  <2> QED
    BY <2>3 DEF e
<1>12. n = Len(l) + 1 /\ CString(acc.line) = << >>
  <2>1. n <= Len(m) /\ m[n] = << >>
    BY <1>2 DEF BlankAt, new
  <2>2. n = Len(l) + 1
    BY <1>8, <1>9, <1>11, <2>1
  <2> QED
    BY <1>11, <2>1, <2>2
<1>13. acc.line = << >>
  <2>1. NoNul(acc.line)
    BY <1>1, <1>4, LineNoNul DEF acc
  <2>2. acc.line \in Path
    BY <1>6, <1>7, LineOpIs
  <2> QED
    BY <1>12, <2>1, <2>2, LineStays
<1>14. ~Blanks(l)
  <2> SUFFICES ASSUME NEW k \in 2..Len(l), l[k] = << >>
               PROVE  FALSE
    BY DEF Blanks
  <2>1. k \in 2..(n - 1) /\ k \in 1..Len(l)
    BY <1>8, <1>12
  <2>2. m[k] = << >>
    BY <1>8, <2>1 DEF Grows
  <2> QED
    BY <2>1, <2>2 DEF BlankAt, new
<1>15. V(s, K - 1) \in {"LF", "CR", "CRLF"}
  BY <1>5, <1>13, <1>14 DEF Knows, Under, acc
<1>16. \A j \in 0..(K - 1) : V(s, j) \notin Verdicts
  <2> SUFFICES ASSUME NEW j \in 0..(K - 1), V(s, j) \in Verdicts
               PROVE  FALSE
    OBVIOUS
  <2>1. j \in 0..L /\ K - 1 \in j..L
    BY <1>1, <1>4
  <2>2. V(s, K - 1) = V(s, j)
    BY <2>1, VerdictStays
  <2> QED
    BY <1>15, <2>2 DEF Verdicts
<1>17. c = "LF" \/ c = "CR"
  BY <1>10 DEF Newline
<1>18. /\ V(s, K - 1) \in States \cup Verdicts
       /\ 1..L = DOMAIN s /\ K - 1 \in 1..(L - 1) /\ K - 2 \in 1..(L - 1)
       /\ (K - 1) + 1 = K /\ (K - 2) + 1 = K - 1
       /\ (K < L => K \in 1..(L - 1) /\ K + 1 \in 1..L)
  BY <1>1, <1>4, <1>5, AtIs DEF Path
<1> DEFINE Good3 == \/ V(s, K) = "GOT" /\ ~(K < Len(s) /\ s[K] = "CR" /\ s[K + 1] = "LF")
                    \/ /\ V(s, K) = "CRLFCR" /\ s[K] = "CR" /\ s[K - 1] = "LF"
                       /\ K < Len(s) => s[K + 1] = "LF" /\ V(s, K + 1) = "GOT"
<1>19. ASSUME V(s, K - 1) = "LF"
       PROVE  Good3
  <2>1. s[K - 1] = "LF" /\ s[K - 2] \notin Newline
    BY <1>5, <1>19 DEF Knows
  <2>2. c # "CR"
    <3> SUFFICES ASSUME c = "CR"
                 PROVE  FALSE
      OBVIOUS
    <3>1. s[K - 2] = "CR" <=> s[(K - 2) + 1] = "LF"
      BY <1>4, <1>18, <2>1, UniformIs
    <3> QED
      BY <1>18, <2>1, <3>1 DEF Newline
  <2>3. V(s, K) = "GOT"
    BY <1>6, <1>17, <1>18, <1>19, <2>2, ScanRows
  <2> QED
    BY <2>2, <2>3
<1>20. ASSUME V(s, K - 1) = "CR"
       PROVE  Good3
  <2>1. s[K - 1] = "CR" /\ acc.cr
    BY <1>5, <1>20 DEF Knows, acc
  <2>2. c = "CR"
    BY <1>10, <1>17, <2>1
  <2>3. V(s, K) = "GOT"
    BY <1>6, <1>18, <1>20, <2>2, ScanRows
  <2>4. ASSUME K < L, s[K + 1] = "LF"
        PROVE  FALSE
    <3>1. s[K - 1] = "CR" <=> s[(K - 1) + 1] = "LF"
      BY <1>4, <1>18, <2>1, <2>4, UniformIs
    <3> QED
      BY <1>18, <2>1, <2>2, <3>1
  <2> QED
    BY <2>3, <2>4
<1>21. ASSUME V(s, K - 1) = "CRLF"
       PROVE  Good3
  <2>1. s[K - 1] = "LF" /\ s[K - 2] = "CR"
    BY <1>5, <1>21 DEF Knows
  <2>2. \A k \in 1..(L - 1) : s[k] = "CR" <=> s[k + 1] = "LF"
    BY <1>4, <1>5, <2>1, UniformIs
  <2>3. c # "LF"
    BY <1>18, <2>1, <2>2
  <2>4. V(s, K) = "CRLFCR" /\ c = "CR"
    BY <1>6, <1>17, <1>18, <1>21, <2>3, ScanRows
  <2>5. ASSUME K < L
        PROVE  s[K + 1] = "LF" /\ V(s, K + 1) = "GOT"
    <3>1. s[K + 1] = "LF"
      BY <1>18, <2>2, <2>4, <2>5
    <3>2. K + 1 \in 1..L
      BY <1>18, <2>5
    <3>3. V(s, K + 1) = ScanOp(V(s, K), s[K + 1])
      <4>1. V(s, K + 1) = ScanOp(V(s, (K + 1) - 1), s[K + 1])
        BY <1>1, <3>2, AtStep
      <4>2. (K + 1) - 1 = K
        OBVIOUS
      <4> QED
        BY <4>1, <4>2
    <3>4. V(s, K) \in States \cup Verdicts
      BY <1>1, AtIs
    <3> QED
      BY <2>4, <3>1, <3>2, <3>3, <3>4, ScanRows
  <2> QED
    BY <2>1, <2>4, <2>5
<1>22. Good3
  BY <1>15, <1>19, <1>20, <1>21
<1> QED
  BY <1>4, <1>16, <1>22


(* Some blank line is the first.                                            *)
LEMMA BlankFirst ==
  ASSUME NEW ls \in Seq(Path), Blanks(ls)
  PROVE  \E n \in Nat : BlankAt(ls, n)
<1> DEFINE N == {k \in 2..Len(ls) : ls[k] = << >>}
<1>1. N # {} /\ N \in SUBSET Nat /\ Len(ls) \in Nat
  BY DEF Blanks
<1>2. Min(N) \in N /\ \A y \in N : Min(N) <= y
  BY <1>1, MinIs
<1> DEFINE n == Min(N)
<1>3. n \in 2..Len(ls) /\ ls[n] = << >> /\ \A y \in N : n <= y
  BY <1>2
<1> HIDE DEF n
<1>4. ASSUME NEW i \in 2..(n - 1)
      PROVE  ls[i] # << >>
  <2>1. i \in 2..Len(ls) /\ ~(n <= i)
    BY <1>1, <1>3
  <2> QED
    BY <1>3, <2>1
<1>5. BlankAt(ls, n)
  BY <1>3, <1>4 DEF BlankAt
<1> QED
  BY <1>1, <1>3, <1>5

(* It is over at a place of the buffer, which LineEnd tells.                *)
LEMMA BlankPlace ==
  ASSUME NEW s \in Path, NEW n \in Nat, BlankAt(BufGets(s), n)
  PROVE  \E K \in 1..Len(s) :
           /\ BlankAt(A(s, K).lines, n)
           /\ \A j \in 1..Len(s) : Len(A(s, j).lines) >= n => K <= j
           /\ LineEnd(s, n) = IF K < Len(s) /\ s[K] = "CR" /\ s[K + 1] = "LF" THEN K + 1 ELSE K
<1> DEFINE m == BufGets(s)
<1>1. Len(s) \in Nat /\ Len(s) \in 0..Len(s) /\ SubSeq(s, 1, Len(s)) = s
  BY DEF Path
<1>2. m = A(s, Len(s)).lines /\ A(s, Len(s)) \in Lines
  BY <1>1, AtIs
<1>3. m \in Seq(Path) /\ Len(m) \in Nat
  BY <1>2 DEF Lines
<1>4. n \in 1..Len(m) /\ n \in 2..Len(m) /\ m[n] = << >> /\ \A i \in 2..(n - 1) : m[i] # << >>
  <2>1. n \in 2..Len(m) /\ m[n] = << >> /\ \A i \in 2..(n - 1) : m[i] # << >>
    BY DEF BlankAt
  <2> HIDE DEF m
  <2> QED
    BY <1>3, <2>1
<1>5. PICK K \in 1..Len(s) :
        /\ Len(BufGets(SubSeq(s, 1, K))) >= n
        /\ \A j \in 1..Len(s) : Len(BufGets(SubSeq(s, 1, j))) >= n => K <= j
        /\ LineEnd(s, n) = IF K < Len(s) /\ s[K] = "CR" /\ s[K + 1] = "LF" THEN K + 1 ELSE K
  BY <1>4, LineEndIs
<1>6. \A j \in 1..Len(s) : BufGets(SubSeq(s, 1, j)) = A(s, j).lines
  <2> TAKE j \in 1..Len(s)
  <2>1. j \in 0..Len(s)
    BY <1>1
  <2> QED
    BY <2>1, AtIs
<1>7. K \in 0..Len(s) /\ Len(s) \in K..Len(s)
  BY <1>1
<1> DEFINE l == A(s, K).lines
<1>8. l \in Seq(Path) /\ Len(l) \in Nat /\ Grows(l, m)
  <2>1. A(s, K) \in Lines
    BY <1>7, AtIs
  <2>2. Grows(l, A(s, Len(s)).lines)
    BY <1>7, LinesGrow
  <2> QED
    BY <1>2, <2>1, <2>2 DEF Lines
<1>9. Len(l) >= n
  BY <1>5, <1>6
<1> HIDE DEF l, m
<1>10. BlankAt(l, n)
  <2>1. n \in 2..Len(l) /\ n \in 1..Len(l)
    BY <1>4, <1>8, <1>9
  <2>2. \A i \in 2..(n - 1) : i \in 1..Len(l)
    BY <1>8, <1>9
  <2>3. l[n] = << >>
    BY <1>4, <1>8, <2>1 DEF Grows
  <2>4. \A i \in 2..(n - 1) : l[i] # << >>
    BY <1>4, <1>8, <2>2 DEF Grows
  <2> QED
    BY <2>1, <2>3, <2>4 DEF BlankAt
<1> QED
  BY <1>5, <1>6, <1>10 DEF l

(* The body of a request is right behind it.                                *)
LEMMA BodyPlace ==
  ASSUME NEW s \in Path, NEW t \in 1..Len(s), V(s, t) = "GOT", FirstEnd(s) < t,
         \A j \in 0..(t - 1) : V(s, j) \notin Verdicts,
         LET h == httpd_parse_request(FreshConn, s).hc IN h.status = 0 /\ h.mime_flag,
         Uniform(s), \A i \in 1..t : s[i] # "NUL"
  PROVE  httpd_parse_request(FreshConn, s).checked_idx = t
<1> DEFINE m == BufGets(s)
<1>1. /\ Len(s) \in Nat /\ Len(s) \in 0..Len(s) /\ SubSeq(s, 1, Len(s)) = s
      /\ t \in 0..Len(s) /\ Len(s) \in t..Len(s) /\ t \in Nat /\ t <= Len(s)
  BY DEF Path
<1>2. V(s, Len(s)) = "GOT"
  <2>1. V(s, t) \in Verdicts
    BY DEF Verdicts
  <2> QED
    BY <1>1, <2>1, VerdictStays
<1>3. PICK n \in Nat : /\ BlankAt(m, n)
                       /\ httpd_parse_request(FreshConn, s).checked_idx = LineEnd(s, n)
  BY <1>2, StopsAtBlank
<1>4. Three(s)
  BY <1>2, StopsAtBlank
<1>5. PICK K \in 1..Len(s) :
        /\ BlankAt(A(s, K).lines, n)
        /\ \A j \in 1..Len(s) : Len(A(s, j).lines) >= n => K <= j
        /\ LineEnd(s, n) = IF K < Len(s) /\ s[K] = "CR" /\ s[K + 1] = "LF" THEN K + 1 ELSE K
  BY <1>3, BlankPlace
<1> DEFINE l == A(s, t).lines
<1>6. Grows(l, m) /\ Blanks(l) /\ l \in Seq(Path)
  <2>1. m = A(s, Len(s)).lines
    BY <1>1, AtIs
  <2>2. Grows(l, A(s, Len(s)).lines)
    BY <1>1, LinesGrow
  <2>3. Blanks(l) /\ l \in Seq(Path)
    BY <1>4, TakenWords
  <2> QED
    BY <2>1, <2>2, <2>3
<1>7. K <= t
  <2> HIDE DEF l, m
  <2>1. PICK k \in 2..Len(l) : l[k] = << >>
    BY <1>6 DEF Blanks
  <2>2. Len(l) \in Nat /\ k \in 1..Len(l)
    BY <1>6
  <2>3. m[k] = << >>
    BY <1>6, <2>1, <2>2 DEF Grows
  <2>4. ~(k \in 2..(n - 1))
    BY <1>3, <2>3 DEF BlankAt
  <2>5. Len(l) >= n
    BY <2>1, <2>2, <2>4
  <2> QED
    BY <1>5, <2>5 DEF l
<1>8. \A i \in 1..K : s[i] # "NUL"
  BY <1>1, <1>7
<1>9. /\ K > 1 /\ K - 1 \in 1..Len(s)
      /\ \A j \in 0..(K - 1) : V(s, j) \notin Verdicts
      /\ \/ V(s, K) = "GOT" /\ ~(K < Len(s) /\ s[K] = "CR" /\ s[K + 1] = "LF")
         \/ /\ V(s, K) = "CRLFCR" /\ s[K] = "CR" /\ s[K - 1] = "LF"
            /\ K < Len(s) => s[K + 1] = "LF" /\ V(s, K + 1) = "GOT"
  BY <1>4, <1>5, <1>8, FirstBlank
<1>10. CASE V(s, K) = "GOT" /\ ~(K < Len(s) /\ s[K] = "CR" /\ s[K + 1] = "LF")
  <2>1. ~(K \in 0..(t - 1))
    BY <1>10 DEF Verdicts
  <2>2. K = t
    BY <1>1, <1>7, <2>1
  <2> QED
    BY <1>3, <1>5, <1>10, <2>2
<1>11. CASE /\ V(s, K) = "CRLFCR" /\ s[K] = "CR" /\ s[K - 1] = "LF"
            /\ K < Len(s) => s[K + 1] = "LF" /\ V(s, K + 1) = "GOT"
  <2>1. K # t
    BY <1>11
  <2>2. K < Len(s) /\ K + 1 <= t /\ K \in Nat
    BY <1>1, <1>7, <2>1
  <2>3. s[K + 1] = "LF" /\ V(s, K + 1) = "GOT"
    BY <1>11, <2>2
  <2>4. ~(K + 1 \in 0..(t - 1))
    BY <2>3 DEF Verdicts
  <2>5. K + 1 = t
    BY <1>1, <2>2, <2>4
  <2> QED
    BY <1>3, <1>5, <1>11, <2>2, <2>3, <2>5
<1> QED
  BY <1>9, <1>10, <1>11


-----------------------------------------------------------------------------
(* A request is made of its own bytes                                       *)

(* Where the parser stopped when it took what was read.                     *)
ParsedAt ==
  checked_state = "GOT" => checked_idx = httpd_parse_request(FreshConn, Got).checked_idx

(* Every step.                                                             *)
LEMMA ParsedAtNext == ReqInv /\ ParsedAt /\ [Next]_vars => ParsedAt'
<1> SUFFICES ASSUME ReqInv, ParsedAt, [Next]_vars PROVE ParsedAt'
  OBVIOUS
<1>1. CASE Accept
  BY <1>1 DEF Accept, ParsedAt
<1>2. CASE ReadTooLong \/ ReadFails \/ ReadNothing
  BY <1>2 DEF ReadTooLong, ReadFails, ReadNothing, ReqInv, ParsedAt, Verdicts
<1>3. ASSUME NEW sz \in 1..Len(sent), ReadSome(sz)
      PROVE  ParsedAt'
  <2> DEFINE s == SubSeq(sent, 1, read_idx + sz)
             new == SubSeq(sent, read_idx + 1, read_idx + sz)
             st == GotRequest(checked_state, new)
             parse == httpd_parse_request(FreshConn, s)
  <2>1. Got' = s /\ hc = FreshConn /\ CheckNew(new, s)
    BY <1>3 DEF ReadSome, ReqInv, Got
  <2> HIDE DEF s, new
  <2>2. checked_state' = st
    BY <2>1 DEF CheckNew, Look, Settle
  <2>3. st = "GOT" => checked_idx' = parse.checked_idx
    BY <2>1 DEF CheckNew, Look
  <2> QED
    BY <2>1, <2>2, <2>3 DEF ParsedAt
<1>4. CASE UNCHANGED vars
  BY <1>4 DEF vars, ParsedAt, Got
<1> QED
  BY <1>1, <1>2, <1>3, <1>4 DEF Next, handle_read

(* What a request is made of, of the bytes it was taken from.               *)
LEMMA OwnBytes ==
  ASSUME ReqInv, ParsedAt
  PROVE  OwnBytesOnly
<1> SUFFICES ASSUME checked_state = "GOT"
             PROVE  LET taken == Taken(Got)
                    IN /\ WordCount(taken) \in {2, 3}
                       /\ WordCount(taken) = 3 => Contains(Tail(BufGets(taken)), << >>)
                       /\ pc # "reading" => hc = httpd_parse_request(FreshConn, taken).hc
                       /\ (pc = "parsed" /\ hc.mime_flag /\ Uniform(Got)
                             /\ ~Contains(taken, "NUL")) => checked_idx = Len(taken)
  BY DEF OwnBytesOnly, Got
<1> DEFINE s == Got
<1>1. /\ s \in Path /\ hc = httpd_parse_request(FreshConn, s).hc
      /\ GotRequest("FIRSTWORD", s) = "GOT"
      /\ checked_idx = httpd_parse_request(FreshConn, s).checked_idx
      /\ pc = "parsed" => hc.status = 0
  BY PrefixType DEF ReqInv, Got, ParsedAt
<1> HIDE DEF s
<1>2. /\ Len(s) \in Nat /\ Len(s) \in 0..Len(s) /\ SubSeq(s, 1, Len(s)) = s
  BY <1>1 DEF Path
<1>3. V(s, Len(s)) = "GOT"
  BY <1>1, <1>2, AtIs
<1>4. PICK t \in 1..Len(s) :
        /\ Taken(s) = SubSeq(s, 1, t) /\ V(s, t) = "GOT"
        /\ \A m \in 0..(t - 1) : V(s, m) \notin Verdicts
        /\ FirstEnd(s) < t
  BY <1>1, <1>3, TakenIs
<1> DEFINE z == SubSeq(s, 1, t)
<1>5. /\ t \in 0..Len(s)
      /\ z \in Path /\ Len(z) = t /\ \A i \in 1..t : z[i] = s[i]
  <2>1. t \in 0..Len(s) /\ t \in Nat /\ t <= Len(s) /\ 1 \in Nat \ {0} /\ t - 1 + 1 = t
    BY <1>2
  <2>2. \A k \in 1..(t - 1 + 1) : z[k] = s[1 + k - 1]
    BY <1>1, <2>1, SubPath
  <2>3. \A k \in 1..t : 1 + k - 1 = k
    BY <2>1
  <2>4. z \in Path /\ Len(z) = t
    BY <1>1, <2>1, PrefixType
  <2> QED
    BY <2>1, <2>2, <2>3, <2>4
<1>6. /\ WordCount(z) \in {2, 3}
      /\ WordCount(z) = 3 => Blanks(A(s, t).lines)
      /\ A(s, t).lines \in Seq(Path) \ {<< >>}
      /\ BufGets(z) = A(s, t).lines
  BY <1>1, <1>4, <1>5, TakenWords, AtIs
<1>7. WordCount(z) = 3 => Contains(Tail(BufGets(z)), << >>)
  BY <1>6, BlanksTail
<1>8. hc = httpd_parse_request(FreshConn, z).hc
  BY <1>1, <1>4, SameFields
<1>9. ASSUME pc = "parsed", hc.mime_flag, Uniform(s), ~Contains(z, "NUL")
      PROVE  checked_idx = Len(z)
  <2>1. \A i \in 1..t : s[i] # "NUL"
    <3>1. DOMAIN z = 1..t
      BY <1>5 DEF Path
    <3> HIDE DEF z
    <3> QED
      BY <1>5, <1>9, <3>1 DEF Contains
  <2>2. httpd_parse_request(FreshConn, s).checked_idx = t
    BY <1>1, <1>4, <1>9, <2>1, BodyPlace
  <2> QED
    BY <1>1, <1>5, <2>2
<1>10. Taken(s) = z
  BY <1>4
<1> HIDE DEF z
<1> QED
  BY <1>6, <1>7, <1>8, <1>9, <1>10 DEF s

(* Whatever the newlines, a request that is taken has a first line of two   *)
(* words, or of three and a blank line below it; the bytes that came        *)
(* behind it, the cuts between the reads and the connection before it make  *)
(* no difference to its fields; and where the newlines are of one kind its  *)
(* body starts right behind it.                                             *)
THEOREM ReqOwnBytesOnly == Spec => []OwnBytesOnly
<1>1. Init => ParsedAt
  BY DEF Init, ParsedAt
<1>2. Spec => []ParsedAt
  BY <1>1, ParsedAtNext, ReqOwnFields, PTL DEF Spec
<1>3. ReqInv /\ ParsedAt => OwnBytesOnly
  BY OwnBytes
<1> QED
  BY <1>2, <1>3, ReqOwnFields, PTL

-----------------------------------------------------------------------------
(* A request is taken as soon as it is complete                             *)

(* Taking the first lines of a request: the same bytes, the same lines.     *)
LEMMA GotComplete ==
  ASSUME NEW s \in Path, V(s, Len(s)) = "GOT"
  PROVE  Complete(s)
<1> DEFINE p == FirstEnd(s)
<1>1. /\ Len(s) \in Nat /\ Len(s) \in 0..Len(s) /\ SubSeq(s, 1, Len(s)) = s
  BY DEF Path
<1>2. p < Len(s) /\ p \in 0..Len(s) /\ Len(s) \in 1..Len(s) /\ Len(s) \in p..Len(s) /\ p \in 0..p
  BY <1>1, GotOver, FirstLineIs
<1>3. FirstLine(s) # s /\ FirstLine(s) = SubSeq(s, 1, p)
  BY <1>2, FirstLineIs DEF FirstEnd
<1>4. /\ WordCount(s) \in {2, 3} /\ (WordCount(s) = 3 => Three(s))
      /\ (Three(s) => Blanks(A(s, Len(s)).lines))
      /\ (~Three(s) => V(s, p) = "SECONDWORD")
  BY <1>1, <1>2, TakenWords
<1>5. V(s, p) \in {"THIRDWORD", "THIRDWS"} => WordCount(s) = 3
  BY <1>1, <1>2, CountIs
<1>6. WordCount(s) = 2 => Last(FirstLine(s)) # "SP"
  <2> SUFFICES ASSUME WordCount(s) = 2
               PROVE  Last(SubSeq(s, 1, p)) # "SP"
    BY <1>3
  <2>1. V(s, p) = "SECONDWORD"
    BY <1>4, <1>5 DEF Three
  <2>2. p > 0 /\ s[p] # "SP"
    BY <1>2, <2>1, FirstSpaced DEF Spaced
  <2>3. Len(SubSeq(s, 1, p)) = p /\ SubSeq(s, 1, p)[p] = s[p]
    <3>1. p \in Nat /\ p <= Len(s) /\ 1 \in Nat \ {0} /\ p - 1 + 1 = p /\ 1 <= p /\ p \in 1..p /\ 1 + p - 1 = p
      BY <1>1, <1>2, <2>2
    <3> HIDE DEF p
    <3>2. /\ Len(SubSeq(s, 1, p)) = IF 1 <= p THEN p - 1 + 1 ELSE 0
          /\ \A k \in 1..(p - 1 + 1) : SubSeq(s, 1, p)[k] = s[1 + k - 1]
      BY <3>1, SubPath
    <3> QED
      BY <3>1, <3>2
  <2> QED
    BY <2>2, <2>3 DEF Last
<1>7. ~Malformed(s)
  BY <1>4, <1>6 DEF Malformed
<1>8. WordCount(s) = 3 => \E i \in DOMAIN BufGets(s) : i > 1 /\ BufGets(s)[i] = << >>
  <2> SUFFICES ASSUME WordCount(s) = 3
               PROVE  \E i \in DOMAIN BufGets(s) : i > 1 /\ BufGets(s)[i] = << >>
    OBVIOUS
  <2> DEFINE m == BufGets(s)
  <2>1. m = A(s, Len(s)).lines /\ A(s, Len(s)) \in Lines
    BY <1>1, AtIs
  <2>2. m \in Seq(Path) /\ Blanks(m)
    BY <1>4, <2>1 DEF Lines
  <2> HIDE DEF m
  <2>3. PICK k \in 2..Len(m) : m[k] = << >>
    BY <2>2 DEF Blanks
  <2>4. k \in DOMAIN m /\ k > 1
    BY <2>2, <2>3
  <2> QED
    BY <2>3, <2>4 DEF m
<1> QED
  BY <1>3, <1>7, <1>8 DEF Complete


(* Bytes the scanner has not settled are no request yet: at most the LF of  *)
(* the blank line's CR LF is to come.                                       *)
LEMMA OpenIncomplete ==
  ASSUME NEW z \in Path, V(z, Len(z)) \notin Verdicts, Uniform(z), NoNul(z)
  PROVE  /\ ~Malformed(z)
         /\ Complete(z) => /\ Len(z) > 1 /\ Len(z) - 1 \in 1..Len(z)
                           /\ z[Len(z)] = "CR" /\ z[Len(z) - 1] = "LF"
<1> DEFINE p == FirstEnd(z)
<1>1. /\ Len(z) \in Nat /\ Len(z) \in 0..Len(z) /\ SubSeq(z, 1, Len(z)) = z
  BY DEF Path
<1>2. /\ p \in 0..Len(z) /\ FirstLine(z) = SubSeq(z, 1, p)
      /\ FirstLine(z) # z => p < Len(z)
  <2>1. p \in 0..Len(z) /\ FirstLine(z) = SubSeq(z, 1, p)
    BY FirstLineIs
  <2>2. p = Len(z) => FirstLine(z) = z
    BY <1>1, <2>1
  <2> QED
    BY <1>1, <2>1, <2>2
<1>3. FirstLine(z) # z => Three(z) /\ WordCount(z) = 3
  <2> SUFFICES ASSUME FirstLine(z) # z
               PROVE  Three(z) /\ WordCount(z) = 3
    OBVIOUS
  <2>1. p < Len(z) /\ Len(z) \in p..Len(z)
    BY <1>1, <1>2
  <2>2. V(z, Len(z)) # "BAD" /\ V(z, Len(z)) # "GOT"
    BY DEF Verdicts
  <2>3. Three(z)
    BY <1>1, <2>1, <2>2, TwoOrThree
  <2>4. WordCount(SubSeq(z, 1, Len(z))) = 3
    BY <2>1, <2>3, CountIs DEF Three
  <2> QED
    BY <1>1, <2>3, <2>4
<1>4. ~Malformed(z)
  BY <1>3 DEF Malformed
<1>5. ASSUME Complete(z)
      PROVE  /\ Len(z) > 1 /\ Len(z) - 1 \in 1..Len(z)
             /\ z[Len(z)] = "CR" /\ z[Len(z) - 1] = "LF"
  <2>1. Three(z) /\ \E i \in DOMAIN BufGets(z) : i > 1 /\ BufGets(z)[i] = << >>
    BY <1>3, <1>5 DEF Complete
  <2> DEFINE m == BufGets(z)
  <2>2. m \in Seq(Path)
    <3>1. m = A(z, Len(z)).lines /\ A(z, Len(z)) \in Lines
      BY <1>1, AtIs
    <3> QED
      BY <3>1 DEF Lines
  <2>3. PICK i \in DOMAIN m : i > 1 /\ m[i] = << >>
    BY <2>1
  <2> HIDE DEF m
  <2>4. i \in 2..Len(m)
    BY <2>2, <2>3
  <2>5. Blanks(m)
    BY <2>3, <2>4 DEF Blanks
  <2>6. PICK n \in Nat : BlankAt(m, n)
    BY <2>2, <2>5, BlankFirst
  <2>7. PICK K \in 1..Len(z) :
          /\ BlankAt(A(z, K).lines, n)
          /\ \A j \in 1..Len(z) : Len(A(z, j).lines) >= n => K <= j
    BY <2>6, BlankPlace DEF m
  <2>8. \A j \in 1..K : z[j] # "NUL"
    BY <1>1 DEF NoNul
  <2>9. /\ K > 1 /\ K - 1 \in 1..Len(z)
        /\ \/ V(z, K) = "GOT" /\ ~(K < Len(z) /\ z[K] = "CR" /\ z[K + 1] = "LF")
           \/ /\ V(z, K) = "CRLFCR" /\ z[K] = "CR" /\ z[K - 1] = "LF"
              /\ K < Len(z) => z[K + 1] = "LF" /\ V(z, K + 1) = "GOT"
    BY <2>1, <2>7, <2>8, FirstBlank
  <2>10. ASSUME NEW j \in 0..Len(z)
         PROVE  V(z, j) \notin Verdicts
    <3> SUFFICES ASSUME V(z, j) \in Verdicts
                 PROVE  FALSE
      OBVIOUS
    <3>1. Len(z) \in j..Len(z)
      BY <1>1
    <3>2. V(z, Len(z)) = V(z, j)
      BY <3>1, VerdictStays
    <3> QED
      BY <3>2
  <2>11. K \in 0..Len(z) /\ (K < Len(z) => K + 1 \in 0..Len(z)) /\ K \in Nat
    BY <1>1
  <2>12. V(z, K) # "GOT" /\ (K < Len(z) => V(z, K + 1) # "GOT")
    BY <2>10, <2>11 DEF Verdicts
  <2>13. ~(K < Len(z))
    BY <2>9, <2>12
  <2>14. K = Len(z)
    <3> DEFINE d == Len(z)
    <3>1. K \in 1..d
      OBVIOUS
    <3>2. d \in Nat /\ ~(K < d)
      BY <1>1, <2>13
    <3> HIDE DEF d
    <3>3. K <= d /\ K \in Nat /\ d <= K
      BY <3>1, <3>2
    <3>4. K = d
      BY <3>2, <3>3
    <3> QED
      BY <3>4 DEF d
  <2> QED
    BY <2>9, <2>12, <2>14
<1> QED
  BY <1>4, <1>5

(* Without its last byte: the scanner has been there.                       *)
LEMMA FrontIs ==
  ASSUME NEW s \in Path, s # << >>
  PROVE  /\ Front(s) \in Path /\ Len(Front(s)) = Len(s) - 1 /\ Len(s) - 1 \in 0..Len(s)
         /\ \A i \in 1..(Len(s) - 1) : Front(s)[i] = s[i]
         /\ V(Front(s), Len(s) - 1) = V(s, Len(s) - 1)
<1> DEFINE n == Len(s) - 1
           z == SubSeq(s, 1, n)
<1>1. Len(s) \in Nat /\ Len(s) # 0
  BY DEF Path
<1>2. n \in 0..Len(s) /\ n \in Nat /\ n <= Len(s) /\ n - 1 + 1 = n
  BY <1>1
<1> HIDE DEF n
<1>3. z \in Path /\ Len(z) = n
  BY <1>2, PrefixType
<1>4. \A k \in 1..(n - 1 + 1) : z[k] = s[1 + k - 1]
  <2>1. 1 \in Nat \ {0} /\ n \in Nat /\ n <= Len(s)
    BY <1>2
  <2> QED
    BY <2>1, SubPath
<1>5. \A k \in 1..n : z[k] = s[k]
  <2> TAKE k \in 1..n
  <2>1. 1 + k - 1 = k /\ k \in 1..(n - 1 + 1)
    BY <1>2
  <2> QED
    BY <1>4, <2>1
<1>6. SubSeq(z, 1, n) = z
  BY <1>3 DEF Path
<1>7. Front(s) = z
  BY DEF Front, n
<1>8. V(z, n) = V(s, n)
  BY <1>6 DEF V
<1> QED
  BY <1>2, <1>3, <1>5, <1>7, <1>8 DEF n

(* While the scanner has not settled it, nothing complete is in the buffer.*)
LEMMA OpenSettled ==
  ASSUME NEW s \in Path, V(s, Len(s)) \notin Verdicts, Uniform(s), NoNul(s)
  PROVE  ~Complete(Settled(s)) /\ ~Malformed(s)
<1>1. Len(s) \in Nat /\ DOMAIN s = 1..Len(s)
  BY DEF Path
<1>2. ~Malformed(s)
  BY OpenIncomplete
<1>3. CASE Settled(s) = s /\ ~(Contains(s, "LF") /\ Last(s) = "CR")
  <2> SUFFICES ASSUME Complete(s)
               PROVE  FALSE
    BY <1>2, <1>3
  <2>1. /\ Len(s) > 1 /\ Len(s) - 1 \in 1..Len(s)
        /\ s[Len(s)] = "CR" /\ s[Len(s) - 1] = "LF"
    BY OpenIncomplete
  <2>2. Contains(s, "LF") /\ Last(s) = "CR"
    BY <1>1, <2>1 DEF Contains, Last
  <2> QED
    BY <1>3, <2>2
<1>4. CASE Settled(s) = Front(s) /\ Contains(s, "LF") /\ Last(s) = "CR"
  <2> DEFINE z == Front(s)
             n == Len(s) - 1
  <2>1. PICK j \in 1..Len(s) : s[j] = "LF"
    BY <1>1, <1>4 DEF Contains
  <2>2. s # << >> /\ Len(s) \in 1..Len(s) /\ s[Len(s)] = "CR"
    BY <1>1, <1>4, <2>1 DEF Last
  <2>3. \A k \in 1..n : s[k] = "CR" <=> s[k + 1] = "LF"
    BY <2>1, <2>2, UniformIs
  <2>4. z \in Path /\ Len(z) = n /\ n \in 0..Len(s) /\ n \in Nat /\ n + 1 = Len(s)
        /\ \A i \in 1..n : z[i] = s[i]
    <3>1. z \in Path /\ Len(z) = n /\ n \in 0..Len(s) /\ \A i \in 1..n : z[i] = s[i]
      BY <2>2, FrontIs
    <3>2. n \in Nat /\ n + 1 = Len(s)
      BY <1>1, <3>1
    <3> QED
      BY <3>1, <3>2
  <2>5. V(z, n) = V(s, n)
    BY <2>2, FrontIs
  <2>6. V(z, Len(z)) \notin Verdicts
    <3> SUFFICES ASSUME V(s, n) \in Verdicts
                 PROVE  FALSE
      BY <2>4, <2>5
    <3>1. Len(s) \in n..Len(s)
      BY <2>4
    <3> HIDE DEF n
    <3>2. V(s, Len(s)) = V(s, n)
      BY <2>4, <3>1, VerdictStays
    <3> QED
      BY <3>2
  <2> HIDE DEF z, n
  <2>7. NoNul(z)
    <3>1. \A i \in 1..n : i \in 1..Len(s)
      BY <2>4
    <3> QED
      BY <2>4, <3>1 DEF NoNul
  <2>8. Uniform(z)
    <3>1. DOMAIN z = 1..n
      BY <2>4 DEF Path
    <3>2. ASSUME NEW k \in 1..n
          PROVE  (z[k] = "CR" /\ k < n) <=> (k < n /\ z[k + 1] = "LF")
      <4>1. k < n => k + 1 \in 1..n
        BY <2>4
      <4>2. k < n => z[k + 1] = s[k + 1]
        BY <2>4, <4>1
      <4>3. z[k] = s[k] /\ (s[k] = "CR" <=> s[k + 1] = "LF")
        BY <2>3, <2>4
      <4> QED
        BY <4>2, <4>3
    <3> QED
      BY <2>4, <3>1, <3>2 DEF Uniform
  <2>9. ASSUME Complete(z)
        PROVE  FALSE
    <3>1. n > 1 /\ z[n] = "CR"
      BY <2>4, <2>6, <2>7, <2>8, <2>9, OpenIncomplete
    <3>2. n \in 1..n
      BY <2>4, <3>1
    <3>3. s[n + 1] = "LF"
      BY <2>3, <2>4, <3>1, <3>2
    <3> QED
      BY <2>2, <2>4, <3>3
  <2> QED
    BY <1>2, <1>4, <2>9 DEF z
<1> QED
  BY <1>3, <1>4 DEF Settled

(* A request whose newlines are of one kind is taken as soon as it is       *)
(* complete, however the reads cut it up: while the entry reads, nothing    *)
(* complete or malformed is in the buffer, and what was taken is complete.  *)
THEOREM ReqGotExactly == Spec => []GotExactly
<1>1. ASSUME ReqInv
      PROVE  GotExactly
  <2> DEFINE s == Got
  <2>1. s \in Path
    BY <1>1, PrefixType DEF ReqInv, Got
  <2>2. pc = "parsed" => checked_state = "GOT"
    BY <1>1 DEF ReqInv
  <2>3. checked_state = "GOT" => GotRequest("FIRSTWORD", s) = "GOT"
    BY <1>1 DEF ReqInv
  <2>4. pc = "reading" => GotRequest("FIRSTWORD", s) \notin Verdicts
    BY <1>1 DEF ReqInv
  <2> HIDE DEF s
  <2>5. Len(s) \in 0..Len(s) /\ SubSeq(s, 1, Len(s)) = s /\ DOMAIN s = 1..Len(s)
    BY <2>1 DEF Path
  <2>6. GotRequest("FIRSTWORD", s) = V(s, Len(s))
    BY <2>1, <2>5, AtIs
  <2>7. ASSUME Uniform(s), ~Contains(s, "NUL")
        PROVE  /\ pc = "reading" => ~Complete(Settled(s)) /\ ~Malformed(s)
               /\ pc = "parsed" => Complete(s)
    <3>1. NoNul(s)
      BY <2>5, <2>7 DEF NoNul, Contains
    <3>2. CASE pc = "reading"
      <4>1. V(s, Len(s)) \notin Verdicts
        BY <2>4, <2>6, <3>2
      <4>2. ~Complete(Settled(s)) /\ ~Malformed(s)
        BY <2>1, <2>7, <3>1, <4>1, OpenSettled
      <4> QED
        BY <3>2, <4>2
    <3>3. CASE pc = "parsed"
      <4>1. V(s, Len(s)) = "GOT"
        BY <2>2, <2>3, <2>6, <3>3
      <4> QED
        BY <2>1, <3>3, <4>1, GotComplete
    <3> QED
      BY <3>2, <3>3
  <2> QED
    BY <2>7 DEF GotExactly, s, Got
<1> QED
  BY <1>1, ReqOwnFields, PTL


=============================================================================
