--------------------------- MODULE SessionProofs ----------------------------
(***************************************************************************)
(* Proofs about Session for any header, upload, file size, buffer, window  *)
(* and timeout.  A stream is a function from positions to bytes: Request   *)
(* is all the client may send, Answer the reply to an undisturbed GET.     *)
(* What is held at either end or on the wire is a piece of its stream, and *)
(* the invariants say from which position.                                 *)
(***************************************************************************)
EXTENDS Session, SequenceLemmas, TLAPS

Kinds == {"\n", "OK", "ERR", "GET", "PUT", "HEALTH", "BAD", "data", "more",
          "old", "new"}
Byte == Kinds \X Nat

ClientState ==
  [pc : {"status", "final", "body", "done"}, ret : {None, 0, 1},
   line : Seq(Byte), got : Seq(Byte), need : Nat, out : Seq(Byte)]
ServerState ==
  [pc : {"check", "recv", "parse", "body", "store", "closing", "closed"},
   now : Nat, until : Nat, line : Seq(Byte), left : Seq(Byte),
   total : Nat, sent : Nat, round : Nat,
   staged : Seq(Byte), out : Seq(Byte)]

Types ==
  /\ call \in Calls
  /\ c \in ClientState /\ s \in ServerState
  /\ up \in Seq(Byte) /\ down \in Seq(Byte)
  /\ open \subseteq {"client", "server", "link"}
  /\ version \in {"old", "new"}
  /\ s.pc = "parse" => s.line # <<>>

(* An end closes its socket when it is done, and not before; then it has   *)
(* nothing to send.  Nothing is answered before the header is parsed.      *)
Reading == s.pc \in {"check", "recv", "parse"}
Quiet == c.line = <<>> /\ down = <<>> /\ s.out = <<>>
Ends ==
  /\ "client" \in open <=> c.pc # "done"
  /\ "server" \in open <=> s.pc # "closed"
  /\ c.pc = "done" => c.out = <<>>
  /\ s.pc = "closed" => s.out = <<>>
  /\ c.ret # None => c.pc = "done"
  /\ Reading => Quiet /\ c.pc \in {"status", "done"}

(* The deadline is kept before every select, the limit before every recv.  *)
InTime == s.now <= s.until /\ s.until < Deadline + Milli
InLimit ==
  /\ s.pc = "recv" => Len(s.line) < LineLimit
  /\ HeaderBounded

-----------------------------------------------------------------------------
(* The bytes of q are those of the stream f after the first from.          *)
Along(q, f, from) == \A i \in 1 .. Len(q) : q[i] = f[from + i]

(* The way up.                                                             *)
BodyLen == IF call.op = "PUT" THEN call.size ELSE 0
Request ==
  [i \in Nat |->
     IF i < call.header THEN <<call.op, call.size>>
     ELSE IF i = call.header THEN Newline
     ELSE IF i <= call.header + BodyLen THEN <<"data", i - call.header>>
     ELSE <<"more", i - (call.header + BodyLen)>>]

(* What the server has taken from the stream, what the client has sent of  *)
(* it, and what is still to come.                                          *)
Used == Len(s.line) + Len(s.left) + Len(s.staged)
Sent == Used + Len(up)
Coming == Along(up, Request, Used) /\ Along(c.out, Request, Sent)
Complete == s.pc = "store" /\ Len(s.staged) = s.total

UpInv ==
  Reading \/ s.pc = "store" =>
    /\ Along(s.line, Request, 0)
    /\ Along(s.left, Request, Len(s.line))
    /\ Along(s.staged, Request, Len(s.line))
    /\ s.left # <<>> => s.staged = <<>>
    /\ Reading => s.staged = <<>>
    /\ s.pc \in {"check", "recv"} => /\ Len(s.line) < call.header
                                     /\ s.left = <<>>
    /\ s.pc \in {"parse", "store"} => Len(s.line) = call.header
    /\ s.pc = "store" => /\ call.op = "PUT" /\ s.total = call.size
                         /\ Len(s.staged) <= s.total
    /\ Complete \/ Coming
    /\ ~call.eager => Sent + Len(c.out) <=
         call.header + IF c.pc = "status" THEN 0 ELSE BodyLen

-----------------------------------------------------------------------------
(* The way down, for an upload: the bytes of one OK line, in order, spread *)
(* over what the client has of it, the wire, and the server.               *)
Given == Len(c.line) + Len(down)
Together ==
  /\ Given + Len(s.out) = 2 /\ Len(c.line) <= 1
  /\ Along(c.line, OkLine(0), 0)
  /\ Along(down, OkLine(0), Len(c.line))
  /\ Along(s.out, OkLine(0), Given)

(* Before the upload is stored, no OK follows the first one.               *)
NoOk(q) == \A i \in 1 .. Len(q) : q[i][1] # "OK"
OkFirst(q) == \A i \in 1 .. Len(q) : q[i][1] = "OK" => i = 1
OneOk ==
  /\ c.pc = "status" =>
       /\ OkFirst(c.line) /\ OkFirst(down) /\ OkFirst(s.out)
       /\ NoOk(down) \/ c.line = <<>>
       /\ NoOk(s.out) \/ (c.line = <<>> /\ down = <<>>)
  /\ c.pc = "final" => NoOk(c.line) /\ NoOk(down) /\ NoOk(s.out)

PutInv ==
  /\ stored # None => /\ stored \in {Data, Torn} /\ call.op = "PUT"
                      /\ s.pc \in {"closing", "closed"}
  /\ call.op = "PUT" =>
       /\ c.pc # "body" /\ s.pc # "body"
       /\ c.ret = 0 => stored # None
       /\ stored = None => OneOk
       /\ s.pc = "store" => /\ c.pc = "status" => Together
                            /\ c.pc = "final" => Quiet
       /\ ~call.eager /\ call.size > 0 =>
            /\ stored # None /\ c.pc # "done" =>
                 c.pc = "final" /\ c.out = <<>> /\ up = <<>> /\ Together
            /\ "link" \in open /\ c.ret = 1 =>
                 stored = None /\ s.pc \in {"closing", "closed"}

-----------------------------------------------------------------------------
(* The way down, for a download that is not disturbed.                     *)
Answer ==
  [i \in Nat |-> IF i = 1 THEN <<"OK", FileSize>>
                 ELSE IF i = 2 THEN Newline
                 ELSE <<"old", i - 2>>]

Refused ==
  /\ c.pc = "status" /\ s.pc \in {"closing", "closed"}
  /\ NoOk(c.line) /\ NoOk(down) /\ NoOk(s.out)

(* How much of the answer the client has, and how much is out.             *)
Position == IF c.pc = "status" THEN Len(c.line) ELSE 2 + Len(c.got)
Emitted == Position + Len(down)

Serving ==
  /\ s.pc \in {"body", "closing", "closed"}
  /\ s.total = FileSize /\ s.sent <= s.total
  /\ c.pc = "status" => Len(c.line) <= 1 /\ Along(c.line, Answer, 0)
  /\ c.pc = "body" => /\ c.need = FileSize /\ Len(c.got) < FileSize
                      /\ Along(c.got, Answer, 2)
  /\ Along(down, Answer, Position)
  /\ Along(s.out, Answer, Emitted)
  /\ s.pc = "body" => Emitted + Len(s.out) = 2 + s.sent

GetInv ==
  call.op = "GET" =>
    /\ c.pc # "final" /\ s.pc # "store"
    /\ Reading => s.sent = 0
    /\ version = "old" /\ c.pc # "done" => Reading \/ Refused \/ Serving
    /\ QuietGetIsFile

-----------------------------------------------------------------------------
(* The lesser of two numbers. *)
LEMMA MinOfTwo ==
  ASSUME NEW a \in Int, NEW b \in Int
  PROVE  Min({a, b}) = IF a <= b THEN a ELSE b
<1>1. \E x \in {a, b} : \A y \in {a, b} : x <= y
  OBVIOUS
<1>2. Min({a, b}) \in {a, b} /\ \A y \in {a, b} : Min({a, b}) <= y
  BY <1>1 DEF Min
<1> QED BY <1>2

(* The greater of two numbers. *)
LEMMA MaxOfTwo ==
  ASSUME NEW a \in Int, NEW b \in Int
  PROVE  Max({a, b}) = IF a >= b THEN a ELSE b
<1>1. \E x \in {a, b} : \A y \in {a, b} : x >= y
  OBVIOUS
<1>2. Max({a, b}) \in {a, b} /\ \A y \in {a, b} : Max({a, b}) >= y
  BY <1>1 DEF Max
<1> QED BY <1>2

(* A set of numbers that has a member has a least one. *)
LEMMA LeastOne ==
  ASSUME NEW T, T \subseteq Nat, T # {}
  PROVE  Min(T) \in T /\ \A y \in T : Min(T) <= y
BY LeastNumber DEF Min

(* A stream cut in two. *)
LEMMA Cut ==
  ASSUME NEW S, NEW q \in Seq(S), NEW k \in 0 .. Len(q)
  PROVE  /\ Taken(q, k) \in Seq(S) /\ Len(Taken(q, k)) = k
         /\ \A i \in 1 .. k : Taken(q, k)[i] = q[i]
         /\ Rest(q, k) \in Seq(S) /\ Len(Rest(q, k)) = Len(q) - k
         /\ \A i \in 1 .. (Len(q) - k) : Rest(q, k)[i] = q[k + i]
<1>1. Len(q) \in Nat /\ \A i \in 1 .. Len(q) : q[i] \in S
  BY LenProperties, ElementOfSeq
<1>2. /\ Taken(q, k) \in Seq(S) /\ Len(Taken(q, k)) = k
      /\ \A i \in 1 .. k : Taken(q, k)[i] = q[i]
  <2>1. 1 \in Int /\ k \in Int /\ \A i \in 1 .. k : q[i] \in S
    BY <1>1
  <2>2. /\ SubSeq(q, 1, k) \in Seq(S)
        /\ Len(SubSeq(q, 1, k)) = IF 1 <= k THEN k - 1 + 1 ELSE 0
        /\ \A i \in 1 .. (k - 1 + 1) : SubSeq(q, 1, k)[i] = q[1 + i - 1]
    BY <2>1, SubSeqProperties
  <2> QED BY <1>1, <2>2 DEF Taken
<1>3. /\ Rest(q, k) \in Seq(S) /\ Len(Rest(q, k)) = Len(q) - k
      /\ \A i \in 1 .. (Len(q) - k) : Rest(q, k)[i] = q[k + i]
  <2>1. /\ k + 1 \in Int /\ Len(q) \in Int
        /\ \A i \in (k + 1) .. Len(q) : q[i] \in S
    BY <1>1
  <2>2. /\ SubSeq(q, k + 1, Len(q)) \in Seq(S)
        /\ Len(SubSeq(q, k + 1, Len(q))) =
             IF k + 1 <= Len(q) THEN Len(q) - (k + 1) + 1 ELSE 0
        /\ \A i \in 1 .. (Len(q) - (k + 1) + 1) :
             SubSeq(q, k + 1, Len(q))[i] = q[(k + 1) + i - 1]
    BY <2>1, SubSeqProperties
  <2> QED BY <1>1, <2>2 DEF Rest
<1> QED BY <1>2, <1>3

(* A recv or send moves some bytes, and no more than there are. *)
LEMMA PieceSize ==
  ASSUME NEW S, NEW q \in Seq(S), NEW most \in Int, NEW k \in Pieces(most, q)
  PROVE  k \in 1 .. Len(q) /\ k \in 0 .. Len(q) /\ k <= most
<1>1. Len(q) \in Int
  BY LenProperties
<1> QED BY <1>1, MinOfTwo DEF Pieces

(* The scan of a chunk: a line up to its first newline and what is beyond  *)
(* it, or the whole chunk and nothing.                                     *)
LEMMA Scan ==
  ASSUME NEW S, NEW q \in Seq(S)
  PROVE  /\ Upto(q) \in Seq(S) /\ Beyond(q) \in Seq(S)
         /\ Len(Upto(q)) + Len(Beyond(q)) = Len(q)
         /\ \A i \in 1 .. Len(Upto(q)) : Upto(q)[i] = q[i]
         /\ \A i \in 1 .. Len(Beyond(q)) :
              Beyond(q)[i] = q[Len(Upto(q)) + i]
         /\ q # <<>> => Upto(q) # <<>>
         /\ \A i \in 1 .. (Len(Upto(q)) - 1) : q[i] # Newline
         /\ \/ Upto(q) # <<>> /\ Upto(q)[Len(Upto(q))] = Newline
            \/ /\ Len(Upto(q)) = Len(q)
               /\ \A i \in 1 .. Len(q) : q[i] # Newline
<1>1. Len(q) \in Nat /\ DOMAIN q = 1 .. Len(q)
  BY LenProperties
<1>2. CASE LineEnds(q) = {}
  <2>1. Upto(q) = q /\ Beyond(q) = Rest(q, Len(q))
    BY <1>2 DEF Upto, Beyond
  <2>2. \A i \in 1 .. Len(q) : q[i] # Newline
    BY <1>1, <1>2 DEF LineEnds
  <2>3. Len(q) \in 0 .. Len(q)
    BY <1>1
  <2>4. Rest(q, Len(q)) \in Seq(S) /\ Len(Rest(q, Len(q))) = 0
    BY <1>1, <2>3, Cut
  <2> QED BY <1>1, <2>1, <2>2, <2>4
<1>3. CASE LineEnds(q) # {}
  <2> DEFINE m == Min(LineEnds(q))
  <2>1. LineEnds(q) \subseteq Nat
    BY <1>1 DEF LineEnds
  <2>2. m \in LineEnds(q) /\ \A y \in LineEnds(q) : m <= y
    BY <1>3, <2>1, LeastOne
  <2>3. Upto(q) = Taken(q, m)
    BY <1>3 DEF Upto
  <2> HIDE DEF m
  <2>4. m \in 1 .. Len(q) /\ q[m] = Newline /\ m \in 0 .. Len(q)
    BY <1>1, <2>2 DEF LineEnds
  <2>5. \A i \in 1 .. (m - 1) : q[i] # Newline
    BY <1>1, <2>2, <2>4 DEF LineEnds
  <2>6. /\ Upto(q) \in Seq(S) /\ Len(Upto(q)) = m
        /\ \A i \in 1 .. m : Upto(q)[i] = q[i]
        /\ Beyond(q) \in Seq(S) /\ Len(Beyond(q)) = Len(q) - m
        /\ \A i \in 1 .. (Len(q) - m) : Beyond(q)[i] = q[m + i]
    <3>1. /\ Taken(q, m) \in Seq(S) /\ Len(Taken(q, m)) = m
          /\ \A i \in 1 .. m : Taken(q, m)[i] = q[i]
          /\ Rest(q, m) \in Seq(S) /\ Len(Rest(q, m)) = Len(q) - m
          /\ \A i \in 1 .. (Len(q) - m) : Rest(q, m)[i] = q[m + i]
      BY <2>4, Cut
    <3>2. Beyond(q) = Rest(q, m)
      BY <2>3, <3>1 DEF Beyond
    <3> QED BY <2>3, <3>1, <3>2
  <2>7. Upto(q) # <<>> /\ Upto(q)[Len(Upto(q))] = Newline
    BY <2>4, <2>6
  <2>8. Len(Upto(q)) + Len(Beyond(q)) = Len(q)
    BY <1>1, <2>4, <2>6
  <2> QED BY <2>5, <2>6, <2>7, <2>8, Zenon
<1> QED BY <1>2, <1>3

(* The two parts of a cut piece, and two pieces that follow each other.    *)
LEMMA AlongCut ==
  ASSUME NEW S, NEW q \in Seq(S), NEW f, NEW n \in Nat,
         NEW k \in 0 .. Len(q), Along(q, f, n)
  PROVE  Along(Taken(q, k), f, n) /\ Along(Rest(q, k), f, n + k)
<1>1. Len(q) \in Nat
  BY LenProperties
<1>2. Along(Taken(q, k), f, n)
  BY <1>1, Cut DEF Along
<1>3. Along(Rest(q, k), f, n + k)
  <2>1. ASSUME NEW i \in 1 .. (Len(q) - k)
        PROVE  Rest(q, k)[i] = f[(n + k) + i]
    <3>1. Rest(q, k)[i] = q[k + i] /\ k + i \in 1 .. Len(q)
      BY <1>1, Cut
    <3>2. q[k + i] = f[n + (k + i)]
      BY <3>1 DEF Along
    <3>3. n + (k + i) = (n + k) + i
      BY <1>1
    <3> QED BY <3>1, <3>2, <3>3
  <2>2. Len(Rest(q, k)) = Len(q) - k
    BY <1>1, Cut
  <2> QED BY <2>1, <2>2 DEF Along
<1> QED BY <1>2, <1>3

(* Joining the pieces of a stream. *)
LEMMA AlongJoin ==
  ASSUME NEW S, NEW q \in Seq(S), NEW r \in Seq(S), NEW f, NEW n \in Nat,
         Along(q, f, n), Along(r, f, n + Len(q))
  PROVE  Along(q \o r, f, n)
<1>1. Len(q) \in Nat /\ Len(r) \in Nat
  BY LenProperties
<1>2. /\ Len(q \o r) = Len(q) + Len(r)
      /\ \A i \in 1 .. (Len(q) + Len(r)) : (q \o r)[i] =
           IF i <= Len(q) THEN q[i] ELSE r[i - Len(q)]
  BY ConcatProperties
<1>3. ASSUME NEW i \in 1 .. (Len(q) + Len(r)) PROVE (q \o r)[i] = f[n + i]
  <2>1. CASE i <= Len(q)
    <3>1. (q \o r)[i] = q[i] /\ i \in 1 .. Len(q)
      BY <1>1, <1>2, <2>1
    <3> QED BY <3>1 DEF Along
  <2>2. CASE ~(i <= Len(q))
    <3>1. (q \o r)[i] = r[i - Len(q)] /\ i - Len(q) \in 1 .. Len(r)
      BY <1>1, <1>2, <2>2
    <3>2. r[i - Len(q)] = f[(n + Len(q)) + (i - Len(q))]
      BY <3>1 DEF Along
    <3>3. (n + Len(q)) + (i - Len(q)) = n + i
      BY <1>1
    <3> QED BY <3>1, <3>2, <3>3
  <2> QED BY <2>1, <2>2
<1> QED BY <1>2, <1>3 DEF Along

(* The scan of a piece. *)
LEMMA AlongScan ==
  ASSUME NEW S, NEW q \in Seq(S), NEW f, NEW n \in Nat, Along(q, f, n)
  PROVE  /\ Along(Upto(q), f, n)
         /\ Along(Beyond(q), f, n + Len(Upto(q)))
<1>1. /\ Upto(q) \in Seq(S) /\ Beyond(q) \in Seq(S) /\ Len(q) \in Nat
      /\ Len(Upto(q)) \in Nat /\ Len(Beyond(q)) \in Nat
      /\ Len(Upto(q)) + Len(Beyond(q)) = Len(q)
      /\ \A i \in 1 .. Len(Upto(q)) : Upto(q)[i] = q[i]
      /\ \A i \in 1 .. Len(Beyond(q)) : Beyond(q)[i] = q[Len(Upto(q)) + i]
  BY Scan, LenProperties
<1>2. Along(Upto(q), f, n)
  BY <1>1 DEF Along
<1>3. ASSUME NEW i \in 1 .. Len(Beyond(q))
      PROVE  Beyond(q)[i] = f[(n + Len(Upto(q))) + i]
  <2>1. Len(Upto(q)) + i \in 1 .. Len(q)
    BY <1>1
  <2>2. q[Len(Upto(q)) + i] = f[n + (Len(Upto(q)) + i)]
    BY <2>1 DEF Along
  <2>3. n + (Len(Upto(q)) + i) = (n + Len(Upto(q))) + i
    BY <1>1
  <2> QED BY <1>1, <2>2, <2>3
<1> QED BY <1>2, <1>3 DEF Along

-----------------------------------------------------------------------------
(* What the client and the server have to send are sequences of bytes. *)
LEMMA TextBytes ==
  ASSUME NEW v \in Kinds, NEW n \in Nat
  PROVE  /\ Text(v, n) \in Seq(Byte) /\ Len(Text(v, n)) = n
         /\ \A i \in 1 .. n : Text(v, n)[i] = <<v, i>>
<1>1. \A i \in 1 .. n : <<v, i>> \in Byte
  BY DEF Byte
<1> QED BY <1>1 DEF Text

(* A command's fields. *)
LEMMA CallTypes ==
  ASSUME call \in Calls
  PROVE  /\ call.op \in {"GET", "PUT", "HEALTH", "BAD"}
         /\ call.op \in Kinds /\ call.eager \in BOOLEAN
         /\ call.size \in Nat /\ call.more \in Nat /\ BodyLen \in Nat
         /\ call.quantum \in Nat
         /\ call.header \in Nat /\ call.header >= 2
         /\ None # Text("data", call.size)
BY SessionAssumption DEF IsCall, Text, BodyLen, Kinds

(* The stream: header, newline, data, more. *)
LEMMA RequestAt ==
  ASSUME call \in Calls
  PROVE  /\ \A i \in 1 .. (call.header - 1) :
              Request[i] = <<call.op, call.size>>
         /\ Request[call.header] = Newline
         /\ \A i \in 1 .. BodyLen : Request[call.header + i] = <<"data", i>>
         /\ \A i \in Nat \ {0} :
              Request[(call.header + BodyLen) + i] = <<"more", i>>
         /\ \A i \in Nat \ {call.header} : Request[i] # Newline
<1>1. /\ BodyLen \in Nat /\ call.header \in Nat /\ call.size \in Nat
      /\ call.op \in {"GET", "PUT", "HEALTH", "BAD"}
  BY CallTypes
<1> DEFINE h == call.header
           b == BodyLen
           H == <<call.op, call.size>>
<1>2. /\ \A i \in Nat : i < h => Request[i] = H
      /\ \A i \in Nat : ~(i < h) /\ i = h => Request[i] = Newline
      /\ \A i \in Nat : ~(i < h) /\ i # h /\ i <= h + b =>
                         Request[i] = <<"data", i - h>>
      /\ \A i \in Nat : ~(i < h) /\ i # h /\ ~(i <= h + b) =>
                         Request[i] = <<"more", i - (h + b)>>
  BY DEF Request
<1>3. h \in Nat /\ b \in Nat /\ H # Newline
  BY <1>1 DEF Newline
<1> HIDE DEF h, b, H
<1>4. \A i \in 1 .. (h - 1) : Request[i] = H
  BY <1>2, <1>3
<1>5. Request[h] = Newline
  BY <1>2, <1>3
<1>6. ASSUME NEW i \in 1 .. b PROVE Request[h + i] = <<"data", i>>
  <2>1. /\ h + i \in Nat /\ ~(h + i < h) /\ h + i # h /\ h + i <= h + b
        /\ (h + i) - h = i
    BY <1>3
  <2> QED BY <1>2, <2>1
<1>7. ASSUME NEW i \in Nat \ {0} PROVE Request[(h + b) + i] = <<"more", i>>
  <2> DEFINE j == (h + b) + i
  <2>1. /\ j \in Nat /\ ~(j < h) /\ j # h /\ ~(j <= h + b)
        /\ j - (h + b) = i
    BY <1>3
  <2> HIDE DEF j
  <2>2. Request[j] = <<"more", i>>
    BY <1>2, <2>1
  <2> QED BY <2>2 DEF j
<1>8. ASSUME NEW i \in Nat \ {h} PROVE Request[i] # Newline
  <2>1. Request[i] \in {H, <<"data", i - h>>, <<"more", i - (h + b)>>}
    BY <1>2, <1>8
  <2>2. /\ <<"data", i - h>> # Newline
        /\ <<"more", i - (h + b)>> # Newline
    BY DEF Newline
  <2> QED BY <1>3, <2>1, <2>2
<1> QED BY <1>4, <1>5, <1>6, <1>7, <1>8 DEF h, b, H

(* The header and the body. *)
LEMMA CallBytes ==
  ASSUME call \in Calls
  PROVE  /\ HeaderLine \in Seq(Byte) /\ Len(HeaderLine) = call.header
         /\ Along(HeaderLine, Request, 0)
         /\ Data \in Seq(Byte) /\ Len(Data) = BodyLen
         /\ \A i \in 1 .. BodyLen : Data[i] = <<"data", i>>
         /\ Along(Data, Request, call.header)
         /\ Eagerly \in Seq(Byte) /\ Along(Eagerly, Request, call.header)
         /\ ~call.eager => Eagerly = <<>>
<1>1. /\ call.op \in Kinds /\ call.size \in Nat /\ call.more \in Nat
      /\ BodyLen \in Nat /\ call.header \in Nat
  BY CallTypes
<1>2. HeaderLine \in Seq(Byte) /\ Len(HeaderLine) = call.header
  <2>1. Newline \in Byte /\ <<call.op, call.size>> \in Byte
    BY <1>1 DEF Newline, Byte, Kinds
  <2>2. \A i \in 1 .. call.header :
          (IF i = call.header THEN Newline ELSE <<call.op, call.size>>)
            \in Byte
    BY <2>1
  <2> QED BY <1>1, <2>2, IsASeq DEF HeaderLine
<1>3. Along(HeaderLine, Request, 0)
  <2>1. ASSUME NEW i \in 1 .. call.header PROVE HeaderLine[i] = Request[i]
    <3>1. CASE i = call.header
      BY <3>1, RequestAt DEF HeaderLine
    <3>2. CASE i # call.header
      <4>1. i \in 1 .. (call.header - 1)
        BY <1>1, <3>2
      <4> QED BY <3>2, <4>1, RequestAt DEF HeaderLine
    <3> QED BY <3>1, <3>2
  <2> QED BY <1>1, <1>2, <2>1 DEF Along
<1>4. Data = Text("data", BodyLen)
  BY DEF Data, BodyLen
<1>5. /\ Data \in Seq(Byte) /\ Len(Data) = BodyLen
      /\ \A i \in 1 .. BodyLen : Data[i] = <<"data", i>>
  <2>1. "data" \in Kinds
    BY DEF Kinds
  <2> QED BY <1>1, <1>4, <2>1, TextBytes
<1>6. Along(Data, Request, call.header)
  BY <1>5, RequestAt DEF Along
<1> DEFINE more == Text("more", call.more)
<1>7. /\ more \in Seq(Byte) /\ Len(more) = call.more
      /\ \A i \in 1 .. call.more : more[i] = <<"more", i>>
  <2>1. "more" \in Kinds
    BY DEF Kinds
  <2> QED BY <1>1, <2>1, TextBytes
<1> HIDE DEF more
<1>8. Along(more, Request, call.header + Len(Data))
  <2>1. \A i \in 1 .. call.more :
          Request[(call.header + BodyLen) + i] = <<"more", i>>
    BY <1>1, RequestAt
  <2> QED BY <1>5, <1>7, <2>1 DEF Along
<1>9. Data \o more \in Seq(Byte) /\ Along(Data \o more, Request, call.header)
  BY <1>1, <1>5, <1>6, <1>7, <1>8, ConcatProperties, AlongJoin
<1>10. <<>> \in Seq(Byte) /\ Along(<<>>, Request, call.header)
  BY EmptySeq DEF Along
<1>11. Eagerly = IF call.eager THEN Data \o more ELSE <<>>
  BY DEF Eagerly, more
<1> QED BY <1>2, <1>3, <1>5, <1>6, <1>9, <1>10, <1>11

(* A status line. *)
LEMMA LineBytes ==
  ASSUME NEW n \in Nat
  PROVE  /\ OkLine(n) \in Seq(Byte) /\ Len(OkLine(n)) = 2
         /\ OkLine(n)[1] = <<"OK", n>> /\ OkLine(n)[2] = Newline
         /\ ErrLine \in Seq(Byte) /\ Len(ErrLine) = 2
         /\ ErrLine[1] = <<"ERR", 0>> /\ ErrLine[2] = Newline
<1>1. <<"OK", n>> \in Byte /\ <<"ERR", 0>> \in Byte /\ Newline \in Byte
  BY DEF Byte, Kinds, Newline
<1> QED BY <1>1 DEF OkLine, ErrLine

(* One send or recv. *)
LEMMA Piece ==
  ASSUME NEW q \in Seq(Byte), NEW most \in Int, NEW k \in Pieces(most, q)
  PROVE  /\ k \in 1 .. Len(q) /\ k \in 0 .. Len(q) /\ k <= most
         /\ Len(q) \in Nat
         /\ Taken(q, k) \in Seq(Byte) /\ Len(Taken(q, k)) = k
         /\ Rest(q, k) \in Seq(Byte) /\ Len(Rest(q, k)) = Len(q) - k
<1>1. k \in 1 .. Len(q) /\ k \in 0 .. Len(q) /\ k <= most
  BY PieceSize
<1> QED BY <1>1, Cut, LenProperties

-----------------------------------------------------------------------------
(* The connection breaks, or the disk of a client that downloads fails:    *)
(* the client ends with an error.                                          *)
Severed == ConnectionLost \/ \E k \in 1 .. Buf : ClientDiskFails(k)

(* What such a step leaves alone, and when it can happen. *)
LEMMA SeveredStep ==
  ASSUME Types, Severed
  PROVE  /\ c.pc # "done" /\ c' = Returned(1)
         /\ UNCHANGED <<call, s, version, stored>>
         /\ up' \in {up, <<>>} /\ down' \in Seq(Byte)
         /\ down = <<>> => down' = down
         /\ open' \subseteq open /\ "client" \notin open'
         /\ "server" \in open' <=> "server" \in open
         /\ "link" \in open' => call.op = "GET"
<1>1. CASE ConnectionLost
  BY <1>1 DEF ConnectionLost, Types
<1>2. ASSUME NEW k \in 1 .. Buf, ClientDiskFails(k)
      PROVE  /\ c.pc # "done" /\ c' = Returned(1)
             /\ UNCHANGED <<call, s, version, stored>>
             /\ up' = up /\ down' \in Seq(Byte) /\ down # <<>>
             /\ open' = open \ {"client"} /\ call.op = "GET"
  <2>1. down \in Seq(Byte) /\ Buf \in Int /\ k \in Pieces(Buf, down)
    BY <1>2, SessionAssumption DEF ClientDiskFails, Types
  <2>2. Rest(down, k) \in Seq(Byte) /\ k \in 1 .. Len(down)
    BY <2>1, Piece
  <2>3. down # <<>>
    BY <2>1, <2>2, EmptySeq
  <2>4. /\ c.pc # "done" /\ c' = Returned(1) /\ Closing
        /\ UNCHANGED <<call, s, up, version, stored>>
        /\ down' = Rest(down, k) /\ call.op = "GET"
    BY <1>2 DEF ClientDiskFails
  <2>5. c'.pc = "done"
    BY <2>4 DEF Returned, Types, ClientState
  <2> QED BY <2>2, <2>3, <2>4, <2>5 DEF Closing
<1> QED BY <1>1, <1>2 DEF Severed

(* The types of the client's state after each of its steps. *)
LEMMA ClientTypes ==
  ASSUME Types, ClientStep \/ ClientDies
  PROVE  c' \in ClientState /\ up' \in Seq(Byte) /\ down' \in Seq(Byte)
<1> USE DEF Types
<1>1. /\ c.line \in Seq(Byte) /\ c.got \in Seq(Byte) /\ c.out \in Seq(Byte)
      /\ c.need \in Nat /\ <<>> \in Seq(Byte)
      /\ Len(c.line) \in Nat /\ Len(c.got) \in Nat
      /\ Len(up) \in Nat /\ Len(down) \in Nat
  BY LenProperties, EmptySeq DEF ClientState
<1>2. {Buf, LineLimit, Cap, FileSize, NewSize} \subseteq Nat
  BY SessionAssumption
<1>3. ASSUME NEW r \in {None, 0, 1} PROVE Returned(r) \in ClientState
  BY <1>1 DEF Returned, ClientState
<1>4. ASSUME NEW k \in 1 .. Cap, ClientSend(k)
      PROVE  c' \in ClientState /\ up' \in Seq(Byte) /\ down' \in Seq(Byte)
  <2>1. Taken(c.out, k) \in Seq(Byte) /\ Rest(c.out, k) \in Seq(Byte)
    <3>1. Cap - Len(up) \in Int /\ k \in Pieces(Cap - Len(up), c.out)
      BY <1>1, <1>2, <1>4 DEF ClientSend
    <3> QED BY <1>1, <3>1, Piece
  <2>2. up \o Taken(c.out, k) \in Seq(Byte)
    BY <2>1, ConcatProperties
  <2> QED BY <1>4, <2>1, <2>2 DEF ClientSend, ClientState
<1>5. ASSUME NEW k \in 1 .. Buf, ClientReadLine(k)
      PROVE  c' \in ClientState /\ up' \in Seq(Byte) /\ down' \in Seq(Byte)
  <2> DEFINE chunk == Taken(down, k)
             line == c.line \o Upto(chunk)
  <2>1. chunk \in Seq(Byte) /\ Rest(down, k) \in Seq(Byte)
    BY <1>2, <1>5, Piece DEF ClientReadLine
  <2>2. Upto(chunk) \in Seq(Byte) /\ Beyond(chunk) \in Seq(Byte)
    BY <2>1, Scan
  <2>3. line \in Seq(Byte)
    BY <1>1, <2>2, ConcatProperties
  <2>4. \/ IsLine(line) /\ c' = Answered(line, Beyond(chunk))
        \/ c' = [c EXCEPT !.line = line]
        \/ c' = Returned(1)
    BY <1>5 DEF ClientReadLine
  <2>5. up' = up /\ down' = Rest(down, k)
    BY <1>5 DEF ClientReadLine
  <2> HIDE DEF chunk, line
  <2>6. ASSUME IsLine(line) PROVE Answered(line, Beyond(chunk)) \in ClientState
    <3>1. line[1][2] \in Nat
      <4>1. line[1] \in Byte
        BY <2>3, <2>6, EmptySeq, ElementOfSeq DEF IsLine
      <4> QED BY <4>1 DEF Byte
    <3>2. AfterFirstOk \in Seq(Byte)
      BY <1>1, CallBytes DEF AfterFirstOk
    <3>3. [c EXCEPT !.pc = "final", !.line = <<>>, !.out = AfterFirstOk]
            \in ClientState
      BY <1>1, <3>2 DEF ClientState
    <3>4. Receiving(line[1][2], Beyond(chunk)) \in ClientState
      <4> DEFINE left == Beyond(chunk)
                 size == line[1][2]
                 got == Taken(left, Min({size, Len(left)}))
      <4>1. Len(left) \in Nat
        BY <2>2, LenProperties
      <4>2. Min({size, Len(left)}) \in 0 .. Len(left)
        <5>1. size \in Nat
          BY <3>1
        <5> HIDE DEF left, size
        <5>2. Min({size, Len(left)})
                = IF size <= Len(left) THEN size ELSE Len(left)
          BY <4>1, <5>1, MinOfTwo
        <5> QED BY <4>1, <5>1, <5>2
      <4>3. got \in Seq(Byte)
        BY <2>2, <4>2, Cut
      <4> HIDE DEF left, size, got
      <4>4. [c EXCEPT !.pc = IF Len(got) = size THEN "done" ELSE "body",
                      !.ret = IF Len(got) = size THEN 0 ELSE None,
                      !.got = got, !.need = size] \in ClientState
        BY <3>1, <4>3 DEF ClientState, size
      <4> QED BY <4>4 DEF Receiving, left, size, got
    <3>5. Returned(0) \in ClientState /\ Returned(1) \in ClientState
      BY <1>3
    <3> QED BY <3>3, <3>4, <3>5 DEF Answered
  <2>7. [c EXCEPT !.line = line] \in ClientState
    BY <2>3 DEF ClientState
  <2> QED BY <1>3, <2>1, <2>4, <2>5, <2>6, <2>7
<1>6. ASSUME NEW k \in 1 .. Buf, ClientReadBody(k)
      PROVE  c' \in ClientState /\ up' \in Seq(Byte) /\ down' \in Seq(Byte)
  <2>1. Min({Buf, c.need - Len(c.got)}) \in Int
    <3>1. Buf \in Int /\ c.need - Len(c.got) \in Int
      BY <1>1, <1>2
    <3> QED BY <3>1, MinOfTwo
  <2>2. Taken(down, k) \in Seq(Byte) /\ Rest(down, k) \in Seq(Byte)
    BY <1>6, <2>1, Piece DEF ClientReadBody
  <2> DEFINE got == c.got \o Taken(down, k)
  <2>3. got \in Seq(Byte)
    BY <1>1, <2>2, ConcatProperties
  <2>4. \/ c' = [Returned(0) EXCEPT !.got = got]
        \/ c' = [c EXCEPT !.got = got]
    BY <1>6 DEF ClientReadBody
  <2>5. up' = up /\ down' = Rest(down, k)
    BY <1>6 DEF ClientReadBody
  <2> HIDE DEF got
  <2>6. Returned(0) \in ClientState
    BY <1>3
  <2> QED BY <2>2, <2>3, <2>4, <2>5, <2>6 DEF ClientState
<1>7. CASE ClientSendLate
  <2>1. [c EXCEPT !.out = <<>>] \in ClientState
    BY <1>1 DEF ClientState
  <2> QED BY <1>1, <1>3, <1>7, <2>1 DEF ClientSendLate
<1>8. CASE ClientEof \/ ClientDies
  BY <1>1, <1>3, <1>8 DEF ClientEof, ClientDies, EofFails
<1> QED BY <1>4, <1>5, <1>6, <1>7, <1>8 DEF ClientStep

(* The longest time a select may take, and how it ends with the deadline.  *)
LEMMA WaitBound ==
  ASSUME Types, s.now < Deadline
  PROVE  /\ Wait \in Nat /\ Deadline \in Nat
         /\ s.now + Wait < Deadline + Milli
<1>1. /\ s.now \in Nat /\ Timeout \in Nat /\ Milli \in Nat \ {0}
      /\ Deadline \in Nat
  <2>1. s.now \in Nat
    BY DEF Types, ServerState
  <2>2. Timeout \in Nat /\ Milli \in Nat \ {0}
    BY SessionAssumption
  <2>3. Timeout * Milli \in Nat
    BY <2>2
  <2> QED BY <2>1, <2>2, <2>3 DEF Deadline
<1> DEFINE q == (Deadline - s.now) \div Milli
<1>2. q \in Nat /\ q * Milli <= Deadline - s.now
  BY <1>1
<1> HIDE DEF q
<1>3. Max({q, 1}) = IF q >= 1 THEN q ELSE 1
  <2>1. \E x \in {q, 1} : \A y \in {q, 1} : x >= y
    BY <1>2
  <2>2. Max({q, 1}) \in {q, 1} /\ \A y \in {q, 1} : Max({q, 1}) >= y
    BY <2>1 DEF Max
  <2> QED BY <1>2, <2>2
<1>4. Wait = (IF q >= 1 THEN q ELSE 1) * Milli
  BY <1>3 DEF Wait, q
<1>5. CASE q >= 1
  <2>1. q * Milli \in Nat
    BY <1>1, <1>2
  <2> QED BY <1>1, <1>2, <1>4, <1>5, <2>1
<1>6. CASE ~(q >= 1)
  BY <1>1, <1>4, <1>6
<1> QED BY <1>5, <1>6

(* A round has a number of lines, perhaps none. *)
LEMMA SelectedNat ==
  ASSUME Types, s.sent < s.total PROVE Selected \in Nat
<1> DEFINE remaining == s.total - s.sent
           budget == IF call.quantum = 0 THEN remaining ELSE call.quantum
           lines == Max({Size - s.sent, 0})
<1>1. /\ s.total \in Nat /\ s.sent \in Nat /\ call.quantum \in Nat
      /\ Size \in Nat
  BY CallTypes, SessionAssumption DEF Types, ServerState, Size
<1>2. remaining \in Nat /\ budget \in Nat
  BY <1>1
<1>3. lines \in Nat
  <2>1. Size - s.sent \in Int /\ 0 \in Int
    BY <1>1
  <2>2. lines = IF Size - s.sent >= 0 THEN Size - s.sent ELSE 0
    BY <2>1, MaxOfTwo
  <2> QED BY <2>1, <2>2
<1>4. Min({budget, lines}) \in Nat
  <2> HIDE DEF budget, lines
  <2>1. Min({budget, lines}) = IF budget <= lines THEN budget ELSE lines
    BY <1>2, <1>3, MinOfTwo
  <2> QED BY <1>2, <1>3, <2>1
<1>5. Selected = IF budget >= remaining THEN remaining
                 ELSE Min({budget, lines})
  BY DEF Selected
<1> HIDE DEF budget, lines, remaining
<1> QED BY <1>2, <1>4, <1>5

(* The types of the server's state after each of its steps. *)
LEMMA ServerTypes ==
  ASSUME Types, ServerStep
  PROVE  /\ s' \in ServerState /\ up' \in Seq(Byte) /\ down' \in Seq(Byte)
         /\ s'.pc = "parse" => s'.line # <<>>
<1> USE DEF Types
<1>1. /\ s.line \in Seq(Byte) /\ s.left \in Seq(Byte)
      /\ s.staged \in Seq(Byte) /\ s.out \in Seq(Byte)
      /\ {s.now, s.until, s.total, s.sent, s.round} \subseteq Nat
      /\ <<>> \in Seq(Byte) /\ Len(s.line) \in Nat /\ Len(s.left) \in Nat
      /\ Len(s.staged) \in Nat /\ Len(up) \in Nat /\ Len(down) \in Nat
  BY LenProperties, EmptySeq DEF ServerState
<1>2. {Buf, LineLimit, Cap, FileSize, NewSize} \subseteq Nat
  BY SessionAssumption
<1>3. ErrLine \in Seq(Byte) /\ \A n \in Nat : OkLine(n) \in Seq(Byte)
  BY LineBytes
<1>4. ASSUME Reject
      PROVE  s' \in ServerState /\ s'.pc = "closing"
  BY <1>3, <1>4 DEF Reject, ServerState
<1>5. ASSUME NEW k \in 1 .. Cap, ServerSend(k)
      PROVE  /\ s' \in ServerState /\ up' \in Seq(Byte)
             /\ down' \in Seq(Byte) /\ s'.pc = s.pc /\ s'.line = s.line
  <2>1. Taken(s.out, k) \in Seq(Byte) /\ Rest(s.out, k) \in Seq(Byte)
    <3>1. Cap - Len(down) \in Int /\ k \in Pieces(Cap - Len(down), s.out)
      BY <1>1, <1>2, <1>5 DEF ServerSend
    <3> QED BY <1>1, <3>1, Piece
  <2>2. down \o Taken(s.out, k) \in Seq(Byte)
    BY <2>1, ConcatProperties
  <2> QED BY <1>5, <2>1, <2>2 DEF ServerSend, ServerState
<1>6. ASSUME NEW k \in 1 .. Buf, HeaderRecv(k)
      PROVE  /\ s' \in ServerState /\ up' \in Seq(Byte)
             /\ down' \in Seq(Byte) /\ s'.line # <<>>
  <2> DEFINE chunk == Taken(up, k)
             line == s.line \o Upto(chunk)
  <2>1. chunk \in Seq(Byte) /\ Rest(up, k) \in Seq(Byte) /\ chunk # <<>>
    <3>1. k \in 1 .. Len(up) /\ Len(chunk) = k
      BY <1>2, <1>6, Piece DEF HeaderRecv
    <3> QED BY <1>2, <1>6, <3>1, Piece DEF HeaderRecv
  <2>2. /\ Upto(chunk) \in Seq(Byte) /\ Beyond(chunk) \in Seq(Byte)
        /\ Upto(chunk) # <<>>
    BY <2>1, Scan
  <2>3. line \in Seq(Byte) /\ line # <<>>
    <3>1. line \in Seq(Byte) /\ Len(line) = Len(s.line) + Len(Upto(chunk))
      BY <1>1, <2>2, ConcatProperties
    <3>2. Len(Upto(chunk)) \in Nat \ {0}
      BY <2>2, EmptySeq
    <3> QED BY <1>1, <3>1, <3>2
  <2>4. /\ s' = [s EXCEPT !.line = line, !.left = Beyond(chunk),
                          !.pc = IF IsLine(line) THEN "parse" ELSE "check"]
        /\ up' = Rest(up, k) /\ down' = down
    BY <1>6 DEF HeaderRecv
  <2> HIDE DEF chunk, line
  <2> QED BY <2>1, <2>2, <2>3, <2>4 DEF ServerState
<1>7. ASSUME NEW k \in 1 .. Buf, StoreRecv(k)
      PROVE  /\ s' \in ServerState /\ up' \in Seq(Byte)
             /\ down' \in Seq(Byte) /\ s'.pc = "store"
  <2>1. Min({Buf, s.total - Len(s.staged)}) \in Int
    <3>1. Buf \in Int /\ s.total - Len(s.staged) \in Int
      BY <1>1, <1>2
    <3> QED BY <3>1, MinOfTwo
  <2>2. Taken(up, k) \in Seq(Byte) /\ Rest(up, k) \in Seq(Byte)
    BY <1>7, <2>1, Piece DEF StoreRecv
  <2>3. s.staged \o Taken(up, k) \in Seq(Byte)
    BY <1>1, <2>2, ConcatProperties
  <2> QED BY <1>7, <2>2, <2>3 DEF StoreRecv, ServerState, Free
<1>8. CASE HeaderCheck
  <2>1. ASSUME s.now < Deadline PROVE s.now + Wait \in Nat
    BY <1>1, <2>1, WaitBound
  <2>2. \/ s.now < Deadline /\ s' = [s EXCEPT !.pc = "recv",
                                              !.until = s.now + Wait]
        \/ Reject
    BY <1>8 DEF HeaderCheck
  <2>3. up' = up /\ down' = down
    BY <1>8 DEF HeaderCheck
  <2> QED BY <1>4, <2>1, <2>2, <2>3 DEF ServerState
<1>9. CASE HeaderSilence \/ CommitFails
  BY <1>4, <1>9 DEF HeaderSilence, CommitFails
<1>10. CASE Tick
  <2>1. s.now + 1 \in Nat
    BY <1>1
  <2> QED BY <1>10, <2>1 DEF Tick, ServerState
<1>11. CASE Dispatch
  <2>1. s.line[1] \in Byte
    BY <1>1, <1>11, EmptySeq, ElementOfSeq DEF Dispatch
  <2>2. s.line[1][2] \in Nat
    BY <2>1 DEF Byte
  <2>3. UNCHANGED <<up, down>>
    BY <1>11 DEF Dispatch
  <2>4. \/ Reject
        \/ s' = [s EXCEPT !.pc = "closing", !.out = OkLine(0)]
        \/ \E n \in Nat : s' = [s EXCEPT !.pc = "body", !.total = n,
                                         !.out = OkLine(n)]
        \/ s' = [s EXCEPT !.pc = "store", !.total = s.line[1][2],
                          !.out = OkLine(0)]
    BY <1>2, <1>11 DEF Dispatch, Size
  <2>5. OkLine(0) \in Seq(Byte)
    BY <1>3
  <2>6. CASE s' = [s EXCEPT !.pc = "closing", !.out = OkLine(0)]
    BY <2>3, <2>5, <2>6 DEF ServerState
  <2>7. ASSUME NEW n \in Nat,
               s' = [s EXCEPT !.pc = "body", !.total = n, !.out = OkLine(n)]
        PROVE  s' \in ServerState /\ s'.pc # "parse"
    BY <1>3, <2>7 DEF ServerState
  <2>8. CASE s' = [s EXCEPT !.pc = "store", !.total = s.line[1][2],
                            !.out = OkLine(0)]
    BY <2>2, <2>3, <2>5, <2>8 DEF ServerState
  <2> QED BY <1>4, <2>3, <2>4, <2>6, <2>7, <2>8
<1>12. CASE ServerSendLate
  <2>1. /\ up' = up /\ down' = down
        /\ \E p \in {"closing", s.pc} : s' = [s EXCEPT !.out = <<>>, !.pc = p]
    BY <1>12 DEF ServerSendLate, ServerState
  <2> QED BY <1>1, <2>1 DEF ServerState
<1>13. CASE SendFileLine
  <2>1. up' = up /\ down' = down
    BY <1>13 DEF SendFileLine
  <2>2. \/ s' = [s EXCEPT !.pc = "closing"]
        \/ /\ s.round > 0
           /\ s' = [s EXCEPT !.sent = s.sent + 1, !.round = s.round - 1,
                             !.out = <<<<version, s.sent + 1>>>>]
        \/ Reject
    BY <1>13 DEF SendFileLine
  <2>3. s.pc = "body"
    BY <1>13 DEF SendFileLine, Free
  <2>4. s.sent + 1 \in Nat /\ <<version, s.sent + 1>> \in Byte
    BY <1>1 DEF Byte, Kinds
  <2>5. <<<<version, s.sent + 1>>>> \in Seq(Byte)
    BY <2>4
  <2>6. s.round > 0 => s.round - 1 \in Nat
    BY <1>1
  <2> QED BY <1>4, <2>1, <2>2, <2>3, <2>4, <2>5, <2>6 DEF ServerState
<1>14. CASE StorePending
  <2>1. Pending \in Seq(Byte)
    <3>1. Min({s.total, Len(s.left)}) \in 0 .. Len(s.left)
      <4>1. s.total \in Nat /\ Len(s.left) \in Nat
        BY <1>1
      <4>2. Min({s.total, Len(s.left)}) =
              IF s.total <= Len(s.left) THEN s.total ELSE Len(s.left)
        BY <4>1, MinOfTwo
      <4> QED BY <4>1, <4>2
    <3> QED BY <1>1, <3>1, Cut DEF Pending
  <2> QED BY <1>1, <1>14, <2>1 DEF StorePending, ServerState, Free
<1>15. CASE StoreFails \/ Commit \/ CommitTorn
  <2>1. /\ up' = up /\ down' = down
        /\ \E o \in {<<>>, ErrLine, OkLine(0)} :
             s' = [s EXCEPT !.pc = "closing", !.out = o]
    BY <1>15 DEF StoreFails, Commit, CommitTorn
  <2>2. {<<>>, ErrLine, OkLine(0)} \subseteq Seq(Byte)
    BY <1>1, <1>3
  <2>3. \E o \in Seq(Byte) : s' = [s EXCEPT !.pc = "closing", !.out = o]
    BY <2>1, <2>2
  <2> QED BY <2>1, <2>3 DEF ServerState
<1>16. CASE ServerClose
  BY <1>1, <1>16 DEF ServerClose, ServerState
<1>17. CASE SelectLines
  <2>1. /\ up' = up /\ down' = down /\ s.pc = "body"
        /\ s' = [s EXCEPT !.round = Selected]
    BY <1>17 DEF SelectLines, Free
  <2>2. Selected \in Nat
    BY <1>17, SelectedNat DEF SelectLines
  <2> QED BY <2>1, <2>2 DEF ServerState
<1> QED BY <1>4, <1>5, <1>6, <1>7, <1>8, <1>9, <1>10, <1>11, <1>12, <1>13,
           <1>14, <1>15, <1>16, <1>17 DEF ServerStep

(* The invariant on the shape of the state. *)
THEOREM SessionTypes == Spec => []Types
<1>1. ASSUME Init PROVE Types
  <2>1. call \in Calls /\ <<>> \in Seq(Byte)
    BY <1>1, EmptySeq DEF Init
  <2>2. HeaderLine \o Eagerly \in Seq(Byte)
    BY <2>1, CallBytes, ConcatProperties
  <2>3. c \in ClientState
    BY <1>1, <2>1, <2>2 DEF Init, ClientState
  <2>4. s \in ServerState /\ s.pc = "check"
    BY <1>1, <2>1 DEF Init, ServerState
  <2> QED BY <1>1, <2>1, <2>3, <2>4 DEF Init, Types
<1>2. ASSUME Types, [Next]_svars PROVE Types'
  <2> USE DEF Types
  <2>1. CASE ClientStep \/ ClientDies
    <3>1. UNCHANGED <<call, s, version>> /\ (Closing \/ UNCHANGED open)
      BY <2>1 DEF ClientStep, ClientSend, ClientReadLine, ClientReadBody,
                  ClientSendLate, ClientEof, ClientDies
    <3>2. UNCHANGED <<call, s, version>>
      BY <2>1 DEF ClientStep, ClientSend, ClientReadLine, ClientReadBody,
                  ClientSendLate, ClientEof, ClientDies
    <3>3. open' \subseteq {"client", "server", "link"}
      BY <1>2, <3>1 DEF Closing
    <3> QED BY <1>2, <2>1, <3>2, <3>3, ClientTypes
  <2>2. CASE ServerStep
    <3>1. UNCHANGED <<call, c, version>> /\ open' \subseteq open
      BY <2>2 DEF ServerStep, ServerSend, HeaderRecv, StoreRecv, HeaderCheck,
           HeaderSilence, Tick, Dispatch, ServerSendLate, SelectLines,
           SendFileLine, StorePending, StoreFails, Commit, CommitTorn,
           CommitFails, ServerClose
    <3> QED BY <1>2, <2>2, <3>1, ServerTypes
  <2>3. CASE Replace
    BY <1>2, <2>3 DEF Replace
  <2>4. CASE UNCHANGED svars
    BY <1>2, <2>4 DEF svars
  <2>5. CASE Severed
    <3>1. Returned(1) \in ClientState
      BY <1>2, EmptySeq DEF Returned, ClientState
    <3>2. up' \in Seq(Byte)
      BY <1>2, <2>5, SeveredStep, EmptySeq
    <3> QED BY <1>2, <2>5, <3>1, <3>2, SeveredStep
  <2> QED BY <1>2, <2>1, <2>2, <2>3, <2>4, <2>5 DEF Next, Terminated, Severed
<1> QED BY <1>1, <1>2, PTL DEF Spec

(* The steps that touch neither the clock nor the header line. *)
LEMMA OffTheClock ==
  ASSUME Types, ServerStep, ~HeaderCheck, ~Tick,
         \A k \in 1 .. Buf : ~HeaderRecv(k)
  PROVE  /\ s'.now = s.now /\ s'.until = s.until /\ s'.line = s.line
         /\ s'.pc = "recv" => s.pc = "recv"
<1> DEFINE Kept == /\ s'.now = s.now /\ s'.until = s.until
                   /\ s'.line = s.line
                   /\ s'.pc = "recv" => s.pc = "recv"
<1>1. s \in ServerState
  BY DEF Types
<1>2. ASSUME Reject PROVE Kept
  BY <1>1, <1>2 DEF Reject, ServerState
<1>3. ASSUME NEW k \in 1 .. Cap, ServerSend(k) PROVE Kept
  BY <1>1, <1>3 DEF ServerSend, ServerState
<1>4. ASSUME NEW k \in 1 .. Buf, StoreRecv(k) PROVE Kept
  BY <1>1, <1>4 DEF StoreRecv, ServerState
<1>5. CASE HeaderSilence \/ CommitFails
  BY <1>2, <1>5 DEF HeaderSilence, CommitFails
<1>6. CASE Dispatch
  <2>1. \/ Reject
        \/ \E o : s' = [s EXCEPT !.pc = "closing", !.out = o]
        \/ \E n, o : \E p \in {"body", "store"} :
             s' = [s EXCEPT !.pc = p, !.total = n, !.out = o]
    BY <1>6 DEF Dispatch
  <2> QED BY <1>1, <1>2, <2>1 DEF ServerState
<1>7. CASE ServerSendLate
  BY <1>1, <1>7 DEF ServerSendLate, ServerState
<1>8. CASE SendFileLine
  <2>1. \/ Reject
        \/ s' = [s EXCEPT !.pc = "closing"]
        \/ \E n, m, o :
             s' = [s EXCEPT !.sent = n, !.round = m, !.out = o]
    BY <1>8 DEF SendFileLine
  <2> QED BY <1>1, <1>2, <2>1 DEF ServerState
<1>9. CASE StorePending \/ StoreFails \/ Commit \/ CommitTorn \/ ServerClose
  <2>1. \/ \E n, o : s' = [s EXCEPT !.staged = n, !.left = o]
        \/ \E o : s' = [s EXCEPT !.pc = "closing", !.out = o]
        \/ s' = [s EXCEPT !.pc = "closed"]
    BY <1>9 DEF StorePending, StoreFails, Commit, CommitTorn, ServerClose
  <2> QED BY <1>1, <2>1 DEF ServerState
<1>10. CASE SelectLines
  BY <1>1, <1>10 DEF SelectLines, ServerState
<1> QED BY <1>3, <1>4, <1>5, <1>6, <1>7, <1>8, <1>9, <1>10 DEF ServerStep

(* Only the server's steps touch its state. *)
LEMMA ServerOnly ==
  ASSUME [Next]_svars PROVE ServerStep \/ s' = s
BY DEF Next, Terminated, svars, Replace, ClientStep, ClientSend, ClientDies,
       ClientReadLine, ClientReadBody, ClientSendLate, ClientEof,
       ConnectionLost, ClientDiskFails

(* read_header_line gives up at its deadline, to the millisecond that      *)
(* remaining_ms is rounded up to, however the header arrives.              *)
THEOREM HeaderInTime == Spec => []HeaderDeadline
<1>1. ASSUME Init PROVE InTime
  <2>1. s.now = 0 /\ s.until = 0
    BY <1>1 DEF Init
  <2>2. Deadline \in Nat /\ Milli \in Nat \ {0}
    BY SessionAssumption DEF Deadline
  <2> QED BY <2>1, <2>2 DEF InTime
<1>2. ASSUME Types, InTime, [Next]_svars PROVE InTime'
  <2>1. /\ s \in ServerState /\ s.now \in Nat /\ s.until \in Nat
        /\ Deadline' = Deadline
    BY <1>2 DEF Types, ServerState, Deadline
  <2>2. CASE s' = s
    BY <1>2, <2>1, <2>2 DEF InTime
  <2>3. CASE HeaderCheck
    <3>1. CASE s.now < Deadline /\ s' = [s EXCEPT !.pc = "recv",
                                                  !.until = s.now + Wait]
      <4>1. s'.now = s.now /\ s'.until = s.now + Wait
        BY <2>1, <3>1 DEF ServerState
      <4>2. Wait \in Nat /\ s.now + Wait < Deadline + Milli
        BY <1>2, <3>1, WaitBound
      <4>3. s'.now <= s'.until /\ s'.until < Deadline + Milli
        BY <2>1, <4>1, <4>2
      <4> QED BY <2>1, <4>3 DEF InTime
    <3>2. CASE Reject
      <4>1. s'.now = s.now /\ s'.until = s.until
        BY <2>1, <3>2 DEF Reject, ServerState
      <4> QED BY <1>2, <2>1, <4>1 DEF InTime
    <3> QED BY <2>3, <3>1, <3>2 DEF HeaderCheck
  <2>4. CASE Tick
    <3>1. s.now < s.until /\ s'.now = s.now + 1 /\ s'.until = s.until
      BY <2>1, <2>4 DEF Tick, ServerState
    <3> QED BY <1>2, <2>1, <3>1 DEF InTime
  <2>5. ASSUME NEW k \in 1 .. Buf, HeaderRecv(k) PROVE InTime'
    <3>1. s'.now = s.now /\ s'.until = s.until
      BY <2>1, <2>5 DEF HeaderRecv, ServerState
    <3> QED BY <1>2, <2>1, <3>1 DEF InTime
  <2>6. CASE /\ ServerStep /\ ~HeaderCheck /\ ~Tick
             /\ \A k \in 1 .. Buf : ~HeaderRecv(k)
    BY <1>2, <2>1, <2>6, OffTheClock DEF InTime
  <2> QED BY <1>2, <2>2, <2>3, <2>4, <2>5, <2>6, ServerOnly
<1>3. ASSUME Types, InTime PROVE HeaderDeadline
  <2>1. /\ s.now \in Nat /\ s.until \in Nat /\ Deadline \in Nat
        /\ Milli \in Nat
    BY <1>3, SessionAssumption DEF Types, ServerState, Deadline
  <2> QED BY <1>3, <2>1 DEF InTime, HeaderDeadline
<1> QED BY <1>1, <1>2, <1>3, SessionTypes, PTL DEF Spec

(* read_header_line keeps less than a buffer beyond its limit. *)
THEOREM HeaderInLimit == Spec => []HeaderBounded
<1>1. ASSUME Init PROVE InLimit
  <2>1. s.pc = "check" /\ s.line = <<>>
    BY <1>1 DEF Init
  <2>2. LineLimit + Buf > 0
    BY SessionAssumption
  <2> QED BY <2>1, <2>2, EmptySeq DEF InLimit, HeaderBounded
<1>2. ASSUME Types, InLimit, [Next]_svars PROVE InLimit'
  <2>1. /\ s \in ServerState /\ s.line \in Seq(Byte) /\ Len(s.line) \in Nat
        /\ up \in Seq(Byte) /\ LineLimit \in Nat /\ Buf \in Nat
    BY <1>2, SessionAssumption, LenProperties DEF Types, ServerState
  <2>2. CASE s' = s
    BY <1>2, <2>2 DEF InLimit, HeaderBounded
  <2>3. CASE HeaderCheck
    <3>1. s'.line = s.line /\ (s'.pc = "recv" => Len(s.line) < LineLimit)
      BY <2>1, <2>3 DEF HeaderCheck, Reject, LineMayGrow, ServerState
    <3> QED BY <1>2, <3>1 DEF InLimit, HeaderBounded
  <2>4. CASE Tick
    <3>1. s'.line = s.line /\ s'.pc = s.pc
      BY <2>1, <2>4 DEF Tick, ServerState
    <3> QED BY <1>2, <3>1 DEF InLimit, HeaderBounded
  <2>5. ASSUME NEW k \in 1 .. Buf, HeaderRecv(k) PROVE InLimit'
    <3> DEFINE chunk == Taken(up, k)
               line == s.line \o Upto(chunk)
    <3>1. chunk \in Seq(Byte) /\ Len(chunk) <= Buf
      <4>1. Len(chunk) = k /\ chunk \in Seq(Byte)
        BY <2>1, <2>5, Piece DEF HeaderRecv
      <4> QED BY <2>1, <4>1
    <3>2. /\ Upto(chunk) \in Seq(Byte) /\ Len(Upto(chunk)) \in Nat
          /\ Len(Upto(chunk)) <= Buf
      <4>1. /\ Upto(chunk) \in Seq(Byte) /\ Beyond(chunk) \in Seq(Byte)
            /\ Len(Upto(chunk)) + Len(Beyond(chunk)) = Len(chunk)
        BY <3>1, Scan
      <4>2. /\ Len(Upto(chunk)) \in Nat /\ Len(Beyond(chunk)) \in Nat
            /\ Len(chunk) \in Nat
        BY <3>1, <4>1, LenProperties
      <4> QED BY <2>1, <3>1, <4>1, <4>2
    <3>3. Len(line) = Len(s.line) + Len(Upto(chunk))
      BY <2>1, <3>2, ConcatProperties
    <3>4. s.pc = "recv" /\ Len(s.line) < LineLimit
      BY <1>2, <2>5 DEF HeaderRecv, InLimit
    <3>5. s'.line = line /\ s'.pc # "recv"
      BY <2>1, <2>5 DEF HeaderRecv, ServerState
    <3> HIDE DEF line, chunk
    <3> QED BY <2>1, <3>2, <3>3, <3>4, <3>5 DEF InLimit, HeaderBounded
  <2>6. CASE /\ ServerStep /\ ~HeaderCheck /\ ~Tick
             /\ \A k \in 1 .. Buf : ~HeaderRecv(k)
    BY <1>2, <2>6, OffTheClock DEF InLimit, HeaderBounded
  <2> QED BY <1>2, <2>2, <2>3, <2>4, <2>5, <2>6, ServerOnly
<1>3. InLimit => HeaderBounded
  BY DEF InLimit
<1> QED BY <1>1, <1>2, <1>3, SessionTypes, PTL DEF Spec
-----------------------------------------------------------------------------
(* Nothing is read from an empty socket. *)
LEMMA SomethingRead ==
  ASSUME Types, NEW k \in 1 .. Buf, ClientReadLine(k) \/ ClientReadBody(k)
  PROVE  /\ k \in 1 .. Len(down) /\ down # <<>> /\ down' = Rest(down, k)
         /\ UNCHANGED <<call, s, up, version, stored>>
         /\ Closing
<1>1. /\ down \in Seq(Byte) /\ Buf \in Int /\ c.need \in Nat
      /\ c.got \in Seq(Byte) /\ Len(c.got) \in Nat
  BY SessionAssumption, LenProperties DEF Types, ClientState
<1>2. Min({Buf, c.need - Len(c.got)}) \in Int
  <2>1. c.need - Len(c.got) \in Int
    BY <1>1
  <2> QED BY <1>1, <2>1, MinOfTwo
<1>3. k \in 1 .. Len(down)
  BY <1>1, <1>2, Piece DEF ClientReadLine, ClientReadBody
<1>4. down # <<>>
  BY <1>1, <1>3, EmptySeq
<1> QED BY <1>3, <1>4 DEF ClientReadLine, ClientReadBody

(* What the client is after it has read a piece of a status line: it waits *)
(* for the rest, has ended, waits for the second line, or for the body.    *)
LEMMA LineRead ==
  ASSUME Types, NEW k \in 1 .. Buf, ClientReadLine(k)
  PROVE  LET chunk == Taken(down, k)
             line == c.line \o Upto(chunk)
         IN  /\ c.pc \in {"status", "final"} /\ c.out = <<>>
             /\ \/ /\ ~IsLine(line) /\ Len(line) < LineLimit
                   /\ c' = [c EXCEPT !.line = line]
                \/ /\ ~IsLine(line) /\ ~(Len(line) < LineLimit)
                   /\ c' = Returned(1)
                \/ IsLine(line) /\ call.op = "HEALTH" /\ c' = Returned(0)
                \/ /\ IsLine(line) /\ call.op # "HEALTH" /\ c.pc = "final"
                   /\ c' = Returned(IF line = OkLine(0) THEN 0 ELSE 1)
                \/ /\ IsLine(line) /\ call.op # "HEALTH" /\ c.pc = "status"
                   /\ line[1][1] # "OK" /\ c' = Returned(1)
                \/ /\ IsLine(line) /\ call.op = "PUT" /\ c.pc = "status"
                   /\ line[1][1] = "OK"
                   /\ c' = [c EXCEPT !.pc = "final", !.line = <<>>,
                                     !.out = AfterFirstOk]
                \/ /\ IsLine(line) /\ call.op \notin {"HEALTH", "PUT"}
                   /\ c.pc = "status" /\ line[1][1] = "OK"
                   /\ c' = Receiving(line[1][2], Beyond(chunk))
<1> DEFINE chunk == Taken(down, k)
           line == c.line \o Upto(chunk)
<1>1. c.pc \in {"status", "final"} /\ c.out = <<>>
  BY DEF ClientReadLine
<1>2. c' = IF IsLine(line) THEN Answered(line, Beyond(chunk))
           ELSE IF Len(line) < LineLimit THEN [c EXCEPT !.line = line]
           ELSE Returned(1)
  BY DEF ClientReadLine
<1> HIDE DEF chunk, line
<1>3. CASE ~IsLine(line)
  BY <1>1, <1>2, <1>3 DEF chunk, line
<1>4. CASE IsLine(line)
  <2>1. c' = Answered(line, Beyond(chunk))
    BY <1>2, <1>4
  <2>2. CASE call.op = "HEALTH"
    BY <1>1, <1>4, <2>1, <2>2 DEF Answered, chunk, line
  <2>3. CASE call.op # "HEALTH" /\ c.pc = "final"
    <3>1. c' = Returned(IF line = OkLine(0) THEN 0 ELSE 1)
      BY <2>1, <2>3 DEF Answered, FinalOk
    <3> QED BY <1>1, <1>4, <2>3, <3>1 DEF chunk, line
  <2>4. CASE call.op # "HEALTH" /\ c.pc = "status" /\ line[1][1] # "OK"
    <3>1. c' = Returned(1)
      BY <2>1, <2>4 DEF Answered
    <3> QED BY <1>1, <1>4, <2>4, <3>1 DEF chunk, line
  <2>5. CASE call.op = "PUT" /\ c.pc = "status" /\ line[1][1] = "OK"
    <3>1. c' = [c EXCEPT !.pc = "final", !.line = <<>>, !.out = AfterFirstOk]
      BY <2>1, <2>5 DEF Answered
    <3> QED BY <1>1, <1>4, <2>5, <3>1 DEF chunk, line
  <2>6. CASE call.op \notin {"HEALTH", "PUT"} /\ c.pc = "status"
               /\ line[1][1] = "OK"
    <3>1. c' = Receiving(line[1][2], Beyond(chunk))
      BY <2>1, <2>6 DEF Answered
    <3> QED BY <1>1, <1>4, <2>6, <3>1 DEF chunk, line
  <2> QED BY <1>1, <2>2, <2>3, <2>4, <2>5, <2>6
<1> QED BY <1>3, <1>4

(* Fields of an ended and of a receiving client. *)
LEMMA ReturnedFields ==
  ASSUME Types, NEW r
  PROVE  /\ Returned(r).pc = "done" /\ Returned(r).ret = r
         /\ Returned(r).out = <<>> /\ Returned(r).line = c.line
         /\ Returned(r).got = c.got
BY DEF Returned, Types, ClientState

(* Receiving takes what came with the status line as far as it is wanted.  *)
LEMMA ReceivingFields ==
  ASSUME Types, NEW size \in Nat, NEW left \in Seq(Byte),
         c' = Receiving(size, left)
  PROVE  /\ c'.line = c.line /\ c'.out = c.out /\ c'.need = size
         /\ \/ /\ Len(left) < size /\ c'.got = left
               /\ c'.pc = "body" /\ c'.ret = None
            \/ /\ size <= Len(left) /\ c'.got = Taken(left, size)
               /\ Len(c'.got) = size
               /\ c'.pc = "done" /\ c'.ret = 0
<1> DEFINE m == Min({size, Len(left)})
           got == Taken(left, m)
<1>1. Len(left) \in Nat
  BY LenProperties
<1>2. m = IF size <= Len(left) THEN size ELSE Len(left)
  <2>1. size \in Int /\ Len(left) \in Int
    BY <1>1
  <2> QED BY <2>1, MinOfTwo
<1>3. m \in 0 .. Len(left)
  BY <1>1, <1>2
<1>4. Len(got) = m
  BY <1>3, Cut
<1>5. c' = [c EXCEPT !.pc = IF Len(got) = size THEN "done" ELSE "body",
                     !.ret = IF Len(got) = size THEN 0 ELSE None,
                     !.got = got, !.need = size]
  BY DEF Receiving
<1> HIDE DEF got
<1>6. /\ c'.line = c.line /\ c'.out = c.out /\ c'.need = size
      /\ c'.got = got
      /\ c'.pc = IF Len(got) = size THEN "done" ELSE "body"
      /\ c'.ret = IF Len(got) = size THEN 0 ELSE None
  BY <1>5 DEF Types, ClientState
<1>7. CASE size <= Len(left)
  <2>1. m = size
    BY <1>2, <1>7
  <2>2. got = Taken(left, size)
    BY <2>1 DEF got
  <2> QED BY <1>4, <1>6, <1>7, <2>1, <2>2
<1>8. CASE ~(size <= Len(left))
  <2>1. m = Len(left) /\ Len(left) < size
    BY <1>1, <1>2, <1>8
  <2>2. Len(got) = Len(left) /\ Len(got) # size
    BY <1>1, <1>4, <2>1
  <2>3. got = left
    <3>1. got = SubSeq(left, 1, Len(left))
      BY <2>1 DEF got, Taken
    <3> QED BY <3>1, SubSeqFull
  <2> QED BY <1>6, <2>1, <2>2, <2>3
<1> QED BY <1>7, <1>8

(* The four outcomes of a header. *)
LEMMA Dispatched ==
  ASSUME Types, Dispatch
  PROVE  /\ s.pc = "parse"
         /\ UNCHANGED <<call, c, up, down, open, version, stored>>
         /\ s'.line = s.line /\ s'.left = s.left /\ s'.staged = s.staged
         /\ s'.sent = s.sent
         /\ \/ /\ s.line[1][1] = "BAD" /\ s'.pc = "closing"
               /\ s'.out = ErrLine
            \/ /\ s.line[1][1] = "HEALTH" /\ s'.pc = "closing"
               /\ s'.out = OkLine(0)
            \/ /\ s.line[1][1] = "GET" /\ s'.pc = "body"
               /\ version = "old" => /\ s'.total = FileSize
                                     /\ s'.out = OkLine(FileSize)
            \/ /\ s.line[1][1] = "PUT" /\ s'.pc = "store"
               /\ s'.total = s.line[1][2] /\ s'.out = OkLine(0)
<1>1. s \in ServerState
  BY DEF Types
<1>2. /\ s.pc = "parse"
      /\ UNCHANGED <<call, c, up, down, open, version, stored>>
  BY DEF Dispatch
<1>3. \/ /\ s.line[1][1] = "BAD"
         /\ s' = [s EXCEPT !.pc = "closing", !.out = ErrLine]
      \/ /\ s.line[1][1] = "HEALTH"
         /\ s' = [s EXCEPT !.pc = "closing", !.out = OkLine(0)]
      \/ /\ s.line[1][1] = "GET"
         /\ \E n : /\ version = "old" => n = FileSize
                   /\ s' = [s EXCEPT !.pc = "body", !.total = n,
                                     !.out = OkLine(n)]
      \/ /\ s.line[1][1] = "PUT"
         /\ s' = [s EXCEPT !.pc = "store", !.total = s.line[1][2],
                           !.out = OkLine(0)]
  BY DEF Dispatch, Reject, Size
<1> QED BY <1>1, <1>2, <1>3 DEF ServerState

(* Each step keeps Ends. *)
LEMMA EndsStep ==
  ASSUME Types, Ends, [Next]_svars PROVE Ends'
<1> USE DEF Ends, Reading, Quiet
<1>1. c \in ClientState /\ s \in ServerState
  BY DEF Types
<1>2. CASE UNCHANGED svars \/ Replace
  BY <1>2 DEF svars, Replace
<1>3. ASSUME NEW k \in 1 .. Cap, ClientSend(k) PROVE Ends'
  <2>1. c.out # <<>>
    <3>1. c.out \in Seq(Byte) /\ Len(up) \in Nat /\ Cap \in Nat
      BY <1>1, SessionAssumption, LenProperties DEF Types, ClientState
    <3>2. k \in Pieces(Cap - Len(up), c.out)
      BY <1>3 DEF ClientSend
    <3>3. Cap - Len(up) \in Int
      BY <3>1
    <3> QED BY <3>1, <3>2, <3>3, Piece, EmptySeq
  <2>2. /\ c'.pc = c.pc /\ c'.ret = c.ret /\ c'.line = c.line
        /\ UNCHANGED <<s, down, open>>
    BY <1>1, <1>3 DEF ClientSend, ClientState
  <2> QED BY <2>1, <2>2
<1>4. ASSUME UNCHANGED s, Closing, c.pc # "done", ~Reading,
             c'.pc = "done" => c'.out = <<>>,
             c'.ret # None => c'.pc = "done"
      PROVE  Ends'
  BY <1>4 DEF Closing
<1>5. ASSUME NEW k \in 1 .. Buf, ClientReadLine(k) PROVE Ends'
  <2>1. c.pc # "done" /\ ~Reading /\ UNCHANGED s /\ Closing
    <3>1. c.pc # "done"
      BY <1>5 DEF ClientReadLine
    <3> QED BY <1>5, <3>1, SomethingRead
  <2> DEFINE chunk == Taken(down, k)
             line == c.line \o Upto(chunk)
  <2>2. /\ c.out = <<>>
        /\ \/ \E r : c' = Returned(r)
           \/ c' = [c EXCEPT !.line = line]
           \/ c' = [c EXCEPT !.pc = "final", !.line = <<>>,
                             !.out = AfterFirstOk]
           \/ IsLine(line) /\ c' = Receiving(line[1][2], Beyond(chunk))
    BY <1>5, LineRead
  <2>3. chunk \in Seq(Byte)
    <3>1. k \in 0 .. Len(down) /\ down \in Seq(Byte)
      BY <1>5, SomethingRead DEF Types
    <3> QED BY <3>1, Cut
  <2>4. Beyond(chunk) \in Seq(Byte) /\ line \in Seq(Byte)
    BY <1>1, <2>3, Scan, ConcatProperties DEF ClientState
  <2>5. ASSUME IsLine(line) PROVE line[1][2] \in Nat
    <3>1. line[1] \in Byte
      BY <2>4, <2>5, EmptySeq, ElementOfSeq DEF IsLine
    <3> QED BY <3>1 DEF Byte
  <2> HIDE DEF chunk, line
  <2>6. CASE IsLine(line) /\ c' = Receiving(line[1][2], Beyond(chunk))
    <3>1. /\ c'.out = c.out
          /\ c'.ret # None => c'.pc = "done"
      BY <2>4, <2>5, <2>6, ReceivingFields
    <3> QED BY <1>4, <2>1, <2>2, <3>1
  <2>7. CASE \E r : c' = Returned(r)
    BY <1>4, <2>1, <2>7, ReturnedFields
  <2>8. CASE \/ c' = [c EXCEPT !.line = line]
             \/ c' = [c EXCEPT !.pc = "final", !.line = <<>>,
                               !.out = AfterFirstOk]
    <3>1. c'.pc # "done" /\ c'.ret = c.ret
      BY <1>1, <2>1, <2>8 DEF ClientState
    <3> QED BY <1>4, <2>1, <3>1
  <2> QED BY <2>2, <2>6, <2>7, <2>8
<1>6. ASSUME NEW k \in 1 .. Buf, ClientReadBody(k) PROVE Ends'
  <2>1. c.pc # "done" /\ ~Reading /\ UNCHANGED s /\ Closing
    <3>1. c.pc # "done"
      BY <1>6 DEF ClientReadBody
    <3> QED BY <1>6, <3>1, SomethingRead
  <2>2. \/ \E g : c' = [Returned(0) EXCEPT !.got = g]
        \/ \E g : c' = [c EXCEPT !.got = g]
    BY <1>6 DEF ClientReadBody
  <2>3. \/ c'.pc = "done" /\ c'.out = <<>>
        \/ c'.pc = c.pc /\ c'.ret = c.ret
    BY <1>1, <2>2 DEF Returned, ClientState
  <2> QED BY <1>4, <2>1, <2>3
<1>7. CASE ClientSendLate
  <2>1. c.pc # "done" /\ ~Reading /\ UNCHANGED s /\ Closing
    BY <1>7 DEF ClientSendLate
  <2>2. \/ c' = Returned(1)
        \/ c' = [c EXCEPT !.out = <<>>]
    BY <1>7 DEF ClientSendLate
  <2>3. \/ c'.pc = "done" /\ c'.out = <<>>
        \/ c'.pc = c.pc /\ c'.ret = c.ret
    BY <1>1, <2>2 DEF Returned, ClientState
  <2> QED BY <1>4, <2>1, <2>3
<1>8. CASE ClientEof \/ ClientDies
  <2>1. c.pc # "done" /\ UNCHANGED <<s, down>> /\ Closing
    BY <1>8 DEF ClientEof, ClientDies
  <2>2. \E r : c' = Returned(r)
    BY <1>8 DEF ClientEof, ClientDies, EofFails
  <2>3. c'.pc = "done" /\ c'.out = <<>> /\ c'.line = c.line
    BY <2>2, ReturnedFields
  <2> QED BY <2>1, <2>3 DEF Closing
<1>9. ASSUME NEW k \in 1 .. Cap, ServerSend(k) PROVE Ends'
  <2>1. s.out # <<>>
    <3>1. s.out \in Seq(Byte) /\ Len(down) \in Nat /\ Cap \in Nat
      BY <1>1, SessionAssumption, LenProperties DEF Types, ServerState
    <3>2. k \in Pieces(Cap - Len(down), s.out)
      BY <1>9 DEF ServerSend
    <3>3. Cap - Len(down) \in Int
      BY <3>1
    <3> QED BY <3>1, <3>2, <3>3, Piece, EmptySeq
  <2>2. s'.pc = s.pc /\ UNCHANGED <<c, open>>
    BY <1>1, <1>9 DEF ServerSend, ServerState
  <2> QED BY <2>1, <2>2
<1>10. CASE ServerClose
  <2>1. /\ s'.pc = "closed" /\ s'.out = s.out /\ s.out = <<>>
        /\ c' = c /\ open' = open \ {"server"}
    BY <1>1, <1>10 DEF ServerClose, ServerState, Free
  <2> QED BY <2>1
<1>11. CASE ServerSendLate
  <2>1. s.out # <<>> /\ UNCHANGED <<c, open>>
    BY <1>11 DEF ServerSendLate
  <2>2. s'.pc \in {"closing", s.pc}
    BY <1>1, <1>11 DEF ServerSendLate, ServerState
  <2> QED BY <2>1, <2>2
<1>12. ASSUME UNCHANGED <<c, open>>, s.pc # "closed",
              s'.pc \notin {"closed", "check", "recv", "parse"}
       PROVE  Ends'
  BY <1>12
<1>13. CASE Reject /\ UNCHANGED <<c, open>> /\ s.pc # "closed"
  <2>1. s'.pc = "closing"
    BY <1>1, <1>13 DEF Reject, ServerState
  <2> QED BY <1>12, <1>13, <2>1
<1>14. CASE HeaderSilence \/ CommitFails
  BY <1>13, <1>14 DEF HeaderSilence, CommitFails, Free
<1>15. ASSUME UNCHANGED <<c, down, open>>, s'.out = s.out, Reading, Reading'
       PROVE  Ends'
  BY <1>15
<1>16. CASE HeaderCheck
  <2>1. UNCHANGED <<c, down, open>> /\ s.pc = "check"
    BY <1>16 DEF HeaderCheck
  <2>2. Reject \/ (s'.pc = "recv" /\ s'.out = s.out)
    BY <1>1, <1>16 DEF HeaderCheck, ServerState
  <2> QED BY <1>13, <1>15, <2>1, <2>2
<1>17. CASE Tick
  <2>1. /\ UNCHANGED <<c, down, open>> /\ s.pc = "recv"
        /\ s'.pc = "recv" /\ s'.out = s.out
    BY <1>1, <1>17 DEF Tick, ServerState
  <2> QED BY <1>15, <2>1
<1>18. ASSUME NEW k \in 1 .. Buf, HeaderRecv(k) PROVE Ends'
  <2>1. UNCHANGED <<c, down, open>> /\ s.pc = "recv"
    BY <1>18 DEF HeaderRecv
  <2>2. \E l, r : \E p \in {"parse", "check"} :
          s' = [s EXCEPT !.line = l, !.left = r, !.pc = p]
    BY <1>18 DEF HeaderRecv
  <2>3. s'.pc \in {"parse", "check"} /\ s'.out = s.out
    BY <1>1, <2>2 DEF ServerState
  <2> QED BY <1>15, <2>1, <2>3
<1>19. CASE Dispatch
  <2>1. /\ UNCHANGED <<c, open>> /\ s.pc = "parse"
        /\ s'.pc \in {"closing", "body", "store"}
    BY <1>19, Dispatched
  <2> QED BY <1>12, <2>1
<1>20. CASE SendFileLine
  <2>1. UNCHANGED <<c, open>> /\ s.pc = "body"
    BY <1>20 DEF SendFileLine, Free
  <2>2. \/ Reject
        \/ s' = [s EXCEPT !.pc = "closing"]
        \/ s' = [s EXCEPT !.sent = s.sent + 1, !.round = s.round - 1,
                          !.out = <<<<version, s.sent + 1>>>>]
    BY <1>20 DEF SendFileLine
  <2>3. Reject \/ s'.pc \in {"closing", "body"}
    <3>1. CASE s' = [s EXCEPT !.pc = "closing"]
      BY <1>1, <3>1 DEF ServerState
    <3>2. CASE s' = [s EXCEPT !.sent = s.sent + 1, !.round = s.round - 1,
                              !.out = <<<<version, s.sent + 1>>>>]
      BY <1>1, <2>1, <3>2 DEF ServerState
    <3> QED BY <2>2, <3>1, <3>2
  <2> QED BY <1>12, <1>13, <2>1, <2>3
<1>21. CASE StorePending \/ StoreFails \/ Commit \/ CommitTorn
  <2>1. UNCHANGED <<c, open>> /\ s.pc = "store"
    BY <1>21 DEF StorePending, StoreFails, Commit, CommitTorn, Free
  <2>2. \/ \E n, o : s' = [s EXCEPT !.staged = n, !.left = o]
        \/ \E o : s' = [s EXCEPT !.pc = "closing", !.out = o]
    BY <1>21 DEF StorePending, StoreFails, Commit, CommitTorn
  <2>3. s'.pc \in {"closing", "store"}
    BY <1>1, <2>1, <2>2 DEF ServerState
  <2> QED BY <1>12, <2>1, <2>3
<1>22. ASSUME NEW k \in 1 .. Buf, StoreRecv(k) PROVE Ends'
  <2>1. UNCHANGED <<c, open>> /\ s.pc = "store" /\ s'.pc = "store"
    BY <1>1, <1>22 DEF StoreRecv, Free, ServerState
  <2> QED BY <1>12, <2>1
<1>23. CASE SelectLines
  <2>1. UNCHANGED <<c, open>> /\ s.pc = "body" /\ s'.pc = "body"
    BY <1>1, <1>23 DEF SelectLines, Free, ServerState
  <2> QED BY <1>12, <2>1
<1>24. CASE ServerStep
  BY <1>9, <1>10, <1>11, <1>14, <1>16, <1>17, <1>18, <1>19, <1>20, <1>21,
     <1>22, <1>23, <1>24 DEF ServerStep
<1>25. CASE ClientStep
  BY <1>3, <1>5, <1>6, <1>7, <1>8, <1>25 DEF ClientStep
<1>26. CASE Severed
  <2>1. c'.pc = "done" /\ c'.out = <<>> /\ c'.line = c.line
    BY <1>26, SeveredStep, ReturnedFields
  <2> QED BY <1>26, <2>1, SeveredStep
<1> QED BY <1>2, <1>8, <1>24, <1>25, <1>26 DEF Next, Terminated, Severed

(* UpInv with the next state's values. *)
LEMMA UpInvPrimed ==
  ASSUME call' = call,
         s'.pc \in {"check", "recv", "parse", "store"} =>
           /\ Along(s'.line, Request, 0)
           /\ Along(s'.left, Request, Len(s'.line))
           /\ Along(s'.staged, Request, Len(s'.line))
           /\ s'.left # <<>> => s'.staged = <<>>
           /\ s'.pc # "store" => s'.staged = <<>>
           /\ s'.pc \in {"check", "recv"} => /\ Len(s'.line) < call.header
                                             /\ s'.left = <<>>
           /\ s'.pc \in {"parse", "store"} => Len(s'.line) = call.header
           /\ s'.pc = "store" => /\ call.op = "PUT" /\ s'.total = call.size
                                 /\ Len(s'.staged) <= s'.total
           /\ \/ s'.pc = "store" /\ Len(s'.staged) = s'.total
              \/ /\ Along(up', Request, Used')
                 /\ Along(c'.out, Request, Sent')
           /\ ~call.eager => Sent' + Len(c'.out) <=
                call.header + IF c'.pc = "status" THEN 0 ELSE BodyLen
  PROVE  UpInv'
<1>1. Request' = Request /\ BodyLen' = BodyLen
  BY DEF Request, BodyLen
<1> QED BY <1>1 DEF UpInv, Reading, Complete, Coming

(* What is held of the stream, with its types, while it is being read. *)
LEMMA UpTypes ==
  ASSUME Types
  PROVE  /\ s.line \in Seq(Byte) /\ s.left \in Seq(Byte)
         /\ s.staged \in Seq(Byte) /\ s.out \in Seq(Byte)
         /\ c.out \in Seq(Byte) /\ c.line \in Seq(Byte)
         /\ up \in Seq(Byte) /\ down \in Seq(Byte)
         /\ Len(s.line) \in Nat /\ Len(s.left) \in Nat
         /\ Len(s.staged) \in Nat /\ Len(s.out) \in Nat
         /\ Len(c.out) \in Nat /\ Len(c.line) \in Nat
         /\ Len(up) \in Nat /\ Len(down) \in Nat
         /\ s.total \in Nat /\ Used \in Nat /\ Sent \in Nat
         /\ Sent = Used + Len(up) /\ Len(s.line) <= Used
BY LenProperties DEF Types, ClientState, ServerState, Used, Sent

(* The header is read up to its newline, which is where it ends; what came *)
(* with it follows.                                                        *)
LEMMA HeaderPiece ==
  ASSUME Types, UpInv, NEW k \in 1 .. Buf, HeaderRecv(k) PROVE UpInv'
<1> DEFINE chunk == Taken(up, k)
           line == s.line \o Upto(chunk)
           left == Beyond(chunk)
           n == Len(s.line)
           h == call.header
<1>1. /\ s.pc = "recv" /\ k \in Pieces(Buf, up) /\ up' = Rest(up, k)
      /\ UNCHANGED <<call, c>>
  BY DEF HeaderRecv
<1>2. /\ s'.line = line /\ s'.left = left /\ s'.staged = s.staged
      /\ s'.pc = IF IsLine(line) THEN "parse" ELSE "check"
  BY DEF HeaderRecv, Types, ServerState
<1>3. /\ Along(s.line, Request, 0) /\ s.left = <<>> /\ s.staged = <<>>
      /\ n < h /\ Coming
      /\ ~call.eager => Sent + Len(c.out) <=
                   h + IF c.pc = "status" THEN 0 ELSE BodyLen
  BY <1>1 DEF UpInv, Reading, Complete
<1>4. /\ h \in Nat /\ n \in Nat /\ Used = n /\ Len(up) \in Nat
      /\ Len(c.out) \in Nat /\ s.line \in Seq(Byte) /\ up \in Seq(Byte)
  BY <1>3, UpTypes, CallTypes DEF Types, Used
<1>5. Along(up, Request, n) /\ Along(c.out, Request, n + Len(up))
  BY <1>3, <1>4 DEF Coming, Sent
<1>6. /\ k \in 1 .. Len(up) /\ k \in 0 .. Len(up)
      /\ chunk \in Seq(Byte) /\ Len(chunk) = k
      /\ Rest(up, k) \in Seq(Byte) /\ Len(Rest(up, k)) = Len(up) - k
  <2>1. Buf \in Int
    BY SessionAssumption
  <2> QED BY <1>1, <1>4, <2>1, Piece
<1>7. Along(chunk, Request, n) /\ Along(Rest(up, k), Request, n + k)
  BY <1>4, <1>5, <1>6, AlongCut
<1>8. /\ Upto(chunk) \in Seq(Byte) /\ left \in Seq(Byte)
      /\ Len(Upto(chunk)) \in Nat /\ Len(left) \in Nat
      /\ Len(Upto(chunk)) + Len(left) = k
      /\ \A i \in 1 .. Len(Upto(chunk)) : Upto(chunk)[i] = chunk[i]
      /\ \/ Upto(chunk) # <<>> /\ Upto(chunk)[Len(Upto(chunk))] = Newline
         \/ /\ Len(Upto(chunk)) = k
            /\ \A i \in 1 .. k : chunk[i] # Newline
      /\ Upto(chunk) # <<>>
  <2>1. /\ Upto(chunk) \in Seq(Byte) /\ left \in Seq(Byte)
        /\ Len(Upto(chunk)) + Len(left) = Len(chunk)
        /\ \A i \in 1 .. Len(Upto(chunk)) : Upto(chunk)[i] = chunk[i]
        /\ \/ Upto(chunk) # <<>> /\ Upto(chunk)[Len(Upto(chunk))] = Newline
           \/ /\ Len(Upto(chunk)) = Len(chunk)
              /\ \A i \in 1 .. Len(chunk) : chunk[i] # Newline
        /\ chunk # <<>> => Upto(chunk) # <<>>
    BY <1>6, Scan
  <2>2. chunk # <<>>
    BY <1>6, EmptySeq
  <2> QED BY <1>6, <2>1, <2>2, LenProperties
<1>9. /\ Along(Upto(chunk), Request, n)
      /\ Along(left, Request, n + Len(Upto(chunk)))
  BY <1>4, <1>6, <1>7, AlongScan
<1> DEFINE m == Len(Upto(chunk))
<1>10. /\ line \in Seq(Byte) /\ Len(line) = n + m /\ line # <<>>
       /\ Along(line, Request, 0)
  <2>1. line \in Seq(Byte) /\ Len(line) = n + m
    BY <1>4, <1>8, ConcatProperties
  <2>2. m # 0
    BY <1>8, EmptySeq
  <2>3. 0 + Len(s.line) = n
    BY <1>4
  <2>4. Along(line, Request, 0)
    BY <1>3, <1>4, <1>8, <1>9, <2>3, AlongJoin
  <2> QED BY <1>4, <1>8, <2>1, <2>2, <2>4, EmptySeq
<1> HIDE DEF chunk, line, left, n, h, m
<1>11. m \in Nat \ {0}
  <2>1. m # 0
    BY <1>8, EmptySeq DEF m
  <2> QED BY <1>8, <2>1 DEF m
<1>12. Last(line) = Request[n + m]
  <2>1. Last(line) = line[n + m] /\ n + m \in 1 .. Len(line)
    BY <1>4, <1>10, <1>11 DEF Last
  <2>2. line[n + m] = Request[0 + (n + m)]
    BY <1>10, <2>1 DEF Along
  <2> QED BY <1>4, <1>11, <2>1, <2>2
<1>13. IsLine(line) <=> n + m = h
  <2>1. n + m \in Nat
    BY <1>4, <1>11
  <2>2. Request[n + m] = Newline <=> n + m = h
    BY <2>1, RequestAt DEF h, Types
  <2> QED BY <1>10, <1>12, <2>2 DEF IsLine
<1>14. n + m <= h /\ (n + m # h => left = <<>>)
  <2>1. CASE m = k /\ \A i \in 1 .. k : chunk[i] # Newline
    <3>1. ASSUME n + m >= h PROVE FALSE
      <4>1. h - n \in 1 .. k
        BY <1>3, <1>4, <1>11, <2>1, <3>1
      <4>2. chunk[h - n] = Request[n + (h - n)]
        BY <1>6, <1>7, <4>1 DEF Along
      <4>3. n + (h - n) = h
        BY <1>4
      <4>4. Request[h] = Newline
        BY RequestAt DEF h, Types
      <4> QED BY <2>1, <4>1, <4>2, <4>3, <4>4
    <3>2. Len(left) = 0
      BY <1>6, <1>8, <2>1 DEF m
    <3>3. left = <<>>
      BY <1>8, <3>2, EmptySeq
    <3> QED BY <1>4, <1>11, <3>1, <3>3
  <2>2. CASE Upto(chunk)[m] = Newline
    <3>1. Upto(chunk)[m] = Request[n + m]
      BY <1>9, <1>11 DEF Along, m
    <3>2. n + m \in Nat
      BY <1>4, <1>11
    <3>3. n + m = h
      BY <2>2, <3>1, <3>2, RequestAt DEF h, Types
    <3> QED BY <1>4, <3>3
  <2> QED BY <1>8, <2>1, <2>2 DEF m
<1>15. Used' = n + k /\ Len(up') = Len(up) - k
  <2>1. Len(s'.staged) = 0
    BY <1>2, <1>3, EmptySeq
  <2>2. Len(s'.line) = n + m /\ Len(s'.left) = k - m
    BY <1>2, <1>6, <1>8, <1>10, <1>11 DEF m
  <2> QED BY <1>1, <1>4, <1>6, <1>11, <2>1, <2>2 DEF Used
<1>16. Sent' = n + Len(up)
  BY <1>4, <1>6, <1>15 DEF Sent
<1>17. /\ Along(s'.line, Request, 0)
       /\ Along(s'.left, Request, Len(s'.line))
       /\ Along(s'.staged, Request, Len(s'.line))
  <2>1. Along(s'.left, Request, Len(s'.line))
    BY <1>2, <1>9, <1>10 DEF m
  <2>2. Along(s'.staged, Request, Len(s'.line))
    BY <1>2, <1>3, EmptySeq DEF Along
  <2> QED BY <1>2, <1>10, <2>1, <2>2
<1>18. /\ Along(up', Request, Used')
       /\ Along(c'.out, Request, Sent')
  BY <1>1, <1>5, <1>7, <1>15, <1>16
<1>19. ~call.eager => Sent' + Len(c'.out) <=
         call.header + IF c'.pc = "status" THEN 0 ELSE BodyLen
  <2>1. Sent' = Sent
    BY <1>4, <1>16 DEF Sent
  <2> QED BY <1>1, <1>3, <2>1 DEF h
<1>20. CASE n + m = h
  <2>1. s'.pc = "parse" /\ Len(s'.line) = call.header
    BY <1>2, <1>10, <1>13, <1>20 DEF h
  <2> QED BY <1>1, <1>2, <1>3, <1>17, <1>18, <1>19, <2>1, UpInvPrimed
<1>21. CASE n + m # h
  <2>1. s'.pc = "check" /\ Len(s'.line) < call.header /\ s'.left = <<>>
    <3>1. n + m < h
      BY <1>4, <1>11, <1>14, <1>21
    <3> QED BY <1>2, <1>10, <1>13, <1>14, <1>21, <3>1 DEF h
  <2> QED BY <1>1, <1>2, <1>3, <1>17, <1>18, <1>19, <2>1, UpInvPrimed
<1> QED BY <1>20, <1>21

(* What is parsed is the client's command. *)
LEMMA HeaderRead ==
  ASSUME Types, UpInv, s.pc = "parse"
  PROVE  s.line[1] = <<call.op, call.size>>
<1>1. /\ Len(s.line) = call.header /\ Along(s.line, Request, 0)
      /\ call.header \in Nat /\ call.header >= 2
  BY CallTypes DEF UpInv, Reading, Types
<1>2. 1 \in 1 .. Len(s.line) /\ 1 \in 1 .. (call.header - 1)
  BY <1>1
<1>3. s.line[1] = Request[0 + 1]
  BY <1>1, <1>2 DEF Along
<1>4. Request[1] = <<call.op, call.size>>
  BY <1>2, RequestAt DEF Types
<1> QED BY <1>3, <1>4

(* Each step keeps UpInv.  A client that waits for the first OK sends its  *)
(* data when all of the header, and nothing else, is with the server.      *)
LEMMA UpStep ==
  ASSUME Types, Ends, UpInv, [Next]_svars PROVE UpInv'
<1> DEFINE Busy == s.pc \in {"check", "recv", "parse", "store"}
           Bound == call.header + IF c.pc = "status" THEN 0 ELSE BodyLen
           Held ==
             /\ Along(s.line, Request, 0)
             /\ Along(s.left, Request, Len(s.line))
             /\ Along(s.staged, Request, Len(s.line))
             /\ s.left # <<>> => s.staged = <<>>
             /\ s.pc # "store" => s.staged = <<>>
             /\ s.pc \in {"check", "recv"} => /\ Len(s.line) < call.header
                                              /\ s.left = <<>>
             /\ s.pc \in {"parse", "store"} => Len(s.line) = call.header
             /\ s.pc = "store" => /\ call.op = "PUT" /\ s.total = call.size
                                  /\ Len(s.staged) <= s.total
           Whole == s.pc = "store" /\ Len(s.staged) = s.total
           Next1 == /\ Along(up, Request, Used)
                    /\ Along(c.out, Request, Sent)
           Few == ~call.eager => Sent + Len(c.out) <= Bound
<1>1. c \in ClientState /\ s \in ServerState
  BY DEF Types
<1>2. ASSUME Busy PROVE Held /\ (Whole \/ Next1) /\ Few
  BY <1>2 DEF UpInv, Reading, Complete, Coming
<1>3. /\ call.header \in Nat /\ BodyLen \in Nat /\ call.header >= 2
      /\ call.op = "PUT" => BodyLen = call.size
  BY CallTypes DEF Types, BodyLen
<1>4. Along(<<>>, Request, Sent) /\ Along(<<>>, Request, Used)
      /\ Along(<<>>, Request, Len(s.line)) /\ Len(<<>>) = 0
  BY EmptySeq DEF Along
<1>u. /\ s.line \in Seq(Byte) /\ s.left \in Seq(Byte)
      /\ s.staged \in Seq(Byte) /\ c.out \in Seq(Byte)
      /\ up \in Seq(Byte)
  BY UpTypes
<1>t. /\ Len(s.line) \in Nat /\ Len(s.left) \in Nat
      /\ Len(s.staged) \in Nat /\ Len(c.out) \in Nat /\ Len(up) \in Nat
      /\ s.total \in Nat /\ Used \in Nat
      /\ Sent \in Nat /\ Sent = Used + Len(up) /\ Len(s.line) <= Used
  BY UpTypes
<1>x. Sent \in Nat /\ Len(c.out) \in Nat
  BY <1>t
<1>y. ASSUME Sent' <= Sent, Sent' \in Nat,
             Len(c'.out) <= Len(c.out), Len(c'.out) \in Nat
      PROVE  /\ Sent' + Len(c'.out) <= Sent + Len(c.out)
             /\ Sent' + Len(c'.out) \in Nat /\ Sent + Len(c.out) \in Nat
  BY <1>x, <1>y
<1>v. Sent' = Used' + Len(up')
  BY DEF Sent
<1>5. ASSUME s'.pc \notin {"check", "recv", "parse", "store"}, call' = call
      PROVE  UpInv'
  BY <1>5, UpInvPrimed
<1>6. ASSUME UNCHANGED <<call, s>>, c'.out \in {c.out, <<>>},
             up' = up \/ (up' = <<>> /\ c'.out = <<>>),
             c'.pc = c.pc \/ c'.pc # "status"
      PROVE  UpInv'
  <2>1. CASE ~Busy
    BY <1>5, <1>6, <2>1
  <2>2. CASE Busy
    <3>1. Used' = Used /\ Len(up') <= Len(up) /\ Len(c'.out) <= Len(c.out)
          /\ Len(up') \in Nat /\ Len(c'.out) \in Nat
      BY <1>4, <1>6, <1>t DEF Used
    <3>2. Next1 => /\ Along(up', Request, Used')
                   /\ Along(c'.out, Request, Sent')
      <4>1. Along(<<>>, Request, Sent')
        BY EmptySeq DEF Along
      <4>2. CASE c'.out = <<>>
        <5>1. Along(<<>>, Request, Used')
          BY EmptySeq DEF Along
        <5>2. up' \in {up, <<>>} /\ Used' = Used
          BY <1>6, <3>1
        <5> QED BY <4>1, <4>2, <5>1, <5>2
      <4>3. CASE c'.out # <<>>
        <5>1. up' = up /\ c'.out = c.out /\ Used' = Used
          BY <1>6, <3>1, <4>3
        <5>2. Sent' = Sent
          BY <5>1 DEF Sent
        <5> QED BY <5>1, <5>2
      <4> QED BY <4>2, <4>3
    <3>3. ~call.eager => Sent' + Len(c'.out) <=
            call.header + IF c'.pc = "status" THEN 0 ELSE BodyLen
      <4>1. Few
        BY <1>2, <2>2
      <4>2. /\ Sent' + Len(c'.out) <= Sent + Len(c.out)
            /\ Sent' + Len(c'.out) \in Nat /\ Sent + Len(c.out) \in Nat
        <5>1. Sent' <= Sent /\ Sent' \in Nat
          BY <1>t, <1>v, <3>1
        <5>2. Len(c'.out) <= Len(c.out) /\ Len(c'.out) \in Nat
          BY <3>1
        <5> QED BY <1>y, <5>1, <5>2
      <4>3. c'.pc # "status" \/ c'.pc = c.pc
        BY <1>6
      <4> QED BY <1>3, <4>1, <4>2, <4>3
    <3> QED BY <1>2, <1>6, <2>2, <3>2, <3>3, UpInvPrimed
  <2> QED BY <2>1, <2>2
<1>7. ASSUME UNCHANGED <<call, c, up>>, s'.line = s.line, s'.left = s.left,
             s'.staged = s.staged, s'.total = s.total,
             \/ s'.pc = s.pc
             \/ s.pc = "check" /\ s'.pc = "recv"
      PROVE  UpInv'
  <2>1. CASE ~Busy
    BY <1>5, <1>7, <2>1
  <2>2. CASE Busy
    <3>1. Used' = Used /\ Sent' = Sent
      BY <1>7 DEF Used, Sent
    <3> HIDE DEF Busy
    <3> QED BY <1>2, <1>7, <2>2, <3>1, UpInvPrimed
  <2> QED BY <2>1, <2>2
<1>8. CASE UNCHANGED svars \/ Replace
  BY <1>6, <1>8 DEF svars, Replace
<1>9. ASSUME NEW k \in 1 .. Cap, ClientSend(k) PROVE UpInv'
  <2>1. /\ UNCHANGED <<call, s>> /\ up' = up \o Taken(c.out, k)
        /\ c'.out = Rest(c.out, k) /\ c'.pc = c.pc
    BY <1>1, <1>9 DEF ClientSend, ClientState
  <2>2. CASE ~Busy
    BY <1>5, <2>1, <2>2
  <2>3. CASE Busy
    <3>1. /\ k \in 0 .. Len(c.out)
          /\ Taken(c.out, k) \in Seq(Byte) /\ Len(Taken(c.out, k)) = k
          /\ Len(c'.out) = Len(c.out) - k
      <4>1. /\ c.out \in Seq(Byte) /\ Cap - Len(up) \in Int
            /\ k \in Pieces(Cap - Len(up), c.out)
        <5>1. Cap \in Nat
          BY SessionAssumption
        <5> QED BY <1>9, <1>t, <1>u, <5>1 DEF ClientSend
      <4> QED BY <2>1, <4>1, Piece
    <3>2. Len(up') = Len(up) + k /\ Used' = Used
      <4>1. Len(up \o Taken(c.out, k)) = Len(up) + Len(Taken(c.out, k))
        BY <3>1, <1>t, <1>u, ConcatProperties
      <4>2. Used' = Used
        BY <2>1 DEF Used
      <4> QED BY <2>1, <3>1, <4>1, <4>2
    <3>3. ASSUME Next1
          PROVE  /\ Along(up', Request, Used')
                 /\ Along(c'.out, Request, Sent')
      <4> DEFINE p == Sent
      <4>1. p \in Nat /\ Along(c.out, Request, p) /\ c.out \in Seq(Byte)
            /\ up \in Seq(Byte) /\ Used \in Nat
        BY <3>3, <1>t, <1>u, Zenon
      <4>2. /\ Along(Taken(c.out, k), Request, p)
            /\ Along(Rest(c.out, k), Request, p + k)
        BY <3>1, <4>1, AlongCut
      <4>3. Along(up', Request, Used)
        <5>1. Used + Len(up) = p /\ Along(up, Request, Used)
          BY <1>t, <3>3
        <5>2. Along(Taken(c.out, k), Request, Used + Len(up))
          BY <4>2, <5>1
        <5> QED BY <2>1, <3>1, <4>1, <5>1, <5>2, AlongJoin
      <4>4. p + k = Sent'
        BY <3>1, <3>2, <1>t, <1>v
      <4> QED BY <2>1, <3>2, <4>2, <4>3, <4>4
    <3>4. ~call.eager => Sent' + Len(c'.out) <=
            call.header + IF c'.pc = "status" THEN 0 ELSE BodyLen
      <4>1. Few
        BY <1>2, <2>3
      <4>2. Sent' = Sent + k /\ k \in Nat
        BY <3>1, <3>2, <1>t, <1>v
      <4>3. Sent' + Len(c'.out) = Sent + Len(c.out)
        <5> DEFINE n == Len(c.out)
                   m == Len(c'.out)
        <5>1. m = n - k /\ n \in Nat
          BY <1>x, <3>1
        <5> HIDE DEF n, m
        <5>2. (Sent + k) + m = Sent + n
          BY <1>x, <4>2, <5>1
        <5> QED BY <4>2, <5>2 DEF n, m
      <4> QED BY <2>1, <4>1, <4>3
    <3> QED BY <1>2, <2>1, <2>3, <3>3, <3>4, UpInvPrimed
  <2> QED BY <2>2, <2>3
<1>10. CASE ClientSendLate \/ ClientEof
  <2>1. s' = s /\ call' = call /\ s.pc = "closed"
    BY <1>10 DEF ClientSendLate, ClientEof, Ends
  <2> QED BY <1>5, <2>1
<1>11. CASE ClientDies
  <2>1. UNCHANGED <<call, s>> /\ c' = Returned(None) /\ up' \in {up, <<>>}
    BY <1>11 DEF ClientDies
  <2>2. c'.out = <<>> /\ c'.pc # "status"
    BY <2>1, ReturnedFields
  <2> QED BY <1>6, <2>1, <2>2
<1>s. CASE Severed
  <2>1. UNCHANGED <<call, s>> /\ c' = Returned(1) /\ up' \in {up, <<>>}
    BY <1>s, SeveredStep
  <2>2. c'.out = <<>> /\ c'.pc # "status"
    BY <2>1, ReturnedFields
  <2> QED BY <1>6, <2>1, <2>2
<1>12. ASSUME NEW k \in 1 .. Buf, ClientReadBody(k) PROVE UpInv'
  <2>1. UNCHANGED <<call, s, up>>
    BY <1>12, SomethingRead
  <2>2. \/ \E g : c' = [Returned(0) EXCEPT !.got = g]
        \/ \E g : c' = [c EXCEPT !.got = g]
    BY <1>12 DEF ClientReadBody
  <2>3. \/ c'.pc = "done" /\ c'.out = <<>>
        \/ c'.pc = c.pc /\ c'.out = c.out
    BY <1>1, <2>2 DEF Returned, ClientState
  <2> QED BY <1>6, <2>1, <2>3
<1>13. ASSUME NEW k \in 1 .. Buf, ClientReadLine(k) PROVE UpInv'
  <2> DEFINE chunk == Taken(down, k)
             line == c.line \o Upto(chunk)
  <2>1. UNCHANGED <<call, s, up>> /\ down # <<>>
    BY <1>13, SomethingRead
  <2>2. /\ c.out = <<>>
        /\ \/ \E r : c' = Returned(r)
           \/ c' = [c EXCEPT !.line = line]
           \/ /\ call.op = "PUT" /\ c.pc = "status"
              /\ c' = [c EXCEPT !.pc = "final", !.line = <<>>,
                                !.out = AfterFirstOk]
           \/ IsLine(line) /\ c' = Receiving(line[1][2], Beyond(chunk))
    BY <1>13, LineRead
  <2>3. chunk \in Seq(Byte)
    <3>1. k \in 0 .. Len(down) /\ down \in Seq(Byte)
      BY <1>13, SomethingRead DEF Types
    <3> QED BY <3>1, Cut
  <2>4. Beyond(chunk) \in Seq(Byte) /\ line \in Seq(Byte)
    <3>1. Beyond(chunk) \in Seq(Byte) /\ Upto(chunk) \in Seq(Byte)
      BY <2>3, Scan
    <3>2. c.line \in Seq(Byte)
      BY <1>1 DEF ClientState
    <3> QED BY <3>1, <3>2, ConcatProperties
  <2>5. ASSUME IsLine(line) PROVE line[1][2] \in Nat
    <3>1. line[1] \in Byte
      BY <2>4, <2>5, EmptySeq, ElementOfSeq DEF IsLine
    <3> QED BY <3>1 DEF Byte
  <2> HIDE DEF chunk, line
  <2>6. CASE IsLine(line) /\ c' = Receiving(line[1][2], Beyond(chunk))
    <3>1. c'.out = c.out /\ c'.pc # "status"
      BY <2>4, <2>5, <2>6, ReceivingFields
    <3> QED BY <1>6, <2>1, <3>1
  <2>7. CASE \E r : c' = Returned(r)
    BY <1>6, <2>1, <2>7, ReturnedFields
  <2>8. CASE c' = [c EXCEPT !.line = line]
    <3>1. c'.pc = c.pc /\ c'.out = c.out
      BY <1>1, <2>8 DEF ClientState
    <3> QED BY <1>6, <2>1, <3>1
  <2>9. CASE /\ call.op = "PUT" /\ c.pc = "status"
             /\ c' = [c EXCEPT !.pc = "final", !.line = <<>>,
                               !.out = AfterFirstOk]
    <3>1. c'.pc = "final" /\ c'.out = AfterFirstOk
      BY <1>1, <2>9 DEF ClientState
    <3>2. CASE call.eager
      BY <1>6, <2>1, <3>1, <3>2 DEF AfterFirstOk
    <3>3. CASE ~Busy
      BY <1>5, <2>1, <3>3
    <3>4. CASE ~call.eager /\ Busy
      <4>1. c'.out = Data /\ s.pc = "store"
        BY <2>1, <3>1, <3>4 DEF AfterFirstOk, Ends, Reading, Quiet
      <4>2. Held /\ (Whole \/ Next1) /\ Few /\ Len(c.out) = 0
        BY <1>2, <1>4, <2>2, <3>4
      <4>3. Sent = call.header
        <5>1. Len(s.line) = call.header
          BY <4>1, <4>2
        <5>2. Sent + 0 <= call.header
          BY <1>3, <2>9, <3>4, <4>2, <1>t
        <5>3. call.header <= Sent
          BY <1>t, <5>1
        <5> QED BY <1>3, <1>x, <5>2, <5>3
      <4>4. Used' = Used /\ Sent' = Sent
        BY <2>1 DEF Used, Sent
      <4>5. Along(c'.out, Request, Sent') /\ Len(c'.out) = BodyLen
        BY <2>1, <4>1, <4>3, <4>4, CallBytes DEF Types
      <4>6. Sent' + Len(c'.out) <= call.header + BodyLen
        BY <1>3, <2>1, <4>3, <4>4, <4>5
      <4> QED BY <2>1, <3>1, <4>1, <4>2, <4>4, <4>5, <4>6, UpInvPrimed
    <3> QED BY <3>2, <3>3, <3>4
  <2> QED BY <2>2, <2>6, <2>7, <2>8, <2>9
<1>14. ASSUME NEW k \in 1 .. Cap, ServerSend(k) PROVE UpInv'
  <2>1. /\ UNCHANGED <<call, c, up>> /\ s'.line = s.line /\ s'.pc = s.pc
        /\ s'.left = s.left /\ s'.staged = s.staged /\ s'.total = s.total
    BY <1>1, <1>14 DEF ServerSend, ServerState
  <2> QED BY <1>7, <2>1
<1>15. CASE ServerSendLate
  <2>1. /\ UNCHANGED <<call, c, up>> /\ s'.line = s.line
        /\ s'.pc \in {"closing", s.pc}
        /\ s'.left = s.left /\ s'.staged = s.staged /\ s'.total = s.total
    BY <1>1, <1>15 DEF ServerSendLate, ServerState
  <2> QED BY <1>5, <1>7, <2>1
<1>16. CASE Reject /\ call' = call
  <2>1. s'.pc = "closing"
    BY <1>1, <1>16 DEF Reject, ServerState
  <2> QED BY <1>5, <1>16, <2>1
<1>17. CASE HeaderSilence \/ CommitFails
  BY <1>16, <1>17 DEF HeaderSilence, CommitFails
<1>18. CASE HeaderCheck
  <2>1. UNCHANGED <<call, c, up>> /\ s.pc = "check"
    BY <1>18 DEF HeaderCheck
  <2>2. \/ Reject
        \/ /\ s'.pc = "recv" /\ s'.line = s.line /\ s'.left = s.left
           /\ s'.staged = s.staged /\ s'.total = s.total
    BY <1>1, <1>18 DEF HeaderCheck, ServerState
  <2> QED BY <1>7, <1>16, <2>1, <2>2
<1>19. CASE Tick
  <2>1. /\ UNCHANGED <<call, c, up>> /\ s'.line = s.line /\ s'.pc = s.pc
        /\ s'.left = s.left /\ s'.staged = s.staged /\ s'.total = s.total
    BY <1>1, <1>19 DEF Tick, ServerState
  <2> QED BY <1>7, <2>1
<1>20. CASE Dispatch
  <2>1. /\ s.pc = "parse" /\ UNCHANGED <<call, c, up>>
        /\ s'.line = s.line /\ s'.left = s.left /\ s'.staged = s.staged
        /\ \/ s'.pc \notin {"check", "recv", "parse", "store"}
           \/ /\ s.line[1][1] = "PUT" /\ s'.pc = "store"
              /\ s'.total = s.line[1][2]
    BY <1>20, Dispatched
  <2>2. Held /\ Next1 /\ Few
    BY <1>2, <2>1
  <2>3. s.line[1] = <<call.op, call.size>>
    BY <2>1, HeaderRead
  <2>4. CASE s'.pc \notin {"check", "recv", "parse", "store"}
    BY <1>5, <2>1, <2>4
  <2>5. CASE s'.pc = "store" /\ s.line[1][1] = "PUT"
               /\ s'.total = s.line[1][2]
    <3>1. call.op = "PUT" /\ s'.total = call.size
      BY <2>3, <2>5
    <3>2. Len(s'.staged) <= s'.total
      <4>1. Len(s'.staged) = 0
        BY <1>4, <2>1, <2>2
      <4> QED BY <3>1, <4>1, CallTypes DEF Types
    <3>3. Used' = Used /\ Sent' = Sent
      BY <2>1 DEF Used, Sent
    <3> QED BY <2>1, <2>2, <2>5, <3>1, <3>2, <3>3, UpInvPrimed
  <2> QED BY <2>1, <2>4, <2>5
<1>r. CASE SelectLines
  <2>1. call' = call /\ s'.pc = "body"
    BY <1>1, <1>r DEF SelectLines, Free, ServerState
  <2> QED BY <1>5, <2>1
<1>l. CASE SendFileLine
  <2>1. call' = call /\ s.pc = "body"
    BY <1>l DEF SendFileLine, Free
  <2>2. \/ Reject
        \/ s' = [s EXCEPT !.pc = "closing"]
        \/ \E n, m, o :
             s' = [s EXCEPT !.sent = n, !.round = m, !.out = o]
    BY <1>l DEF SendFileLine
  <2>3. Reject \/ s'.pc \in {"closing", "body"}
    BY <1>1, <2>1, <2>2 DEF ServerState
  <2> QED BY <1>5, <1>16, <2>1, <2>3
<1>21. CASE StoreFails \/ Commit \/ CommitTorn \/ ServerClose
  <2>1. call' = call /\ s.pc \in {"store", "closing"}
    BY <1>21 DEF StoreFails, Commit, CommitTorn, ServerClose, Free
  <2>2. \/ \E o : s' = [s EXCEPT !.pc = "closing", !.out = o]
        \/ s' = [s EXCEPT !.pc = "closed"]
    BY <1>21 DEF StoreFails, Commit, CommitTorn, ServerClose
  <2>3. s'.pc \in {"closing", "closed"}
    BY <1>1, <2>1, <2>2 DEF ServerState
  <2> QED BY <1>5, <2>1, <2>3
<1>22. CASE StorePending
  <2> DEFINE m == Min({s.total, Len(s.left)})
  <2>1. /\ s.pc = "store" /\ s.left # <<>> /\ UNCHANGED <<call, c, up>>
        /\ s'.pc = "store" /\ s'.line = s.line /\ s'.total = s.total
        /\ s'.left = <<>> /\ s'.staged = Taken(s.left, m)
    BY <1>1, <1>22 DEF StorePending, Free, ServerState, Pending
  <2>2. Held /\ (Whole \/ Next1) /\ Few /\ s.staged = <<>>
    BY <1>2, <2>1
  <2>3. m = IF s.total <= Len(s.left) THEN s.total ELSE Len(s.left)
    <3>1. s.total \in Int /\ Len(s.left) \in Int
      BY <1>t
    <3> QED BY <3>1, MinOfTwo
  <2>4. m \in 0 .. Len(s.left) /\ m <= s.total
    BY <2>3, <1>t
  <2>5. Len(s'.staged) = m /\ Along(s'.staged, Request, Len(s.line))
    <3>1. Along(s.left, Request, Len(s.line))
      BY <2>2
    <3>2. Len(Taken(s.left, m)) = m
      BY <1>t, <1>u, <2>4, Cut
    <3>3. Along(Taken(s.left, m), Request, Len(s.line))
      BY <1>t, <1>u, <2>4, <3>1, AlongCut
    <3> QED BY <2>1, <3>2, <3>3
  <2> HIDE DEF m
  <2>6. Along(s'.left, Request, Len(s.line))
    BY <1>4, <2>1
  <2>7. Used' = Len(s.line) + m /\ Used = Len(s.line) + Len(s.left)
    BY <1>4, <2>1, <2>2, <2>4, <2>5, <1>t DEF Used
  <2>8. CASE m = s.total
    <3>1. ~call.eager => Sent' + Len(c'.out) <=
            call.header + IF c'.pc = "status" THEN 0 ELSE BodyLen
      <4>1. Few
        BY <2>2
      <4>2. /\ Sent' + Len(c'.out) <= Sent + Len(c.out)
            /\ Sent' + Len(c'.out) \in Nat /\ Sent + Len(c.out) \in Nat
        <5>1. Used' <= Used /\ Used' \in Nat
          BY <1>t, <2>4, <2>7
        <5>2. Sent' <= Sent /\ Sent' \in Nat
          BY <1>t, <1>v, <2>1, <5>1
        <5>3. Len(c'.out) <= Len(c.out) /\ Len(c'.out) \in Nat
          BY <1>x, <2>1
        <5> QED BY <1>y, <5>2, <5>3
      <4>3. c'.pc = c.pc
        BY <2>1
      <4> QED BY <1>3, <4>1, <4>2, <4>3
    <3> QED BY <2>1, <2>2, <2>4, <2>5, <2>6, <2>8, <3>1, UpInvPrimed
  <2>9. CASE m # s.total
    <3>1. Used' = Used /\ Sent' = Sent /\ ~Whole
      <4>1. m = Len(s.left) /\ ~(s.total <= Len(s.left))
        BY <2>3, <2>9
      <4>2. Len(s.staged) = 0
        BY <1>4, <2>2
      <4>3. Used' = Used
        BY <2>7, <4>1
      <4>4. ~Whole
        BY <1>t, <4>1, <4>2
      <4> QED BY <1>t, <1>v, <2>1, <4>3, <4>4
    <3> QED BY <2>1, <2>2, <2>4, <2>5, <2>6, <3>1, UpInvPrimed
  <2> QED BY <2>8, <2>9
<1>23. ASSUME NEW k \in 1 .. Buf, StoreRecv(k) PROVE UpInv'
  <2>1. /\ s.pc = "store" /\ s.left = <<>> /\ UNCHANGED <<call, c>>
        /\ s'.pc = "store" /\ s'.line = s.line /\ s'.total = s.total
        /\ s'.left = s.left /\ s'.staged = s.staged \o Taken(up, k)
        /\ up' = Rest(up, k)
        /\ k \in Pieces(Min({Buf, s.total - Len(s.staged)}), up)
    BY <1>1, <1>23 DEF StoreRecv, Free, ServerState
  <2>2. Held /\ (Whole \/ Next1) /\ Few
    BY <1>2, <2>1
  <2>3. /\ Min({Buf, s.total - Len(s.staged)}) \in Int
        /\ Min({Buf, s.total - Len(s.staged)}) <= s.total - Len(s.staged)
    <3>1. Buf \in Int
      BY SessionAssumption
    <3>2. s.total - Len(s.staged) \in Int
      BY <1>t
    <3> QED BY <3>1, <3>2, MinOfTwo
  <2>4. /\ k \in 1 .. Len(up) /\ k \in 0 .. Len(up)
        /\ k <= Min({Buf, s.total - Len(s.staged)})
        /\ Taken(up, k) \in Seq(Byte) /\ Len(Taken(up, k)) = k
        /\ Len(Rest(up, k)) = Len(up) - k
    <3> DEFINE most == Min({Buf, s.total - Len(s.staged)})
    <3>1. most \in Int /\ k \in Pieces(most, up) /\ up \in Seq(Byte)
      BY <2>1, <2>3, <1>u
    <3> HIDE DEF most
    <3>2. /\ k \in 1 .. Len(up) /\ k \in 0 .. Len(up) /\ k <= most
          /\ Taken(up, k) \in Seq(Byte) /\ Len(Taken(up, k)) = k
          /\ Len(Rest(up, k)) = Len(up) - k
      BY <3>1, Piece
    <3> QED BY <3>2 DEF most
  <2>5. k <= s.total - Len(s.staged) /\ Next1
    <3>1. k <= s.total - Len(s.staged)
      BY <2>3, <2>4, <1>t
    <3>2. ~Whole
      BY <2>4, <3>1, <1>t
    <3> QED BY <2>2, <3>1, <3>2
  <2>6. Used = Len(s.line) + Len(s.staged)
    BY <1>4, <2>1, <1>t DEF Used
  <2>7. /\ Along(Taken(up, k), Request, Used)
        /\ Along(Rest(up, k), Request, Used + k)
    BY <2>4, <2>5, <1>t, <1>u, AlongCut
  <2>8. Along(s'.staged, Request, Len(s.line))
    BY <2>1, <2>2, <2>4, <2>6, <2>7, <1>t, <1>u, AlongJoin
  <2>9. Len(s'.staged) = Len(s.staged) + k /\ Used' = Used + k
    <3>1. Len(s'.staged) = Len(s.staged) + k
      <4>1. Len(s.staged \o Taken(up, k)) = Len(s.staged) + Len(Taken(up, k))
        BY <1>t, <1>u, <2>4, ConcatProperties
      <4> QED BY <2>1, <2>4, <4>1
    <3>2. Len(s.left) = 0 /\ Len(s.line) \in Nat /\ Len(s.staged) \in Nat
      BY <1>4, <1>t, <2>1
    <3>3. Used' = Len(s.line) + 0 + (Len(s.staged) + k)
      BY <2>1, <3>1, <3>2 DEF Used
    <3> DEFINE l == Len(s.line)
               g == Len(s.staged)
    <3>4. l \in Nat /\ g \in Nat /\ Used' = l + 0 + (g + k) /\ Used = l + g
      BY <2>6, <3>2, <3>3
    <3> HIDE DEF l, g
    <3>5. Used' = Used + k
      BY <3>4
    <3> QED BY <3>1, <3>5
  <2>10. Sent' = Sent /\ Len(s'.staged) <= s'.total
    <3>1. k <= s.total - Len(s.staged) /\ Len(up') = Len(up) - k
      BY <2>1, <2>4, <2>5
    <3>2. k \in Nat /\ s'.total = s.total
      BY <2>1, <2>4
    <3>3. Sent' = Sent
      BY <1>t, <1>v, <2>9, <3>1, <3>2
    <3>4. Len(s.staged) + k <= s.total
      BY <1>t, <3>1, <3>2
    <3> QED BY <2>9, <3>2, <3>3, <3>4
  <2>11. /\ Along(up', Request, Used')
         /\ Along(c'.out, Request, Sent')
    BY <2>1, <2>5, <2>7, <2>9, <2>10
  <2>12. ~call.eager => Sent' + Len(c'.out) <=
            call.header + IF c'.pc = "status" THEN 0 ELSE BodyLen
    BY <2>1, <2>2, <2>10
  <2> QED BY <2>1, <2>2, <2>8, <2>10, <2>11, <2>12, UpInvPrimed
<1>24. CASE ServerStep
  BY <1>14, <1>15, <1>17, <1>18, <1>19, <1>20, <1>21, <1>22, <1>23, <1>24,
     <1>r, <1>l, HeaderPiece DEF ServerStep
<1>25. CASE ClientStep
  BY <1>9, <1>10, <1>12, <1>13, <1>25 DEF ClientStep
<1> QED BY <1>8, <1>11, <1>24, <1>25, <1>s DEF Next, Terminated, Severed

-----------------------------------------------------------------------------
(* Pieces without an OK, or with one only at the front. *)
LEMMA OkCut ==
  ASSUME NEW q \in Seq(Byte), NEW k \in 0 .. Len(q)
  PROVE  /\ NoOk(q) => NoOk(Taken(q, k)) /\ NoOk(Rest(q, k)) /\ OkFirst(q)
         /\ OkFirst(q) => OkFirst(Taken(q, k))
         /\ OkFirst(q) /\ k # 0 => NoOk(Rest(q, k))
<1>1. /\ Len(q) \in Nat /\ Len(Taken(q, k)) = k
      /\ \A i \in 1 .. k : Taken(q, k)[i] = q[i]
      /\ Len(Rest(q, k)) = Len(q) - k
      /\ \A i \in 1 .. (Len(q) - k) : Rest(q, k)[i] = q[k + i]
  BY Cut, LenProperties
<1>2. ASSUME NoOk(q) PROVE NoOk(Taken(q, k)) /\ NoOk(Rest(q, k))
  <2>1. ASSUME NEW i \in 1 .. Len(Taken(q, k)) PROVE Taken(q, k)[i][1] # "OK"
    <3>1. Taken(q, k)[i] = q[i] /\ i \in 1 .. Len(q)
      BY <1>1
    <3> QED BY <1>2, <3>1 DEF NoOk
  <2>2. ASSUME NEW i \in 1 .. Len(Rest(q, k)) PROVE Rest(q, k)[i][1] # "OK"
    <3>1. Rest(q, k)[i] = q[k + i] /\ k + i \in 1 .. Len(q)
      BY <1>1
    <3> QED BY <1>2, <3>1 DEF NoOk
  <2> QED BY <2>1, <2>2 DEF NoOk
<1>3. NoOk(q) => OkFirst(q)
  BY DEF NoOk, OkFirst
<1>4. ASSUME OkFirst(q) PROVE OkFirst(Taken(q, k))
  BY <1>1, <1>4 DEF OkFirst
<1>5. ASSUME OkFirst(q), k # 0 PROVE NoOk(Rest(q, k))
  <2>1. ASSUME NEW i \in 1 .. Len(Rest(q, k)) PROVE Rest(q, k)[i][1] # "OK"
    <3>1. Rest(q, k)[i] = q[k + i] /\ k + i \in 1 .. Len(q) /\ k + i # 1
      BY <1>1, <1>5
    <3> QED BY <1>5, <3>1 DEF OkFirst
  <2> QED BY <2>1 DEF NoOk
<1> QED BY <1>2, <1>3, <1>4, <1>5

(* The same of two pieces put together. *)
LEMMA OkJoin ==
  ASSUME NEW q \in Seq(Byte), NEW r \in Seq(Byte)
  PROVE  /\ NoOk(q) /\ NoOk(r) => NoOk(q \o r)
         /\ OkFirst(q) /\ NoOk(r) => OkFirst(q \o r)
         /\ q = <<>> => q \o r = r
<1>1. Len(q) \in Nat /\ Len(r) \in Nat
  BY LenProperties
<1>2. /\ Len(q \o r) = Len(q) + Len(r)
      /\ \A i \in 1 .. (Len(q) + Len(r)) : (q \o r)[i] =
           IF i <= Len(q) THEN q[i] ELSE r[i - Len(q)]
  BY ConcatProperties
<1>3. ASSUME NEW i \in 1 .. Len(q \o r)
      PROVE  \/ i \in 1 .. Len(q) /\ (q \o r)[i] = q[i]
             \/ i - Len(q) \in 1 .. Len(r) /\ (q \o r)[i] = r[i - Len(q)]
  BY <1>1, <1>2
<1>4. q = <<>> => q \o r = r
  BY ConcatEmptySeq
<1> QED BY <1>3, <1>4, Zenon DEF NoOk, OkFirst

(* The status line, as far as it has been read. *)
LEMMA StatusRead ==
  ASSUME Types, NEW k \in 1 .. Buf, ClientReadLine(k)
  PROVE  LET chunk == Taken(down, k)
             line == c.line \o Upto(chunk)
         IN  /\ line \in Seq(Byte) /\ line # <<>>
             /\ chunk \in Seq(Byte) /\ Len(chunk) = k
             /\ Upto(chunk) \in Seq(Byte) /\ Upto(chunk) # <<>>
             /\ Beyond(chunk) \in Seq(Byte)
             /\ Len(Upto(chunk)) \in 1 .. k
             /\ Len(line) = Len(c.line) + Len(Upto(chunk))
             /\ Last(line) = Upto(chunk)[Len(Upto(chunk))]
             /\ ~IsLine(line) => Len(Upto(chunk)) = k /\ Upto(chunk) = chunk
<1> DEFINE chunk == Taken(down, k)
           line == c.line \o Upto(chunk)
<1>1. /\ k \in 1 .. Len(down) /\ k \in 0 .. Len(down) /\ k \in Nat
      /\ down \in Seq(Byte) /\ c.line \in Seq(Byte) /\ Len(c.line) \in Nat
  BY SomethingRead, UpTypes
<1>2. chunk \in Seq(Byte) /\ Len(chunk) = k
  BY <1>1, Cut
<1> HIDE DEF chunk
<1>3. chunk # <<>>
  BY <1>1, <1>2, EmptySeq
<1>4. /\ Upto(chunk) \in Seq(Byte) /\ Beyond(chunk) \in Seq(Byte)
      /\ Len(Upto(chunk)) + Len(Beyond(chunk)) = Len(chunk)
      /\ Upto(chunk) # <<>>
      /\ \/ Upto(chunk)[Len(Upto(chunk))] = Newline
         \/ /\ Len(Upto(chunk)) = Len(chunk)
            /\ \A i \in 1 .. Len(chunk) : chunk[i] # Newline
  BY <1>2, <1>3, Scan
<1> DEFINE m == Len(Upto(chunk))
<1>5. m \in 1 .. k
  <2>1. m \in Nat /\ Len(Beyond(chunk)) \in Nat /\ m # 0
    BY <1>4, LenProperties, EmptySeq
  <2> QED BY <1>1, <1>2, <1>4, <2>1
<1>6. /\ line \in Seq(Byte) /\ Len(line) = Len(c.line) + m
      /\ \A i \in 1 .. (Len(c.line) + m) : line[i] =
           IF i <= Len(c.line) THEN c.line[i]
           ELSE Upto(chunk)[i - Len(c.line)]
  BY <1>1, <1>4, ConcatProperties
<1>7. Last(line) = Upto(chunk)[m]
  <2> DEFINE a == Len(c.line)
  <2>1. a \in Nat /\ m \in Nat \ {0}
    BY <1>1, <1>5
  <2>2. /\ Len(line) = a + m
        /\ \A i \in 1 .. (a + m) : ~(i <= a) => line[i] = Upto(chunk)[i - a]
    BY <1>6
  <2> HIDE DEF a, m, line
  <2>3. a + m \in 1 .. (a + m) /\ ~(a + m <= a) /\ (a + m) - a = m
    BY <2>1
  <2>4. line[a + m] = Upto(chunk)[m]
    BY <2>2, <2>3
  <2> QED BY <2>2, <2>4 DEF Last
<1>8. line # <<>>
  <2>1. Len(line) # 0
    BY <1>1, <1>5, <1>6
  <2> QED BY <2>1, EmptySeq
<1>9. ASSUME ~IsLine(line) PROVE m = k /\ Upto(chunk) = chunk
  <2>1. Upto(chunk)[m] # Newline
    BY <1>7, <1>8, <1>9 DEF IsLine
  <2>2. m = k /\ \A i \in 1 .. Len(chunk) : chunk[i] # Newline
    BY <1>2, <1>4, <2>1
  <2>3. LineEnds(chunk) = {}
    <3>1. DOMAIN chunk = 1 .. Len(chunk)
      BY <1>2, LenProperties
    <3> QED BY <2>2, <3>1 DEF LineEnds
  <2> QED BY <2>2, <2>3 DEF Upto
<1> QED BY <1>2, <1>4, <1>5, <1>6, <1>7, <1>8, <1>9 DEF chunk

(* An OK line is read whole, and then it was all there was, or its first   *)
(* byte alone.                                                             *)
LEMMA TogetherRead ==
  ASSUME Types, Together, NEW k \in 1 .. Buf, ClientReadLine(k)
  PROVE  LET line == c.line \o Upto(Taken(down, k))
         IN  /\ line[1] = <<"OK", 0>>
             /\ \/ /\ IsLine(line) /\ line = OkLine(0)
                   /\ Rest(down, k) = <<>> /\ s.out = <<>>
                \/ /\ ~IsLine(line) /\ Len(line) = 1
                   /\ Along(line, OkLine(0), 0)
                   /\ Along(Rest(down, k), OkLine(0), 1)
                   /\ 1 + Len(Rest(down, k)) = Given
<1> DEFINE chunk == Taken(down, k)
           line == c.line \o Upto(chunk)
           a == Len(c.line)
           d == Len(down)
           m == Len(Upto(chunk))
           o == Len(s.out)
           f == OkLine(0)
<1>1. /\ line \in Seq(Byte) /\ line # <<>> /\ chunk \in Seq(Byte)
      /\ Upto(chunk) \in Seq(Byte) /\ m \in 1 .. k /\ Len(line) = a + m
      /\ ~IsLine(line) => m = k
  BY StatusRead
<1>2. k \in 1 .. d /\ k \in 0 .. d
  BY SomethingRead, UpTypes
<1>3. /\ a \in Nat /\ d \in Nat /\ o \in Nat /\ m \in Nat /\ k \in Nat
      /\ Given = a + d /\ Given + o = 2 /\ a <= 1
      /\ c.line \in Seq(Byte) /\ down \in Seq(Byte) /\ s.out \in Seq(Byte)
      /\ Len(Rest(down, k)) = d - k /\ Rest(down, k) \in Seq(Byte)
  <2>1. Given = a + d /\ Given + o = 2 /\ a <= 1
    BY DEF Together, Given
  <2>2. /\ a \in Nat /\ d \in Nat /\ o \in Nat /\ c.line \in Seq(Byte)
        /\ down \in Seq(Byte) /\ s.out \in Seq(Byte)
    BY UpTypes
  <2>3. Len(Rest(down, k)) = d - k /\ Rest(down, k) \in Seq(Byte)
    BY <1>2, <2>2, Cut
  <2>4. m \in Nat /\ k \in Nat
    BY <1>1, <1>2
  <2> QED BY <2>1, <2>2, <2>3, <2>4
<1>4. /\ Along(c.line, f, 0) /\ Along(down, f, a) /\ Along(s.out, f, Given)
  BY DEF Together
<1>5. /\ Along(chunk, f, a) /\ Along(Rest(down, k), f, a + k)
  BY <1>2, <1>3, <1>4, AlongCut
<1>6. Along(Upto(chunk), f, a)
  BY <1>1, <1>3, <1>5, AlongScan
<1>7. Along(line, f, 0)
  <2>1. 0 + Len(c.line) = a
    BY <1>3
  <2> QED BY <1>1, <1>3, <1>4, <1>6, <2>1, AlongJoin
<1>8. f[1] = <<"OK", 0>> /\ f[2] = Newline /\ Len(f) = 2 /\ f \in Seq(Byte)
  BY LineBytes
<1> HIDE DEF chunk, line, a, d, m, o, f
<1>9. Len(line) \in 1 .. 2 /\ (Len(line) = 2 => k = d /\ o = 0)
  BY <1>1, <1>2, <1>3
<1>10. line[1] = <<"OK", 0>>
  <2>1. 1 \in 1 .. Len(line)
    BY <1>9
  <2>2. line[1] = f[0 + 1]
    BY <1>7, <2>1 DEF Along
  <2> QED BY <1>8, <2>2
<1>11. CASE Len(line) = 2
  <2>1. line[2] = Newline
    <3>1. line[2] = f[0 + 2]
      BY <1>7, <1>11 DEF Along
    <3> QED BY <1>8, <3>1
  <2>2. IsLine(line)
    BY <1>1, <1>11, <2>1 DEF IsLine, Last
  <2>3. line = f
    <3>1. \A i \in 1 .. Len(line) : line[i] = f[i]
      <4>1. 1 .. Len(line) = {1, 2}
        BY <1>11
      <4> QED BY <1>8, <1>10, <2>1, <4>1
    <3> QED BY <1>1, <1>8, <1>11, <3>1, SeqEqual
  <2>4. Rest(down, k) = <<>> /\ s.out = <<>>
    <3>1. Len(Rest(down, k)) = 0 /\ Len(s.out) = 0
      BY <1>3, <1>9, <1>11 DEF o
    <3> QED BY <1>3, <3>1, EmptySeq
  <2> QED BY <1>10, <2>2, <2>3, <2>4 DEF line, chunk, f
<1>12. CASE Len(line) = 1
  <2>1. ~IsLine(line)
    <3>1. Last(line) = <<"OK", 0>>
      BY <1>10, <1>12 DEF Last
    <3> QED BY <3>1 DEF IsLine, Newline
  <2>2. m = k /\ a + k = 1
    BY <1>1, <1>12, <2>1
  <2>3. Along(Rest(down, k), f, 1) /\ 1 + Len(Rest(down, k)) = Given
    <3>1. 1 + (d - k) = Given
      BY <1>3, <2>2
    <3>2. Along(Rest(down, k), f, 1)
      BY <1>5, <2>2
    <3> QED BY <1>3, <3>1, <3>2
  <2>4. c.line \o Upto(Taken(down, k)) = line /\ OkLine(0) = f
    BY DEF line, chunk, f
  <2> QED BY <1>7, <1>10, <1>12, <2>1, <2>3, <2>4
<1>13. Len(line) = 1 \/ Len(line) = 2
  BY <1>9
<1> QED BY <1>11, <1>12, <1>13

(* PutInv with the next state's values. *)
LEMMA PutInvPrimed ==
  ASSUME call' = call, call.op = "PUT",
         stored' # None => /\ stored' \in {Data, Torn}
                           /\ s'.pc \in {"closing", "closed"},
         c'.pc # "body", s'.pc # "body", c'.ret = 0 => stored' # None,
         stored' = None => OneOk',
         s'.pc = "store" => /\ c'.pc = "status" => Together'
                            /\ c'.pc = "final" => Quiet',
         ~call.eager /\ call.size > 0 =>
           /\ stored' # None /\ c'.pc # "done" =>
                c'.pc = "final" /\ c'.out = <<>> /\ up' = <<>> /\ Together'
           /\ "link" \in open' /\ c'.ret = 1 =>
                stored' = None /\ s'.pc \in {"closing", "closed"}
  PROVE  PutInv'
<1>1. Data' = Data /\ Torn' = Torn
  BY DEF Data, Torn
<1> QED BY <1>1 DEF PutInv

(* What has been read of the answers holds no second OK. *)
LEMMA OneOkRead ==
  ASSUME Types, OneOk, NEW k \in 1 .. Buf, ClientReadLine(k)
  PROVE  LET line == c.line \o Upto(Taken(down, k))
         IN  /\ c.pc = "status" => OkFirst(line)
             /\ c.pc = "final" => NoOk(line)
             /\ NoOk(Rest(down, k)) /\ NoOk(s.out)
<1> DEFINE chunk == Taken(down, k)
           line == c.line \o Upto(chunk)
<1>1. /\ k \in 0 .. Len(down) /\ k # 0 /\ down # <<>> /\ down \in Seq(Byte)
      /\ c.line \in Seq(Byte)
  BY SomethingRead, UpTypes
<1>2. /\ c.pc \in {"status", "final"}
  BY LineRead
<1>3. chunk \in Seq(Byte) /\ Upto(chunk) \in Seq(Byte)
  BY StatusRead
<1>4. /\ NoOk(chunk) => NoOk(Upto(chunk))
      /\ OkFirst(chunk) => OkFirst(Upto(chunk))
  <2>1. /\ \A i \in 1 .. Len(Upto(chunk)) : Upto(chunk)[i] = chunk[i]
        /\ Len(Upto(chunk)) + Len(Beyond(chunk)) = Len(chunk)
        /\ Beyond(chunk) \in Seq(Byte)
    BY <1>3, Scan
  <2>2. \A i \in 1 .. Len(Upto(chunk)) : i \in 1 .. Len(chunk)
    <3>1. /\ Len(Upto(chunk)) \in Nat /\ Len(Beyond(chunk)) \in Nat
          /\ Len(chunk) \in Nat
      BY <1>3, <2>1, LenProperties
    <3> QED BY <2>1, <3>1
  <2> QED BY <2>1, <2>2, Zenon DEF NoOk, OkFirst
<1>5. /\ NoOk(down) => NoOk(chunk) /\ NoOk(Rest(down, k)) /\ OkFirst(down)
      /\ OkFirst(down) => OkFirst(chunk)
      /\ OkFirst(down) => NoOk(Rest(down, k))
  BY <1>1, OkCut
<1>6. /\ NoOk(c.line) /\ NoOk(Upto(chunk)) => NoOk(line)
      /\ OkFirst(c.line) /\ NoOk(Upto(chunk)) => OkFirst(line)
      /\ c.line = <<>> => line = Upto(chunk)
  BY <1>1, <1>3, OkJoin
<1> HIDE DEF chunk, line
<1>7. CASE c.pc = "final"
  <2>1. NoOk(c.line) /\ NoOk(down) /\ NoOk(s.out)
    BY <1>7 DEF OneOk
  <2> QED BY <1>4, <1>5, <1>6, <1>7, <2>1 DEF line, chunk
<1>8. CASE c.pc = "status"
  <2>1. /\ OkFirst(c.line) /\ OkFirst(down) /\ NoOk(s.out)
        /\ NoOk(down) \/ c.line = <<>>
    BY <1>1, <1>8 DEF OneOk
  <2>2. OkFirst(line)
    BY <1>4, <1>5, <1>6, <2>1
  <2> QED BY <1>5, <1>8, <2>1, <2>2 DEF line, chunk
<1> QED BY <1>2, <1>7, <1>8

(* The client of an upload reads from the server. *)
LEMMA PutRead ==
  ASSUME Types, Ends, UpInv, PutInv, call.op = "PUT",
         NEW k \in 1 .. Buf, ClientReadLine(k)
  PROVE  PutInv'
<1> DEFINE chunk == Taken(down, k)
           line == c.line \o Upto(chunk)
<1>1. /\ UNCHANGED <<call, s, up, stored>> /\ down # <<>>
      /\ down' = Rest(down, k) /\ ("link" \in open' => "link" \in open)
  BY SomethingRead DEF Closing
<1>2. /\ stored # None => /\ stored \in {Data, Torn}
                          /\ s.pc \in {"closing", "closed"}
      /\ c.pc # "body" /\ s.pc # "body" /\ (c.ret = 0 => stored # None)
      /\ stored = None => OneOk
      /\ s.pc = "store" => /\ c.pc = "status" => Together
                           /\ c.pc = "final" => Quiet
      /\ ~call.eager /\ call.size > 0 =>
           /\ stored # None /\ c.pc # "done" =>
                c.pc = "final" /\ c.out = <<>> /\ up = <<>> /\ Together
           /\ "link" \in open /\ c.ret = 1 =>
                stored = None /\ s.pc \in {"closing", "closed"}
  BY DEF PutInv
<1>3. ~Reading /\ (s.pc = "store" => c.pc # "final" /\ Together)
  <2>1. ~Reading
    BY <1>1 DEF Ends, Quiet
  <2>2. s.pc = "store" => c.pc # "final"
    BY <1>1, <1>2 DEF Quiet
  <2>3. c.pc \in {"status", "final"}
    BY LineRead
  <2> QED BY <1>2, <2>1, <2>2, <2>3
<1>4. s.pc \in {"store", "closing", "closed"}
  BY <1>2, <1>3 DEF Reading, Types, ServerState
<1>5. /\ line \in Seq(Byte) /\ line # <<>> /\ Len(line) \in Nat
  BY StatusRead, LenProperties
<1>6. ASSUME Together
      PROVE  /\ line[1] = <<"OK", 0>>
             /\ \/ /\ IsLine(line) /\ line = OkLine(0)
                   /\ Rest(down, k) = <<>> /\ s.out = <<>>
                \/ /\ ~IsLine(line) /\ Len(line) = 1
                   /\ Along(line, OkLine(0), 0)
                   /\ Along(Rest(down, k), OkLine(0), 1)
                   /\ 1 + Len(Rest(down, k)) = Given
  BY <1>6, TogetherRead
<1>7. ASSUME stored = None
      PROVE  /\ c.pc = "status" => OkFirst(line)
             /\ c.pc = "final" => NoOk(line)
             /\ NoOk(Rest(down, k)) /\ NoOk(s.out)
  BY <1>2, <1>7, OneOkRead
<1> DEFINE size0 == ~call.eager /\ call.size > 0
<1>8. ASSUME c' = Returned(1), s.pc # "store", size0 => stored = None
      PROVE  PutInv'
  <2>1. c'.pc = "done" /\ c'.ret = 1
    BY <1>8, ReturnedFields
  <2>2. stored' = None => OneOk'
    BY <2>1 DEF OneOk
  <2> QED BY <1>1, <1>2, <1>4, <1>8, <2>1, <2>2, PutInvPrimed
<1>9. \/ /\ ~IsLine(line) /\ Len(line) < LineLimit
         /\ c' = [c EXCEPT !.line = line]
      \/ /\ ~IsLine(line) /\ ~(Len(line) < LineLimit)
         /\ c' = Returned(1)
      \/ /\ IsLine(line) /\ c.pc = "final"
         /\ c' = Returned(IF line = OkLine(0) THEN 0 ELSE 1)
      \/ /\ IsLine(line) /\ c.pc = "status"
         /\ line[1][1] # "OK" /\ c' = Returned(1)
      \/ /\ IsLine(line) /\ c.pc = "status" /\ line[1][1] = "OK"
         /\ c' = [c EXCEPT !.pc = "final", !.line = <<>>,
                           !.out = AfterFirstOk]
  BY LineRead
<1>10. c.pc \in {"status", "final"} /\ c.out = <<>> /\ c \in ClientState
  BY LineRead DEF Types
<1> HIDE DEF chunk, line
<1>11. CASE /\ ~IsLine(line) /\ Len(line) < LineLimit
            /\ c' = [c EXCEPT !.line = line]
  <2>1. c'.line = line /\ c'.pc = c.pc /\ c'.out = c.out /\ c'.ret = c.ret
    BY <1>10, <1>11 DEF ClientState
  <2>2. Together => Together'
    <3>1. ASSUME Together PROVE Together'
      <4>1. /\ Len(line) = 1 /\ Along(line, OkLine(0), 0)
            /\ Along(Rest(down, k), OkLine(0), 1)
            /\ 1 + Len(Rest(down, k)) = Given
        BY <1>6, <1>11, <3>1
      <4>2. Given' = Given
        BY <1>1, <2>1, <4>1 DEF Given
      <4> QED BY <1>1, <2>1, <3>1, <4>1, <4>2 DEF Together
    <3> QED BY <3>1
  <2>3. stored' = None => OneOk'
    <3>1. ASSUME stored = None PROVE OneOk'
      <4>1. CASE c.pc = "final"
        BY <1>1, <1>7, <2>1, <3>1, <4>1 DEF OneOk
      <4>2. CASE c.pc = "status"
        <5>1. OkFirst(line) /\ NoOk(Rest(down, k)) /\ NoOk(s.out)
          BY <1>7, <3>1, <4>2
        <5>2. OkFirst(Rest(down, k)) /\ OkFirst(s.out)
          BY <5>1 DEF NoOk, OkFirst
        <5> QED BY <1>1, <2>1, <4>2, <5>1, <5>2 DEF OneOk
      <4> QED BY <1>10, <4>1, <4>2
    <3> QED BY <1>1, <3>1
  <2> QED BY <1>1, <1>2, <1>3, <2>1, <2>2, <2>3, PutInvPrimed
<1>12. CASE /\ ~IsLine(line) /\ ~(Len(line) < LineLimit)
            /\ c' = Returned(1)
  <2>1. ~Together
    <3>1. LineLimit \in Nat /\ LineLimit >= 2
      BY SessionAssumption
    <3> QED BY <1>6, <1>12, <3>1
  <2> QED BY <1>2, <1>3, <1>8, <1>10, <1>12, <2>1
<1>13. CASE /\ IsLine(line) /\ c.pc = "final"
            /\ c' = Returned(IF line = OkLine(0) THEN 0 ELSE 1)
  <2>1. s.pc # "store"
    BY <1>3, <1>13
  <2>2. CASE line # OkLine(0)
    <3>1. c' = Returned(1)
      BY <1>13, <2>2
    <3>2. size0 => stored = None
      BY <1>2, <1>6, <1>13, <2>2
    <3> QED BY <1>8, <2>1, <3>1, <3>2
  <2>3. CASE line = OkLine(0)
    <3>1. stored # None
      <4>1. line[1][1] = "OK" /\ 1 \in 1 .. Len(line)
        BY <2>3, LineBytes
      <4> QED BY <1>7, <1>13, <4>1 DEF NoOk
    <3>2. c'.pc = "done" /\ c'.ret = 0
      <4>1. c' = Returned(0)
        BY <1>13, <2>3
      <4> QED BY <4>1, ReturnedFields
    <3> QED BY <1>1, <1>2, <1>4, <2>1, <3>1, <3>2, PutInvPrimed
  <2> QED BY <2>2, <2>3
<1>14. CASE /\ IsLine(line) /\ c.pc = "status"
            /\ line[1][1] # "OK" /\ c' = Returned(1)
  <2>1. ~Together
    BY <1>6, <1>14
  <2> QED BY <1>2, <1>3, <1>8, <1>14, <2>1
<1>15. CASE /\ IsLine(line) /\ c.pc = "status" /\ line[1][1] = "OK"
            /\ c' = [c EXCEPT !.pc = "final", !.line = <<>>,
                              !.out = AfterFirstOk]
  <2>1. c'.line = <<>> /\ c'.pc = "final" /\ c'.ret = c.ret
    BY <1>10, <1>15 DEF ClientState
  <2>2. s.pc = "store" => Quiet'
    BY <1>1, <1>3, <1>6, <1>15, <2>1 DEF Quiet
  <2>3. stored' = None => OneOk'
    <3>1. NoOk(<<>>)
      BY EmptySeq DEF NoOk
    <3> QED BY <1>1, <1>7, <2>1, <3>1 DEF OneOk
  <2>4. size0 => stored = None
    BY <1>2, <1>15
  <2> QED BY <1>1, <1>2, <1>4, <2>1, <2>2, <2>3, <2>4, PutInvPrimed
<1> QED BY <1>9, <1>11, <1>12, <1>13, <1>14, <1>15

(* An upload that is complete is the data. *)
LEMMA StagedIsData ==
  ASSUME Types, UpInv, s.pc = "store", Len(s.staged) = s.total
  PROVE  /\ s.staged = Data /\ s.staged # None
         /\ ~call.eager /\ call.size > 0 /\ c.pc # "done" =>
              c.pc # "status" /\ up = <<>> /\ c.out = <<>>
<1>1. /\ Along(s.staged, Request, Len(s.line)) /\ Len(s.line) = call.header
      /\ call.op = "PUT" /\ s.total = call.size
      /\ ~call.eager => Sent + Len(c.out) <=
           call.header + IF c.pc = "status" THEN 0 ELSE BodyLen
  BY DEF UpInv
<1>2. /\ call.header \in Nat /\ call.size \in Nat /\ BodyLen = call.size
      /\ None # Text("data", call.size)
  BY <1>1, CallTypes DEF Types, BodyLen
<1>3. /\ s.staged \in Seq(Byte) /\ Len(s.staged) = call.size
      /\ c.out \in Seq(Byte) /\ up \in Seq(Byte)
  BY <1>1, UpTypes
<1>4. /\ Data \in Seq(Byte) /\ Len(Data) = call.size
      /\ Along(Data, Request, call.header)
  BY <1>2, CallBytes DEF Types
<1>5. s.staged = Data
  <2>1. \A i \in 1 .. Len(s.staged) : s.staged[i] = Data[i]
    BY <1>1, <1>3, <1>4 DEF Along
  <2> QED BY <1>3, <1>4, <2>1, SeqEqual
<1>6. Data = Text("data", call.size)
  BY <1>1 DEF Data
<1>7. ASSUME ~call.eager, call.size > 0
      PROVE  c.pc # "status" /\ up = <<>> /\ c.out = <<>>
  <2> DEFINE h == call.header
             n == call.size
             l == Len(s.left)
             u == Len(up)
             o == Len(c.out)
  <2>1. /\ l \in Nat /\ u \in Nat /\ o \in Nat /\ Sent \in Nat
        /\ Sent = Used + u
    BY UpTypes
  <2>2. Used = h + l + n
    BY <1>1, <1>3 DEF Used
  <2>3. /\ c.pc = "status" => Sent + o <= h
        /\ Sent + o <= h + n
    <3>1. /\ c.pc = "status" => Sent + o <= h + 0
          /\ c.pc # "status" => Sent + o <= h + n
      BY <1>1, <1>2, <1>7
    <3> HIDE DEF o
    <3>2. h + 0 = h /\ h <= h + n /\ h + n \in Nat /\ Sent + o \in Nat
      BY <1>2, <2>1
    <3> HIDE DEF h, n
    <3>3. h \in Nat /\ n \in Nat
      BY <1>2 DEF h, n
    <3> QED BY <2>1, <3>1, <3>2, <3>3
  <2>4. h \in Nat /\ n \in Nat /\ n > 0
    BY <1>2, <1>7
  <2> HIDE DEF h, n, l, u, o
  <2>5. u = 0 /\ o = 0 /\ c.pc # "status"
    BY <2>1, <2>2, <2>3, <2>4
  <2> QED BY <1>3, <2>5, EmptySeq DEF u, o
<1> QED BY <1>2, <1>5, <1>6, <1>7

(* A whole OK line at the server. *)
LEMMA TogetherNew ==
  ASSUME c'.line = <<>>, down' = <<>>, s'.out = OkLine(0) PROVE Together'
<1>1. /\ Len(c'.line) = 0 /\ Len(down') = 0 /\ Len(s'.out) = 2
      /\ \A f, n : Along(<<>>, f, n)
  BY EmptySeq, LineBytes DEF Along
<1>2. Given' = 0
  BY <1>1 DEF Given
<1>3. Along(s'.out, OkLine(0), 0)
  <2>1. \A i \in 1 .. 2 : OkLine(0)[i] = OkLine(0)[0 + i]
    OBVIOUS
  <2> QED BY <1>1, <2>1 DEF Along
<1> QED BY <1>1, <1>2, <1>3 DEF Together

(* The server sends a piece of what it has. *)
LEMMA TogetherSent ==
  ASSUME Types, Together, NEW k \in 1 .. Cap, ServerSend(k) PROVE Together'
<1> DEFINE a == Len(c.line)
           d == Len(down)
           o == Len(s.out)
           f == OkLine(0)
<1>1. /\ c' = c /\ down' = down \o Taken(s.out, k)
      /\ s'.out = Rest(s.out, k)
  BY DEF ServerSend, Types, ServerState
<1>2. /\ a \in Nat /\ d \in Nat /\ o \in Nat /\ Given = a + d
      /\ down \in Seq(Byte) /\ s.out \in Seq(Byte)
  BY UpTypes DEF Given
<1>3. /\ k \in 0 .. o /\ Len(Taken(s.out, k)) = k
      /\ Len(Rest(s.out, k)) = o - k
      /\ Taken(s.out, k) \in Seq(Byte)
  <2>1. Cap - Len(down) \in Int /\ k \in Pieces(Cap - Len(down), s.out)
    BY <1>2, SessionAssumption DEF ServerSend
  <2> QED BY <1>2, <2>1, Piece
<1>4. Given + o = 2 /\ a <= 1 /\ Along(c.line, f, 0) /\ Along(down, f, a)
      /\ Along(s.out, f, Given)
  BY DEF Together
<1>5. Along(Taken(s.out, k), f, Given) /\ Along(Rest(s.out, k), f, Given + k)
  <2>1. Given \in Nat
    BY <1>2
  <2> QED BY <1>2, <1>3, <1>4, <2>1, AlongCut
<1>6. Along(down', f, a)
  BY <1>1, <1>2, <1>3, <1>4, <1>5, AlongJoin
<1>7. Len(down') = d + k
  <2>1. Len(down \o Taken(s.out, k)) = d + Len(Taken(s.out, k))
    BY <1>2, <1>3, ConcatProperties
  <2> QED BY <1>1, <1>3, <2>1
<1> HIDE DEF f, d, o
<1>8. Given' = a + (d + k)
  BY <1>1, <1>7 DEF Given
<1> HIDE DEF a
<1>9. Given' = Given + k /\ Given' + (o - k) = 2
  BY <1>2, <1>3, <1>4, <1>8
<1>10. Given' + Len(s'.out) = 2 /\ Len(c'.line) <= 1
  BY <1>1, <1>3, <1>4, <1>9 DEF a
<1> QED BY <1>1, <1>4, <1>5, <1>6, <1>9, <1>10 DEF Together, f, a

(* The same of the first OK. *)
LEMMA OneOkSent ==
  ASSUME Types, OneOk, NEW k \in 1 .. Cap, ServerSend(k) PROVE OneOk'
<1>1. /\ c' = c /\ down' = down \o Taken(s.out, k)
      /\ s'.out = Rest(s.out, k)
  BY DEF ServerSend, Types, ServerState
<1>2. down \in Seq(Byte) /\ s.out \in Seq(Byte) /\ Len(down) \in Nat
  BY UpTypes
<1>3. k \in 0 .. Len(s.out) /\ k # 0 /\ Taken(s.out, k) \in Seq(Byte)
  <2>1. Cap - Len(down) \in Int /\ k \in Pieces(Cap - Len(down), s.out)
    BY <1>2, SessionAssumption DEF ServerSend
  <2> QED BY <1>2, <2>1, Piece
<1> DEFINE t == Taken(s.out, k)
<1>4. /\ NoOk(s.out) => NoOk(t) /\ NoOk(Rest(s.out, k)) /\ OkFirst(s.out)
      /\ OkFirst(s.out) => OkFirst(t) /\ NoOk(Rest(s.out, k))
  BY <1>2, <1>3, OkCut
<1>5. /\ NoOk(down) /\ NoOk(t) => NoOk(down \o t)
      /\ OkFirst(down) /\ NoOk(t) => OkFirst(down \o t)
      /\ down = <<>> => down \o t = t
  BY <1>2, <1>3, OkJoin
<1> HIDE DEF t
<1>6. down' = down \o t
  BY <1>1 DEF t
<1>7. NoOk(Rest(s.out, k)) => OkFirst(Rest(s.out, k))
  BY DEF NoOk, OkFirst
<1>8. CASE c.pc = "status"
  <2>1. /\ OkFirst(c.line) /\ OkFirst(down) /\ OkFirst(s.out)
        /\ NoOk(down) \/ c.line = <<>>
        /\ NoOk(s.out) \/ (c.line = <<>> /\ down = <<>>)
    BY <1>8 DEF OneOk
  <2>2. OkFirst(down') /\ (NoOk(down') \/ c.line = <<>>)
    BY <1>4, <1>5, <1>6, <2>1
  <2>3. NoOk(s'.out) /\ OkFirst(s'.out)
    BY <1>1, <1>4, <1>7, <2>1
  <2> QED BY <1>1, <1>8, <2>1, <2>2, <2>3 DEF OneOk
<1>9. CASE c.pc = "final"
  BY <1>1, <1>4, <1>5, <1>6, <1>9 DEF OneOk
<1>10. CASE c.pc \notin {"status", "final"}
  BY <1>1, <1>10 DEF OneOk
<1> QED BY <1>8, <1>9, <1>10

(* Each step keeps PutInv. *)
LEMMA PutStep ==
  ASSUME Types, Ends, UpInv, PutInv, [Next]_svars PROVE PutInv'
<1>1. c \in ClientState /\ s \in ServerState
  BY DEF Types
<1>2. call' = call
  BY DEF Next, Terminated, svars, Replace, ClientStep, ClientSend, ClientDies,
     ClientReadLine, ClientReadBody, ClientSendLate, ClientEof, ServerStep,
     ServerSend, HeaderRecv, StoreRecv, HeaderCheck, HeaderSilence, Tick,
     Dispatch, ServerSendLate, SelectLines, SendFileLine, StorePending,
     StoreFails, Commit, CommitTorn, CommitFails, ServerClose,
     ConnectionLost, ClientDiskFails
<1>3. stored' = stored \/ Commit \/ CommitTorn
  BY DEF Next, Terminated, svars, Replace, ClientStep, ClientSend, ClientDies,
     ClientReadLine, ClientReadBody, ClientSendLate, ClientEof, ServerStep,
     ServerSend, HeaderRecv, StoreRecv, HeaderCheck, HeaderSilence, Tick,
     Dispatch, ServerSendLate, SelectLines, SendFileLine, StorePending,
     StoreFails, CommitFails, ServerClose, ConnectionLost, ClientDiskFails
<1>o. "link" \in open' => "link" \in open
  BY DEF Next, Terminated, svars, Replace, ClientStep, ClientSend, ClientDies,
     ClientReadLine, ClientReadBody, ClientSendLate, ClientEof, ServerStep,
     ServerSend, HeaderRecv, StoreRecv, HeaderCheck, HeaderSilence, Tick,
     Dispatch, ServerSendLate, SelectLines, SendFileLine, StorePending,
     StoreFails, Commit, CommitTorn, CommitFails, ServerClose,
     ConnectionLost, ClientDiskFails, Closing
<1>4. CASE call.op # "PUT"
  <2>1. ~Commit /\ ~CommitTorn
    BY <1>4 DEF Commit, CommitTorn, Free, UpInv
  <2>2. stored' = None
    BY <1>3, <1>4, <2>1 DEF PutInv
  <2> QED BY <1>2, <1>4, <2>2 DEF PutInv
<1> SUFFICES ASSUME call.op = "PUT" PROVE PutInv'
  BY <1>4
<1> DEFINE plain == ~call.eager /\ call.size > 0
           over == s.pc \in {"closing", "closed"}
<1>5. /\ stored # None => stored \in {Data, Torn} /\ over
      /\ c.pc # "body" /\ s.pc # "body" /\ (c.ret = 0 => stored # None)
      /\ stored = None => OneOk
      /\ s.pc = "store" => /\ c.pc = "status" => Together
                           /\ c.pc = "final" => Quiet
      /\ plain =>
           /\ stored # None /\ c.pc # "done" =>
                c.pc = "final" /\ c.out = <<>> /\ up = <<>> /\ Together
           /\ "link" \in open /\ c.ret = 1 => stored = None /\ over
  BY DEF PutInv
<1>6. \A q : NoOk(q) => OkFirst(q)
  BY DEF NoOk, OkFirst
<1>7. NoOk(<<>>) /\ NoOk(ErrLine) /\ OkFirst(OkLine(0))
  <2>1. NoOk(<<>>)
    BY EmptySeq DEF NoOk
  <2>2. /\ Len(ErrLine) = 2 /\ 1 .. 2 = {1, 2}
        /\ ErrLine[1] = <<"ERR", 0>> /\ ErrLine[2] = Newline
        /\ Len(OkLine(0)) = 2 /\ OkLine(0)[2] = Newline
    BY LineBytes
  <2>3. NoOk(ErrLine)
    BY <2>2 DEF NoOk, Newline
  <2>4. OkFirst(OkLine(0))
    BY <2>2 DEF OkFirst, Newline
  <2> QED BY <2>1, <2>3, <2>4
(* Nothing of what the invariant is about changes. *)
<1>8. ASSUME UNCHANGED stored, c'.line = c.line, c'.pc = c.pc,
             c'.ret = c.ret, UNCHANGED down, s'.out = s.out, s'.pc = s.pc,
             stored # None /\ c.pc = "final" /\ plain =>
               (c.out = <<>> /\ up = <<>> => c'.out = <<>> /\ up' = <<>>)
      PROVE  PutInv'
  <2>1. OneOk' = OneOk /\ Together' = Together /\ Quiet' = Quiet
    BY <1>8 DEF OneOk, Together, Given, Quiet
  <2> QED BY <1>2, <1>5, <1>8, <2>1, <1>o, PutInvPrimed
(* The client ends without a verdict of its own. *)
<1>9. ASSUME UNCHANGED <<s, stored>>, c'.pc = "done", c'.ret \in {None, 1},
             "link" \in open' /\ c'.ret = 1 /\ plain =>
               stored = None /\ over
      PROVE  PutInv'
  <2>1. OneOk' /\ c'.ret # 0
    BY <1>9, SessionAssumption DEF OneOk
  <2>2. None # 1
    BY SessionAssumption
  <2> QED BY <1>2, <1>5, <1>9, <2>1, <2>2, <1>o, PutInvPrimed
(* The server gives up, having said nothing that is still on its way. *)
<1>10. ASSUME UNCHANGED <<c, down, stored>>, stored = None,
              s'.pc = "closing", NoOk(s'.out)
       PROVE  PutInv'
  <2>1. OneOk'
    BY <1>5, <1>6, <1>10 DEF OneOk
  <2> QED BY <1>2, <1>5, <1>10, <2>1, <1>o, PutInvPrimed
<1>11. ASSUME Reject, UNCHANGED <<c, down, stored>>, stored = None
       PROVE  PutInv'
  <2>1. s'.pc = "closing" /\ NoOk(s'.out)
    BY <1>1, <1>7, <1>11 DEF Reject, ServerState
  <2> QED BY <1>10, <1>11, <2>1
<1>12. CASE UNCHANGED svars \/ Replace
  BY <1>8, <1>12 DEF svars, Replace
<1>13. ASSUME NEW k \in 1 .. Cap, ClientSend(k) PROVE PutInv'
  <2>1. c.out # <<>>
    <3>1. /\ c.out \in Seq(Byte) /\ Cap - Len(up) \in Int
          /\ k \in Pieces(Cap - Len(up), c.out)
      BY <1>13, SessionAssumption, UpTypes DEF ClientSend
    <3> QED BY <3>1, Piece, EmptySeq
  <2>2. /\ c'.pc = c.pc /\ c'.ret = c.ret /\ c'.line = c.line
        /\ UNCHANGED <<s, down, stored>>
    BY <1>1, <1>13 DEF ClientSend, ClientState
  <2> QED BY <1>8, <2>1, <2>2
<1>14. CASE ClientSendLate
  <2>1. /\ c.out # <<>> /\ UNCHANGED <<s, stored>> /\ s.pc = "closed"
        /\ down' \in {down, <<>>} /\ s.out = <<>> /\ c.pc # "done"
    BY <1>14 DEF ClientSendLate, Ends
  <2>2. plain => stored = None
    BY <1>5, <2>1
  <2>3. CASE c' = Returned(1)
    <3>1. c'.pc = "done" /\ c'.ret = 1
      BY <2>3, ReturnedFields
    <3> QED BY <1>9, <2>1, <2>2, <3>1
  <2>4. CASE c' = [c EXCEPT !.out = <<>>]
    <3>1. c'.pc = c.pc /\ c'.ret = c.ret /\ c'.line = c.line
      BY <1>1, <2>4 DEF ClientState
    <3>2. stored' = None => OneOk'
      BY <1>5, <1>6, <1>7, <2>1, <3>1 DEF OneOk
    <3> QED BY <1>2, <1>5, <2>1, <2>2, <3>1, <3>2, <1>o, PutInvPrimed
  <2> QED BY <1>14, <2>3, <2>4 DEF ClientSendLate
<1>15. CASE ClientEof
  <2>1. /\ UNCHANGED <<s, stored>> /\ s.pc = "closed" /\ s.out = <<>>
        /\ down = <<>> /\ c.pc # "done" /\ c' = Returned(1)
    BY <1>15 DEF ClientEof, EofFails, Ends
  <2>2. ~Together
    <3> DEFINE a == Len(c.line)
               b == Len(down)
               d == Len(s.out)
    <3>1. a \in Nat /\ b = 0 /\ d = 0
      BY <2>1, UpTypes, EmptySeq
    <3>2. Together => (a + b) + d = 2 /\ a <= 1
      BY DEF Together, Given
    <3> HIDE DEF a, b, d
    <3>3. ~((a + b) + d = 2 /\ a <= 1)
      BY <3>1
    <3> QED BY <3>2, <3>3
  <2>3. c'.pc = "done" /\ c'.ret = 1
    BY <2>1, ReturnedFields
  <2> QED BY <1>5, <1>9, <2>1, <2>2, <2>3
<1>16. CASE ClientDies
  <2>1. UNCHANGED <<s, stored>> /\ c'.pc = "done" /\ c'.ret = None
    BY <1>16, ReturnedFields DEF ClientDies
  <2>2. None # 1
    BY SessionAssumption
  <2> QED BY <1>9, <2>1, <2>2
<1>17. ASSUME NEW k \in 1 .. Buf, ClientReadBody(k) PROVE PutInv'
  BY <1>5, <1>17 DEF ClientReadBody
<1>18. CASE ClientStep
  BY <1>13, <1>14, <1>15, <1>17, <1>18, PutRead DEF ClientStep
<1>19. ASSUME NEW k \in 1 .. Cap, ServerSend(k) PROVE PutInv'
  <2>1. UNCHANGED <<c, up, stored>> /\ s'.pc = s.pc /\ s.out # <<>>
    <3>1. /\ s.out \in Seq(Byte) /\ Cap - Len(down) \in Int
          /\ k \in Pieces(Cap - Len(down), s.out)
      BY <1>19, SessionAssumption, UpTypes DEF ServerSend
    <3>2. s.out # <<>>
      BY <3>1, Piece, EmptySeq
    <3> QED BY <1>1, <1>19, <3>2 DEF ServerSend, ServerState
  <2>2. /\ OneOk => OneOk'
        /\ Together => Together'
    BY <1>19, OneOkSent, TogetherSent
  <2>3. ~Quiet
    BY <2>1 DEF Quiet
  <2> QED BY <1>2, <1>5, <2>1, <2>2, <2>3, <1>o, PutInvPrimed
<1>20. CASE ServerSendLate
  <2>1. /\ UNCHANGED <<c, stored>> /\ c.pc = "done"
        /\ s'.pc \in {"closing", s.pc}
    BY <1>1, <1>20 DEF ServerSendLate, ServerState, Ends
  <2>2. OneOk'
    BY <2>1 DEF OneOk
  <2> QED BY <1>2, <1>5, <2>1, <2>2, <1>o, PutInvPrimed
<1>21. Reading => stored = None
  BY <1>5 DEF Reading
<1>22. ASSUME UNCHANGED <<c, down, stored>>, s'.out = s.out, Reading, Reading'
       PROVE  PutInv'
  <2>1. OneOk' = OneOk
    BY <1>22 DEF OneOk
  <2>2. s.pc \in {"check", "recv", "parse"}
        /\ s'.pc \in {"check", "recv", "parse"}
    BY <1>22 DEF Reading
  <2> QED BY <1>2, <1>5, <1>22, <2>1, <2>2, <1>o, PutInvPrimed
<1>23. CASE HeaderSilence \/ CommitFails
  <2>1. Reject /\ UNCHANGED <<c, down, stored>> /\ s.pc \in {"recv", "store"}
    BY <1>23 DEF HeaderSilence, CommitFails, Free
  <2> QED BY <1>5, <1>11, <2>1
<1>24. CASE HeaderCheck
  <2>1. UNCHANGED <<c, down, stored>> /\ s.pc = "check"
    BY <1>24 DEF HeaderCheck
  <2>2. Reject \/ (s'.pc = "recv" /\ s'.out = s.out)
    BY <1>1, <1>24 DEF HeaderCheck, ServerState
  <2> QED BY <1>11, <1>21, <1>22, <2>1, <2>2 DEF Reading
<1>25. CASE Tick
  <2>1. /\ UNCHANGED <<c, down, stored>> /\ s.pc = "recv"
        /\ s'.pc = "recv" /\ s'.out = s.out
    BY <1>1, <1>25 DEF Tick, ServerState
  <2> QED BY <1>22, <2>1 DEF Reading
<1>26. ASSUME NEW k \in 1 .. Buf, HeaderRecv(k) PROVE PutInv'
  <2>1. UNCHANGED <<c, down, stored>> /\ s.pc = "recv"
    BY <1>26 DEF HeaderRecv
  <2>2. \E l, r : \E p \in {"parse", "check"} :
          s' = [s EXCEPT !.line = l, !.left = r, !.pc = p]
    BY <1>26 DEF HeaderRecv
  <2>3. s'.pc \in {"parse", "check"} /\ s'.out = s.out
    BY <1>1, <2>2 DEF ServerState
  <2> QED BY <1>22, <2>1, <2>3 DEF Reading
<1>27. CASE Dispatch
  <2>1. s.pc = "parse" /\ UNCHANGED <<c, down, stored>>
    BY <1>27, Dispatched
  <2>2. s.line[1][1] = "PUT"
    BY <2>1, HeaderRead
  <2>3. s'.pc = "store" /\ s'.out = OkLine(0)
    BY <1>27, <2>2, Dispatched
  <2>4. Quiet /\ c.pc \in {"status", "done"} /\ stored = None
    BY <1>21, <2>1 DEF Ends, Reading
  <2>5. Together'
    BY <2>1, <2>3, <2>4, TogetherNew DEF Quiet
  <2>6. OneOk'
    BY <1>6, <1>7, <2>1, <2>3, <2>4 DEF OneOk, Quiet
  <2> QED BY <1>2, <1>5, <2>1, <2>3, <2>4, <2>5, <2>6, <1>o, PutInvPrimed
<1>28. CASE SelectLines \/ SendFileLine
  BY <1>5, <1>28 DEF SelectLines, SendFileLine, Free
<1>29. CASE StorePending
  <2>1. /\ UNCHANGED <<c, up, down, stored>>
        /\ \E n, o : s' = [s EXCEPT !.staged = n, !.left = o]
    BY <1>29 DEF StorePending
  <2>2. s'.pc = s.pc /\ s'.out = s.out
    BY <1>1, <2>1 DEF ServerState
  <2> QED BY <1>8, <2>1, <2>2
<1>30. ASSUME NEW k \in 1 .. Buf, StoreRecv(k) PROVE PutInv'
  <2>1. /\ UNCHANGED <<c, down, stored>> /\ s.pc = "store"
        /\ s'.pc = s.pc /\ s'.out = s.out
    BY <1>1, <1>30 DEF StoreRecv, Free, ServerState
  <2> QED BY <1>5, <1>8, <2>1
<1>31. CASE StoreFails
  <2>1. /\ UNCHANGED <<c, down, stored>> /\ s.pc = "store"
        /\ \E o \in {<<>>, ErrLine} :
             s' = [s EXCEPT !.pc = "closing", !.out = o]
    BY <1>31 DEF StoreFails, Free
  <2>2. s'.pc = "closing" /\ s'.out \in {<<>>, ErrLine}
    BY <1>1, <2>1 DEF ServerState
  <2> QED BY <1>5, <1>7, <1>10, <2>1, <2>2
<1>32. CASE Commit
  <2>1. /\ UNCHANGED <<c, up, down>> /\ s.pc = "store" /\ s.out = <<>>
        /\ Len(s.staged) = s.total /\ stored' = s.staged
        /\ s'.pc = "closing" /\ s'.out = OkLine(0)
    BY <1>1, <1>32 DEF Commit, Free, ServerState
  <2>2. /\ stored' = Data /\ stored' # None
        /\ plain /\ c.pc # "done" =>
             c.pc # "status" /\ up = <<>> /\ c.out = <<>>
    BY <2>1, StagedIsData
  <2>3. c.pc \in {"status", "final", "done"}
    BY <1>1, <1>5 DEF ClientState
  <2>4. c.pc = "final" => Together'
    BY <1>5, <2>1, TogetherNew DEF Quiet
  <2>5. plain /\ "link" \in open => c.ret # 1
    BY <1>5, <2>1
  <2> QED BY <1>2, <1>5, <2>1, <2>2, <2>3, <2>4, <2>5, <1>o, PutInvPrimed
<1>t. CASE CommitTorn
  <2>1. /\ UNCHANGED <<c, up, down>> /\ s.pc = "store" /\ s.out = <<>>
        /\ Len(s.staged) = s.total /\ stored' = Torn
        /\ s'.pc = "closing" /\ s'.out = OkLine(0)
    BY <1>1, <1>t DEF CommitTorn, Free, ServerState
  <2>2. /\ stored' # None
        /\ plain /\ c.pc # "done" =>
             c.pc # "status" /\ up = <<>> /\ c.out = <<>>
    BY <2>1, StagedIsData, SessionAssumption DEF Torn
  <2>3. c.pc \in {"status", "final", "done"}
    BY <1>1, <1>5 DEF ClientState
  <2>4. c.pc = "final" => Together'
    BY <1>5, <2>1, TogetherNew DEF Quiet
  <2>5. plain /\ "link" \in open => c.ret # 1
    BY <1>5, <2>1
  <2> QED BY <1>2, <1>5, <2>1, <2>2, <2>3, <2>4, <2>5, <1>o, PutInvPrimed
<1>33. CASE ServerClose
  <2>1. /\ UNCHANGED <<c, up, stored>> /\ s.pc = "closing" /\ s.out = <<>>
        /\ s'.pc = "closed" /\ s'.out = <<>>
        /\ down' \in {down, <<>>} /\ (up = <<>> => down' = down)
    BY <1>1, <1>33 DEF ServerClose, Free, ServerState
  <2>2. stored = None => OneOk'
    BY <1>5, <1>6, <1>7, <2>1 DEF OneOk
  <2>3. up = <<>> /\ Together => Together'
    BY <2>1 DEF Together, Given
  <2> QED BY <1>2, <1>5, <2>1, <2>2, <2>3, <1>o, PutInvPrimed
<1>34. CASE ServerStep
  BY <1>19, <1>20, <1>23, <1>24, <1>25, <1>26, <1>27, <1>28, <1>29, <1>30,
     <1>31, <1>32, <1>33, <1>34, <1>t DEF ServerStep
<1>35. CASE Severed
  <2>1. /\ UNCHANGED <<s, stored>> /\ c' = Returned(1)
        /\ "link" \notin open'
    BY <1>35, SeveredStep
  <2>2. c'.pc = "done" /\ c'.ret = 1
    BY <2>1, ReturnedFields
  <2> QED BY <1>9, <2>1, <2>2
<1> QED BY <1>12, <1>16, <1>18, <1>34, <1>35 DEF Next, Terminated, Severed

(* Ends, UpInv and PutInv hold throughout. *)
THEOREM SessionInvariant == Spec => [](Types /\ Ends /\ UpInv /\ PutInv)
<1>1. ASSUME Init PROVE Ends /\ UpInv /\ PutInv
  <2>1. /\ call \in Calls /\ up = <<>> /\ down = <<>> /\ stored = None
        /\ open = {"client", "server", "link"}
        /\ c.pc = "status" /\ c.ret = None /\ c.line = <<>>
        /\ c.out = HeaderLine \o Eagerly
        /\ s.pc = "check" /\ s.line = <<>> /\ s.left = <<>>
        /\ s.staged = <<>> /\ s.out = <<>>
    BY <1>1 DEF Init
  <2>2. Ends
    BY <2>1 DEF Ends, Reading, Quiet
  <2>3. /\ Len(<<>>) = 0 /\ \A f, n : Along(<<>>, f, n)
        /\ NoOk(<<>>) /\ OkFirst(<<>>)
    BY EmptySeq DEF Along, NoOk, OkFirst
  <2>4. PutInv
    <3>1. OneOk
      BY <2>1, <2>3 DEF OneOk
    <3>2. None # 0 /\ None # 1
      BY SessionAssumption
    <3> QED BY <2>1, <3>1, <3>2 DEF PutInv
  <2>5. UpInv
    <3>1. /\ HeaderLine \in Seq(Byte) /\ Len(HeaderLine) = call.header
          /\ Eagerly \in Seq(Byte) /\ (~call.eager => Eagerly = <<>>)
          /\ Along(HeaderLine, Request, 0)
          /\ Along(Eagerly, Request, call.header)
          /\ call.header \in Nat /\ call.header >= 2
      BY <2>1, CallBytes, CallTypes
    <3>2. Along(c.out, Request, 0)
      <4>1. 0 + Len(HeaderLine) = call.header
        BY <3>1
      <4> QED BY <2>1, <3>1, <4>1, AlongJoin
    <3>3. Used = 0 /\ Sent = 0
      BY <2>1, <2>3 DEF Used, Sent
    <3>4. ~call.eager => Sent + Len(c.out) <= call.header + 0
      <4>1. ~call.eager => c.out = HeaderLine
        BY <2>1, <3>1, ConcatEmptySeq
      <4> QED BY <3>1, <3>3, <4>1
    <3>5. Coming
      BY <2>1, <2>3, <3>2, <3>3 DEF Coming
    <3> QED BY <2>1, <2>3, <3>1, <3>4, <3>5 DEF UpInv, Reading, Complete
  <2> QED BY <2>2, <2>4, <2>5
<1> QED BY <1>1, SessionTypes, EndsStep, UpStep, PutStep, PTL DEF Spec

(* Whatever becomes of the client and the connection and however the bytes *)
(* are cut, only the whole data, or what a lost flush left of it, is put   *)
(* in place; put exits with 0 only when something is, and on a connection  *)
(* that holds with 1 only when nothing is (client.cpp:264, server.cpp:285, *)
(* server.cpp:360).                                                        *)
THEOREM PutExitIsHonest == Spec => []PutExitHonest
<1>1. PutInv => PutExitHonest
  BY DEF PutInv, PutExitHonest
<1> QED BY <1>1, SessionInvariant, PTL

-----------------------------------------------------------------------------
(* The answer: OK with the size, newline, the lines of the file. *)
LEMMA AnswerAt ==
  /\ Answer[1] = <<"OK", FileSize>> /\ Answer[2] = Newline
  /\ \A i \in Nat \ {0} : Answer[2 + i] = <<"old", i>>
<1>1. /\ \A i \in Nat : i = 1 => Answer[i] = <<"OK", FileSize>>
      /\ \A i \in Nat : i # 1 /\ i = 2 => Answer[i] = Newline
      /\ \A i \in Nat : i # 1 /\ i # 2 => Answer[i] = <<"old", i - 2>>
  BY DEF Answer
<1>2. ASSUME NEW i \in Nat \ {0} PROVE Answer[2 + i] = <<"old", i>>
  <2>1. 2 + i \in Nat /\ 2 + i # 1 /\ 2 + i # 2 /\ (2 + i) - 2 = i
    OBVIOUS
  <2> QED BY <1>1, <2>1
<1> QED BY <1>1, <1>2

(* What follows the status line, in full, is the file. *)
LEMMA GotIsFile ==
  ASSUME NEW got \in Seq(Byte), Along(got, Answer, 2), Len(got) = FileSize
  PROVE  got = Text("old", FileSize)
<1>1. "old" \in Kinds /\ FileSize \in Nat
  BY SessionAssumption DEF Kinds
<1>2. /\ Text("old", FileSize) \in Seq(Byte)
      /\ Len(Text("old", FileSize)) = FileSize
      /\ \A i \in 1 .. FileSize : Text("old", FileSize)[i] = <<"old", i>>
  BY <1>1, TextBytes
<1>3. ASSUME NEW i \in 1 .. Len(got) PROVE got[i] = Text("old", FileSize)[i]
  <2>1. i \in Nat \ {0} /\ i \in 1 .. FileSize
    BY <1>1
  <2>2. got[i] = Answer[2 + i]
    BY DEF Along
  <2> QED BY <1>2, <2>1, <2>2, AnswerAt
<1> QED BY <1>2, <1>3, SeqEqual

(* The status line of an undisturbed download is read whole, or its first  *)
(* byte alone.                                                             *)
LEMMA AnswerRead ==
  ASSUME Types, Serving, c.pc = "status", NEW k \in 1 .. Buf,
         ClientReadLine(k)
  PROVE  LET line == c.line \o Upto(Taken(down, k))
             left == Beyond(Taken(down, k))
         IN  /\ line[1] = <<"OK", FileSize>>
             /\ Emitted = Len(c.line) + Len(down)
             /\ \/ /\ IsLine(line) /\ Along(left, Answer, 2)
                   /\ Along(Rest(down, k), Answer, 2 + Len(left))
                   /\ 2 + Len(left) + Len(Rest(down, k)) = Emitted
                \/ /\ ~IsLine(line) /\ Len(line) = 1
                   /\ Along(line, Answer, 0)
                   /\ Along(Rest(down, k), Answer, 1)
                   /\ 1 + Len(Rest(down, k)) = Emitted
<1> DEFINE chunk == Taken(down, k)
           line == c.line \o Upto(chunk)
           left == Beyond(chunk)
           a == Len(c.line)
           d == Len(down)
           m == Len(Upto(chunk))
           r == Len(Rest(down, k))
           l == Len(left)
<1>1. /\ line \in Seq(Byte) /\ line # <<>> /\ chunk \in Seq(Byte)
      /\ Len(chunk) = k
      /\ Upto(chunk) \in Seq(Byte) /\ m \in 1 .. k /\ Len(line) = a + m
      /\ ~IsLine(line) => m = k
  BY StatusRead
<1>2. k \in 1 .. d /\ k \in 0 .. d
  BY SomethingRead, UpTypes
<1>3. /\ a \in Nat /\ d \in Nat /\ c.line \in Seq(Byte)
      /\ down \in Seq(Byte)
  BY UpTypes
<1>4. /\ a <= 1 /\ Along(c.line, Answer, 0) /\ Along(down, Answer, a)
      /\ Emitted = a + d
  BY DEF Serving, Position, Emitted
<1>5. /\ Along(chunk, Answer, a) /\ Along(Rest(down, k), Answer, a + k)
      /\ r = d - k
  BY <1>2, <1>3, <1>4, AlongCut, Cut
<1>6. /\ Along(Upto(chunk), Answer, a) /\ Along(left, Answer, a + m)
  BY <1>1, <1>3, <1>5, AlongScan
<1>7. /\ \A i \in 1 .. (m - 1) : chunk[i] # Newline
      /\ m + l = k /\ l \in Nat /\ m \in Nat
  <2>1. /\ left \in Seq(Byte) /\ Upto(chunk) \in Seq(Byte)
        /\ m + l = Len(chunk)
        /\ \A i \in 1 .. (m - 1) : chunk[i] # Newline
    BY <1>1, Scan
  <2> QED BY <1>1, <2>1, LenProperties
<1>8. Along(line, Answer, 0)
  <2>1. 0 + Len(c.line) = a
    BY <1>3
  <2> QED BY <1>1, <1>3, <1>4, <1>6, <2>1, AlongJoin
<1> HIDE DEF chunk, line, left, a, d, m, r, l
<1>9. a + m \in 1 .. 2
  <2>1. ASSUME a + m > 2 PROVE FALSE
    <3>1. /\ 2 - a \in 1 .. (m - 1) /\ 2 - a \in 1 .. Len(chunk)
          /\ a + (2 - a) = 2
      BY <1>1, <1>3, <1>4, <1>7, <2>1
    <3>2. chunk[2 - a] = Answer[a + (2 - a)]
      BY <1>5, <3>1 DEF Along
    <3> QED BY <1>7, <3>1, <3>2, AnswerAt
  <2> QED BY <1>1, <1>3, <1>7, <2>1
<1>10. line[1] = <<"OK", FileSize>>
  <2>1. 1 \in 1 .. Len(line)
    BY <1>1, <1>9
  <2>2. line[1] = Answer[0 + 1]
    BY <1>8, <2>1 DEF Along
  <2> QED BY <2>2, AnswerAt
<1>11. CASE a + m = 2
  <2>1. line[2] = Answer[0 + 2] /\ Len(line) = 2
    BY <1>1, <1>8, <1>11 DEF Along
  <2>2. IsLine(line)
    <3>1. 0 + 2 = 2
      OBVIOUS
    <3>2. line[Len(line)] = Newline
      BY <2>1, <3>1, AnswerAt
    <3> QED BY <1>1, <3>2 DEF IsLine, Last
  <2>3. 2 + l = a + k /\ (2 + l) + r = Emitted
    <3>1. k \in Nat /\ 2 + l = a + k
      BY <1>2, <1>3, <1>7, <1>11
    <3>2. (a + k) + (d - k) = a + d
      BY <1>3, <3>1
    <3> QED BY <1>4, <1>5, <3>1, <3>2
  <2>4. Along(left, Answer, 2) /\ Along(Rest(down, k), Answer, 2 + l)
    BY <1>5, <1>6, <1>11, <2>3
  <2>5. Emitted = Len(c.line) + Len(down)
    BY <1>4 DEF a, d
  <2> QED BY <1>10, <2>2, <2>3, <2>4, <2>5 DEF line, left, chunk, l, r
<1>12. CASE a + m = 1
  <2>1. ~IsLine(line)
    <3>1. Last(line) = <<"OK", FileSize>>
      BY <1>1, <1>10, <1>12 DEF Last
    <3> QED BY <3>1 DEF IsLine, Newline
  <2>2. a + k = 1 /\ Len(line) = 1
    BY <1>1, <1>12, <2>1
  <2>3. 1 + r = Emitted /\ Along(Rest(down, k), Answer, 1)
    BY <1>2, <1>3, <1>4, <1>5, <2>2
  <2>4. Emitted = Len(c.line) + Len(down)
    BY <1>4 DEF a, d
  <2>5. c.line \o Upto(Taken(down, k)) = line /\ Len(Rest(down, k)) = r
    BY DEF line, chunk, r
  <2> QED BY <1>8, <1>10, <2>1, <2>2, <2>3, <2>4, <2>5
<1>13. a + m = 1 \/ a + m = 2
  BY <1>9
<1> QED BY <1>11, <1>12, <1>13

(* GetInv with the next state's values. *)
LEMMA GetInvPrimed ==
  ASSUME call' = call, c'.pc # "final", s'.pc # "store",
         s'.pc \in {"check", "recv", "parse"} => s'.sent = 0,
         version' = "old" /\ c'.pc # "done" =>
           Reading' \/ Refused' \/ Serving',
         c'.ret = 0 /\ version' = "old" => c'.got = Text("old", FileSize)
  PROVE  GetInv'
BY DEF GetInv, QuietGetIsFile, Reading

(* A send of the server moves the answer on to the wire. *)
LEMMA ServingSent ==
  ASSUME Types, Serving, c.pc \in {"status", "body"},
         NEW k \in 1 .. Cap, ServerSend(k)
  PROVE  Serving'
<1> DEFINE p == Position
           d == Len(down)
           o == Len(s.out)
           f == Answer
<1>1. /\ c' = c /\ down' = down \o Taken(s.out, k)
      /\ s'.out = Rest(s.out, k) /\ s'.pc = s.pc /\ s'.sent = s.sent
      /\ s'.total = s.total
  BY DEF ServerSend, Types, ServerState
<1>2. /\ p \in Nat /\ d \in Nat /\ o \in Nat /\ Emitted = p + d
      /\ Emitted \in Nat
      /\ down \in Seq(Byte) /\ s.out \in Seq(Byte)
  <2>1. /\ d \in Nat /\ o \in Nat /\ Len(c.line) \in Nat
        /\ down \in Seq(Byte) /\ s.out \in Seq(Byte)
    BY UpTypes
  <2>2. Len(c.got) \in Nat
    BY LenProperties DEF Types, ClientState
  <2>3. p \in Nat
    BY <2>1, <2>2 DEF Position
  <2>4. Emitted = p + d
    BY DEF Emitted
  <2> HIDE DEF p, d
  <2> QED BY <2>1, <2>3, <2>4
<1>3. /\ k \in 0 .. o /\ Len(Taken(s.out, k)) = k
      /\ Len(Rest(s.out, k)) = o - k
      /\ Taken(s.out, k) \in Seq(Byte)
  <2>1. Cap - Len(down) \in Int /\ k \in Pieces(Cap - Len(down), s.out)
    BY <1>2, SessionAssumption DEF ServerSend
  <2> QED BY <1>2, <2>1, Piece
<1>4. /\ Along(down, f, p) /\ Along(s.out, f, Emitted)
      /\ s.pc = "body" => Emitted + o = 2 + s.sent
  BY DEF Serving
<1>5. Along(Taken(s.out, k), f, Emitted)
      /\ Along(Rest(s.out, k), f, Emitted + k)
  BY <1>2, <1>3, <1>4, AlongCut
<1>6. Along(down', f, p)
  BY <1>1, <1>2, <1>3, <1>4, <1>5, AlongJoin
<1>7. Len(down') = d + k
  <2>1. Len(down \o Taken(s.out, k)) = d + Len(Taken(s.out, k))
    BY <1>2, <1>3, ConcatProperties
  <2> QED BY <1>1, <1>3, <2>1
<1>8. Position' = p
  BY <1>1 DEF Position
<1> HIDE DEF f, d, o, p
<1>9. Emitted' = p + (d + k)
  BY <1>7, <1>8 DEF Emitted
<1>10. Emitted' = Emitted + k /\ Emitted' + (o - k) = Emitted + o
  BY <1>2, <1>3, <1>9
<1>11. s'.pc = "body" => Emitted' + Len(s'.out) = 2 + s'.sent
  BY <1>1, <1>3, <1>4, <1>10
<1> QED BY <1>1, <1>5, <1>6, <1>8, <1>10, <1>11 DEF Serving, f

(* Nothing of what was read is an OK. *)
LEMMA NoOkRead ==
  ASSUME Types, NoOk(c.line), NoOk(down), NEW k \in 1 .. Buf,
         ClientReadLine(k)
  PROVE  /\ NoOk(c.line \o Upto(Taken(down, k))) /\ NoOk(Rest(down, k))
<1> DEFINE chunk == Taken(down, k)
<1>1. /\ k \in 0 .. Len(down) /\ down \in Seq(Byte) /\ c.line \in Seq(Byte)
  BY SomethingRead, UpTypes
<1>2. /\ chunk \in Seq(Byte) /\ Upto(chunk) \in Seq(Byte)
      /\ Len(Upto(chunk)) \in 1 .. k /\ Len(chunk) = k
  BY StatusRead
<1>3. NoOk(chunk) /\ NoOk(Rest(down, k))
  BY <1>1, OkCut
<1>4. NoOk(Upto(chunk))
  <2>1. \A i \in 1 .. Len(Upto(chunk)) : Upto(chunk)[i] = chunk[i]
    BY <1>2, Scan
  <2>2. \A i \in 1 .. Len(Upto(chunk)) : i \in 1 .. Len(chunk)
    BY <1>2
  <2> QED BY <1>3, <2>1, <2>2, Zenon DEF NoOk
<1> QED BY <1>1, <1>2, <1>3, <1>4, OkJoin

(* The client of a download reads of the status line. *)
LEMMA GetReadLine ==
  ASSUME Types, Ends, GetInv, call.op = "GET", NEW k \in 1 .. Buf,
         ClientReadLine(k)
  PROVE  GetInv'
<1> DEFINE line == c.line \o Upto(Taken(down, k))
           left == Beyond(Taken(down, k))
           rest == Rest(down, k)
           file == Text("old", FileSize)
<1>1. /\ UNCHANGED <<call, s, version>> /\ down' = rest /\ ~Reading
      /\ s.pc # "store"
  BY SomethingRead DEF Ends, Quiet, GetInv
<1>2. /\ c.pc = "status"
      /\ \/ ~IsLine(line) /\ c' = [c EXCEPT !.line = line]
         \/ c' = Returned(1)
         \/ /\ IsLine(line) /\ line[1][1] = "OK"
            /\ c' = Receiving(line[1][2], left)
  BY LineRead DEF GetInv
<1>3. /\ line \in Seq(Byte) /\ line # <<>> /\ left \in Seq(Byte)
  BY StatusRead
<1>4. IsLine(line) => line[1][2] \in Nat
  <2>1. line[1] \in Byte
    BY <1>3, EmptySeq, ElementOfSeq
  <2> QED BY <2>1 DEF Byte
<1>5. c \in ClientState /\ c.ret = None /\ None # 0
  BY <1>2, SessionAssumption DEF Types, Ends
<1>6. version = "old" => Refused \/ Serving
  BY <1>1, <1>2 DEF GetInv
<1>7. version = "old" /\ Refused => NoOk(line) /\ NoOk(rest)
  BY NoOkRead DEF Refused
<1>8. Serving =>
        /\ line[1] = <<"OK", FileSize>>
        /\ \/ /\ IsLine(line) /\ Along(left, Answer, 2)
              /\ Along(rest, Answer, 2 + Len(left))
              /\ (2 + Len(left)) + Len(rest) = Emitted
           \/ /\ ~IsLine(line) /\ Len(line) = 1
              /\ Along(line, Answer, 0) /\ Along(rest, Answer, 1)
              /\ 1 + Len(rest) = Emitted
  BY <1>2, AnswerRead
<1> HIDE DEF line, left, rest
<1>9. ASSUME c'.pc = "done", c'.ret = 0 /\ version = "old" => c'.got = file
      PROVE  GetInv'
  BY <1>1, <1>9, GetInvPrimed DEF Reading
<1>10. CASE c' = Returned(1)
  <2>1. c'.pc = "done" /\ c'.ret = 1
    BY <1>10, ReturnedFields
  <2> QED BY <1>9, <2>1
<1>11. CASE ~IsLine(line) /\ c' = [c EXCEPT !.line = line]
  <2>1. /\ c'.pc = "status" /\ c'.line = line /\ c'.ret = None
    BY <1>2, <1>5, <1>11 DEF ClientState
  <2>2. version = "old" /\ Refused => Refused'
    BY <1>1, <1>7, <2>1 DEF Refused
  <2>3. ASSUME Serving PROVE Serving'
    <3>1. /\ Len(c'.line) = 1 /\ Along(c'.line, Answer, 0)
          /\ Along(rest, Answer, 1) /\ 1 + Len(rest) = Emitted
      BY <1>8, <1>11, <2>1, <2>3
    <3>2. Position' = 1
      BY <2>1, <3>1 DEF Position
    <3>3. Emitted' = Emitted
      BY <1>1, <3>1, <3>2 DEF Emitted
    <3>4. Along(down', Answer, Position')
      BY <1>1, <3>1, <3>2
    <3> QED BY <1>1, <2>1, <2>3, <3>1, <3>3, <3>4 DEF Serving
  <2> QED BY <1>1, <1>5, <1>6, <2>1, <2>2, <2>3, GetInvPrimed DEF Reading
<1>12. CASE /\ IsLine(line) /\ line[1][1] = "OK"
            /\ c' = Receiving(line[1][2], left)
  <2>1. /\ c'.need = line[1][2]
        /\ \/ /\ Len(left) < line[1][2] /\ c'.got = left
              /\ c'.pc = "body" /\ c'.ret = None
           \/ /\ line[1][2] <= Len(left) /\ c'.got = Taken(left, line[1][2])
              /\ Len(c'.got) = line[1][2]
              /\ c'.pc = "done" /\ c'.ret = 0
    BY <1>3, <1>4, <1>12, ReceivingFields
  <2>2. CASE version # "old"
    BY <1>1, <2>1, <2>2, GetInvPrimed DEF Reading
  <2>3. ASSUME Refused, version = "old" PROVE FALSE
    <3>1. 1 \in 1 .. Len(line)
      BY <1>3, EmptySeq, LenProperties
    <3> QED BY <1>7, <1>12, <2>3, <3>1 DEF NoOk
  <2>4. CASE Serving /\ version = "old"
    <3>1. /\ line[1][2] = FileSize /\ FileSize \in Nat
          /\ Along(left, Answer, 2)
          /\ Along(rest, Answer, 2 + Len(left))
          /\ (2 + Len(left)) + Len(rest) = Emitted
      BY <1>8, <1>12, <2>4, SessionAssumption
    <3>2. CASE c'.pc = "body"
      <4>1. c'.got = left /\ Len(left) < FileSize /\ c'.need = FileSize
            /\ c'.ret = None
        BY <2>1, <3>1, <3>2
      <4>2. Position' = 2 + Len(left)
        BY <3>2, <4>1 DEF Position
      <4>3. Emitted' = Emitted /\ Along(down', Answer, Position')
        BY <1>1, <3>1, <4>2 DEF Emitted
      <4>4. Serving'
        BY <1>1, <2>4, <3>1, <3>2, <4>1, <4>3 DEF Serving
      <4> QED BY <1>1, <1>5, <3>2, <4>1, <4>4, GetInvPrimed DEF Reading
    <3>3. CASE c'.pc = "done"
      <4>1. /\ c'.got = Taken(left, FileSize) /\ Len(c'.got) = FileSize
            /\ FileSize <= Len(left)
        BY <2>1, <3>1, <3>3
      <4>2. FileSize \in 0 .. Len(left)
        BY <1>3, <3>1, <4>1, LenProperties
      <4>3. c'.got \in Seq(Byte) /\ Along(c'.got, Answer, 2)
        BY <1>3, <3>1, <4>1, <4>2, AlongCut, Cut
      <4>4. c'.got = file
        BY <4>1, <4>3, GotIsFile
      <4> QED BY <1>9, <3>3, <4>4
    <3> QED BY <2>1, <3>2, <3>3
  <2> QED BY <1>6, <2>2, <2>3, <2>4
<1> QED BY <1>2, <1>10, <1>11, <1>12

(* The client of a download reads of the file. *)
LEMMA GetReadBody ==
  ASSUME Types, Ends, GetInv, call.op = "GET", NEW k \in 1 .. Buf,
         ClientReadBody(k)
  PROVE  GetInv'
<1> DEFINE piece == Taken(down, k)
           got == c.got \o piece
           rest == Rest(down, k)
           g == Len(c.got)
           d == Len(down)
<1>1. /\ UNCHANGED <<call, s, version>> /\ down' = rest /\ ~Reading
      /\ s.pc # "store" /\ k \in 1 .. d
  BY SomethingRead DEF Ends, Quiet, GetInv
<1>2. /\ c.pc = "body"
      /\ c' = IF Len(got) = c.need THEN [Returned(0) EXCEPT !.got = got]
              ELSE [c EXCEPT !.got = got]
  BY DEF ClientReadBody
<1>3. /\ c \in ClientState /\ c.ret = None /\ None # 0
      /\ c.got \in Seq(Byte) /\ down \in Seq(Byte) /\ c.need \in Nat
      /\ g \in Nat /\ d \in Nat
  BY <1>2, SessionAssumption, LenProperties DEF Types, Ends, ClientState
<1>4. /\ k \in Nat /\ k \in 0 .. d /\ piece \in Seq(Byte) /\ Len(piece) = k
      /\ rest \in Seq(Byte) /\ Len(rest) = d - k
  <2>1. k \in Nat /\ k \in 0 .. d
    BY <1>1, <1>3
  <2> QED BY <1>3, <2>1, Cut
<1>5. /\ got \in Seq(Byte) /\ Len(got) = g + k
  <2>1. got \in Seq(Byte) /\ Len(got) = g + Len(piece)
    BY <1>3, <1>4, ConcatProperties
  <2> QED BY <1>4, <2>1
<1>6. k <= c.need - g
  <2>1. c.need - g \in Int /\ Buf \in Int
    BY <1>3, SessionAssumption
  <2>2. k \in Pieces(Min({Buf, c.need - g}), down)
    BY DEF ClientReadBody
  <2>3. /\ Min({Buf, c.need - g}) \in Int
        /\ Min({Buf, c.need - g}) <= c.need - g
    BY <2>1, MinOfTwo
  <2>4. k <= Min({Buf, c.need - g})
    BY <1>3, <2>2, <2>3, PieceSize
  <2> HIDE DEF g
  <2> QED BY <1>4, <2>1, <2>3, <2>4
<1>7. ASSUME version = "old"
      PROVE  /\ c.need = FileSize /\ Along(got, Answer, 2)
             /\ Along(rest, Answer, 2 + Len(got))
             /\ (2 + Len(got)) + Len(rest) = Emitted
             /\ Serving
  <2>1. Serving
    BY <1>1, <1>2, <1>7 DEF GetInv, Refused
  <2>2. /\ c.need = FileSize /\ Along(c.got, Answer, 2)
        /\ Along(down, Answer, 2 + g) /\ Emitted = (2 + g) + d
    BY <1>2, <2>1 DEF Serving, Position, Emitted
  <2> HIDE DEF g, d
  <2>3. 2 + g \in Nat /\ (2 + g) + k = 2 + (g + k)
        /\ (2 + (g + k)) + (d - k) = (2 + g) + d
    BY <1>3, <1>4
  <2>4. Along(piece, Answer, 2 + g) /\ Along(rest, Answer, (2 + g) + k)
    BY <1>3, <1>4, <2>2, <2>3, AlongCut DEF d
  <2>5. Along(got, Answer, 2)
    BY <1>3, <1>4, <2>2, <2>4, AlongJoin DEF g
  <2> QED BY <1>4, <1>5, <2>1, <2>2, <2>3, <2>4, <2>5
<1> HIDE DEF piece, got, rest, g, d
<1>8. CASE Len(got) = c.need
  <2>1. /\ c'.pc = "done" /\ c'.got = got
    BY <1>2, <1>3, <1>8 DEF Returned, ClientState
  <2>2. version = "old" => got = Text("old", FileSize)
    BY <1>5, <1>7, <1>8, GotIsFile
  <2> QED BY <1>1, <2>1, <2>2, GetInvPrimed DEF Reading
<1>9. CASE Len(got) # c.need
  <2>1. /\ c'.pc = "body" /\ c'.got = got /\ c'.ret = None
        /\ c'.need = c.need
    BY <1>2, <1>3, <1>9 DEF ClientState
  <2>2. Len(got) < c.need
    <3>1. Len(got) = g + k /\ g + k <= c.need /\ g + k \in Nat
      BY <1>3, <1>4, <1>5, <1>6
    <3> QED BY <1>3, <1>9, <3>1
  <2>3. ASSUME version = "old" PROVE Serving'
    <3>1. Position' = 2 + Len(got)
      BY <2>1 DEF Position
    <3>2. Emitted' = Emitted /\ Along(down', Answer, Position')
      BY <1>1, <1>7, <2>3, <3>1 DEF Emitted
    <3> QED BY <1>1, <1>7, <2>1, <2>2, <2>3, <3>2 DEF Serving
  <2> QED BY <1>1, <1>3, <2>1, <2>3, GetInvPrimed DEF Reading
<1> QED BY <1>8, <1>9

(* Each step keeps GetInv. *)
LEMMA GetStep ==
  ASSUME Types, Ends, UpInv, GetInv, [Next]_svars PROVE GetInv'
<1>1. c \in ClientState /\ s \in ServerState
  BY DEF Types
<1>2. call' = call
  BY DEF Next, Terminated, svars, Replace, ClientStep, ClientSend, ClientDies,
     ClientReadLine, ClientReadBody, ClientSendLate, ClientEof, ServerStep,
     ServerSend, HeaderRecv, StoreRecv, HeaderCheck, HeaderSilence, Tick,
     Dispatch, ServerSendLate, SelectLines, SendFileLine, StorePending,
     StoreFails, Commit, CommitTorn, CommitFails, ServerClose,
     ConnectionLost, ClientDiskFails
<1>3. CASE call.op # "GET"
  BY <1>2, <1>3 DEF GetInv, QuietGetIsFile
<1> SUFFICES ASSUME call.op = "GET" PROVE GetInv'
  BY <1>3
<1>4. /\ c.pc # "final" /\ s.pc # "store"
      /\ Reading => s.sent = 0
      /\ version = "old" /\ c.pc # "done" => Reading \/ Refused \/ Serving
      /\ c.ret = 0 /\ version = "old" => c.got = Text("old", FileSize)
  BY DEF GetInv, QuietGetIsFile
<1>5. c.pc \in {"status", "body", "done"}
  BY <1>1, <1>4 DEF ClientState
<1>6. NoOk(<<>>) /\ NoOk(ErrLine)
  <2>1. NoOk(<<>>)
    BY EmptySeq DEF NoOk
  <2>2. /\ Len(ErrLine) = 2 /\ 1 .. 2 = {1, 2}
        /\ ErrLine[1] = <<"ERR", 0>> /\ ErrLine[2] = Newline
    BY LineBytes
  <2> QED BY <2>1, <2>2 DEF NoOk, Newline
<1>7. Len(<<>>) = 0 /\ \A n : Along(<<>>, Answer, n)
  BY EmptySeq DEF Along
(* The client's view and the answer are left alone. *)
<1>8. ASSUME c'.pc = c.pc, c'.line = c.line, c'.got = c.got,
             c'.need = c.need, c'.ret = c.ret, UNCHANGED down,
             s'.pc = s.pc, s'.out = s.out, s'.sent = s.sent,
             s'.total = s.total, version' = version \/ version' = "new"
      PROVE  GetInv'
  <2>1. Reading' = Reading /\ Refused' = Refused
    BY <1>8 DEF Reading, Refused
  <2>2. Position' = Position /\ Emitted' = Emitted
    BY <1>8 DEF Position, Emitted
  <2>3. Serving => Serving'
    BY <1>8, <2>2 DEF Serving
  <2> QED BY <1>2, <1>4, <1>8, <2>1, <2>3, GetInvPrimed DEF Reading
(* The client ends with an error, or with none to report to. *)
<1>9. ASSUME UNCHANGED <<s, version>>, \E r \in {None, 1} : c' = Returned(r)
      PROVE  GetInv'
  <2>1. c'.pc = "done" /\ c'.ret # 0
    BY <1>9, ReturnedFields, SessionAssumption
  <2> QED BY <1>2, <1>4, <1>9, <2>1, GetInvPrimed DEF Reading
<1>10. CASE UNCHANGED svars \/ Replace
  BY <1>8, <1>10 DEF svars, Replace
<1>11. ASSUME NEW k \in 1 .. Cap, ClientSend(k) PROVE GetInv'
  <2>1. /\ c'.pc = c.pc /\ c'.ret = c.ret /\ c'.line = c.line
        /\ c'.got = c.got /\ c'.need = c.need
        /\ UNCHANGED <<s, down, version>>
    BY <1>1, <1>11 DEF ClientSend, ClientState
  <2> QED BY <1>8, <2>1
(* What is on its way to the client is lost. *)
<1>12. ASSUME s.out = <<>>, s'.pc = "closed", s'.out = <<>>,
              s'.total = s.total, s'.sent = s.sent, down' \in {down, <<>>},
              c'.pc = c.pc, c'.line = c.line, c'.got = c.got,
              c'.need = c.need, c'.ret = c.ret, ~Reading, UNCHANGED version
       PROVE  GetInv'
  <2>1. Refused => Refused'
    BY <1>6, <1>12 DEF Refused
  <2>2. ASSUME Serving PROVE Serving'
    <3>1. Position' = Position
      BY <1>12 DEF Position
    <3>2. Along(down', Answer, Position') /\ Along(s'.out, Answer, Emitted')
      BY <1>7, <1>12, <2>2, <3>1 DEF Serving
    <3> QED BY <1>12, <2>2, <3>2 DEF Serving
  <2> QED BY <1>2, <1>4, <1>12, <2>1, <2>2, GetInvPrimed
<1>13. CASE ClientSendLate
  <2>1. /\ UNCHANGED <<s, version>> /\ s.pc = "closed" /\ s.out = <<>>
        /\ down' \in {down, <<>>}
        /\ c' \in {Returned(1), [c EXCEPT !.out = <<>>]}
    BY <1>13 DEF ClientSendLate, Ends
  <2>2. CASE c' = [c EXCEPT !.out = <<>>]
    <3>1. /\ c'.pc = c.pc /\ c'.ret = c.ret /\ c'.line = c.line
          /\ c'.got = c.got /\ c'.need = c.need
      BY <1>1, <2>2 DEF ClientState
    <3> QED BY <1>12, <2>1, <3>1 DEF Reading
  <2> QED BY <1>9, <2>1, <2>2
<1>14. CASE ClientEof \/ ClientDies
  BY <1>9, <1>14 DEF ClientEof, EofFails, ClientDies
<1>s. CASE Severed
  BY <1>9, <1>s, SeveredStep
<1>15. CASE ClientStep
  BY <1>11, <1>13, <1>14, <1>15, GetReadLine, GetReadBody DEF ClientStep
<1>16. ASSUME NEW k \in 1 .. Cap, ServerSend(k) PROVE GetInv'
  <2>1. /\ UNCHANGED <<c, version>> /\ s'.pc = s.pc /\ s'.sent = s.sent
        /\ down' = down \o Taken(s.out, k) /\ s'.out = Rest(s.out, k)
        /\ c.pc # "done"
    BY <1>1, <1>16 DEF ServerSend, ServerState, Ends
  <2>2. /\ down \in Seq(Byte) /\ s.out \in Seq(Byte) /\ s.out # <<>>
        /\ k \in 0 .. Len(s.out) /\ Taken(s.out, k) \in Seq(Byte)
    <3>1. /\ s.out \in Seq(Byte) /\ Cap - Len(down) \in Int
          /\ k \in Pieces(Cap - Len(down), s.out)
      BY <1>16, SessionAssumption, UpTypes DEF ServerSend
    <3> QED BY <3>1, Piece, EmptySeq, UpTypes
  <2>3. ~Reading
    BY <2>2 DEF Ends, Quiet
  <2>4. ASSUME Refused PROVE Refused'
    <3>1. NoOk(Taken(s.out, k)) /\ NoOk(Rest(s.out, k))
      BY <2>2, <2>4, OkCut DEF Refused
    <3>2. NoOk(down \o Taken(s.out, k))
      BY <2>2, <2>4, <3>1, OkJoin DEF Refused
    <3> QED BY <2>1, <2>4, <3>1, <3>2 DEF Refused
  <2>5. Serving => Serving'
    BY <1>5, <1>16, <2>1, ServingSent
  <2> QED BY <1>2, <1>4, <2>1, <2>3, <2>4, <2>5, GetInvPrimed DEF Reading
(* Once the client has gone, only what it returned matters. *)
<1>17. ASSUME UNCHANGED <<c, version>>, c.pc = "done", s'.pc # "store",
              s'.pc \in {"check", "recv", "parse"} => s'.sent = 0
       PROVE  GetInv'
  BY <1>2, <1>4, <1>17, GetInvPrimed
<1>18. CASE ServerSendLate
  <2>1. /\ UNCHANGED <<c, version>> /\ c.pc = "done" /\ s.out # <<>>
        /\ s'.pc \in {"closing", s.pc}
    BY <1>1, <1>18 DEF ServerSendLate, ServerState, Ends
  <2>2. ~Reading
    BY <2>1 DEF Ends, Quiet
  <2> QED BY <1>4, <1>17, <2>1, <2>2 DEF Reading
<1>19. ASSUME UNCHANGED <<c, version>>, s'.sent = s.sent, Reading, Reading'
       PROVE  GetInv'
  <2>1. s'.pc \in {"check", "recv", "parse"}
    BY <1>19 DEF Reading
  <2> QED BY <1>2, <1>4, <1>19, <2>1, GetInvPrimed
<1>20. ASSUME Reject, UNCHANGED <<c, down, version>>, Reading
       PROVE  GetInv'
  <2>1. s'.pc = "closing" /\ s'.out = ErrLine
    BY <1>1, <1>20 DEF Reject, ServerState
  <2>2. Quiet /\ c.pc \in {"status", "done"}
    BY <1>20 DEF Ends
  <2>3. c.pc = "status" => Refused'
    BY <1>6, <1>20, <2>1, <2>2 DEF Refused, Quiet
  <2> QED BY <1>2, <1>4, <1>20, <2>1, <2>2, <2>3, GetInvPrimed
<1>21. CASE HeaderSilence
  BY <1>20, <1>21 DEF HeaderSilence, Reading
<1>22. CASE HeaderCheck
  <2>1. UNCHANGED <<c, down, version>> /\ s.pc = "check"
    BY <1>22 DEF HeaderCheck
  <2>2. Reject \/ (s'.pc = "recv" /\ s'.sent = s.sent)
    BY <1>1, <1>22 DEF HeaderCheck, ServerState
  <2> QED BY <1>19, <1>20, <2>1, <2>2 DEF Reading
<1>23. CASE Tick
  <2>1. /\ UNCHANGED <<c, version>> /\ s.pc = "recv"
        /\ s'.pc = "recv" /\ s'.sent = s.sent
    BY <1>1, <1>23 DEF Tick, ServerState
  <2> QED BY <1>19, <2>1 DEF Reading
<1>24. ASSUME NEW k \in 1 .. Buf, HeaderRecv(k) PROVE GetInv'
  <2>1. UNCHANGED <<c, version>> /\ s.pc = "recv"
    BY <1>24 DEF HeaderRecv
  <2>2. \E l, r : \E p \in {"parse", "check"} :
          s' = [s EXCEPT !.line = l, !.left = r, !.pc = p]
    BY <1>24 DEF HeaderRecv
  <2>3. s'.pc \in {"parse", "check"} /\ s'.sent = s.sent
    BY <1>1, <2>2 DEF ServerState
  <2> QED BY <1>19, <2>1, <2>3 DEF Reading
<1>25. CASE Dispatch
  <2>1. s.pc = "parse" /\ UNCHANGED <<c, down, version>> /\ s'.sent = s.sent
    BY <1>25, Dispatched
  <2>2. s.line[1][1] = "GET"
    BY <2>1, HeaderRead
  <2>3. /\ s'.pc = "body"
        /\ version = "old" => /\ s'.total = FileSize
                              /\ s'.out = OkLine(FileSize)
    BY <1>25, <2>2, Dispatched
  <2>4. Quiet /\ c.pc \in {"status", "done"} /\ s.sent = 0
    BY <1>4, <2>1 DEF Ends, Reading
  <2>5. ASSUME version = "old", c.pc = "status" PROVE Serving'
    <3>1. /\ Len(s'.out) = 2 /\ s'.out[1] = <<"OK", FileSize>>
          /\ s'.out[2] = Newline /\ FileSize \in Nat
      BY <2>3, <2>5, LineBytes, SessionAssumption
    <3>2. Along(s'.out, Answer, 0)
      <4>1. 1 .. 2 = {1, 2} /\ 0 + 1 = 1 /\ 0 + 2 = 2
        OBVIOUS
      <4> QED BY <3>1, <4>1, AnswerAt DEF Along
    <3>3. c'.pc = "status" /\ c'.line = <<>> /\ down' = <<>>
      BY <2>1, <2>4, <2>5 DEF Quiet
    <3>4. Position' = 0 /\ Emitted' = 0
      BY <1>7, <3>3 DEF Position, Emitted
    <3>5. Emitted' + Len(s'.out) = 2 + s'.sent /\ 0 <= FileSize
      BY <2>1, <2>4, <3>1, <3>4
    <3> QED BY <1>7, <2>1, <2>3, <2>4, <2>5, <3>1, <3>2, <3>3, <3>4, <3>5
            DEF Serving
  <2> QED BY <1>2, <1>4, <2>1, <2>3, <2>4, <2>5, GetInvPrimed
<1>26. CASE SendFileLine
  <2>1. UNCHANGED <<c, down, version>> /\ s.pc = "body" /\ s.out = <<>>
    BY <1>26 DEF SendFileLine, Free
  <2>2. s'.pc \in {"closing", "body"}
    <3>1. \/ s' = [s EXCEPT !.pc = "closing"]
          \/ \E n, m, o :
               s' = [s EXCEPT !.sent = n, !.round = m, !.out = o]
          \/ s' = [s EXCEPT !.pc = "closing", !.out = ErrLine]
      BY <1>26 DEF SendFileLine, Reject
    <3> QED BY <1>1, <2>1, <3>1 DEF ServerState
  <2>3. ASSUME version = "old", c.pc # "done" PROVE Serving'
    <3>1. Serving
      BY <1>4, <2>1, <2>3 DEF Reading, Refused
    <3>2. /\ s.total = FileSize /\ s.sent <= s.total /\ s.sent \in Nat
          /\ FileSize \in Nat /\ Emitted + 0 = 2 + s.sent
      BY <1>1, <1>7, <2>1, <3>1, SessionAssumption DEF Serving, ServerState
    <3>3. Position' = Position /\ Emitted' = Emitted
      BY <2>1 DEF Position, Emitted
    <3>4. CASE s.sent = s.total
      <4>1. s' = [s EXCEPT !.pc = "closing"]
        BY <1>26, <3>2, <3>4 DEF SendFileLine
      <4>2. /\ s'.pc = "closing" /\ s'.sent = s.sent /\ s'.total = s.total
            /\ s'.out = s.out
        BY <1>1, <4>1 DEF ServerState
      <4> QED BY <2>1, <3>1, <3>3, <4>2 DEF Serving
    <3>5. CASE s.sent # s.total
      <4>1. s.sent < FileSize
        BY <3>2, <3>5
      <4>2. s' = [s EXCEPT !.sent = s.sent + 1, !.round = s.round - 1,
                           !.out = <<<<"old", s.sent + 1>>>>]
        BY <1>26, <2>3, <3>5, <4>1 DEF SendFileLine, Size
      <4>3. /\ s'.pc = "body" /\ s'.sent = s.sent + 1
            /\ s'.total = s.total /\ s'.out = <<<<"old", s.sent + 1>>>>
        BY <1>1, <2>1, <4>2 DEF ServerState
      <4>4. Len(s'.out) = 1 /\ s'.out[1] = <<"old", s.sent + 1>>
        BY <4>3
      <4> DEFINE n == s.sent
                 e == Emitted
      <4>5. n \in Nat /\ e + 0 = 2 + n /\ n <= FileSize /\ n # FileSize
        BY <3>2, <3>5
      <4>6. e \in Nat
        <5>1. Len(c.line) \in Nat /\ Len(down) \in Nat
          BY UpTypes
        <5>2. Len(c.got) \in Nat
          BY <1>1, LenProperties DEF ClientState
        <5>3. Position \in Nat
          BY <5>1, <5>2 DEF Position
        <5> QED BY <5>1, <5>3 DEF Emitted
      <4>7. Emitted' = e /\ s'.sent = n + 1
        BY <3>3, <4>3
      <4> HIDE DEF n, e
      <4>8. /\ e + 1 = 2 + (n + 1) /\ n + 1 \in Nat \ {0}
            /\ n + 1 <= FileSize
        BY <3>2, <4>5, <4>6
      <4>9. Along(s'.out, Answer, Emitted')
        <5>1. Answer[e + 1] = <<"old", n + 1>>
          BY <4>8, AnswerAt
        <5>2. 1 .. 1 = {1}
          OBVIOUS
        <5> QED BY <4>4, <4>7, <5>1, <5>2 DEF Along, n
      <4>10. Emitted' + Len(s'.out) = 2 + s'.sent /\ s'.sent <= s'.total
        BY <3>2, <4>3, <4>4, <4>7, <4>8
      <4> QED BY <2>1, <3>1, <3>3, <4>3, <4>9, <4>10 DEF Serving
    <3> QED BY <3>4, <3>5
  <2> QED BY <1>2, <1>4, <2>1, <2>2, <2>3, GetInvPrimed
<1>27. CASE ServerClose
  <2>1. /\ UNCHANGED <<c, version>> /\ s.pc = "closing" /\ s.out = <<>>
        /\ s'.pc = "closed" /\ s'.out = <<>> /\ s'.total = s.total
        /\ s'.sent = s.sent /\ down' \in {down, <<>>}
    BY <1>1, <1>27 DEF ServerClose, Free, ServerState
  <2> QED BY <1>12, <2>1 DEF Reading
<1>28. CASE SelectLines
  <2>1. /\ UNCHANGED <<c, down, version>> /\ s'.pc = s.pc
        /\ s'.out = s.out /\ s'.sent = s.sent /\ s'.total = s.total
    BY <1>1, <1>28 DEF SelectLines, ServerState
  <2> QED BY <1>8, <2>1
<1>29. CASE ServerStep
  BY <1>4, <1>16, <1>18, <1>21, <1>22, <1>23, <1>24, <1>25, <1>26, <1>27,
     <1>28, <1>29 DEF ServerStep, StorePending, StoreRecv, StoreFails,
     Commit, CommitTorn, CommitFails, Free
<1> QED BY <1>10, <1>14, <1>15, <1>29, <1>s DEF Next, Terminated, Severed

(* A download that returns 0 and was not disturbed has all of the file,    *)
(* however the answer was cut into pieces (client.cpp:73, 92).             *)
THEOREM QuietGetIsWhole == Spec => []QuietGetIsFile
<1>1. ASSUME Init PROVE GetInv
  <2>1. /\ c.pc = "status" /\ c.ret = None
        /\ s.pc = "check" /\ s.sent = 0
    BY <1>1 DEF Init
  <2>2. None # 0
    BY SessionAssumption
  <2> QED BY <2>1, <2>2 DEF GetInv, Reading, QuietGetIsFile
<1>2. GetInv => QuietGetIsFile
  BY DEF GetInv, QuietGetIsFile
<1> QED BY <1>1, <1>2, SessionInvariant, GetStep, PTL DEF Spec
=============================================================================
