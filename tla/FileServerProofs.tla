-------------------------- MODULE FileServerProofs --------------------------
(***************************************************************************)
(* Proofs about FileServer for any workers, connections, texts, headers,   *)
(* policy and packetization: first the uploads, the staging files and the  *)
(* books, then what a download has sent.                                   *)
(***************************************************************************)
EXTENDS FileServer, SequenceLemmas, FiniteSetTheorems, TLAPS

CallFields == {"pc", "conn", "budget", "at", "round", "left", "packet",
               "sent", "eof"}
ReqFields == {"total", "offset", "deficit", "headed", "arrival"}

Busy(w) == call[w].pc \notin {"idle", "exited"}
Has(c) == \E w \in Workers : Busy(w) /\ call[w].conn = c
Asked(c) == c \in DOMAIN setup.asks /\ IsAsk(Ask(c))

(* The shape of the state; the numbers of a download come later.           *)
Shape ==
  /\ setup \in Setups
  /\ closed \in BOOLEAN
  /\ queue \in Seq(Conns) /\ metrics \in Seq(Conns)
  /\ phase \in [Conns -> {"new", "open", "dropped", "finished"}]
  /\ DOMAIN staging = Conns /\ DOMAIN req = Conns /\ DOMAIN files = Names
  /\ DOMAIN reply = Conns /\ DOMAIN call = Workers
  /\ \A c \in Conns : /\ DOMAIN reply[c] = {"oks", "body", "err"}
                       /\ reply[c].err \in BOOLEAN
  /\ \A w \in Workers :
       /\ {"pc", "conn"} \subseteq DOMAIN call[w]
       /\ Busy(w) => /\ DOMAIN call[w] = CallFields
                      /\ call[w].conn \in Conns
  /\ \A c \in Conns : phase[c] = "open" => /\ DOMAIN req[c] = ReqFields
                                             /\ Asked(c)

(* Every open request is once in the queue or with one worker. *)
Custody ==
  /\ IsInjective(queue)
  /\ \A v, w \in Workers :
       Busy(v) /\ Busy(w) /\ call[v].conn = call[w].conn => v = w
  /\ \A w \in Workers : Busy(w) => call[w].conn \notin ToSet(queue)
  /\ \A c \in Conns : phase[c] = "open" <=> c \in ToSet(queue) \/ Has(c)

(* The counters of an upload, and what its staging file holds at each      *)
(* point of a worker's round.                                              *)
Counters ==
  \A c \in Conns : phase[c] = "open" /\ Ask(c).op = "PUT" =>
    /\ req[c].total = Size(Lines[Ask(c).text])
    /\ req[c].offset \in Nat /\ req[c].offset <= req[c].total
    /\ req[c].deficit \in Nat

Round(w) ==
  LET c == call[w].conn
  IN  /\ call[w].pc = "commit" =>
           Ask(c).op = "PUT" /\ staging[c] = req[c].total
      /\ call[w].pc = "finish" => staging[c] = Absent
      /\ call[w].pc = "serve" /\ Ask(c).op = "PUT" => call[w].budget \in Nat
      /\ call[w].pc = "served" /\ Ask(c).op = "PUT" =>
           /\ call[w].sent \in Nat
           /\ staging[c] = req[c].offset + call[w].sent
           /\ staging[c] <= req[c].total

Rounds == \A w \in Workers : Round(w)

(* A staging file belongs to an upload under way, or its rename failed.    *)
Staged ==
  \A c \in Conns : staging[c] # Absent =>
    \/ phase[c] = "open" /\ Ask(c).op = "PUT"
    \/ phase[c] = "dropped" /\ c \in Unwritable

(* Who was told of an error is dropped, or about to be. *)
Errors ==
  \A c \in Conns : reply[c].err =>
    \/ phase[c] = "dropped"
    \/ \E w \in Workers : call[w].pc = "failed" /\ call[w].conn = c

Recorded ==
  /\ IsInjective(metrics)
  /\ ToSet(metrics) = {c \in Conns : phase[c] = "finished"}

(* Once a worker has left there is no work, and none comes. *)
Leaving ==
  (\E w \in Workers : call[w].pc = "exited") =>
    closed /\ queue = <<>> /\ \A w \in Workers : ~Busy(w)

Inv == /\ Shape /\ Custody /\ Counters /\ Rounds /\ Staged /\ Errors
       /\ Recorded /\ Leaving /\ CommittedWhole

(* The size of a text is a number no line ends beyond.                     *)
LEMMA TextSize ==
  ASSUME NEW t \in Texts
  PROVE  /\ Size(Lines[t]) \in Nat
         /\ {e \in Lines[t] : e <= Size(Lines[t])} = Lines[t]
<1> DEFINE S == Lines[t] \cup {0}
<1>1. S \subseteq Nat /\ \E x \in S : \A y \in S : x >= y
  BY FileServerAssumption
<1>2. Max(S) \in S /\ \A y \in S : Max(S) >= y
  BY <1>1 DEF Max
<1>3. Size(Lines[t]) = Max(S)
  BY DEF Size
<1> QED BY <1>1, <1>2, <1>3

(* A worker with a connection has an open one, and it alone has it. *)
LEMMA Holder ==
  ASSUME Inv, NEW w \in Workers, Busy(w)
  PROVE  LET c == call[w].conn
         IN  /\ c \in Conns /\ phase[c] = "open" /\ Asked(c)
             /\ c \notin ToSet(queue)
             /\ DOMAIN req[c] = ReqFields /\ DOMAIN call[w] = CallFields
             /\ \A v \in Workers : v # w => ~(Busy(v) /\ call[v].conn = c)
BY DEF Inv, Shape, Custody, Has

(* What a staging file with all the bytes of an upload turns out to hold   *)
(* is a text with all its lines, also when some of them were lost.         *)
LEMMA StoredWhole ==
  ASSUME NEW c, Asked(c), Ask(c).op = "PUT", NEW t \in Stored(c)
  PROVE  /\ t \in Texts
         /\ {e \in Lines[t] : e <= Size(Lines[Ask(c).text])} = Lines[t]
         /\ t = Ask(c).text \/ (c \in torn /\ t \in Remains(Ask(c).text))
<1>1. Ask(c).text \in Texts
  BY DEF Asked, IsAsk
<1>2. /\ t \in Texts
      /\ t = Ask(c).text \/ (c \in torn /\ t \in Remains(Ask(c).text))
  BY <1>1 DEF Stored, Remains
<1>3. Size(Lines[t]) <= Size(Lines[Ask(c).text])
  BY <1>1, <1>2, TextSize DEF Remains
<1>4. Lines[t] \subseteq Nat
  BY <1>2, FileServerAssumption
<1>5. {e \in Lines[t] : e <= Size(Lines[t])} = Lines[t]
  BY <1>2, TextSize
<1>6. Size(Lines[t]) \in Nat /\ Size(Lines[Ask(c).text]) \in Nat
  BY <1>1, <1>2, TextSize
<1> QED BY <1>2, <1>3, <1>4, <1>5, <1>6

(* Files that are left alone stay whole, if no upload is unrenamed.        *)
LEMMA WholeKept ==
  ASSUME Inv, UNCHANGED <<setup, files>>, torn \subseteq torn',
         \A c \in Conns : phase[c] = "finished" => phase'[c] = "finished",
         \A v \in Workers : call[v].pc = "finish" =>
           \/ call'[v].pc = "finish" /\ call'[v].conn = call[v].conn
           \/ phase'[call[v].conn] = "finished"
  PROVE  CommittedWhole'
<1>1. DOMAIN setup.asks \subseteq Conns
  BY FileServerAssumption DEF Inv, Shape, IsSetup
<1>2. \A n \in Names : Renamed(n) \subseteq Renamed(n)'
  BY <1>1 DEF Renamed, Ask
<1>3. \A c : Ask(c)' = Ask(c)
  BY DEF Ask
<1>4. ASSUME NEW n \in Names, files'[n] # Absent
      PROVE  /\ files'[n].ends = Lines[files'[n].text]
             /\ \/ files'[n].text = InitialFiles[n]
                \/ \E c \in Renamed(n)' :
                     \/ files'[n].text = Ask(c)'.text
                     \/ c \in torn' /\ files'[n].text
                                       \in Remains(Ask(c)'.text)
  BY <1>2, <1>3, <1>4 DEF Inv, CommittedWhole
<1> QED BY <1>4 DEF CommittedWhole

(***************************************************************************)
(* A step of worker w on connection c leaves the others alone: the rounds  *)
(* of the other workers, and who was told of an error.                     *)
(***************************************************************************)
OnlyAt(w, c) ==
  /\ \A v \in Workers : v # w => call'[v] = call[v]
  /\ \A d \in Conns : d # c => /\ staging'[d] = staging[d]
                                /\ req'[d] = req[d]
                                /\ reply'[d] = reply[d]
                                /\ phase'[d] = phase[d]

(* The other workers' rounds are as they were. *)
LEMMA OtherRounds ==
  ASSUME Inv, NEW w \in Workers, NEW c \in Conns, OnlyAt(w, c),
         \A v \in Workers : v # w => ~(Busy(v) /\ call[v].conn = c),
         setup' = setup, Round(w)'
  PROVE  Rounds'
<1>1. ASSUME NEW v \in Workers, v # w PROVE Round(v)'
  <2>1. CASE Busy(v)
    <3>1. call[v].conn # c /\ call[v].conn \in Conns
      BY <1>1, <2>1 DEF Inv, Shape
    <3> QED BY <1>1, <3>1 DEF Inv, Round, Rounds, OnlyAt, Ask
  <2>2. CASE ~Busy(v)
    BY <1>1, <2>2 DEF Round, Busy, OnlyAt
  <2> QED BY <2>1, <2>2
<1> QED BY <1>1 DEF Rounds

(* The other connections are told no more than before. *)
LEMMA OtherErrors ==
  ASSUME Inv, NEW w \in Workers, NEW c \in Conns, OnlyAt(w, c),
         call[w].pc = "failed" => call[w].conn = c,
         reply'[c].err => \/ phase'[c] = "dropped"
                          \/ call'[w].pc = "failed" /\ call'[w].conn = c
  PROVE  Errors'
<1>1. SUFFICES ASSUME NEW d \in Conns, reply'[d].err
               PROVE  \/ phase'[d] = "dropped"
                      \/ \E v \in Workers : call'[v].pc = "failed"
                                            /\ call'[v].conn = d
  BY DEF Errors
<1>2. CASE d = c
  BY <1>1, <1>2
<1>3. CASE d # c /\ phase[d] = "dropped"
  BY <1>3 DEF OnlyAt
<1>4. CASE d # c /\ phase[d] # "dropped"
  <2>1. PICK v \in Workers : call[v].pc = "failed" /\ call[v].conn = d
    BY <1>1, <1>4 DEF Inv, Errors, OnlyAt
  <2>2. call'[v] = call[v]
    BY <1>4, <2>1 DEF OnlyAt
  <2> QED BY <2>1, <2>2
<1> QED BY <1>2, <1>3, <1>4

(***************************************************************************)
(* The steps of a worker inside a download: it keeps its connection, moves *)
(* on to another part of serve_get or to the end of the round, and changes *)
(* nothing another request depends on.                                     *)
(***************************************************************************)
GetStep(w) ==
  LET c == call[w].conn
  IN  /\ call[w].pc \in {"serve", "select", "send"}
      /\ call[w].pc = "serve" => Ask(c).op = "GET"
      /\ DOMAIN call' = Workers /\ DOMAIN call'[w] = CallFields
      /\ call'[w].conn = c
      /\ \/ call'[w].pc \in {"select", "send", "failed"}
         \/ call'[w].pc = "served" /\ Ask(c).op = "GET"
      /\ \A v \in Workers : v # w => call'[v] = call[v]
      /\ DOMAIN req' = Conns /\ DOMAIN req'[c] = ReqFields
      /\ Ask(c).op = "PUT" => req' = req
      /\ \A d \in Conns : d # c => req'[d] = req[d]
      /\ DOMAIN reply' = Conns /\ DOMAIN reply'[c] = {"oks", "body", "err"}
      /\ \A d \in Conns : d # c => reply'[d] = reply[d]
      /\ reply'[c].err \in BOOLEAN
      /\ reply'[c].err => reply[c].err \/ call'[w].pc = "failed"
      /\ UNCHANGED <<setup, closed, files, staging, phase, metrics, queue>>
      /\ torn' = torn

(* Such a step keeps the invariant. *)
LEMMA GetStepInv ==
  ASSUME Inv, NEW w \in Workers, GetStep(w)
  PROVE  Inv'
<1> DEFINE c == call[w].conn
<1> USE DEF Inv
<1>1. Busy(w) /\ Busy(w)'
  BY DEF GetStep, Busy
<1>2. /\ c \in Conns /\ phase[c] = "open" /\ Asked(c)
      /\ \A v \in Workers : v # w => ~(Busy(v) /\ call[v].conn = c)
  BY <1>1, Holder
<1>3. /\ \A v \in Workers : v # w => call'[v] = call[v]
      /\ \A v \in Workers : Busy(v)' <=> Busy(v)
      /\ \A v \in Workers : call'[v].conn = call[v].conn
  BY <1>1 DEF GetStep, Busy
<1>4. \A d : (Has(d)' <=> Has(d)) /\ (Asked(d)' <=> Asked(d))
  BY <1>3 DEF Has, Asked, Ask, GetStep
<1>5. Shape'
  <2>1. UNCHANGED <<setup, closed, files, staging, phase, metrics, queue>>
    BY DEF GetStep
  <2>2. /\ DOMAIN call' = Workers /\ DOMAIN req' = Conns
        /\ DOMAIN reply' = Conns
    BY DEF GetStep
  <2>3. ASSUME NEW v \in Workers
        PROVE  /\ {"pc", "conn"} \subseteq DOMAIN call'[v]
               /\ Busy(v)' => /\ DOMAIN call'[v] = CallFields
                              /\ call'[v].conn \in Conns
    <3>1. CASE v = w
      BY <1>2, <1>3, <3>1 DEF GetStep, CallFields
    <3>2. CASE v # w
      BY <1>3, <3>2 DEF Shape
    <3> QED BY <3>1, <3>2
  <2>4. ASSUME NEW d \in Conns
        PROVE  /\ DOMAIN reply'[d] = {"oks", "body", "err"}
               /\ reply'[d].err \in BOOLEAN
    BY DEF Shape, GetStep
  <2>5. ASSUME NEW d \in Conns, phase'[d] = "open"
        PROVE  DOMAIN req'[d] = ReqFields /\ Asked(d)'
    BY <1>4, <2>1, <2>5 DEF Shape, GetStep
  <2> QED BY <2>1, <2>2, <2>3, <2>4, <2>5 DEF Shape
<1>6. Custody'
  BY <1>3, <1>4 DEF Custody, GetStep
<1>7. Counters'
  BY <1>2 DEF Counters, GetStep, Ask, Asked, IsAsk
<1>8. OnlyAt(w, c)
  BY DEF OnlyAt, GetStep
<1>9. Rounds'
  <2>1. Round(w)'
    BY DEF Round, GetStep, Ask
  <2> QED BY <1>2, <1>8, <2>1, OtherRounds DEF GetStep
<1>10. Staged'
  BY DEF Staged, GetStep, Ask
<1>11. Errors'
  <2>1. ~reply[c].err
    BY <1>2 DEF Errors, GetStep, Busy
  <2> QED BY <1>2, <1>8, <2>1, OtherErrors DEF GetStep
<1>12. Recorded' /\ CommittedWhole'
  <2>1. CommittedWhole'
    BY <1>3, WholeKept DEF GetStep
  <2> QED BY <2>1 DEF Recorded, GetStep
<1>13. Leaving'
  <2>1. \A v \in Workers : call[v].pc # "exited"
    BY <1>1 DEF Leaving
  <2>2. \A v \in Workers : call'[v].pc # "exited"
    BY <1>1, <1>3, <2>1 DEF Busy
  <2> QED BY <2>2 DEF Leaving
<1> QED BY <1>5, <1>6, <1>7, <1>9, <1>10, <1>11, <1>12, <1>13

(* What the six steps of a download do, each, is such a step.              *)
LEMMA GetSteps ==
  ASSUME Inv, NEW w \in Workers,
         \/ ServeGet(w) \/ SelectLine(w) \/ Resize(w) \/ SendLine(w)
         \/ SendLineFails(w) \/ SendBreaks(w)
  PROVE  GetStep(w)
<1> DEFINE c == call[w].conn
<1> USE DEF At, around, disk, books, CallFields, ReqFields
<1>1. call[w].pc \in {"serve", "select", "send"} /\ torn' = torn
  BY DEF ServeGet, SelectLine, Resize, SendLine, SendLineFails, SendBreaks,
         Sending
<1>2. /\ c \in Conns /\ Busy(w) /\ Asked(c)
      /\ DOMAIN req[c] = ReqFields /\ DOMAIN call[w] = CallFields
  BY <1>1, Holder DEF Busy
<1>3. /\ DOMAIN call = Workers /\ DOMAIN req = Conns
      /\ DOMAIN reply = Conns /\ DOMAIN reply[c] = {"oks", "body", "err"}
      /\ reply[c].err \in BOOLEAN
  BY <1>2 DEF Inv, Shape
<1>4. CASE ServeGet(w)
  <2>1. /\ UNCHANGED <<setup, closed, files, staging, phase, metrics, queue>>
        /\ Ask(c).op = "GET" /\ call[w].pc = "serve"
    BY <1>4 DEF ServeGet
  <2>2. req' = [req EXCEPT ![c].headed = TRUE]
    BY <1>4 DEF ServeGet
  <2>3. \E r : /\ reply' = [reply EXCEPT ![c] = r]
               /\ DOMAIN r = {"oks", "body", "err"}
               /\ r.err = reply[c].err
    <3>1. /\ DOMAIN SendOk(c, req[c].total) = {"oks", "body", "err"}
          /\ SendOk(c, req[c].total).err = reply[c].err
      BY <1>3 DEF SendOk
    <3>2. reply' = [reply EXCEPT ![c] =
             IF req[c].headed THEN reply[c] ELSE SendOk(c, req[c].total)]
      BY <1>4 DEF ServeGet
    <3> QED BY <1>3, <3>1, <3>2
  <2>4. /\ DOMAIN call' = Workers /\ DOMAIN call'[w] = CallFields
        /\ call'[w].conn = c
        /\ call'[w].pc \in {"served", "send", "select"}
        /\ \A v \in Workers : v # w => call'[v] = call[v]
    BY <1>2, <1>3, <1>4 DEF ServeGet
  <2> QED BY <1>1, <1>2, <1>3, <2>1, <2>2, <2>3, <2>4 DEF GetStep
<1>5. CASE SelectLine(w)
  <2>1. /\ UNCHANGED <<setup, closed, files, staging, phase, metrics, queue,
                       req, reply>>
        /\ Ask(c).op = "GET" /\ call[w].pc = "select"
    BY <1>5 DEF SelectLine
  <2>2. ASSUME NEW r
        PROVE  /\ DOMAIN Select(w, r) = Workers
               /\ DOMAIN Select(w, r)[w] = CallFields
               /\ Select(w, r)[w].conn = c
               /\ Select(w, r)[w].pc \in {"served", "send"}
               /\ \A v \in Workers : v # w => Select(w, r)[v] = call[v]
    BY <1>2, <1>3 DEF Select
  <2>3. /\ DOMAIN call' = Workers /\ DOMAIN call'[w] = CallFields
        /\ call'[w].conn = c
        /\ call'[w].pc \in {"served", "send", "select"}
        /\ \A v \in Workers : v # w => call'[v] = call[v]
    <3>1. \/ \E r : call' = Select(w, r)
          \/ \E r, a, e : call' = [call EXCEPT ![w].round = r, ![w].at = a,
                                               ![w].eof = e]
      BY <1>5 DEF SelectLine
    <3>2. CASE \E r : call' = Select(w, r)
      BY <2>2, <3>2
    <3>3. CASE \E r, a, e : call' = [call EXCEPT ![w].round = r,
                                       ![w].at = a, ![w].eof = e]
      BY <1>2, <1>3, <2>1, <3>3
    <3> QED BY <3>1, <3>2, <3>3
  <2> QED BY <1>1, <1>2, <1>3, <2>1, <2>3 DEF GetStep
<1>6. CASE Resize(w)
  <2>1. /\ UNCHANGED <<setup, closed, files, staging, phase, metrics, queue,
                       req, reply>>
        /\ call[w].pc \in {"select", "send"}
    BY <1>6 DEF Resize
  <2>2. PICK a : call' = [call EXCEPT ![w].at = a, ![w].eof = FALSE]
    BY <1>6 DEF Resize
  <2>3. /\ DOMAIN call' = Workers /\ DOMAIN call'[w] = CallFields
        /\ call'[w].conn = c /\ call'[w].pc = call[w].pc
        /\ \A v \in Workers : v # w => call'[v] = call[v]
    BY <1>2, <1>3, <2>2
  <2> QED BY <1>1, <1>2, <1>3, <2>1, <2>3 DEF GetStep
<1>7. CASE SendLine(w)
  <2>1. /\ UNCHANGED <<setup, closed, files, staging, phase, metrics, queue,
                       req>>
        /\ Ask(c).op = "GET" /\ call[w].pc = "send"
    BY <1>7 DEF SendLine, Sending
  <2>2. \E b : reply' = [reply EXCEPT ![c].body = b]
    BY <1>7 DEF SendLine
  <2>3. \E a, l, e, k, s : \E n \in {"served", "send"} :
          call' = [call EXCEPT ![w].at = a, ![w].left = l, ![w].eof = e,
                     ![w].packet = k, ![w].sent = s, ![w].pc = n]
    BY <1>7 DEF SendLine
  <2>4. /\ DOMAIN call' = Workers /\ DOMAIN call'[w] = CallFields
        /\ call'[w].conn = c /\ call'[w].pc \in {"served", "send"}
        /\ \A v \in Workers : v # w => call'[v] = call[v]
    BY <1>2, <1>3, <2>3
  <2>5. /\ DOMAIN reply' = Conns
        /\ DOMAIN reply'[c] = {"oks", "body", "err"}
        /\ \A d \in Conns : d # c => reply'[d] = reply[d]
        /\ reply'[c].err = reply[c].err
    BY <1>2, <1>3, <2>2
  <2> QED BY <1>1, <1>2, <1>3, <2>1, <2>4, <2>5 DEF GetStep
<1>8. CASE SendLineFails(w) \/ SendBreaks(w)
  <2>1. /\ UNCHANGED <<setup, closed, files, staging, phase, metrics, queue,
                       req>>
        /\ Ask(c).op = "GET" /\ call[w].pc = "send"
        /\ call' = [call EXCEPT ![w].pc = "failed"]
    BY <1>8 DEF SendLineFails, SendBreaks, Sending
  <2>2. reply' = [reply EXCEPT ![c] = SendError(c)] \/ reply' = reply
    BY <1>8 DEF SendLineFails, SendBreaks
  <2>3. /\ DOMAIN SendError(c) = {"oks", "body", "err"}
        /\ SendError(c).err \in BOOLEAN
    BY <1>3 DEF SendError
  <2>4. /\ DOMAIN call' = Workers /\ DOMAIN call'[w] = CallFields
        /\ call'[w].conn = c /\ call'[w].pc = "failed"
        /\ \A v \in Workers : v # w => call'[v] = call[v]
    BY <1>2, <1>3, <2>1
  <2>5. /\ DOMAIN reply' = Conns
        /\ DOMAIN reply'[c] = {"oks", "body", "err"}
        /\ \A d \in Conns : d # c => reply'[d] = reply[d]
        /\ reply'[c].err \in BOOLEAN
    <3>1. CASE reply' = [reply EXCEPT ![c] = SendError(c)]
      <4>1. reply'[c] = SendError(c)
        BY <1>2, <1>3, <3>1
      <4> QED BY <1>3, <2>3, <3>1, <4>1
    <3>2. CASE reply' = reply
      BY <1>2, <1>3, <3>2
    <3> QED BY <2>2, <3>1, <3>2
  <2>6. /\ DOMAIN req' = Conns /\ DOMAIN req'[c] = ReqFields
        /\ req' = req /\ \A d \in Conns : d # c => req'[d] = req[d]
    BY <1>2, <1>3, <2>1
  <2>7. UNCHANGED <<setup, closed, files, staging, phase, metrics, queue>>
    BY <2>1
  <2> HIDE DEF CallFields, ReqFields
  <2> QED BY <1>1, <2>1, <2>4, <2>5, <2>6, <2>7 DEF GetStep
<1> QED BY <1>4, <1>5, <1>6, <1>7, <1>8, Zenon

-----------------------------------------------------------------------------
(* A round of an upload writes the bytes after the offset, or fails.       *)
LEMMA PutStep ==
  ASSUME Inv, NEW w \in Workers, ServePut(w) \/ ServePutFails(w)
  PROVE  Inv'
<1> DEFINE c == call[w].conn
           most == Least(call[w].budget,
                         Remaining(req[c].total, req[c].offset))
<1> USE DEF Inv, At, around, books, CallFields
<1>1. /\ UNCHANGED <<setup, closed, files, phase, metrics, queue, req>>
      /\ Ask(c).op = "PUT" /\ call[w].pc = "serve"
  BY DEF ServePut, ServePutFails
<1>2. /\ c \in Conns /\ phase[c] = "open" /\ Asked(c)
      /\ DOMAIN call[w] = CallFields /\ Busy(w)
      /\ \A v \in Workers : v # w => ~(Busy(v) /\ call[v].conn = c)
  BY <1>1, Holder DEF Busy
<1>3. /\ DOMAIN call = Workers /\ DOMAIN staging = Conns
      /\ DOMAIN reply = Conns /\ DOMAIN reply[c] = {"oks", "body", "err"}
      /\ reply[c].err \in BOOLEAN /\ closed \in BOOLEAN
  BY <1>2 DEF Shape
<1>4. \E b : staging' = [staging EXCEPT ![c] = b]
  BY DEF ServePut, ServePutFails
<1>5. \/ /\ ServePut(w)
         /\ call' = [call EXCEPT ![w].pc = "served", ![w].sent = most]
         /\ staging' = [staging EXCEPT ![c] = req[c].offset + most]
      \/ ServePutFails(w) /\ call' = [call EXCEPT ![w].pc = "failed"]
  BY DEF ServePut, ServePutFails
<1>6. /\ DOMAIN call' = Workers /\ DOMAIN call'[w] = CallFields
      /\ call'[w].conn = c /\ call'[w].pc \in {"served", "failed"}
      /\ \A v \in Workers : v # w => call'[v] = call[v]
  BY <1>2, <1>3, <1>5
<1>7. /\ DOMAIN staging' = Conns
      /\ \A d \in Conns : d # c => staging'[d] = staging[d]
  BY <1>3, <1>4
<1>8. /\ DOMAIN reply' = Conns /\ DOMAIN reply'[c] = {"oks", "body", "err"}
      /\ \A d \in Conns : d # c => reply'[d] = reply[d]
      /\ reply'[c].err \in BOOLEAN
      /\ call'[w].pc = "served" => reply'[c].err = reply[c].err
  <2>1. /\ DOMAIN SendOk(c, 0) = {"oks", "body", "err"}
        /\ SendOk(c, 0).err = reply[c].err
    BY <1>3 DEF SendOk
  <2>2. CASE ServePut(w)
    <3>1. reply' = [reply EXCEPT ![c] =
                      IF req[c].offset = 0 THEN SendOk(c, 0) ELSE reply[c]]
      BY <2>2 DEF ServePut
    <3> QED BY <1>2, <1>3, <2>1, <3>1
  <2>3. CASE ServePutFails(w)
    <3>1. call'[w].pc = "failed"
      BY <1>2, <1>3, <2>3 DEF ServePutFails
    <3>2. PICK e \in BOOLEAN : reply' = [reply EXCEPT ![c] =
             [(IF req[c].offset = 0 THEN SendOk(c, 0) ELSE reply[c])
                EXCEPT !.err = e]]
      BY <2>3 DEF ServePutFails
    <3> QED BY <1>2, <1>3, <2>1, <3>1, <3>2
  <2> QED BY <2>2, <2>3
<1>9. /\ \A v \in Workers : Busy(v)' <=> Busy(v)
      /\ \A v \in Workers : call'[v].conn = call[v].conn
  BY <1>2, <1>6 DEF Busy
<1>10. \A d : (Has(d)' <=> Has(d)) /\ (Asked(d)' <=> Asked(d))
  BY <1>1, <1>9 DEF Has, Asked, Ask
<1>11. Shape'
  <2> HIDE DEF CallFields, c, most
  <2>1. \A d \in Conns : /\ DOMAIN reply'[d] = {"oks", "body", "err"}
                         /\ reply'[d].err \in BOOLEAN
    BY <1>8 DEF Shape
  <2>2. \A v \in Workers :
          /\ {"pc", "conn"} \subseteq DOMAIN call'[v]
          /\ Busy(v)' => /\ DOMAIN call'[v] = CallFields
                          /\ call'[v].conn \in Conns
    BY <1>6, <1>9 DEF Shape, CallFields
  <2> QED BY <1>1, <1>6, <1>7, <1>8, <1>10, <2>1, <2>2 DEF Shape
<1>12. Custody'
  BY <1>1, <1>9, <1>10 DEF Custody
<1>13. Counters'
  BY <1>1 DEF Counters, Ask
<1>14. Rounds'
  <2>1. OnlyAt(w, c)
    BY <1>1, <1>6, <1>7, <1>8 DEF OnlyAt
  <2>2. ASSUME call'[w].pc = "served" PROVE Round(w)'
    <3>1. /\ call'[w].sent = most
          /\ staging'[c] = req[c].offset + most
      BY <1>2, <1>3, <1>5, <2>2
    <3>2. /\ call[w].budget \in Nat
          /\ req[c].offset \in Nat /\ req[c].offset <= req[c].total
          /\ req[c].total \in Nat
      <4>1. call[w].budget \in Nat
        BY <1>1 DEF Rounds, Round
      <4>2. Ask(c).text \in Texts
        BY <1>1, <1>2 DEF Asked, IsAsk
      <4> QED BY <1>1, <1>2, <4>1, <4>2, TextSize DEF Counters
    <3>3. most \in Nat /\ req[c].offset + most <= req[c].total
      BY <3>2 DEF Least, Remaining
    <3> HIDE DEF most
    <3> QED BY <1>1, <1>6, <2>2, <3>1, <3>3 DEF Round
  <2>3. ASSUME call'[w].pc = "failed" PROVE Round(w)'
    BY <2>3 DEF Round
  <2>4. Round(w)'
    BY <1>6, <2>2, <2>3
  <2> QED BY <1>1, <1>2, <2>1, <2>4, OtherRounds
<1>15. Staged'
  BY <1>1, <1>2, <1>7 DEF Staged, Ask
<1>16. Errors'
  <2>1. ~reply[c].err
    BY <1>1, <1>2 DEF Errors, Busy
  <2>2. OnlyAt(w, c)
    BY <1>1, <1>6, <1>7, <1>8 DEF OnlyAt
  <2> QED BY <1>2, <1>6, <1>8, <2>1, <2>2, OtherErrors
<1>17. Recorded' /\ CommittedWhole'
  <2>1. torn \subseteq torn'
    BY DEF ServePut, ServePutFails, Flushes
  <2>2. CommittedWhole'
    BY <1>1, <1>6, <2>1, WholeKept
  <2> QED BY <1>1, <2>2 DEF Recorded
<1>18. Leaving'
  <2>1. \A v \in Workers : call[v].pc # "exited"
    BY <1>2 DEF Leaving
  <2>2. \A v \in Workers : call'[v].pc # "exited"
    BY <1>6, <2>1
  <2> QED BY <2>2 DEF Leaving
<1> QED BY <1>11, <1>12, <1>13, <1>14, <1>15, <1>16, <1>17, <1>18

(* A worker ends with its connection: dropped, or finished and recorded.   *)
LEMMA EndStep ==
  ASSUME Inv, NEW w \in Workers, Drop(w) \/ CommitFails(w) \/ Finish(w)
  PROVE  Inv'
<1> DEFINE c == call[w].conn
<1> USE DEF Inv, around, disk, books
<1>1. /\ UNCHANGED <<setup, closed, files, queue, req>>
      /\ call' = [call EXCEPT ![w] = Idle]
      /\ call[w].pc \in {"failed", "commit", "finish"}
  BY DEF Drop, CommitFails, Finish
<1>2. /\ c \in Conns /\ phase[c] = "open" /\ Asked(c) /\ Busy(w)
      /\ c \notin ToSet(queue)
      /\ \A v \in Workers : v # w => ~(Busy(v) /\ call[v].conn = c)
  BY <1>1, Holder DEF Busy
<1>3. /\ DOMAIN call = Workers /\ DOMAIN staging = Conns
      /\ DOMAIN reply = Conns /\ DOMAIN reply[c] = {"oks", "body", "err"}
      /\ reply[c].err \in BOOLEAN
  BY <1>2 DEF Shape
<1>4. PICK end \in {"dropped", "finished"} :
        /\ phase' = [phase EXCEPT ![c] = end]
        /\ end = "finished" <=> Finish(w)
  BY DEF Drop, CommitFails, Finish
<1>5. /\ \A d \in Conns : phase'[d] = IF d = c THEN end ELSE phase[d]
      /\ phase' \in [Conns -> {"new", "open", "dropped", "finished"}]
  BY <1>2, <1>4 DEF Shape
<1>6. /\ DOMAIN call' = Workers /\ call'[w] = Idle
      /\ call'[w].pc = "idle" /\ {"pc", "conn"} \subseteq DOMAIN call'[w]
      /\ \A v \in Workers : v # w => call'[v] = call[v]
  BY <1>1, <1>3 DEF Idle
<1>7. /\ ~Busy(w)'
      /\ \A v \in Workers : v # w => (Busy(v)' <=> Busy(v))
  BY <1>6 DEF Busy
<1>8. /\ \A d \in Conns : Has(d)' <=> Has(d) /\ d # c
      /\ \A d : Asked(d)' <=> Asked(d)
  BY <1>1, <1>2, <1>6, <1>7 DEF Has, Asked, Ask
<1>9. /\ DOMAIN staging' = Conns
      /\ \A d \in Conns : d # c => staging'[d] = staging[d]
      /\ staging'[c] # Absent => CommitFails(w)
  <2>1. CASE Drop(w)
    BY <1>2, <1>3, <2>1 DEF Drop, Removed
  <2>2. CASE CommitFails(w)
    BY <1>3, <2>2 DEF CommitFails
  <2>3. CASE Finish(w)
    <3>1. UNCHANGED staging /\ call[w].pc = "finish"
      BY <2>3 DEF Finish
    <3> QED BY <1>3, <3>1 DEF Rounds, Round
  <2> QED BY <2>1, <2>2, <2>3
<1>10. /\ DOMAIN reply' = Conns
       /\ \A d \in Conns : d # c => reply'[d] = reply[d]
       /\ DOMAIN reply'[c] = {"oks", "body", "err"}
       /\ reply'[c].err \in BOOLEAN
       /\ end = "finished" => reply' = reply
  <2>1. CASE CommitFails(w)
    <3>1. /\ DOMAIN SendError(c) = {"oks", "body", "err"}
          /\ SendError(c).err \in BOOLEAN
      BY <1>3 DEF SendError
    <3>2. ~Finish(w)
      BY <2>1 DEF CommitFails, Finish
    <3>3. reply' = [reply EXCEPT ![c] = SendError(c)]
      BY <2>1 DEF CommitFails
    <3> QED BY <1>2, <1>3, <1>4, <3>1, <3>2, <3>3
  <2>2. CASE Drop(w) \/ Finish(w)
    <3>1. reply' = reply
      BY <2>2 DEF Drop, Finish
    <3> QED BY <1>3, <3>1
  <2> QED BY <2>1, <2>2
<1>11. /\ metrics' = IF end = "finished" THEN Append(metrics, c) ELSE metrics
  BY <1>4 DEF Drop, CommitFails, Finish
<1>12. /\ metrics' \in Seq(Conns) /\ Recorded'
  <2>1. c \notin ToSet(metrics)
    BY <1>2 DEF Recorded
  <2>2. CASE end = "finished"
    <3>1. metrics' = Append(metrics, c) /\ metrics \in Seq(Conns)
      BY <1>11, <2>2 DEF Shape
    <3>2. /\ metrics' \in Seq(Conns) /\ IsInjective(metrics')
          /\ ToSet(metrics') = ToSet(metrics) \cup {c}
      BY <1>2, <2>1, <3>1, AppendSet, AppendProperties DEF Recorded
    <3> QED BY <1>2, <1>5, <2>2, <3>2 DEF Recorded
  <2>3. CASE end # "finished"
    BY <1>2, <1>5, <1>11, <2>3 DEF Recorded, Shape
  <2> QED BY <2>2, <2>3
<1> HIDE DEF c
<1>13. Shape'
  <2>1. \A d \in Conns : /\ DOMAIN reply'[d] = {"oks", "body", "err"}
                         /\ reply'[d].err \in BOOLEAN
    BY <1>10 DEF Shape
  <2>2. \A v \in Workers :
          /\ {"pc", "conn"} \subseteq DOMAIN call'[v]
          /\ Busy(v)' => /\ DOMAIN call'[v] = CallFields
                          /\ call'[v].conn \in Conns
    BY <1>6, <1>7 DEF Shape
  <2>3. \A d \in Conns : phase'[d] = "open" => phase[d] = "open"
    BY <1>4, <1>5
  <2> QED BY <1>1, <1>5, <1>6, <1>8, <1>9, <1>10, <1>12, <2>1, <2>2, <2>3
          DEF Shape
<1>14. Custody'
  <2>1. \A d \in Conns : phase'[d] = "open" <=> phase[d] = "open" /\ d # c
    BY <1>4, <1>5
  <2> QED BY <1>1, <1>2, <1>6, <1>7, <1>8, <2>1 DEF Custody
<1>15. Counters'
  BY <1>1, <1>4, <1>5 DEF Counters, Ask
<1>16. OnlyAt(w, c)
  BY <1>1, <1>5, <1>6, <1>9, <1>10 DEF OnlyAt
<1>17. Rounds'
  <2>1. Round(w)'
    BY <1>6 DEF Round
  <2> QED BY <1>1, <1>2, <1>16, <2>1, OtherRounds
<1>18. Staged'
  <2>1. staging'[c] # Absent => c \in Unwritable /\ phase'[c] = "dropped"
    <3>1. CommitFails(w) => c \in Unwritable /\ ~Finish(w)
      BY DEF CommitFails, Finish, c
    <3> QED BY <1>2, <1>4, <1>5, <1>9, <3>1
  <2> QED BY <1>1, <1>5, <1>9, <2>1 DEF Staged, Ask
<1>19. Errors'
  <2>1. reply'[c].err => phase'[c] = "dropped"
    <3>1. CASE end = "finished"
      <4>1. call[w].pc = "finish" /\ reply'[c] = reply[c]
        BY <1>4, <1>10, <3>1 DEF Finish
      <4>2. ~reply[c].err
        BY <1>2, <4>1 DEF Errors, Busy, c
      <4> QED BY <4>1, <4>2
    <3>2. CASE end = "dropped"
      BY <1>2, <1>5, <3>2
    <3> QED BY <3>1, <3>2
  <2>2. call[w].conn = c
    BY DEF c
  <2> QED BY <1>2, <1>16, <2>1, <2>2, OtherErrors
<1>20. CommittedWhole'
  <2>1. torn' = torn
    BY DEF Drop, CommitFails, Finish
  <2>2. call[w].pc = "finish" => end = "finished" /\ call[w].conn = c
    BY <1>4 DEF Drop, CommitFails, c
  <2>3. phase[c] # "finished"
    BY <1>2
  <2> QED BY <1>1, <1>2, <1>5, <1>6, <2>1, <2>2, <2>3, WholeKept
<1>21. Leaving'
  <2>1. \A v \in Workers : call[v].pc # "exited"
    BY <1>2 DEF Leaving
  <2>2. \A v \in Workers : call'[v].pc # "exited"
    BY <1>6, <2>1
  <2> QED BY <2>2 DEF Leaving
<1> QED BY <1>12, <1>13, <1>14, <1>15, <1>17, <1>18, <1>19, <1>20, <1>21

(* rename publishes a whole upload: its staging file has all the bytes.    *)
LEMMA CommitStep ==
  ASSUME Inv, NEW w \in Workers, Commit(w)
  PROVE  Inv'
<1> DEFINE c == call[w].conn
           name == Ask(c).name
           new(t) == [text |-> t, ends |-> {e \in Lines[t] : e <= staging[c]}]
<1> USE DEF Inv, around, books
<1>1. PICK t \in Stored(c) :
      /\ UNCHANGED <<setup, closed, queue, req, phase, metrics, torn>>
      /\ call[w].pc = "commit"
      /\ call' = [call EXCEPT ![w].pc = "finish"]
      /\ staging' = [staging EXCEPT ![c] = Absent]
      /\ files' = [files EXCEPT ![name] = new(t)]
      /\ reply' = [reply EXCEPT ![c] = SendOk(c, 0)]
  BY DEF Commit
<1>2. /\ c \in Conns /\ phase[c] = "open" /\ Asked(c) /\ Busy(w)
      /\ DOMAIN call[w] = CallFields
      /\ \A v \in Workers : v # w => ~(Busy(v) /\ call[v].conn = c)
  BY <1>1, Holder DEF Busy
<1>3. /\ DOMAIN call = Workers /\ DOMAIN staging = Conns
      /\ DOMAIN files = Names
      /\ DOMAIN reply = Conns /\ DOMAIN reply[c] = {"oks", "body", "err"}
      /\ reply[c].err \in BOOLEAN
  BY <1>2 DEF Shape
<1>4. /\ DOMAIN call' = Workers /\ DOMAIN call'[w] = CallFields
      /\ call'[w].conn = c /\ call'[w].pc = "finish"
      /\ \A v \in Workers : v # w => call'[v] = call[v]
  BY <1>1, <1>2, <1>3 DEF CallFields
<1>5. /\ DOMAIN staging' = Conns /\ staging'[c] = Absent
      /\ \A d \in Conns : d # c => staging'[d] = staging[d]
  BY <1>1, <1>2, <1>3
<1>6. /\ DOMAIN reply' = Conns /\ DOMAIN reply'[c] = {"oks", "body", "err"}
      /\ \A d \in Conns : d # c => reply'[d] = reply[d]
      /\ reply'[c].err = reply[c].err
  <2>1. /\ DOMAIN SendOk(c, 0) = {"oks", "body", "err"}
        /\ SendOk(c, 0).err = reply[c].err
    BY <1>3 DEF SendOk
  <2> QED BY <1>1, <1>2, <1>3, <2>1
<1>7. CommittedWhole'
  <2>1. Ask(c).op = "PUT" /\ staging[c] = req[c].total
    BY <1>1 DEF Rounds, Round
  <2>2. req[c].total = Size(Lines[Ask(c).text])
    BY <1>2, <2>1 DEF Counters
  <2>3. /\ {e \in Lines[t] : e <= staging[c]} = Lines[t]
        /\ t = Ask(c).text \/ (c \in torn /\ t \in Remains(Ask(c).text))
    BY <1>1, <1>2, <2>1, <2>2, StoredWhole
  <2>4. \A n \in Names : files'[n] = IF n = name THEN new(t) ELSE files[n]
    BY <1>1, <1>3
  <2>5. new(t).ends = Lines[new(t).text] /\ new(t).text = t
    BY <2>3
  <2>6. \A d : Ask(d)' = Ask(d)
    BY <1>1 DEF Ask
  <2>7. \A n : n = name => c \in Renamed(n)'
    BY <1>1, <1>2, <1>4, <2>1, <2>6 DEF Renamed, Asked
  <2>8. \A n \in Names : Renamed(n) \subseteq Renamed(n)'
    BY <1>1, <1>4, <2>6 DEF Renamed
  <2> HIDE DEF new, name, c
  <2>9. ASSUME NEW n \in Names, files'[n] # Absent
        PROVE  /\ files'[n].ends = Lines[files'[n].text]
               /\ \/ files'[n].text = InitialFiles[n]
                  \/ \E d \in Renamed(n)' :
                       \/ files'[n].text = Ask(d)'.text
                       \/ d \in torn' /\ files'[n].text
                                         \in Remains(Ask(d)'.text)
    <3>1. CASE n = name
      BY <1>1, <2>3, <2>4, <2>5, <2>6, <2>7, <3>1
    <3>2. CASE n # name
      BY <1>1, <2>4, <2>6, <2>8, <2>9, <3>2 DEF CommittedWhole
    <3> QED BY <3>1, <3>2
  <2> QED BY <2>9 DEF CommittedWhole
<1>8. DOMAIN files' = Names
  BY <1>1, <1>3
<1>9. OnlyAt(w, c)
  BY <1>1, <1>4, <1>5, <1>6 DEF OnlyAt
<1> HIDE DEF c, new, name
<1>10. call[w].conn = c
  BY DEF c
<1>11. /\ \A v \in Workers : Busy(v)' <=> Busy(v)
       /\ \A v \in Workers : call'[v].conn = call[v].conn
  BY <1>2, <1>4, <1>10 DEF Busy
<1>12. \A d : (Has(d)' <=> Has(d)) /\ (Asked(d)' <=> Asked(d))
  BY <1>1, <1>11 DEF Has, Asked, Ask
<1>13. Shape'
  <2>1. \A d \in Conns : /\ DOMAIN reply'[d] = {"oks", "body", "err"}
                         /\ reply'[d].err \in BOOLEAN
    BY <1>6 DEF Shape
  <2>2. \A v \in Workers :
          /\ {"pc", "conn"} \subseteq DOMAIN call'[v]
          /\ Busy(v)' => /\ DOMAIN call'[v] = CallFields
                          /\ call'[v].conn \in Conns
    BY <1>4, <1>11 DEF Shape, CallFields
  <2> QED BY <1>1, <1>4, <1>5, <1>6, <1>8, <1>12, <2>1, <2>2 DEF Shape
<1>14. Custody'
  BY <1>1, <1>11, <1>12 DEF Custody
<1>15. Counters'
  BY <1>1 DEF Counters, Ask
<1>16. Rounds'
  <2>1. Round(w)'
    BY <1>4, <1>5 DEF Round
  <2> QED BY <1>1, <1>2, <1>9, <1>10, <2>1, OtherRounds
<1>17. Staged'
  BY <1>1, <1>5 DEF Staged, Ask
<1>18. Errors'
  <2>1. ~reply[c].err
    BY <1>1, <1>2, <1>10 DEF Errors, Busy
  <2> QED BY <1>1, <1>2, <1>6, <1>9, <2>1, OtherErrors
<1>19. Recorded'
  BY <1>1 DEF Recorded
<1>20. Leaving'
  <2>1. \A v \in Workers : call[v].pc # "exited"
    BY <1>2 DEF Leaving
  <2>2. \A v \in Workers : call'[v].pc # "exited"
    BY <1>4, <2>1
  <2> QED BY <2>2 DEF Leaving
<1> QED BY <1>7, <1>13, <1>14, <1>15, <1>16, <1>17, <1>18, <1>19, <1>20

(* A worker takes a request out of the queue. *)
LEMMA TakeStep ==
  ASSUME Inv, NEW w \in Workers, NextDecision(w)
  PROVE  Inv'
<1> USE DEF Inv, around, disk, books
<1>1. /\ UNCHANGED <<setup, closed, files, staging, phase, metrics, reply>>
      /\ call[w].pc = "idle"
  BY DEF NextDecision
<1>2. /\ DOMAIN queue = 1 .. Len(queue)
      /\ \A i \in 1 .. Len(queue) : queue[i] \in Conns
      /\ queue \in Seq(Conns) /\ IsInjective(queue)
  BY LenProperties, ElementOfSeq DEF Shape, Custody
<1>3. PICK i \in 1 .. Len(queue) :
        LET d == RaisedDeficit(Policy, Quantum, req[queue[i]].total,
                               req[queue[i]].offset, req[queue[i]].deficit)
        IN  /\ queue' = RemoveAt(queue, i)
            /\ req' = [req EXCEPT ![queue[i]].deficit = d]
            /\ call' = [call EXCEPT ![w] =
                 [pc |-> "serve", conn |-> queue[i],
                  budget |-> Budget(Policy, Quantum, req[queue[i]].total,
                                    req[queue[i]].offset, d),
                  at |-> req[queue[i]].offset, round |-> 0, left |-> 0,
                  packet |-> <<>>, sent |-> 0, eof |-> FALSE]]
  BY <1>2 DEF NextDecision
<1> DEFINE c == queue[i]
           d == RaisedDeficit(Policy, Quantum, req[c].total,
                              req[c].offset, req[c].deficit)
           budget == Budget(Policy, Quantum, req[c].total, req[c].offset, d)
<1>4. /\ c \in Conns /\ c \in ToSet(queue) /\ phase[c] = "open" /\ Asked(c)
      /\ DOMAIN req[c] = ReqFields /\ ~Busy(w)
      /\ \A v \in Workers : ~(Busy(v) /\ call[v].conn = c)
  <2>1. c \in Conns /\ c \in ToSet(queue)
    BY <1>2 DEF ToSet
  <2> QED BY <1>1, <2>1 DEF Custody, Shape, Busy
<1>5. /\ queue' \in Seq(Conns) /\ IsInjective(queue')
      /\ ToSet(queue') = ToSet(queue) \ {c}
  BY <1>2, <1>3, RemoveSet, RemoveAtProperties
<1>6. DOMAIN call = Workers /\ DOMAIN req = Conns
  BY DEF Shape
<1>7. /\ DOMAIN call' = Workers /\ DOMAIN call'[w] = CallFields
      /\ call'[w].conn = c /\ call'[w].pc = "serve"
      /\ call'[w].budget = budget
      /\ \A v \in Workers : v # w => call'[v] = call[v]
  BY <1>3, <1>6 DEF CallFields
<1>8. /\ DOMAIN req' = Conns /\ DOMAIN req'[c] = ReqFields
      /\ \A e \in Conns : e # c => req'[e] = req[e]
      /\ req'[c].total = req[c].total /\ req'[c].offset = req[c].offset
      /\ req'[c].deficit = d
  BY <1>3, <1>4, <1>6 DEF ReqFields
<1>9. ASSUME Ask(c).op = "PUT" PROVE d \in Nat /\ budget \in Nat
  <2>1. Ask(c).text \in Texts
    BY <1>4, <1>9 DEF Asked, IsAsk
  <2>2. /\ req[c].total \in Nat /\ req[c].offset \in Nat
        /\ req[c].deficit \in Nat
    BY <1>4, <1>9, <2>1, TextSize DEF Counters
  <2>3. Quantum \in Nat /\ Wrap \in Nat
    BY FileServerAssumption, WrapAssumption DEF Shape, IsSetup, Quantum
  <2>4. Remaining(req[c].total, req[c].offset) \in Nat
    BY <2>2 DEF Remaining
  <2>5. d \in Nat
    BY <2>2, <2>3, <2>4 DEF RaisedDeficit, AddU64
  <2> HIDE DEF d
  <2> QED BY <2>3, <2>4, <2>5 DEF Budget, Least
<1> HIDE DEF c, d, budget
<1>10. /\ Busy(w)' /\ \A v \in Workers : v # w => (Busy(v)' <=> Busy(v))
  BY <1>7 DEF Busy
<1>11. /\ \A e \in Conns : Has(e)' <=> Has(e) \/ e = c
       /\ \A e : Asked(e)' <=> Asked(e)
  BY <1>1, <1>4, <1>7, <1>10 DEF Has, Asked, Ask
<1>12. Shape'
  <2>1. \A v \in Workers :
          /\ {"pc", "conn"} \subseteq DOMAIN call'[v]
          /\ Busy(v)' => /\ DOMAIN call'[v] = CallFields
                          /\ call'[v].conn \in Conns
    BY <1>4, <1>7, <1>10 DEF Shape, CallFields
  <2> QED BY <1>1, <1>4, <1>5, <1>7, <1>8, <1>11, <2>1 DEF Shape
<1>13. Custody'
  <2>1. \A u, v \in Workers :
          Busy(u)' /\ Busy(v)' /\ call'[u].conn = call'[v].conn => u = v
    BY <1>4, <1>7, <1>10 DEF Custody
  <2>2. \A v \in Workers : Busy(v)' => call'[v].conn \notin ToSet(queue')
    BY <1>4, <1>5, <1>7, <1>10 DEF Custody
  <2>3. \A e \in Conns : phase'[e] = "open"
                         <=> e \in ToSet(queue') \/ Has(e)'
    BY <1>1, <1>4, <1>5, <1>11 DEF Custody
  <2> QED BY <1>5, <2>1, <2>2, <2>3 DEF Custody
<1>14. Counters'
  BY <1>1, <1>4, <1>8, <1>9 DEF Counters, Ask
<1>15. OnlyAt(w, c)
  BY <1>1, <1>7, <1>8 DEF OnlyAt
<1>16. Rounds'
  <2>1. Round(w)'
    BY <1>1, <1>7, <1>9 DEF Round, Ask
  <2> QED BY <1>1, <1>4, <1>15, <2>1, OtherRounds
<1>17. Staged'
  BY <1>1 DEF Staged, Ask
<1>18. Errors'
  <2>1. ~reply[c].err
    BY <1>4 DEF Errors, Busy
  <2> QED BY <1>1, <1>4, <1>15, <2>1, OtherErrors
<1>19. Recorded' /\ CommittedWhole'
  <2>1. torn' = torn
    BY DEF NextDecision
  <2>2. CommittedWhole'
    BY <1>1, <1>7, <2>1, WholeKept
  <2> QED BY <1>1, <2>2 DEF Recorded
<1>20. Leaving'
  <2>1. \A v \in Workers : call[v].pc # "exited"
    BY <1>4 DEF Leaving, ToSet
  <2>2. \A v \in Workers : call'[v].pc # "exited"
    BY <1>7, <2>1
  <2> QED BY <2>2 DEF Leaving
<1> QED BY <1>12, <1>13, <1>14, <1>16, <1>17, <1>18, <1>19, <1>20

(* After a round: back to the queue, or on to the end of the request.  The *)
(* bytes of an upload's round are all counted, so one that is not requeued *)
(* has its whole text in the staging file.                                 *)
LEMMA AccountStep ==
  ASSUME Inv, NEW w \in Workers, Account(w)
  PROVE  Inv'
<1> DEFINE c == call[w].conn
           counted == Counted(req[c].total, req[c].offset, Processed(w))
           again == ShouldRequeue(req[c].total, req[c].offset + counted)
           put == Ask(c).op = "PUT"
<1> USE DEF Inv, around, disk, books
<1>1. /\ UNCHANGED <<setup, closed, files, staging, phase, metrics, reply>>
      /\ call[w].pc = "served"
      /\ req' = [req EXCEPT
           ![c].offset = @ + counted,
           ![c].deficit = SpentDeficit(Policy, @, counted)]
      /\ queue' = IF again THEN Append(queue, c) ELSE queue
      /\ call' = [call EXCEPT ![w] =
           IF again THEN Idle
           ELSE [@ EXCEPT !.pc = IF put THEN "commit" ELSE "finish"]]
  BY DEF Account
<1>2. /\ c \in Conns /\ phase[c] = "open" /\ Asked(c) /\ Busy(w)
      /\ c \notin ToSet(queue)
      /\ DOMAIN req[c] = ReqFields /\ DOMAIN call[w] = CallFields
      /\ \A v \in Workers : v # w => ~(Busy(v) /\ call[v].conn = c)
  BY <1>1, Holder DEF Busy
<1>3. DOMAIN call = Workers /\ DOMAIN req = Conns /\ queue \in Seq(Conns)
  BY DEF Shape
<1>4. /\ DOMAIN req' = Conns /\ DOMAIN req'[c] = ReqFields
      /\ \A d \in Conns : d # c => req'[d] = req[d]
      /\ req'[c].total = req[c].total
      /\ req'[c].offset = req[c].offset + counted
      /\ req'[c].deficit = SpentDeficit(Policy, req[c].deficit, counted)
  BY <1>1, <1>2, <1>3 DEF ReqFields
<1>5. ASSUME put
      PROVE  /\ req'[c].offset \in Nat /\ req'[c].offset <= req'[c].total
             /\ req'[c].deficit \in Nat
             /\ ~again => staging[c] = req'[c].total
  <2>1. Ask(c).text \in Texts
    BY <1>2, <1>5 DEF Asked, IsAsk
  <2>2. /\ req[c].total \in Nat /\ req[c].offset \in Nat
        /\ req[c].deficit \in Nat
    BY <1>2, <1>5, <2>1, TextSize DEF Counters
  <2>3. /\ call[w].sent \in Nat
        /\ staging[c] = req[c].offset + call[w].sent
        /\ req[c].offset + call[w].sent <= req[c].total
    BY <1>1, <1>5 DEF Rounds, Round
  <2>4. /\ counted = call[w].sent
        /\ SpentDeficit(Policy, req[c].deficit, counted) \in Nat
        /\ ~again => req[c].offset + call[w].sent = req[c].total
    <3> HIDE DEF c
    <3>1. counted = call[w].sent
      BY <2>2, <2>3 DEF Processed, Counted, Least, Remaining
    <3> HIDE DEF counted
    <3>2. SpentDeficit(Policy, req[c].deficit, counted) \in Nat
      BY <2>2, <2>3, <3>1 DEF SpentDeficit
    <3>3. ~again => req[c].offset + call[w].sent = req[c].total
      BY <2>2, <2>3, <3>1 DEF ShouldRequeue, Remaining
    <3> QED BY <3>1, <3>2, <3>3
  <2> HIDE DEF counted, again, c
  <2> QED BY <1>4, <2>2, <2>3, <2>4
<1>6. CASE again
  <2>1. /\ queue' = Append(queue, c)
        /\ call' = [call EXCEPT ![w] = Idle]
    BY <1>1, <1>6
  <2>2. /\ queue' \in Seq(Conns) /\ IsInjective(queue')
        /\ ToSet(queue') = ToSet(queue) \cup {c}
    BY <1>2, <1>3, <2>1, AppendSet, AppendProperties DEF Custody
  <2>3. /\ DOMAIN call' = Workers
        /\ call'[w].pc = "idle" /\ {"pc", "conn"} \subseteq DOMAIN call'[w]
        /\ \A v \in Workers : v # w => call'[v] = call[v]
    BY <1>3, <2>1 DEF Idle
  <2>4. /\ ~Busy(w)'
        /\ \A v \in Workers : v # w => (Busy(v)' <=> Busy(v))
    BY <2>3 DEF Busy
  <2>5. /\ \A d \in Conns : Has(d)' <=> Has(d) /\ d # c
        /\ \A d : Asked(d)' <=> Asked(d)
    BY <1>1, <1>2, <2>3, <2>4 DEF Has, Asked, Ask
  <2> HIDE DEF c, again, counted, put
  <2>6. Shape'
    <3>1. \A v \in Workers :
            /\ {"pc", "conn"} \subseteq DOMAIN call'[v]
            /\ Busy(v)' => /\ DOMAIN call'[v] = CallFields
                            /\ call'[v].conn \in Conns
      BY <2>3, <2>4 DEF Shape
    <3> QED BY <1>1, <1>4, <2>2, <2>3, <2>5, <3>1 DEF Shape
  <2>7. Custody'
    <3>1. \A v \in Workers : Busy(v)' => call'[v].conn \notin ToSet(queue')
      BY <1>2, <2>2, <2>3, <2>4 DEF Custody
    <3>2. \A d \in Conns : phase'[d] = "open"
                           <=> d \in ToSet(queue') \/ Has(d)'
      BY <1>1, <1>2, <2>2, <2>5 DEF Custody
    <3> QED BY <2>2, <2>3, <2>4, <3>1, <3>2 DEF Custody
  <2>8. Counters'
    BY <1>1, <1>4, <1>5 DEF Counters, Ask, put
  <2>9. OnlyAt(w, c)
    BY <1>1, <1>4, <2>3 DEF OnlyAt
  <2>10. Rounds'
    <3>1. Round(w)'
      BY <2>3 DEF Round
    <3> QED BY <1>1, <1>2, <2>9, <3>1, OtherRounds
  <2>11. Errors'
    <3>1. ~reply[c].err
      BY <1>1, <1>2 DEF Errors, Busy, c
    <3> QED BY <1>1, <1>2, <2>9, <3>1, OtherErrors
  <2>12. Staged' /\ Recorded' /\ CommittedWhole'
    <3>1. torn' = torn
      BY DEF Account
    <3>2. CommittedWhole'
      BY <1>1, <2>3, <3>1, WholeKept
    <3> QED BY <1>1, <3>2 DEF Staged, Recorded, Ask
  <2>13. Leaving'
    BY <1>2, <2>3 DEF Leaving
  <2> QED BY <2>6, <2>7, <2>8, <2>10, <2>11, <2>12, <2>13
<1>7. CASE ~again
  <2>1. queue' = queue
    BY <1>1, <1>7
  <2>2. /\ DOMAIN call' = Workers /\ DOMAIN call'[w] = CallFields
        /\ call'[w].conn = c
        /\ call'[w].pc = IF put THEN "commit" ELSE "finish"
        /\ \A v \in Workers : v # w => call'[v] = call[v]
    BY <1>1, <1>2, <1>3, <1>7 DEF CallFields
  <2> HIDE DEF c, again, counted, put
  <2>3. call[w].conn = c
    BY DEF c
  <2>4. /\ \A v \in Workers : Busy(v)' <=> Busy(v)
        /\ \A v \in Workers : call'[v].conn = call[v].conn
    BY <1>2, <2>2, <2>3 DEF Busy
  <2>5. \A d : (Has(d)' <=> Has(d)) /\ (Asked(d)' <=> Asked(d))
    BY <1>1, <2>4 DEF Has, Asked, Ask
  <2>6. Shape'
    <3>1. \A v \in Workers :
            /\ {"pc", "conn"} \subseteq DOMAIN call'[v]
            /\ Busy(v)' => /\ DOMAIN call'[v] = CallFields
                            /\ call'[v].conn \in Conns
      BY <2>2, <2>4 DEF Shape, CallFields
    <3> QED BY <1>1, <1>4, <2>1, <2>2, <2>5, <3>1 DEF Shape
  <2>7. Custody'
    BY <1>1, <2>1, <2>4, <2>5 DEF Custody
  <2>8. Counters'
    BY <1>1, <1>4, <1>5 DEF Counters, Ask, put
  <2>9. OnlyAt(w, c)
    BY <1>1, <1>4, <2>2 DEF OnlyAt
  <2>10. Rounds'
    <3>1. ASSUME put PROVE Round(w)'
      <4>1. staging'[c] = req'[c].total
        BY <1>1, <1>5, <1>7, <3>1
      <4>2. (setup.asks)[c].op = "PUT" /\ setup' = setup
        BY <1>1, <3>1 DEF put, Ask
      <4> QED BY <2>2, <3>1, <4>1, <4>2 DEF Round, Ask
    <3>2. ASSUME ~put PROVE Round(w)'
      <4>1. staging[c] = Absent
        BY <1>2, <3>2 DEF Staged, put
      <4> QED BY <1>1, <2>2, <3>2, <4>1 DEF Round
    <3> QED BY <1>1, <1>2, <2>3, <2>9, <3>1, <3>2, OtherRounds
  <2>11. Errors'
    <3>1. ~reply[c].err
      BY <1>1, <1>2, <2>3 DEF Errors, Busy
    <3> QED BY <1>1, <1>2, <2>9, <3>1, OtherErrors
  <2>12. Staged' /\ Recorded' /\ CommittedWhole'
    <3>1. torn' = torn
      BY DEF Account
    <3>2. CommittedWhole'
      BY <1>1, <2>2, <3>1, WholeKept
    <3> QED BY <1>1, <3>2 DEF Staged, Recorded, Ask
  <2>13. Leaving'
    BY <1>2, <2>2 DEF Leaving
  <2> QED BY <2>6, <2>7, <2>8, <2>10, <2>11, <2>12, <2>13
<1> QED BY <1>6, <1>7

(* The worker that leaves found the closed queue empty and nobody busy.    *)
LEMMA ExitStep ==
  ASSUME Inv, NEW w \in Workers, Exit(w)
  PROVE  Inv'
<1> USE DEF Inv, around, disk, books
<1>1. /\ UNCHANGED <<setup, closed, files, staging, phase, metrics, reply,
                     req, queue>>
      /\ queue = <<>> /\ closed
      /\ \A v \in Workers : ~Busy(v)
      /\ call' = [call EXCEPT ![w].pc = "exited"]
  BY DEF Exit, Busy
<1>2. DOMAIN call = Workers /\ {"pc", "conn"} \subseteq DOMAIN call[w]
  BY DEF Shape
<1>3. /\ DOMAIN call' = Workers /\ {"pc", "conn"} \subseteq DOMAIN call'[w]
      /\ call'[w].pc = "exited"
      /\ \A v \in Workers : v # w => call'[v] = call[v]
  BY <1>1, <1>2
<1>4. \A v \in Workers : ~Busy(v)'
  BY <1>1, <1>3 DEF Busy
<1>5. \A d : ~Has(d) /\ ~Has(d)' /\ (Asked(d)' <=> Asked(d))
  BY <1>1, <1>4 DEF Has, Asked, Ask
<1>6. Shape'
  <2>1. \A v \in Workers : {"pc", "conn"} \subseteq DOMAIN call'[v]
    BY <1>3 DEF Shape
  <2> QED BY <1>1, <1>3, <1>4, <1>5, <2>1 DEF Shape
<1>7. Custody'
  BY <1>1, <1>4, <1>5 DEF Custody
<1>8. Counters' /\ Staged' /\ Recorded' /\ CommittedWhole'
  <2>1. torn' = torn
    BY DEF Exit
  <2>2. CommittedWhole'
    BY <1>1, <2>1, WholeKept DEF Busy
  <2> QED BY <1>1, <2>2 DEF Counters, Staged, Recorded, Ask
<1>9. Rounds'
  BY <1>4 DEF Rounds, Round, Busy
<1>10. Errors'
  BY <1>1 DEF Errors, Busy
<1>11. Leaving'
  BY <1>1, <1>4 DEF Leaving
<1> QED BY <1>6, <1>7, <1>8, <1>9, <1>10, <1>11

(* parser_thread admits a request nobody holds yet. *)
LEMMA AdmitStep ==
  ASSUME Inv, NEW c \in Conns, Admit(c)
  PROVE  Inv'
<1> USE DEF Inv, around, disk, books
<1>1. /\ UNCHANGED <<setup, closed, files, staging, metrics, reply, call>>
      /\ ~closed /\ phase[c] = "new" /\ c \in DOMAIN setup.asks
      /\ queue' = Append(queue, c)
      /\ phase' = [phase EXCEPT ![c] = "open"]
  BY DEF Admit
<1>2. PICK r : /\ req' = [req EXCEPT ![c] = r]
               /\ DOMAIN r = ReqFields
               /\ r.offset = 0 /\ r.deficit = 0
               /\ Ask(c).op # "GET" => r.total = Size(Lines[Ask(c).text])
  <2> DEFINE new(n, a) == [total |-> n, offset |-> 0, deficit |-> 0,
                           headed |-> FALSE, arrival |-> a]
  <2>1. PICK n, a : /\ req' = [req EXCEPT ![c] = new(n, a)]
                    /\ Ask(c).op # "GET" => n = Size(Lines[Ask(c).text])
    BY DEF Admit
  <2>2. /\ DOMAIN new(n, a) = ReqFields
        /\ new(n, a).offset = 0 /\ new(n, a).deficit = 0
        /\ new(n, a).total = n
    BY DEF ReqFields
  <2> HIDE DEF new
  <2> WITNESS new(n, a)
  <2> QED BY <2>1, <2>2
<1>3. /\ queue \in Seq(Conns) /\ DOMAIN req = Conns
      /\ phase \in [Conns -> {"new", "open", "dropped", "finished"}]
  BY DEF Shape
<1>4. /\ phase' \in [Conns -> {"new", "open", "dropped", "finished"}]
      /\ \A d \in Conns : phase'[d] = IF d = c THEN "open" ELSE phase[d]
  BY <1>1, <1>3
<1>5. /\ DOMAIN req' = Conns
      /\ \A d \in Conns : req'[d] = IF d = c THEN r ELSE req[d]
  BY <1>2, <1>3
<1>6. c \notin ToSet(queue) /\ ~Has(c)
  BY <1>1 DEF Custody
<1>7. /\ queue' \in Seq(Conns) /\ IsInjective(queue')
      /\ ToSet(queue') = ToSet(queue) \cup {c}
  BY <1>1, <1>3, <1>6, AppendSet, AppendProperties DEF Custody
<1>8. Asked(c)
  BY <1>1, FileServerAssumption DEF Shape, IsSetup, Asked, Ask
<1>9. \A d : (Has(d)' <=> Has(d)) /\ (Asked(d)' <=> Asked(d))
  BY <1>1 DEF Has, Busy, Asked, Ask
<1>10. \A v \in Workers : /\ Busy(v)' <=> Busy(v)
                          /\ Busy(v) => call[v].conn # c
  BY <1>1, <1>6 DEF Has, Busy
<1>11. Shape'
  <2>1. \A d \in Conns : phase'[d] = "open" => /\ DOMAIN req'[d] = ReqFields
                                               /\ Asked(d)'
    BY <1>2, <1>4, <1>5, <1>8, <1>9 DEF Shape
  <2>2. \A v \in Workers :
          /\ {"pc", "conn"} \subseteq DOMAIN call'[v]
          /\ Busy(v)' => /\ DOMAIN call'[v] = CallFields
                          /\ call'[v].conn \in Conns
    BY <1>1, <1>10 DEF Shape
  <2> QED BY <1>1, <1>4, <1>5, <1>7, <2>1, <2>2 DEF Shape
<1>12. Custody'
  <2>1. \A u, v \in Workers :
          Busy(u)' /\ Busy(v)' /\ call'[u].conn = call'[v].conn => u = v
    BY <1>1, <1>10 DEF Custody
  <2>2. \A v \in Workers : Busy(v)' => call'[v].conn \notin ToSet(queue')
    BY <1>1, <1>7, <1>10 DEF Custody
  <2>3. \A d \in Conns : phase'[d] = "open"
                         <=> d \in ToSet(queue') \/ Has(d)'
    BY <1>4, <1>7, <1>9 DEF Custody
  <2> QED BY <1>7, <2>1, <2>2, <2>3 DEF Custody
<1>13. Counters'
  <2>1. ASSUME NEW d \in Conns, phase'[d] = "open", Ask(d).op = "PUT"
        PROVE  /\ req'[d].total = Size(Lines[Ask(d).text])
               /\ req'[d].offset \in Nat /\ req'[d].offset <= req'[d].total
               /\ req'[d].deficit \in Nat
    <3>1. CASE d = c
      <4>1. Ask(c).text \in Texts
        BY <1>8, <2>1, <3>1 DEF Asked, IsAsk
      <4>2. Size(Lines[Ask(c).text]) \in Nat
        BY <4>1, TextSize
      <4>3. r.total = Size(Lines[Ask(c).text]) /\ req'[d] = r
        BY <1>2, <1>5, <2>1, <3>1
      <4> QED BY <1>2, <3>1, <4>2, <4>3
    <3>2. CASE d # c
      BY <1>4, <1>5, <2>1, <3>2 DEF Counters
    <3> QED BY <3>1, <3>2
  <2>2. \A d : Ask(d)' = Ask(d)
    BY <1>1 DEF Ask
  <2> QED BY <2>1, <2>2 DEF Counters
<1>14. Rounds'
  <2>1. ASSUME NEW v \in Workers PROVE Round(v)'
    <3>1. CASE Busy(v)
      <4>1. call[v].conn # c /\ call[v].conn \in Conns
        BY <1>10, <3>1 DEF Shape
      <4>2. req'[call[v].conn] = req[call[v].conn]
        BY <1>5, <4>1
      <4> QED BY <1>1, <4>2 DEF Rounds, Round, Ask
    <3>2. CASE ~Busy(v)
      BY <1>1, <3>2 DEF Round, Busy
    <3> QED BY <3>1, <3>2
  <2> QED BY <2>1 DEF Rounds
<1>15. Staged'
  <2>1. staging[c] = Absent
    BY <1>1 DEF Staged
  <2> QED BY <1>1, <1>4, <2>1 DEF Staged, Ask
<1>16. Errors'
  <2>1. ~reply[c].err
    BY <1>1, <1>6 DEF Errors, Has, Busy
  <2> QED BY <1>1, <1>4, <2>1 DEF Errors
<1>17. Recorded' /\ CommittedWhole'
  <2>1. torn' = torn
    BY DEF Admit
  <2>2. CommittedWhole'
    BY <1>1, <1>4, <2>1, WholeKept
  <2> QED BY <1>1, <1>4, <2>2 DEF Recorded
<1>18. Leaving'
  BY <1>1 DEF Leaving
<1> QED BY <1>11, <1>12, <1>13, <1>14, <1>15, <1>16, <1>17, <1>18

(* What a client, a signal or nobody does.                                 *)
LEMMA OtherStep ==
  ASSUME Inv, Close \/ UNCHANGED fvars \/ \E c \in Conns : Disconnect(c)
  PROVE  Inv'
<1>1. /\ UNCHANGED <<setup, files, staging, phase, metrics, reply, call, req,
                     queue, torn>>
      /\ closed' \in BOOLEAN /\ (closed => closed')
  BY DEF Close, Disconnect, fvars, around, disk, books, Inv, Shape
<1>2. \A w \in Workers : Busy(w)' <=> Busy(w)
  BY <1>1 DEF Busy
<1>3. \A d : (Has(d)' <=> Has(d)) /\ (Asked(d)' <=> Asked(d))
  BY <1>1, <1>2 DEF Has, Asked, Ask
<1>4. Shape' /\ Custody'
  BY <1>1, <1>2, <1>3 DEF Inv, Shape, Custody
<1>5. Counters' /\ Staged'
  BY <1>1 DEF Inv, Counters, Staged, Ask
<1>6. Rounds'
  BY <1>1 DEF Inv, Rounds, Round, Ask
<1>7. Errors' /\ Recorded' /\ CommittedWhole'
  <2>1. CommittedWhole'
    BY <1>1, WholeKept
  <2> QED BY <1>1, <2>1 DEF Inv, Errors, Recorded
<1>8. Leaving'
  BY <1>1, <1>2 DEF Inv, Leaving
<1> QED BY <1>4, <1>5, <1>6, <1>7, <1>8 DEF Inv

(* At the start there are no requests. *)
LEMMA InvInit == Init => Inv
<1> SUFFICES ASSUME Init PROVE Inv
  OBVIOUS
<1> USE DEF Init, Idle, NoReply
<1>1. \A w \in Workers : ~Busy(w) /\ call[w] = Idle
  BY DEF Busy
<1>2. ToSet(<<>>) = {} /\ IsInjective(<<>>) /\ <<>> \in Seq(Conns)
  BY EmptySeq DEF ToSet, IsInjective
<1>3. Shape
  BY <1>1, <1>2 DEF Shape
<1>4. Custody
  BY <1>1, <1>2 DEF Custody, Has
<1>5. Counters /\ Staged /\ Errors
  BY DEF Counters, Staged, Errors
<1>6. Rounds /\ Leaving
  BY <1>1 DEF Rounds, Round, Leaving
<1>7. Recorded
  BY <1>2 DEF Recorded
<1>8. CommittedWhole
  <2>1. ASSUME NEW n \in Names, files[n] # Absent
        PROVE  files[n] = [text |-> InitialFiles[n],
                           ends |-> Lines[InitialFiles[n]]]
    BY <2>1
  <2> QED BY <2>1 DEF CommittedWhole
<1> QED BY <1>3, <1>4, <1>5, <1>6, <1>7, <1>8 DEF Inv

(* The invariant holds of every reachable state.                           *)
THEOREM FileServerInvariant == Spec => []Inv
<1>1. ASSUME Inv, [Next]_fvars PROVE Inv'
  <2>1. CASE \E c \in Conns : Admit(c)
    BY <1>1, <2>1, AdmitStep
  <2>2. CASE Close \/ UNCHANGED fvars \/ \E c \in Conns : Disconnect(c)
    BY <1>1, <2>2, OtherStep
  <2>3. ASSUME NEW w \in Workers, WorkerStep(w) PROVE Inv'
    <3>1. CASE \/ ServeGet(w) \/ SelectLine(w) \/ Resize(w)
               \/ SendLine(w) \/ SendLineFails(w) \/ SendBreaks(w)
      BY <1>1, <3>1, GetSteps, GetStepInv
    <3>2. CASE ServePut(w) \/ ServePutFails(w)
      BY <1>1, <3>2, PutStep
    <3>3. CASE Drop(w) \/ CommitFails(w) \/ Finish(w)
      BY <1>1, <3>3, EndStep
    <3>4. CASE NextDecision(w)
      BY <1>1, <3>4, TakeStep
    <3>5. CASE Account(w)
      BY <1>1, <3>5, AccountStep
    <3>6. CASE Commit(w)
      BY <1>1, <3>6, CommitStep
    <3>7. CASE Exit(w)
      BY <1>1, <3>7, ExitStep
    <3> QED BY <2>3, <3>1, <3>2, <3>3, <3>4, <3>5, <3>6, <3>7
            DEF WorkerStep
  <2> QED BY <1>1, <2>1, <2>2, <2>3 DEF Next, Terminated
<1> QED BY <1>1, InvInit, PTL DEF Spec

(* Every name stands for the file it had at the start, or for what an      *)
(* upload that was answered in full handed to the disk, whatever uploads   *)
(* of it are under way, fail or are dropped (serve_put's staging file and  *)
(* the rename of worker_thread); if it is not the whole text, the close of *)
(* server.cpp:360 lost bytes of that upload.                               *)
THEOREM UploadsArriveWhole == Spec => []CommittedWhole
BY FileServerInvariant, PTL DEF Inv

(* worker_thread records every finished request once, never one that was   *)
(* told of an error; when all workers have returned no request is open     *)
(* and no staging file is left but those whose rename failed.              *)
THEOREM BooksAlwaysClose == Spec => []BooksClose
<1>1. ASSUME Inv PROVE BooksClose
  <2>1. \A i, j \in DOMAIN metrics : metrics[i] = metrics[j] => i = j
    BY <1>1 DEF Inv, Recorded, IsInjective
  <2>2. ToSet(metrics) = {c \in Conns : phase[c] = "finished"}
    BY <1>1 DEF Inv, Recorded
  <2>3. ASSUME NEW c \in Conns, reply[c].err PROVE phase[c] # "finished"
    <3>1. CASE phase[c] = "dropped"
      BY <3>1
    <3>2. CASE \E w \in Workers : call[w].pc = "failed" /\ call[w].conn = c
      BY <1>1, <3>2 DEF Inv, Custody, Has, Busy
    <3> QED BY <1>1, <2>3, <3>1, <3>2 DEF Inv, Errors
  <2>4. ASSUME AllExited, NEW c \in Conns
        PROVE  phase[c] # "open" /\ (staging[c] # Absent => c \in Unwritable)
    <3>1. queue = <<>> /\ \A w \in Workers : ~Busy(w)
      BY <1>1, <2>4, FileServerAssumption DEF Inv, Leaving, AllExited
    <3>2. phase[c] # "open"
      BY <1>1, <3>1 DEF Inv, Custody, Has, ToSet
    <3> QED BY <1>1, <3>2 DEF Inv, Staged
  <2> QED BY <2>1, <2>2, <2>3, <2>4 DEF BooksClose
<1> QED BY <1>1, FileServerInvariant, PTL

-----------------------------------------------------------------------------
(***************************************************************************)
(* What a client has received.  A piece is a part of a text; a stretch is  *)
(* a run of pieces of one text without gap or overlap.                     *)
(***************************************************************************)
Piece == {p \in Texts \X Nat \X Nat : p[2] < p[3]}
Stretch(q, t, from, to) ==
  /\ \A i \in 1 .. Len(q) :
       q[i][1] = t /\ q[i][2] = IF i = 1 THEN from ELSE q[i - 1][3]
  /\ to = IF Len(q) = 0 THEN from ELSE q[Len(q)][3]

Versions == {[text |-> t, ends |-> Lines[t]] : t \in Texts}
Getting(c) == phase[c] = "open" /\ Ask(c).op = "GET"
Source(c) == files[Ask(c).name]
Undisturbed(c) == c \notin disturbed \cup gone

(* A download between rounds or in one: its counters, the one OK line, and *)
(* what its client has if nobody disturbed it.                             *)
Download(c) ==
  /\ Source(c) \in Versions
  /\ req[c].total \in Nat /\ req[c].offset \in Nat
  /\ req[c].offset <= req[c].total /\ req[c].headed \in BOOLEAN
  /\ c \notin gone =>
       /\ reply[c].oks = IF req[c].headed THEN <<req[c].total>> ELSE <<>>
       /\ c \in ToSet(queue) => Received(c) = req[c].offset
  /\ Undisturbed(c) =>
       /\ req[c].total = Size(Source(c).ends)
       /\ Stretch(reply[c].body, Source(c).text, 0, Received(c))

(* A download that is over was exact, if nobody disturbed it.              *)
Exact(c) ==
  /\ phase[c] = "finished"
  /\ reply[c].oks = <<req[c].total>> /\ ~reply[c].err
  /\ Received(c) = req[c].total
  /\ \E t : Stretch(reply[c].body, t, 0, Received(c))

Conn(c) ==
  /\ reply[c].body \in Seq(Piece)
  /\ phase[c] = "new" => reply[c] = NoReply
  /\ Getting(c) => Download(c)
  /\ c \in Gets /\ Undisturbed(c) /\ phase[c] \in {"finished", "dropped"} =>
       Exact(c)

(* A worker in a round of a download: where it is in the file, and, if     *)
(* nobody disturbed the download, that the round it selected ends at a     *)
(* line end and its packet continues what the client has.                  *)
Reading(w) ==
  /\ call[w].at \in Nat /\ call[w].round \in Nat /\ call[w].sent \in Nat
  /\ call[w].packet \in Seq(Piece) /\ call[w].eof \in BOOLEAN
  /\ call[w].pc # "commit"
  /\ call[w].pc \in {"serve", "select"} =>
       call[w].sent = 0 /\ call[w].packet = <<>>
  /\ call[w].pc = "serve" =>
       /\ call[w].at = req[call[w].conn].offset
       /\ call[w].round = 0 /\ ~call[w].eof
  /\ call[w].pc # "serve" => req[call[w].conn].headed
  /\ call[w].conn \notin gone =>
       (call[w].pc \in {"serve", "select", "send", "served"} =>
          Received(call[w].conn) = req[call[w].conn].offset + call[w].sent)

Steady(w) ==
  LET c == call[w].conn
      ends == Source(c).ends
  IN  /\ call[w].pc # "failed"
      /\ call[w].pc = "select" =>
           /\ call[w].at = req[c].offset + call[w].round
           /\ call[w].round > 0 => call[w].at \in ends
           /\ call[w].eof => call[w].at = Size(ends)
      /\ call[w].pc = "send" =>
           /\ call[w].left \in Nat \ {0} /\ call[w].at + call[w].left \in ends
           /\ ~call[w].eof
           /\ Stretch(call[w].packet, Source(c).text,
                      req[c].offset + call[w].sent, call[w].at)
      /\ call[w].pc = "served" => req[c].offset + call[w].sent <= req[c].total
      /\ call[w].pc = "finish" => Received(c) = req[c].total

GetRound(w) ==
  Busy(w) /\ Ask(call[w].conn).op = "GET" =>
    Reading(w) /\ (Undisturbed(call[w].conn) => Steady(w))

Stock == \A n \in Names : files[n] # Absent => files[n] \in Versions

GetInv == /\ Stock
          /\ \A c \in Conns : Conn(c)
          /\ \A w \in Workers : GetRound(w)

(* Bytes adds up the lengths of the pieces. *)
LEMMA BytesIsSum ==
  ASSUME NEW s \in Seq(Piece), NEW g,
         Sums(g, [i \in 1 .. Len(s) |-> s[i][3] - s[i][2]], Len(s))
  PROVE  Bytes(s) = g[Len(s)]
<1> DEFINE n == Len(s)
           f == [i \in 1 .. n |-> s[i][3] - s[i][2]]
           F(h) == [i \in 0 .. n |->
                      IF i = 0 THEN 0 ELSE h[i - 1] + s[i][3] - s[i][2]]
           u == CHOOSE h : h = F(h)
<1>1. n \in Nat /\ \A i \in 1 .. n : s[i][2] \in Nat /\ s[i][3] \in Nat
  <2>1. n \in Nat /\ \A i \in 1 .. n : s[i] \in Piece
    BY LenProperties, ElementOfSeq
  <2> QED BY <2>1 DEF Piece
<1>2. Bytes(s) = u[n]
  BY DEF Bytes
<1>3. g = F(g)
  BY <1>1 DEF Sums
<1>4. u = F(u)
  BY <1>3
<1> HIDE DEF u
<1>5. \A i \in 0 .. n :
        u[i] = IF i = 0 THEN 0 ELSE u[i - 1] + s[i][3] - s[i][2]
  BY <1>4
<1>6. \A i \in 1 .. n : g[i] = g[i - 1] + (s[i][3] - s[i][2])
  BY <1>1 DEF Sums
<1>7. g[0] = 0 /\ g \in [0 .. n -> Int]
  BY DEF Sums
<1> DEFINE T == {k \in 0 .. n : u[k] # g[k]}
<1>8. T = {}
  <2>1. SUFFICES ASSUME T # {} PROVE FALSE
    OBVIOUS
  <2>2. PICK k \in T : \A y \in T : k <= y
    <3>1. T \subseteq Nat
      OBVIOUS
    <3> HIDE DEF T
    <3> QED BY <2>1, <3>1, LeastNumber
  <2>3. k \in 1 .. n
    BY <1>1, <1>5, <1>7, <2>2
  <2>4. k - 1 \in 0 .. n /\ k - 1 \notin T
    BY <2>2, <2>3
  <2>5. u[k - 1] = g[k - 1] /\ g[k - 1] \in Int
    BY <1>7, <2>4
  <2>6. u[k] = g[k - 1] + s[k][3] - s[k][2]
    BY <1>5, <2>3, <2>5
  <2> QED BY <1>1, <1>6, <2>2, <2>3, <2>5, <2>6
<1>9. n \in 0 .. n
  BY <1>1
<1> QED BY <1>2, <1>8, <1>9

(* What pieces are. *)
LEMMA Pieces ==
  ASSUME NEW s \in Seq(Piece)
  PROVE  /\ Len(s) \in Nat
         /\ \A i \in 1 .. Len(s) :
              /\ s[i] \in Piece
              /\ s[i][2] \in Nat /\ s[i][3] \in Nat /\ s[i][2] < s[i][3]
<1>1. Len(s) \in Nat /\ \A i \in 1 .. Len(s) : s[i] \in Piece
  BY LenProperties, ElementOfSeq
<1> QED BY <1>1 DEF Piece

(* Pieces have a sum, and it is a number.                                  *)
LEMMA BytesNat ==
  ASSUME NEW s \in Seq(Piece)
  PROVE  /\ Bytes(s) \in Nat
         /\ \E g :
              /\ Sums(g, [i \in 1 .. Len(s) |-> s[i][3] - s[i][2]], Len(s))
              /\ g[Len(s)] = Bytes(s)
<1> DEFINE n == Len(s)
           f == [i \in 1 .. n |-> s[i][3] - s[i][2]]
<1>1. n \in Nat /\ f \in [1 .. n -> Int] /\ \A i \in 1 .. n : f[i] > 0
  BY Pieces
<1>2. PICK g : Sums(g, f, n)
  <2> HIDE DEF f, n
  <2> QED BY <1>1, SumsExist
<1>3. Bytes(s) = g[n]
  BY <1>2, BytesIsSum
<1> HIDE DEF f, n
<1>4. /\ g \in [0 .. n -> Int] /\ g[0] = 0
      /\ \A i \in 1 .. n : g[i] = g[i - 1] + f[i]
  BY <1>2 DEF Sums
<1> DEFINE T == {k \in 0 .. n : g[k] < 0}
<1>5. T = {}
  <2>1. SUFFICES ASSUME T # {} PROVE FALSE
    OBVIOUS
  <2>2. PICK k \in T : \A y \in T : k <= y
    <3>1. T \subseteq Nat
      OBVIOUS
    <3> HIDE DEF T
    <3> QED BY <2>1, <3>1, LeastNumber
  <2>3. k \in 1 .. n
    BY <1>1, <1>4, <2>2
  <2>4. k - 1 \in 0 .. n /\ k - 1 \notin T
    BY <1>1, <2>2, <2>3
  <2>5. g[k - 1] >= 0 /\ g[k - 1] \in Int /\ f[k] > 0 /\ f[k] \in Int
    BY <1>1, <1>4, <2>3, <2>4
  <2> QED BY <1>4, <2>2, <2>3, <2>5
<1>6. g[n] \in Nat
  <2>1. n \in 0 .. n
    BY <1>1
  <2> QED BY <1>4, <1>5, <2>1
<1> QED BY <1>2, <1>3, <1>6 DEF f, n

(* The sums of two runs of pieces add up.                                  *)
LEMMA BytesConcat ==
  ASSUME NEW a \in Seq(Piece), NEW b \in Seq(Piece)
  PROVE  /\ a \o b \in Seq(Piece)
         /\ Bytes(a \o b) = Bytes(a) + Bytes(b)
<1> DEFINE c == a \o b
           F(s) == [i \in 1 .. Len(s) |-> s[i][3] - s[i][2]]
<1>1. /\ c \in Seq(Piece) /\ Len(c) = Len(a) + Len(b)
      /\ \A i \in 1 .. (Len(a) + Len(b)) :
           c[i] = IF i <= Len(a) THEN a[i] ELSE b[i - Len(a)]
  BY ConcatProperties
<1>2. Len(a) \in Nat /\ Len(b) \in Nat
  BY LenProperties
<1>3. PICK g : Sums(g, F(a), Len(a)) /\ g[Len(a)] = Bytes(a)
  BY BytesNat
<1>4. PICK h : Sums(h, F(b), Len(b)) /\ h[Len(b)] = Bytes(b)
  BY BytesNat
<1> DEFINE k == [i \in 0 .. Len(c) |->
                   IF i <= Len(a) THEN g[i] ELSE Bytes(a) + h[i - Len(a)]]
<1> HIDE DEF c
<1>5. /\ g \in [0 .. Len(a) -> Int] /\ g[0] = 0
      /\ \A i \in 1 .. Len(a) : g[i] = g[i - 1] + F(a)[i]
  BY <1>3 DEF Sums
<1>6. /\ h \in [0 .. Len(b) -> Int] /\ h[0] = 0
      /\ \A i \in 1 .. Len(b) : h[i] = h[i - 1] + F(b)[i]
  BY <1>4 DEF Sums
<1>7. Bytes(a) \in Int
  BY BytesNat
<1>8. k \in [0 .. Len(c) -> Int] /\ k[0] = 0
  <2>1. ASSUME NEW i \in 0 .. Len(c) PROVE k[i] \in Int
    <3>1. CASE i <= Len(a)
      <4>1. i \in 0 .. Len(a) /\ k[i] = g[i]
        BY <1>1, <1>2, <3>1
      <4> HIDE DEF k
      <4> QED BY <1>5, <4>1
    <3>2. CASE ~(i <= Len(a))
      <4>1. i - Len(a) \in 0 .. Len(b)
        BY <1>1, <1>2, <3>2
      <4>2. h[i - Len(a)] \in Int
        BY <1>6, <4>1
      <4> QED BY <1>7, <3>2, <4>2
    <3> QED BY <3>1, <3>2
  <2> QED BY <1>1, <1>2, <1>5, <2>1
<1>9. ASSUME NEW i \in 1 .. Len(c) PROVE k[i] = k[i - 1] + F(c)[i]
  <2>1. F(c)[i] = c[i][3] - c[i][2]
    OBVIOUS
  <2>2. CASE i <= Len(a)
    <3>1. F(c)[i] = F(a)[i] /\ i \in 1 .. Len(a)
      BY <1>1, <1>2, <2>1, <2>2
    <3>2. k[i] = g[i] /\ k[i - 1] = g[i - 1]
      BY <1>1, <1>2, <2>2
    <3> HIDE DEF F, k
    <3> QED BY <1>5, <3>1, <3>2
  <2>3. CASE ~(i <= Len(a))
    <3>1. i - Len(a) \in 1 .. Len(b)
      BY <1>1, <1>2, <2>3
    <3>2. F(c)[i] = F(b)[i - Len(a)]
      BY <1>1, <1>2, <2>1, <2>3, <3>1
    <3>3. k[i] = Bytes(a) + h[i - Len(a)]
      BY <2>3
    <3>4. k[i - 1] = Bytes(a) + h[i - Len(a) - 1]
      <4>1. CASE i - 1 <= Len(a)
        <5>1. i - 1 = Len(a) /\ i - Len(a) - 1 = 0 /\ i - 1 \in 0 .. Len(c)
          BY <1>1, <1>2, <2>3, <4>1
        <5>2. k[i - 1] = g[Len(a)]
          BY <4>1, <5>1
        <5> HIDE DEF k
        <5> QED BY <1>3, <1>6, <1>7, <5>1, <5>2
      <4>2. CASE ~(i - 1 <= Len(a))
        <5>1. i - 1 \in 0 .. Len(c) /\ (i - 1) - Len(a) = i - Len(a) - 1
          BY <1>1, <1>2
        <5> QED BY <4>2, <5>1
      <4> QED BY <4>1, <4>2
    <3>5. h[i - Len(a)] = h[i - Len(a) - 1] + F(b)[i - Len(a)]
      <4> DEFINE j == i - Len(a)
      <4> HIDE DEF j, F
      <4>1. h[j] = h[j - 1] + F(b)[j]
        BY <1>6, <3>1 DEF j
      <4> QED BY <4>1 DEF j
    <3>6. h[i - Len(a) - 1] \in Int /\ F(b)[i - Len(a)] \in Int
      <4>1. i - Len(a) - 1 \in 0 .. Len(b)
        BY <1>2, <3>1
      <4> DEFINE j == i - Len(a)
      <4>2. j \in 1 .. Len(b)
        BY <3>1
      <4> HIDE DEF j
      <4>3. F(b)[j] \in Int
        <5>1. b[j][2] \in Nat /\ b[j][3] \in Nat
          BY <4>2, Pieces
        <5> QED BY <4>2, <5>1
      <4> HIDE DEF F
      <4> QED BY <1>6, <4>1, <4>3 DEF j
    <3> HIDE DEF k, F
    <3> QED BY <1>7, <3>2, <3>3, <3>4, <3>5, <3>6
  <2> QED BY <2>2, <2>3
<1>10. Sums(k, F(c), Len(c))
  BY <1>8, <1>9 DEF Sums
<1>11. Bytes(c) = k[Len(c)]
  BY <1>1, <1>10, BytesIsSum
<1>12. k[Len(c)] = Bytes(a) + Bytes(b)
  <2>1. CASE Len(b) = 0
    BY <1>1, <1>2, <1>3, <1>4, <1>6, <1>7, <2>1
  <2>2. CASE Len(b) # 0
    <3>1. /\ Len(c) - Len(a) = Len(b) /\ ~(Len(c) <= Len(a))
          /\ Len(c) \in 0 .. Len(c)
      BY <1>1, <1>2, <2>2
    <3> QED BY <1>4, <3>1
  <2> QED BY <2>1, <2>2
<1> QED BY <1>1, <1>11, <1>12 DEF c

(* A stretch is as long as its pieces. *)
LEMMA StretchBytes ==
  ASSUME NEW q \in Seq(Piece), NEW t, NEW from \in Nat, NEW to,
         Stretch(q, t, from, to)
  PROVE  to = from + Bytes(q) /\ to \in Nat
<1> DEFINE n == Len(q)
           f == [i \in 1 .. n |-> q[i][3] - q[i][2]]
           g == [i \in 0 .. n |-> IF i = 0 THEN 0 ELSE q[i][3] - from]
<1>1. n \in Nat /\ \A i \in 1 .. n : q[i][2] \in Nat /\ q[i][3] \in Nat
  BY Pieces
<1>2. /\ \A i \in 1 .. n : q[i][2] = IF i = 1 THEN from ELSE q[i - 1][3]
      /\ to = IF n = 0 THEN from ELSE q[n][3]
  BY DEF Stretch
<1>3. g \in [0 .. n -> Int] /\ g[0] = 0
  BY <1>1
<1>4. ASSUME NEW i \in 1 .. n PROVE g[i] = g[i - 1] + f[i]
  <2>1. CASE i = 1
    BY <1>1, <1>2, <2>1
  <2>2. CASE i # 1
    <3>1. i - 1 \in 1 .. n
      BY <1>1, <2>2
    <3>2. q[i][2] = q[i - 1][3] /\ q[i - 1][3] \in Nat /\ q[i][3] \in Nat
      BY <1>1, <1>2, <2>2, <3>1
    <3> QED BY <3>1, <3>2
  <2> QED BY <2>1, <2>2
<1>5. Sums(g, f, n)
  BY <1>3, <1>4 DEF Sums
<1>6. Bytes(q) = g[n]
  BY <1>5, BytesIsSum
<1>7. n = 0 \/ n \in 1 .. n
  BY <1>1
<1> QED BY <1>1, <1>2, <1>6, <1>7

(* No piece is a stretch of no bytes. *)
LEMMA StretchEmpty ==
  /\ <<>> \in Seq(Piece)
  /\ \A t, from : Stretch(<<>>, t, from, from)
  /\ Bytes(<<>>) = 0
<1>1. <<>> \in Seq(Piece) /\ Len(<<>>) = 0
  BY EmptySeq
<1>2. \A t, from : Stretch(<<>>, t, from, from)
  BY <1>1 DEF Stretch
<1>3. 0 = 0 + Bytes(<<>>) /\ Bytes(<<>>) \in Nat
  BY <1>1, <1>2, StretchBytes, BytesNat
<1> QED BY <1>1, <1>2, <1>3

(* The next line makes a stretch longer. *)
LEMMA StretchAppend ==
  ASSUME NEW q \in Seq(Piece), NEW t, NEW from, NEW to, NEW end,
         Stretch(q, t, from, to)
  PROVE  Stretch(Append(q, <<t, to, end>>), t, from, end)
<1> DEFINE p == <<t, to, end>>
           a == Append(q, p)
<1>1. /\ Len(q) \in Nat /\ Len(a) = Len(q) + 1
      /\ \A i \in 1 .. Len(q) : a[i] = q[i]
      /\ a[Len(q) + 1] = p
  <2>1. q \in Seq(Piece \cup {p}) /\ p \in Piece \cup {p}
    OBVIOUS
  <2> HIDE DEF p
  <2> QED BY <2>1, AppendProperties, LenProperties
<1>2. p[1] = t /\ p[2] = to /\ p[3] = end
  OBVIOUS
<1> HIDE DEF a, p
<1>3. ASSUME NEW i \in 1 .. Len(a)
      PROVE  a[i][1] = t /\ a[i][2] = IF i = 1 THEN from ELSE a[i - 1][3]
  <2>1. CASE i = Len(q) + 1
    <3>1. i = 1 => to = from
      BY <1>1, <2>1 DEF Stretch
    <3>2. i # 1 => i - 1 = Len(q) /\ i - 1 \in 1 .. Len(q)
      BY <1>1, <2>1
    <3>3. i # 1 => to = q[i - 1][3]
      BY <1>1, <2>1, <3>2 DEF Stretch
    <3>4. i # 1 => a[i - 1] = q[i - 1]
      BY <1>1, <3>2
    <3> QED BY <1>1, <1>2, <2>1, <3>1, <3>3, <3>4
  <2>2. CASE i # Len(q) + 1
    <3>1. i \in 1 .. Len(q) /\ (i # 1 => i - 1 \in 1 .. Len(q))
      BY <1>1, <2>2
    <3>2. a[i] = q[i] /\ (i # 1 => a[i - 1] = q[i - 1])
      BY <1>1, <3>1
    <3> QED BY <3>1, <3>2 DEF Stretch
  <2> QED BY <2>1, <2>2
<1>4. end = IF Len(a) = 0 THEN from ELSE a[Len(a)][3]
  BY <1>1, <1>2
<1> QED BY <1>3, <1>4 DEF Stretch, a, p

(* Two stretches, one where the other ends, are one. *)
LEMMA StretchConcat ==
  ASSUME NEW a \in Seq(Piece), NEW b \in Seq(Piece), NEW t, NEW from,
         NEW mid, NEW to, Stretch(a, t, from, mid), Stretch(b, t, mid, to)
  PROVE  Stretch(a \o b, t, from, to)
<1> DEFINE c == a \o b
<1>1. /\ Len(c) = Len(a) + Len(b)
      /\ \A i \in 1 .. (Len(a) + Len(b)) :
           c[i] = IF i <= Len(a) THEN a[i] ELSE b[i - Len(a)]
  BY ConcatProperties
<1>2. Len(a) \in Nat /\ Len(b) \in Nat
  BY LenProperties
<1> HIDE DEF c
<1>3. ASSUME NEW i \in 1 .. Len(c)
      PROVE  c[i][1] = t /\ c[i][2] = IF i = 1 THEN from ELSE c[i - 1][3]
  <2>1. CASE i <= Len(a)
    <3>1. i \in 1 .. Len(a) /\ (i # 1 => i - 1 \in 1 .. Len(a))
      BY <1>2, <2>1
    <3>2. c[i] = a[i] /\ (i # 1 => c[i - 1] = a[i - 1])
      BY <1>1, <1>2, <3>1
    <3> QED BY <3>1, <3>2 DEF Stretch
  <2>2. CASE ~(i <= Len(a))
    <3> DEFINE j == i - Len(a)
    <3>1. j \in 1 .. Len(b) /\ c[i] = b[j]
      BY <1>1, <1>2, <2>2
    <3>2. b[j][1] = t /\ b[j][2] = IF j = 1 THEN mid ELSE b[j - 1][3]
      BY <3>1 DEF Stretch
    <3>3. CASE j = 1
      <4>1. i = Len(a) + 1
        BY <1>2, <3>3
      <4>2. mid = IF i = 1 THEN from ELSE c[i - 1][3]
        <5>1. i = 1 => Len(a) = 0
          BY <1>2, <4>1
        <5>2. i # 1 => c[i - 1] = a[Len(a)] /\ Len(a) # 0
          BY <1>1, <1>2, <4>1
        <5> QED BY <5>1, <5>2 DEF Stretch
      <4> HIDE DEF j
      <4> QED BY <3>1, <3>2, <3>3, <4>2
    <3>4. CASE j # 1
      <4>1. i # 1 /\ c[i - 1] = b[j - 1]
        <5>1. i - 1 \in 1 .. (Len(a) + Len(b)) /\ ~(i - 1 <= Len(a))
          BY <1>1, <1>2, <3>1, <3>4
        <5>2. (i - 1) - Len(a) = j - 1 /\ i # 1
          BY <1>2, <5>1
        <5> QED BY <1>1, <5>1, <5>2
      <4> HIDE DEF j
      <4> QED BY <3>1, <3>2, <3>4, <4>1
    <3> QED BY <3>3, <3>4
  <2> QED BY <2>1, <2>2
<1>4. to = IF Len(c) = 0 THEN from ELSE c[Len(c)][3]
  <2>1. CASE Len(b) = 0
    <3>1. Len(c) = Len(a) /\ (Len(a) # 0 => c[Len(c)] = a[Len(a)])
      BY <1>1, <1>2, <2>1
    <3> QED BY <2>1, <3>1 DEF Stretch
  <2>2. CASE Len(b) # 0
    <3>1. Len(c) # 0 /\ c[Len(c)] = b[Len(b)]
      <4>1. Len(c) \in 1 .. (Len(a) + Len(b)) /\ ~(Len(c) <= Len(a))
        BY <1>1, <1>2, <2>2
      <4>2. Len(c) - Len(a) = Len(b)
        BY <1>1, <1>2
      <4> QED BY <1>1, <4>1, <4>2
    <3> QED BY <2>2, <3>1 DEF Stretch
  <2> QED BY <2>1, <2>2
<1> QED BY <1>3, <1>4 DEF Stretch, c

-----------------------------------------------------------------------------
(* A version of a file: where its lines end, and its size.                 *)
LEMMA VersionSize ==
  ASSUME NEW v \in Versions
  PROVE  /\ v.text \in Texts /\ v.ends \subseteq Nat \ {0}
         /\ Size(v.ends) \in Nat
         /\ \A e \in v.ends : e <= Size(v.ends)
         /\ Size(v.ends) # 0 => Size(v.ends) \in v.ends
<1>1. PICK t \in Texts : v = [text |-> t, ends |-> Lines[t]]
  BY DEF Versions
<1>2. v.text = t /\ v.ends = Lines[t]
  BY <1>1
<1> DEFINE S == Lines[t] \cup {0}
<1>3. Lines[t] \subseteq Nat \ {0}
  BY FileServerAssumption
<1>4. S \subseteq Nat /\ \E x \in S : \A y \in S : x >= y
  BY <1>3, FileServerAssumption
<1>5. Max(S) \in S /\ \A y \in S : Max(S) >= y
  BY <1>4 DEF Max
<1>6. Size(Lines[t]) = Max(S)
  BY DEF Size
<1> QED BY <1>2, <1>3, <1>4, <1>5, <1>6

(* The next line, if there is one. *)
LEMMA NextLine ==
  ASSUME NEW v \in Versions, NEW p \in Nat,
         {e \in v.ends : e > p} # {}
  PROVE  LET end == Min({e \in v.ends : e > p})
         IN  /\ end \in v.ends /\ end \in Nat /\ end > p
             /\ \A e \in v.ends : e > p => end <= e
<1> DEFINE T == {e \in v.ends : e > p}
<1>1. T \subseteq Nat /\ v.ends \subseteq Nat
  BY VersionSize
<1>2. \E x \in T : \A y \in T : x <= y
  <2>1. T # {}
    OBVIOUS
  <2> HIDE DEF T
  <2> QED BY <1>1, <2>1, LeastNumber
<1>3. Min(T) \in T /\ \A y \in T : Min(T) <= y
  BY <1>2 DEF Min
<1> QED BY <1>1, <1>3

(***************************************************************************)
(* What a step leaves alone.  A connection whose own state is kept is fine *)
(* also when its client leaves or its file is replaced: a disturbed        *)
(* download promises less.                                                 *)
(***************************************************************************)
Same(d) ==
  /\ setup' = setup
  /\ gone \subseteq gone' /\ disturbed \subseteq disturbed'
  /\ req'[d] = req[d] /\ reply'[d] = reply[d] /\ phase'[d] = phase[d]
  /\ d \in ToSet(queue') => d \in ToSet(queue)
  /\ Getting(d) =>
       /\ files'[Ask(d).name] \in Versions
       /\ files'[Ask(d).name] = Source(d) \/ d \in disturbed'

(* Such a connection keeps its part of the invariant. *)
LEMMA ConnKept ==
  ASSUME NEW d, Conn(d), Same(d)
  PROVE  Conn(d)'
<1>1. /\ Getting(d)' <=> Getting(d)
      /\ Received(d)' = Received(d)
      /\ Source(d)' = files'[Ask(d).name]
      /\ Undisturbed(d)' => Undisturbed(d)
      /\ d \in Gets' <=> d \in Gets
      /\ d \notin gone' => d \notin gone
  BY DEF Same, Getting, Received, Source, Undisturbed, Gets, Ask
<1>2. req'[d] = req[d] /\ reply'[d] = reply[d] /\ phase'[d] = phase[d]
  BY DEF Same
<1>3. ASSUME Getting(d) PROVE Download(d)'
  <2>1. Download(d)
    BY <1>3 DEF Conn
  <2>2. Undisturbed(d)' => Source(d)' = Source(d)
    BY <1>1, <1>3 DEF Same, Undisturbed
  <2>3. Source(d)' \in Versions
    BY <1>1, <1>3 DEF Same
  <2>4. d \in ToSet(queue') => d \in ToSet(queue)
    BY DEF Same
  <2> QED BY <1>1, <1>2, <2>1, <2>2, <2>3, <2>4 DEF Download
<1>4. Exact(d) => Exact(d)'
  BY <1>1, <1>2 DEF Exact
<1> QED BY <1>1, <1>2, <1>3, <1>4 DEF Conn

(* So does a worker whose connection is such a one. *)
LEMMA RoundKept ==
  ASSUME Inv, NEW v \in Workers, GetRound(v), call'[v] = call[v],
         Busy(v) => Same(call[v].conn)
  PROVE  GetRound(v)'
<1> DEFINE d == call[v].conn
<1>1. SUFFICES ASSUME Busy(v), Ask(d).op = "GET", setup' = setup
               PROVE  Reading(v)' /\ (Undisturbed(d)' => Steady(v)')
  BY DEF GetRound, Busy, Ask, Undisturbed, Same
<1>2. Same(d) /\ Getting(d)
  BY <1>1, Holder DEF Getting
<1>3. /\ Received(d)' = Received(d) /\ req'[d] = req[d]
      /\ d \notin gone' => d \notin gone
      /\ Undisturbed(d)' => Undisturbed(d) /\ Source(d)' = Source(d)
  BY <1>2 DEF Same, Received, Source, Undisturbed, Ask
<1>4. Reading(v) /\ (Undisturbed(d) => Steady(v))
  BY <1>1 DEF GetRound
<1>5. Reading(v)'
  BY <1>3, <1>4 DEF Reading
<1>6. Undisturbed(d)' => Steady(v)'
  BY <1>3, <1>4 DEF Steady
<1> QED BY <1>5, <1>6

(* A step of worker w on connection c. *)
LEMMA GetInvStep ==
  ASSUME Inv, GetInv, NEW w \in Workers, NEW c \in Conns,
         \A d \in Conns : d # c => Same(d),
         \A v \in Workers : v # w =>
           call'[v] = call[v] /\ ~(Busy(v) /\ call[v].conn = c),
         Stock', Conn(c)', GetRound(w)'
  PROVE  GetInv'
<1>1. ASSUME NEW d \in Conns PROVE Conn(d)'
  BY ConnKept DEF GetInv
<1>2. ASSUME NEW v \in Workers, v # w PROVE GetRound(v)'
  <2>1. Busy(v) => Same(call[v].conn)
    BY <1>2, Holder
  <2>2. GetRound(v) /\ call'[v] = call[v]
    BY <1>2 DEF GetInv
  <2> QED BY <2>1, <2>2, RoundKept
<1> QED BY <1>1, <1>2 DEF GetInv

(* What is known of a worker in a round of a download. *)
LEMMA InRound ==
  ASSUME Inv, GetInv, NEW w \in Workers, Busy(w),
         Ask(call[w].conn).op = "GET"
  PROVE  LET c == call[w].conn
         IN  /\ c \in Conns /\ Getting(c) /\ c \notin ToSet(queue)
             /\ DOMAIN req[c] = ReqFields /\ DOMAIN call[w] = CallFields
             /\ DOMAIN reply[c] = {"oks", "body", "err"}
             /\ DOMAIN call = Workers /\ DOMAIN req = Conns
             /\ DOMAIN reply = Conns
             /\ reply[c].body \in Seq(Piece) /\ Conn(c) /\ Download(c)
             /\ Reading(w) /\ (Undisturbed(c) => Steady(w))
<1> DEFINE c == call[w].conn
<1>1. /\ c \in Conns /\ phase[c] = "open" /\ c \notin ToSet(queue)
      /\ DOMAIN req[c] = ReqFields /\ DOMAIN call[w] = CallFields
  BY Holder
<1>2. /\ DOMAIN call = Workers /\ DOMAIN req = Conns
      /\ DOMAIN reply = Conns /\ DOMAIN reply[c] = {"oks", "body", "err"}
  BY <1>1 DEF Inv, Shape
<1>3. Getting(c)
  BY <1>1 DEF Getting
<1>4. Conn(c) /\ GetRound(w)
  BY <1>1 DEF GetInv
<1> QED BY <1>1, <1>2, <1>3, <1>4 DEF Conn, GetRound

(* A step inside a download touches its own connection only; what remains  *)
(* is that connection and that worker.                                     *)
LEMMA InRoundStep ==
  ASSUME Inv, GetInv, NEW w \in Workers, NEW c \in Conns,
         GetStep(w), c = call[w].conn, UNCHANGED <<gone, disturbed>>,
         Conn(c)', GetRound(w)'
  PROVE  GetInv'
<1>1. Busy(w)
  BY DEF GetStep, Busy
<1>2. \A v \in Workers : v # w => ~(Busy(v) /\ call[v].conn = c)
  BY <1>1, Holder
<1>3. UNCHANGED <<setup, files, phase, queue>>
  BY DEF GetStep
<1>4. ASSUME NEW d \in Conns, d # c PROVE Same(d)
  <2>1. req'[d] = req[d] /\ reply'[d] = reply[d]
    BY <1>4 DEF GetStep
  <2>2. Getting(d) => Source(d) \in Versions
    BY DEF GetInv, Conn, Download
  <2> QED BY <1>3, <2>1, <2>2 DEF Same, Source, Ask
<1>5. Stock'
  BY <1>3 DEF GetInv, Stock
<1>6. \A v \in Workers : v # w =>
        call'[v] = call[v] /\ ~(Busy(v) /\ call[v].conn = c)
  BY <1>2 DEF GetStep
<1> QED BY <1>4, <1>5, <1>6, GetInvStep

(* serve_get starts a round: the header on the first one only.             *)
LEMMA ServeGetInv ==
  ASSUME Inv, GetInv, NEW w \in Workers, ServeGet(w)
  PROVE  GetInv'
<1>1. PICK c : c = call[w].conn
  OBVIOUS
<1>2. call[w].pc = "serve" /\ Ask(c).op = "GET" /\ Busy(w)
  BY <1>1 DEF ServeGet, At, Busy
<1>3. /\ c \in Conns /\ Getting(c) /\ c \notin ToSet(queue)
      /\ DOMAIN req[c] = ReqFields /\ DOMAIN call[w] = CallFields
      /\ DOMAIN reply[c] = {"oks", "body", "err"}
      /\ DOMAIN call = Workers /\ DOMAIN req = Conns /\ DOMAIN reply = Conns
      /\ reply[c].body \in Seq(Piece) /\ Conn(c) /\ Download(c)
      /\ Reading(w) /\ (Undisturbed(c) => Steady(w))
  BY <1>1, <1>2, InRound
<1>4. GetStep(w)
  BY GetSteps
<1>5. UNCHANGED <<gone, disturbed, setup, files, phase, queue>>
  BY DEF ServeGet, around, disk, books
<1> DEFINE remaining == Remaining(req[c].total, req[c].offset)
<1>6. /\ reply' = [reply EXCEPT ![c] = IF req[c].headed THEN reply[c]
                                       ELSE SendOk(c, req[c].total)]
      /\ req' = [req EXCEPT ![c].headed = TRUE]
  BY <1>1 DEF ServeGet
<1>7. call' = IF remaining = 0 \/ call[w].budget = 0
                THEN [call EXCEPT ![w].pc = "served"]
              ELSE IF call[w].budget >= remaining
                THEN [call EXCEPT ![w].pc = "send", ![w].left = remaining]
              ELSE [call EXCEPT ![w].pc = "select"]
  BY <1>1 DEF ServeGet
<1>8. /\ req'[c].total = req[c].total /\ req'[c].offset = req[c].offset
      /\ req'[c].headed = TRUE
  BY <1>3, <1>6 DEF ReqFields
<1>9. /\ reply'[c].body = reply[c].body
      /\ c \notin gone => reply'[c].oks = <<req[c].total>>
  <2>1. c \notin gone =>
          reply[c].oks = IF req[c].headed THEN <<req[c].total>> ELSE <<>>
    BY <1>3 DEF Download
  <2>2. req[c].headed \in BOOLEAN
    BY <1>3 DEF Download
  <2>3. /\ SendOk(c, req[c].total).body = reply[c].body
        /\ c \notin gone => SendOk(c, req[c].total).oks
                              = Append(reply[c].oks, req[c].total)
    BY <1>3 DEF SendOk
  <2>4. Append(<<>>, req[c].total) = <<req[c].total>>
    OBVIOUS
  <2>5. reply'[c] = IF req[c].headed THEN reply[c]
                    ELSE SendOk(c, req[c].total)
    BY <1>3, <1>6
  <2> QED BY <2>1, <2>2, <2>3, <2>4, <2>5
<1>10. /\ Received(c)' = Received(c) /\ Source(c)' = Source(c)
       /\ Undisturbed(c)' = Undisturbed(c) /\ (Getting(c)' <=> Getting(c))
  BY <1>5, <1>9 DEF Received, Source, Undisturbed, Getting, Ask
<1>11. Conn(c)'
  <2>1. Download(c)'
    BY <1>3, <1>5, <1>8, <1>9, <1>10 DEF Download
  <2> QED BY <1>3, <1>5, <1>9, <2>1 DEF Conn, Getting
<1>12. /\ call'[w].conn = c /\ call'[w].at = call[w].at
       /\ call'[w].round = call[w].round /\ call'[w].sent = call[w].sent
       /\ call'[w].packet = call[w].packet /\ call'[w].eof = call[w].eof
       /\ \/ call'[w].pc \in {"served", "select"}
          \/ /\ call'[w].pc = "send" /\ call'[w].left = remaining
             /\ remaining # 0
  <2> HIDE DEF remaining
  <2> QED BY <1>1, <1>3, <1>7 DEF CallFields
<1>13. /\ call[w].at = req[c].offset /\ call[w].sent = 0
       /\ call[w].packet = <<>> /\ call[w].round = 0 /\ ~call[w].eof
       /\ req[c].offset \in Nat /\ req[c].total \in Nat
       /\ req[c].offset <= req[c].total
  BY <1>1, <1>2, <1>3 DEF Reading, Download
<1> HIDE DEF remaining
<1>14. Reading(w)'
  BY <1>1, <1>2, <1>3, <1>5, <1>8, <1>10, <1>12 DEF Reading
<1>15. ASSUME Undisturbed(c)' PROVE Steady(w)'
  <2>1. /\ Source(c) \in Versions /\ req[c].total = Size(Source(c).ends)
    BY <1>3, <1>10, <1>15 DEF Download
  <2>2. remaining # 0 =>
          /\ remaining \in Nat \ {0}
          /\ req[c].offset + remaining \in Source(c).ends
    <3>1. remaining # 0 => /\ remaining \in Nat \ {0} /\ req[c].total # 0
                           /\ req[c].offset + remaining = req[c].total
      BY <1>13 DEF Remaining, remaining
    <3> QED BY <2>1, <3>1, VersionSize
  <2>3. Stretch(<<>>, Source(c).text, req[c].offset + 0, req[c].offset)
    BY <1>13, StretchEmpty
  <2> QED BY <1>8, <1>10, <1>12, <1>13, <2>2, <2>3 DEF Steady
<1>16. GetRound(w)'
  BY <1>12, <1>14, <1>15 DEF GetRound
<1> QED BY <1>1, <1>3, <1>4, <1>5, <1>11, <1>16, InRoundStep

(* The selection loop: what it has chosen ends at a line end, and sending  *)
(* starts over from the offset.                                            *)
LEMMA SelectLineInv ==
  ASSUME Inv, GetInv, NEW w \in Workers, SelectLine(w)
  PROVE  GetInv'
<1>1. PICK c : c = call[w].conn
  OBVIOUS
<1>2. call[w].pc = "select" /\ Ask(c).op = "GET" /\ Busy(w) /\ ~call[w].eof
  BY <1>1 DEF SelectLine, At, Busy
<1>3. /\ c \in Conns /\ Getting(c) /\ c \notin ToSet(queue)
      /\ DOMAIN req[c] = ReqFields /\ DOMAIN call[w] = CallFields
      /\ DOMAIN call = Workers
      /\ Conn(c) /\ Download(c)
      /\ Reading(w) /\ (Undisturbed(c) => Steady(w))
  BY <1>1, <1>2, InRound
<1>4. GetStep(w)
  BY GetSteps
<1>5. UNCHANGED <<gone, disturbed, setup, files, phase, queue, req, reply>>
  BY DEF SelectLine, around, disk, books
<1>6. /\ Received(c)' = Received(c) /\ Source(c)' = Source(c)
      /\ Undisturbed(c)' = Undisturbed(c) /\ (Getting(c)' <=> Getting(c))
  BY <1>5 DEF Received, Source, Undisturbed, Getting, Ask
<1>7. Conn(c)'
  <2>1. Source(c) \in Versions
    BY <1>3 DEF Download
  <2>2. Same(c)
    BY <1>5, <2>1 DEF Same, Source
  <2> QED BY <1>3, <2>2, ConnKept
<1> DEFINE v == Source(c)
           at == call[w].at
           round == call[w].round
           end == LineEnd(w, at)
<1>8. /\ at \in Nat /\ round \in Nat /\ v \in Versions
      /\ req[c].offset \in Nat /\ call[w].sent = 0 /\ call[w].packet = <<>>
      /\ req[c].offset <= req[c].total
      /\ Rewound(w) = req[c].offset
  BY <1>1, <1>2, <1>3 DEF Reading, Download, Rewound
<1>9. EndsAfter(w, at) = {e \in v.ends : e > at} /\ Version(w) = v
  BY <1>1 DEF EndsAfter, Version, Source
<1>10. EndsAfter(w, at) # {} =>
         /\ end \in v.ends /\ end \in Nat /\ end > at
         /\ \A e \in v.ends : e > at => end <= e
  BY <1>8, <1>9, NextLine DEF LineEnd
<1>11. \/ \E r : /\ call' = Select(w, r)
                 /\ \/ r = round \/ r = 0
                    \/ EndsAfter(w, at) # {} /\ r = end - at /\ round = 0
                    \/ EndsAfter(w, at) # {} /\ r = round + (end - at)
       \/ /\ EndsAfter(w, at) # {}
          /\ call' = [call EXCEPT ![w].round = round + (end - at),
                                  ![w].at = end,
                                  ![w].eof = HitsEof(w, end)]
  <2> HIDE DEF at, round, end
  <2> QED BY DEF SelectLine, Overrun, at, round, end
<1> HIDE DEF v, at, round, end
<1>12. CASE \E r : /\ call' = Select(w, r)
                   /\ \/ r = round \/ r = 0
                      \/ EndsAfter(w, at) # {} /\ r = end - at /\ round = 0
                      \/ EndsAfter(w, at) # {} /\ r = round + (end - at)
  <2>1. PICK r : /\ call' = Select(w, r)
                 /\ \/ r = round \/ r = 0
                    \/ EndsAfter(w, at) # {} /\ r = end - at /\ round = 0
                    \/ EndsAfter(w, at) # {} /\ r = round + (end - at)
    BY <1>12
  <2>2. r \in Nat
    BY <1>8, <1>10, <2>1
  <2>3. /\ call'[w].conn = c /\ call'[w].eof = call[w].eof
        /\ call'[w].round = round /\ call'[w].sent = call[w].sent
        /\ call'[w].packet = call[w].packet
        /\ \/ r = 0 /\ call'[w].pc = "served" /\ call'[w].at = at
           \/ /\ r # 0 /\ call'[w].pc = "send" /\ call'[w].left = r
              /\ call'[w].at = req[c].offset
    BY <1>1, <1>3, <1>8, <2>1 DEF Select, CallFields, at, round
  <2>4. Reading(w)'
    BY <1>1, <1>2, <1>3, <1>5, <1>6, <1>8, <2>3
       DEF Reading, at, round
  <2>5. ASSUME Undisturbed(c)' PROVE Steady(w)'
    <3>1. /\ at = req[c].offset + round
          /\ round > 0 => at \in v.ends
      BY <1>1, <1>2, <1>3, <1>6, <2>5 DEF Steady, at, round, v
    <3>2. r # 0 => req[c].offset + r \in v.ends
      <4>1. CASE r = round
        BY <1>8, <3>1, <4>1
      <4>2. CASE /\ EndsAfter(w, at) # {}
                 /\ r = round + (end - at) \/ (r = end - at /\ round = 0)
        <5>1. end \in v.ends /\ end \in Nat
          BY <1>10, <4>2
        <5>2. req[c].offset + r = end
          <6>1. req[c].offset \in Nat /\ round \in Nat
            BY <1>8
          <6> QED BY <3>1, <4>2, <5>1, <6>1
        <5> QED BY <5>1, <5>2
      <4> QED BY <2>1, <4>1, <4>2
    <3>3. Stretch(<<>>, v.text, req[c].offset + 0, req[c].offset)
      BY <1>8, StretchEmpty
    <3>4. ~call'[w].eof
      BY <1>2, <2>3
    <3> QED BY <1>5, <1>6, <1>8, <2>2, <2>3, <3>2, <3>3, <3>4
            DEF Steady, v
  <2>6. GetRound(w)'
    BY <2>3, <2>4, <2>5 DEF GetRound
  <2> QED BY <1>1, <1>3, <1>4, <1>5, <1>7, <2>6, InRoundStep
<1>13. CASE /\ EndsAfter(w, at) # {}
            /\ call' = [call EXCEPT ![w].round = round + (end - at),
                                    ![w].at = end,
                                    ![w].eof = HitsEof(w, end)]
  <2>1. /\ call'[w].conn = c /\ call'[w].eof = HitsEof(w, end)
        /\ call'[w].round = round + (end - at)
        /\ call'[w].sent = call[w].sent /\ call'[w].packet = call[w].packet
        /\ call'[w].pc = "select" /\ call'[w].at = end
    BY <1>1, <1>2, <1>3, <1>13 DEF CallFields
  <2>2. /\ end \in v.ends /\ end \in Nat /\ end > at
    BY <1>10, <1>13
  <2>3. HitsEof(w, end) \in BOOLEAN
    BY DEF HitsEof
  <2>4. Reading(w)'
    BY <1>1, <1>2, <1>3, <1>5, <1>6, <1>8, <2>1, <2>2, <2>3 DEF Reading
  <2>5. ASSUME Undisturbed(c)' PROVE Steady(w)'
    <3>1. at = req[c].offset + round
      BY <1>1, <1>2, <1>3, <1>6, <2>5 DEF Steady, at, round
    <3>2. HitsEof(w, end) => end = Size(v.ends)
      BY <1>9 DEF HitsEof
    <3>3. end = req[c].offset + (round + (end - at))
      <4>1. req[c].offset \in Nat /\ round \in Nat /\ end \in Nat
        BY <1>8, <2>2
      <4> QED BY <3>1, <4>1
    <3> QED BY <1>5, <1>6, <2>1, <2>2, <3>2, <3>3 DEF Steady, v
  <2>6. GetRound(w)'
    BY <2>1, <2>4, <2>5 DEF GetRound
  <2> QED BY <1>1, <1>3, <1>4, <1>5, <1>7, <2>6, InRoundStep
<1> QED BY <1>11, <1>12, <1>13

(* A line without newline at the end of the file: the position is asked of *)
(* the directory again, and for an undisturbed download it is the same.    *)
LEMMA ResizeInv ==
  ASSUME Inv, GetInv, NEW w \in Workers, Resize(w)
  PROVE  GetInv'
<1>1. PICK c : c = call[w].conn
  OBVIOUS
<1>2. call[w].pc \in {"select", "send"} /\ Busy(w) /\ call[w].eof
  BY <1>1 DEF Resize, Busy
<1>3. /\ c \in Conns /\ phase[c] = "open" /\ DOMAIN call[w] = CallFields
      /\ DOMAIN call = Workers /\ Conn(c)
  BY <1>1, <1>2, Holder DEF Inv, Shape, GetInv
<1>4. GetStep(w)
  BY GetSteps
<1>5. UNCHANGED <<gone, disturbed, setup, files, phase, queue, req, reply>>
  BY DEF Resize, around, disk, books
<1>6. /\ Received(c)' = Received(c) /\ Source(c)' = Source(c)
      /\ Undisturbed(c)' = Undisturbed(c) /\ Ask(c)' = Ask(c)
  BY <1>5 DEF Received, Source, Undisturbed, Ask
<1>7. Conn(c)'
  <2>1. Getting(c) => Source(c) \in Versions
    BY <1>3 DEF Conn, Download
  <2>2. Same(c)
    BY <1>5, <2>1 DEF Same, Source
  <2> QED BY <1>3, <2>2, ConnKept
<1>8. call' = [call EXCEPT ![w].at = Size(Source(c).ends), ![w].eof = FALSE]
  BY <1>1 DEF Resize, Version, Source
<1>9. /\ call'[w].conn = c /\ call'[w].eof = FALSE
      /\ call'[w].round = call[w].round /\ call'[w].sent = call[w].sent
      /\ call'[w].packet = call[w].packet /\ call'[w].pc = call[w].pc
      /\ call'[w].at = Size(Source(c).ends) /\ call'[w].left = call[w].left
  BY <1>1, <1>3, <1>8 DEF CallFields
<1>10. ASSUME Ask(c).op = "GET"
       PROVE  Reading(w)' /\ (Undisturbed(c)' => Steady(w)')
  <2>1. Download(c) /\ Reading(w) /\ (Undisturbed(c) => Steady(w))
    BY <1>1, <1>2, <1>10, InRound
  <2>2. Size(Source(c).ends) \in Nat
    BY <2>1, VersionSize DEF Download
  <2>3. Reading(w)'
    BY <1>1, <1>2, <1>5, <1>6, <1>9, <2>1, <2>2 DEF Reading
  <2>4. Undisturbed(c)' => Steady(w)'
    BY <1>1, <1>2, <1>5, <1>6, <1>9, <2>1 DEF Steady
  <2> QED BY <2>3, <2>4
<1>11. GetRound(w)'
  BY <1>6, <1>9, <1>10 DEF GetRound
<1> QED BY <1>1, <1>3, <1>4, <1>5, <1>7, <1>11, InRoundStep

(* The round fails: not that of an undisturbed download, for its next line *)
(* is there and fits.                                                      *)
LEMMA SendFailsInv ==
  ASSUME Inv, GetInv, NEW w \in Workers, SendLineFails(w) \/ SendBreaks(w)
  PROVE  GetInv'
<1>1. PICK c : c = call[w].conn
  OBVIOUS
<1>2. call[w].pc = "send" /\ Ask(c).op = "GET" /\ Busy(w)
  BY <1>1 DEF SendLineFails, SendBreaks, Sending, At, Busy
<1>3. /\ c \in Conns /\ Getting(c) /\ c \notin ToSet(queue)
      /\ DOMAIN call[w] = CallFields
      /\ DOMAIN reply[c] = {"oks", "body", "err"}
      /\ DOMAIN call = Workers /\ DOMAIN reply = Conns
      /\ reply[c].body \in Seq(Piece) /\ Conn(c) /\ Download(c)
      /\ Reading(w) /\ (Undisturbed(c) => Steady(w))
  BY <1>1, <1>2, InRound
<1>4. GetStep(w)
  BY GetSteps
<1>5. /\ UNCHANGED <<gone, disturbed, setup, files, phase, queue, req>>
      /\ call' = [call EXCEPT ![w].pc = "failed"]
  BY DEF SendLineFails, SendBreaks, around, disk, books
<1>6. reply'[c].body = reply[c].body /\ reply'[c].oks = reply[c].oks
  <2>1. CASE SendLineFails(w)
    <3>1. /\ SendError(c).body = reply[c].body
          /\ SendError(c).oks = reply[c].oks
      BY <1>3 DEF SendError
    <3>2. reply' = [reply EXCEPT ![c] = SendError(c)]
      BY <1>1, <2>1 DEF SendLineFails
    <3> QED BY <1>3, <3>1, <3>2
  <2>2. CASE SendBreaks(w)
    BY <2>2 DEF SendBreaks
  <2> QED BY <2>1, <2>2
<1>7. /\ Received(c)' = Received(c) /\ Source(c)' = Source(c)
      /\ Undisturbed(c)' = Undisturbed(c) /\ (Getting(c)' <=> Getting(c))
  BY <1>5, <1>6 DEF Received, Source, Undisturbed, Getting, Ask
<1>8. Conn(c)'
  <2>1. Download(c)'
    BY <1>3, <1>5, <1>6, <1>7 DEF Download
  <2> QED BY <1>3, <1>5, <1>6, <2>1 DEF Conn, Getting
<1>9. ~Undisturbed(c)
  <2>1. CASE SendLineFails(w)
    <3>1. SUFFICES ASSUME Undisturbed(c) PROVE FALSE
      OBVIOUS
    <3>2. /\ call[w].left \in Nat \ {0}
          /\ call[w].at + call[w].left \in Source(c).ends
      BY <1>1, <1>2, <1>3, <3>1 DEF Steady
    <3>3. call[w].at \in Nat
      BY <1>3 DEF Reading
    <3> DEFINE e == call[w].at + call[w].left
    <3>4. e \in EndsAfter(w, call[w].at)
      BY <1>1, <3>2, <3>3 DEF EndsAfter, Version, Source
    <3>5. e - call[w].at > call[w].left
      BY <2>1, <3>4 DEF SendLineFails, ReadFails
    <3> QED BY <3>2, <3>3, <3>5
  <2>2. CASE SendBreaks(w)
    BY <1>1, <2>2 DEF SendBreaks, Undisturbed
  <2> QED BY <2>1, <2>2
<1>10. /\ call'[w].conn = c /\ call'[w].eof = call[w].eof
       /\ call'[w].round = call[w].round /\ call'[w].sent = call[w].sent
       /\ call'[w].packet = call[w].packet /\ call'[w].at = call[w].at
       /\ call'[w].pc = "failed"
  BY <1>1, <1>3, <1>5 DEF CallFields
<1>11. Reading(w)'
  BY <1>1, <1>2, <1>3, <1>5, <1>10 DEF Reading
<1>12. GetRound(w)'
  BY <1>7, <1>9, <1>10, <1>11 DEF GetRound
<1> QED BY <1>1, <1>3, <1>4, <1>5, <1>8, <1>12, InRoundStep

(* One more line into the packet, and a full packet out.                   *)
LEMMA SendLineInv ==
  ASSUME Inv, GetInv, NEW w \in Workers, SendLine(w)
  PROVE  GetInv'
<1>1. PICK c : c = call[w].conn
  OBVIOUS
<1>2. call[w].pc = "send" /\ Ask(c).op = "GET" /\ Busy(w)
  BY <1>1 DEF SendLine, Sending, At, Busy
<1>3. /\ c \in Conns /\ Getting(c) /\ c \notin ToSet(queue)
      /\ DOMAIN call[w] = CallFields
      /\ DOMAIN reply[c] = {"oks", "body", "err"}
      /\ DOMAIN call = Workers /\ DOMAIN reply = Conns
      /\ reply[c].body \in Seq(Piece) /\ Conn(c) /\ Download(c)
      /\ Reading(w) /\ (Undisturbed(c) => Steady(w))
  BY <1>1, <1>2, InRound
<1>4. GetStep(w)
  BY GetSteps
<1>5. UNCHANGED <<gone, disturbed, setup, files, phase, queue, req>>
  BY DEF SendLine, around, disk, books
<1> DEFINE v == Source(c)
           at == call[w].at
           end == LineEnd(w, at)
           left == LeftAfter(w)
           packet == Packet(w)
           full == PacketFull(w)
           body == IF full /\ c \notin gone THEN reply[c].body \o packet
                   ELSE reply[c].body
<1>6. /\ reply' = [reply EXCEPT ![c].body = body]
      /\ call' = [call EXCEPT
           ![w].at = end, ![w].left = left,
           ![w].eof = HitsEof(w, end) /\ left > 0,
           ![w].packet = IF full THEN <<>> ELSE packet,
           ![w].sent = IF full THEN call[w].sent + Bytes(packet)
                       ELSE call[w].sent,
           ![w].pc = IF left = 0 THEN "served" ELSE "send"]
  BY <1>1 DEF SendLine
<1>7. /\ at \in Nat /\ v \in Versions /\ call[w].packet \in Seq(Piece)
      /\ req[c].offset \in Nat /\ req[c].total \in Nat /\ call[w].sent \in Nat
      /\ c \notin gone => Received(c) = req[c].offset + call[w].sent
  BY <1>1, <1>2, <1>3 DEF Reading, Download
<1>8. EndsAfter(w, at) = {e \in v.ends : e > at} /\ Version(w) = v
  BY <1>1 DEF EndsAfter, Version, Source
<1>9. EndsAfter(w, at) # {}
  BY DEF SendLine, ReadFails
<1>10. /\ end \in v.ends /\ end \in Nat /\ end > at
       /\ \A e \in v.ends : e > at => end <= e
  BY <1>7, <1>8, <1>9, NextLine DEF LineEnd
<1>11. /\ packet = Append(call[w].packet, <<v.text, at, end>>)
       /\ packet \in Seq(Piece)
  <2>1. packet = Append(call[w].packet, <<v.text, at, end>>)
    BY <1>8 DEF Packet
  <2>2. v.text \in Texts
    BY <1>7, VersionSize
  <2> DEFINE p == <<v.text, at, end>>
  <2> HIDE DEF v, at, end
  <2>3. p \in Piece
    BY <1>7, <1>10, <2>2 DEF Piece
  <2> HIDE DEF p
  <2>4. packet = Append(call[w].packet, p)
    BY <2>1 DEF p
  <2>5. packet \in Seq(Piece)
    BY <1>7, <2>3, <2>4, AppendProperties
  <2> QED BY <2>1, <2>5
<1>12. left = call[w].left - (end - at) /\ (left = 0 => full)
  BY DEF LeftAfter, PacketFull
<1>13. Bytes(packet) \in Nat
  BY <1>11, BytesNat
<1>14. body \in Seq(Piece) /\ Bytes(reply[c].body \o packet)
                                 = Bytes(reply[c].body) + Bytes(packet)
  BY <1>3, <1>11, BytesConcat
<1>15. /\ call'[w].conn = c /\ call'[w].round = call[w].round
       /\ call'[w].at = end /\ call'[w].left = left
       /\ call'[w].eof = (HitsEof(w, end) /\ left > 0)
       /\ call'[w].packet = IF full THEN <<>> ELSE packet
       /\ call'[w].sent = IF full THEN call[w].sent + Bytes(packet)
                          ELSE call[w].sent
       /\ call'[w].pc = IF left = 0 THEN "served" ELSE "send"
  <2> HIDE DEF end, left, packet, full, body, at, v
  <2> QED BY <1>1, <1>3, <1>6 DEF CallFields
<1>16. reply'[c].body = body /\ reply'[c].oks = reply[c].oks
  <2> HIDE DEF body
  <2> QED BY <1>3, <1>6
<1> HIDE DEF v, at, end, left, packet, full
<1>17. c \notin gone => Received(c)' = req[c].offset + call'[w].sent
  <2>1. Received(c)' = Bytes(body) /\ Received(c) = Bytes(reply[c].body)
    BY <1>16 DEF Received
  <2> QED BY <1>7, <1>13, <1>14, <1>15, <2>1
<1>18. Source(c)' = v /\ Undisturbed(c)' = Undisturbed(c)
  BY <1>5 DEF Source, Undisturbed, Ask, v
<1>19. ASSUME Undisturbed(c)
       PROVE  /\ Stretch(body, v.text, 0, Received(c)')
              /\ call'[w].pc = "send" =>
                   Stretch(call'[w].packet, v.text,
                           req[c].offset + call'[w].sent, end)
              /\ end <= req[c].total /\ left \in Nat
              /\ left # 0 => end + left \in v.ends
              /\ full => req[c].offset + call'[w].sent = end
              /\ HitsEof(w, end) => left = 0
  <2>1. /\ call[w].left \in Nat \ {0} /\ at + call[w].left \in v.ends
        /\ Stretch(call[w].packet, v.text, req[c].offset + call[w].sent, at)
        /\ req[c].total = Size(v.ends)
        /\ Stretch(reply[c].body, v.text, 0, Received(c))
        /\ c \notin gone
    BY <1>1, <1>2, <1>3, <1>19
       DEF Steady, Download, Undisturbed, at, v
  <2>2. Stretch(packet, v.text, req[c].offset + call[w].sent, end)
    BY <1>7, <1>11, <2>1, StretchAppend
  <2>3. end = (req[c].offset + call[w].sent) + Bytes(packet)
    <3>1. req[c].offset + call[w].sent \in Nat
      BY <1>7
    <3> QED BY <1>11, <2>2, <3>1, StretchBytes
  <2>4. /\ end <= at + call[w].left /\ left \in Nat
        /\ end + left = at + call[w].left
    <3> DEFINE l == call[w].left
    <3>1. at \in Nat /\ end \in Nat /\ l \in Nat \ {0}
      BY <1>7, <1>10, <2>1
    <3>2. left = l - (end - at) /\ at + l \in v.ends
      BY <1>12, <2>1
    <3> HIDE DEF l
    <3>3. end <= at + l
      BY <1>10, <3>1, <3>2
    <3>4. left \in Nat /\ end + left = at + l
      BY <3>1, <3>2, <3>3
    <3> QED BY <3>3, <3>4 DEF l
  <2>5. /\ \A e \in v.ends : e <= Size(v.ends)
    BY <1>7, VersionSize
  <2>6. HitsEof(w, end) => left = 0
    <3>1. HitsEof(w, end) => end = Size(v.ends)
      BY <1>8 DEF HitsEof
    <3>2. at + call[w].left <= Size(v.ends)
      BY <2>1, <2>5
    <3> QED BY <1>7, <1>10, <2>1, <2>4, <3>1, <3>2
  <2>7. CASE full
    <3>1. req[c].offset + call'[w].sent = end
      BY <1>7, <1>13, <1>15, <2>3, <2>7
    <3>2. Received(c)' = end /\ Received(c) = req[c].offset + call[w].sent
      BY <1>7, <1>17, <2>1, <3>1
    <3>3. Stretch(reply[c].body \o packet, v.text, 0, end)
      BY <1>3, <1>11, <2>1, <2>2, <3>2, StretchConcat
    <3>4. Stretch(<<>>, v.text, end, end) /\ call'[w].packet = <<>>
      BY <1>15, <2>7, StretchEmpty
    <3> QED BY <1>10, <2>1, <2>4, <2>5, <2>6, <2>7, <3>1, <3>2, <3>3, <3>4
  <2>8. CASE ~full
    <3>1. body = reply[c].body /\ call'[w].packet = packet
      BY <1>15, <2>8
    <3>2. call'[w].sent = call[w].sent /\ Received(c)' = Received(c)
      BY <1>7, <1>15, <1>17, <2>1, <2>8
    <3> QED BY <1>10, <2>1, <2>2, <2>4, <2>5, <2>6, <2>8, <3>1, <3>2
  <2> QED BY <2>7, <2>8
<1> HIDE DEF body
<1>20. Conn(c)'
  <2>1. Download(c)'
    BY <1>3, <1>5, <1>16, <1>18, <1>19 DEF Download, v
  <2> QED BY <1>3, <1>5, <1>14, <1>16, <2>1 DEF Conn, Getting
<1>21. Reading(w)'
  <2>1. call'[w].packet \in Seq(Piece) /\ call'[w].sent \in Nat
    BY <1>7, <1>11, <1>13, <1>15, StretchEmpty
  <2>2. call'[w].eof \in BOOLEAN
    BY <1>15
  <2>3. call'[w].pc \in {"served", "send"}
    BY <1>15
  <2>4. call'[w].round \in Nat /\ call'[w].at \in Nat
    BY <1>3, <1>10, <1>15 DEF Reading
  <2>5. req[c].headed
    BY <1>1, <1>2, <1>3 DEF Reading
  <2> QED BY <1>5, <1>15, <1>17, <2>1, <2>2, <2>3, <2>4, <2>5 DEF Reading
<1>22. ASSUME Undisturbed(c)' PROVE Steady(w)'
  <2>1. call'[w].pc \in {"served", "send"} /\ Undisturbed(c)
    BY <1>15, <1>18, <1>22
  <2>2. CASE call'[w].pc = "served"
    <3>1. full
      BY <1>12, <1>15, <2>2
    <3> QED BY <1>5, <1>15, <1>19, <2>1, <2>2, <3>1 DEF Steady
  <2>3. CASE call'[w].pc = "send"
    <3>1. left # 0 /\ ~call'[w].eof
      BY <1>15, <1>19, <2>1, <2>3
    <3> QED BY <1>5, <1>15, <1>18, <1>19, <2>1, <2>3, <3>1 DEF Steady
  <2> QED BY <2>1, <2>2, <2>3
<1>23. GetRound(w)'
  BY <1>15, <1>21, <1>22 DEF GetRound
<1> QED BY <1>1, <1>3, <1>4, <1>5, <1>20, <1>23, InRoundStep

-----------------------------------------------------------------------------
(* A step of no connection. *)
LEMMA AllSame ==
  ASSUME Inv, GetInv, Stock', \A d \in Conns : Same(d),
         \A v \in Workers : call'[v] = call[v] \/ ~Busy(v)'
  PROVE  GetInv'
<1>1. ASSUME NEW d \in Conns PROVE Conn(d)'
  BY ConnKept DEF GetInv
<1>2. ASSUME NEW v \in Workers PROVE GetRound(v)'
  <2>1. CASE ~Busy(v)'
    BY <2>1 DEF GetRound
  <2>2. CASE call'[v] = call[v]
    <3>1. Busy(v) => Same(call[v].conn)
      BY Holder
    <3>2. GetRound(v)
      BY DEF GetInv
    <3> QED BY <2>2, <3>1, <3>2, RoundKept
  <2> QED BY <2>1, <2>2
<1> QED BY <1>1, <1>2 DEF GetInv

(* The rounds of an upload are no part of a download. *)
LEMMA PutGets ==
  ASSUME Inv, GetInv, NEW w \in Workers, ServePut(w) \/ ServePutFails(w)
  PROVE  GetInv'
<1>1. PICK c : c = call[w].conn
  OBVIOUS
<1>2. call[w].pc = "serve" /\ Ask(c).op = "PUT" /\ Busy(w)
  BY <1>1 DEF ServePut, ServePutFails, At, Busy
<1>3. /\ c \in Conns /\ phase[c] = "open" /\ DOMAIN call[w] = CallFields
      /\ \A v \in Workers : v # w => ~(Busy(v) /\ call[v].conn = c)
  BY <1>1, <1>2, Holder
<1>4. /\ DOMAIN call = Workers /\ DOMAIN reply = Conns
      /\ DOMAIN reply[c] = {"oks", "body", "err"}
  BY <1>3 DEF Inv, Shape
<1>5. UNCHANGED <<gone, disturbed, setup, files, phase, queue, req>>
  BY DEF ServePut, ServePutFails, around, books
<1>6. /\ call'[w].conn = c
      /\ \A v \in Workers : v # w => call'[v] = call[v]
  <2>1. \/ \E b : call' = [call EXCEPT ![w].pc = "served", ![w].sent = b]
        \/ call' = [call EXCEPT ![w].pc = "failed"]
    BY DEF ServePut, ServePutFails
  <2> QED BY <1>1, <1>3, <1>4, <2>1 DEF CallFields
<1>7. /\ \A d \in Conns : d # c => reply'[d] = reply[d]
      /\ reply'[c].body = reply[c].body
  <2>1. /\ SendOk(c, 0).body = reply[c].body
        /\ DOMAIN SendOk(c, 0) = {"oks", "body", "err"}
    BY <1>4 DEF SendOk
  <2>2. \/ reply' = [reply EXCEPT ![c] =
                       IF req[c].offset = 0 THEN SendOk(c, 0) ELSE reply[c]]
        \/ \E e : reply' = [reply EXCEPT ![c] =
              [(IF req[c].offset = 0 THEN SendOk(c, 0) ELSE reply[c])
                 EXCEPT !.err = e]]
    BY <1>1 DEF ServePut, ServePutFails
  <2> QED BY <1>3, <1>4, <2>1, <2>2
<1>8. ASSUME NEW d \in Conns, d # c PROVE Same(d)
  <2>1. Getting(d) => Source(d) \in Versions
    BY DEF GetInv, Conn, Download
  <2> QED BY <1>5, <1>7, <1>8, <2>1 DEF Same, Source
<1>9. Conn(c)'
  <2>1. reply[c].body \in Seq(Piece)
    BY <1>3 DEF GetInv, Conn
  <2>2. ~Getting(c)' /\ c \notin Gets'
    BY <1>2, <1>5 DEF Getting, Gets, Ask
  <2> QED BY <1>3, <1>5, <1>7, <2>1, <2>2 DEF Conn
<1>10. GetRound(w)'
  BY <1>2, <1>5, <1>6 DEF GetRound, Ask
<1>11. Stock'
  BY <1>5 DEF GetInv, Stock
<1> QED BY <1>3, <1>6, <1>8, <1>9, <1>10, <1>11, GetInvStep

(* The end of a connection: an undisturbed download does not fail, and     *)
(* when it finishes its client has all of it.                              *)
LEMMA EndGets ==
  ASSUME Inv, GetInv, NEW w \in Workers, Drop(w) \/ CommitFails(w) \/ Finish(w)
  PROVE  GetInv'
<1>1. PICK c : c = call[w].conn
  OBVIOUS
<1>2. /\ call[w].pc \in {"failed", "commit", "finish"} /\ Busy(w)
      /\ call[w].pc # "commit" => reply' = reply
      /\ call[w].pc = "finish" => phase' = [phase EXCEPT ![c] = "finished"]
  BY <1>1 DEF Drop, CommitFails, Finish, Busy
<1>3. /\ c \in Conns /\ phase[c] = "open"
      /\ \A v \in Workers : v # w => ~(Busy(v) /\ call[v].conn = c)
  BY <1>1, <1>2, Holder
<1>4. /\ DOMAIN call = Workers /\ DOMAIN reply = Conns
      /\ DOMAIN reply[c] = {"oks", "body", "err"} /\ DOMAIN phase = Conns
  BY <1>3 DEF Inv, Shape
<1>5. /\ UNCHANGED <<gone, disturbed, setup, files, queue, req>>
      /\ call' = [call EXCEPT ![w] = Idle]
      /\ \E end \in {"dropped", "finished"} :
           phase' = [phase EXCEPT ![c] = end]
      /\ reply' = reply \/ reply' = [reply EXCEPT ![c] = SendError(c)]
  BY <1>1 DEF Drop, CommitFails, Finish, around, disk, books
<1>6. /\ ~Busy(w)' /\ \A v \in Workers : v # w => call'[v] = call[v]
  BY <1>4, <1>5 DEF Idle, Busy
<1>7. /\ \A d \in Conns : d # c => reply'[d] = reply[d]
      /\ reply'[c].body = reply[c].body
  <2>1. SendError(c).body = reply[c].body
    BY <1>4 DEF SendError
  <2> QED BY <1>3, <1>4, <1>5, <2>1
<1>8. /\ \A d \in Conns : d # c => phase'[d] = phase[d]
      /\ phase'[c] \in {"dropped", "finished"}
  BY <1>3, <1>4, <1>5
<1>9. ASSUME NEW d \in Conns, d # c PROVE Same(d)
  <2>1. Getting(d) => Source(d) \in Versions
    BY DEF GetInv, Conn, Download
  <2> QED BY <1>5, <1>7, <1>8, <1>9, <2>1 DEF Same, Source
<1>10. ASSUME Ask(c).op = "GET", Undisturbed(c) PROVE Exact(c)'
  <2>1. /\ Getting(c) /\ Download(c) /\ Reading(w) /\ Steady(w)
    BY <1>1, <1>2, <1>10, InRound
  <2>2. call[w].pc = "finish"
    BY <1>2, <2>1 DEF Reading, Steady
  <2>3. phase'[c] = "finished" /\ reply' = reply
    BY <1>2, <1>3, <1>4, <2>2
  <2>4. Received(c) = req[c].total
    BY <1>1, <2>1, <2>2 DEF Steady
  <2>5. /\ reply[c].oks = <<req[c].total>>
        /\ Stretch(reply[c].body, Source(c).text, 0, Received(c))
    BY <1>1, <1>10, <2>1, <2>2 DEF Download, Reading, Undisturbed
  <2>6. ~reply[c].err
    BY <1>1, <1>2, <1>3, <2>2 DEF Inv, Errors, Busy
  <2> QED BY <1>5, <2>3, <2>4, <2>5, <2>6 DEF Exact, Received
<1>11. Conn(c)'
  <2>1. reply[c].body \in Seq(Piece)
    BY <1>3 DEF GetInv, Conn
  <2>2. ~Getting(c)' /\ phase'[c] # "new"
    BY <1>8 DEF Getting
  <2>3. c \in Gets' /\ Undisturbed(c)' => Exact(c)'
    BY <1>5, <1>10 DEF Gets, Undisturbed, Ask
  <2> QED BY <1>7, <2>1, <2>2, <2>3 DEF Conn
<1>12. GetRound(w)'
  BY <1>6 DEF GetRound
<1>13. Stock'
  BY <1>5 DEF GetInv, Stock
<1> QED BY <1>3, <1>6, <1>9, <1>11, <1>12, <1>13, GetInvStep

(* A rename: the downloads of that name that read another text are         *)
(* disturbed from now on, the others do not notice.                        *)
LEMMA CommitGets ==
  ASSUME Inv, GetInv, NEW w \in Workers, Commit(w)
  PROVE  GetInv'
<1>1. PICK c : c = call[w].conn
  OBVIOUS
<1>2. call[w].pc = "commit" /\ Busy(w)
  BY DEF Commit, Busy
<1>3. /\ c \in Conns /\ phase[c] = "open" /\ Asked(c)
      /\ DOMAIN call[w] = CallFields
      /\ \A v \in Workers : v # w => ~(Busy(v) /\ call[v].conn = c)
  BY <1>1, <1>2, Holder
<1>4. /\ DOMAIN call = Workers /\ DOMAIN reply = Conns
      /\ DOMAIN reply[c] = {"oks", "body", "err"} /\ DOMAIN files = Names
  BY <1>3 DEF Inv, Shape
<1> DEFINE name == Ask(c).name
           new(t) == [text |-> t, ends |-> {e \in Lines[t] : e <= staging[c]}]
<1>5. PICK t \in Stored(c) :
      /\ UNCHANGED <<gone, setup, queue, req, phase>>
      /\ call' = [call EXCEPT ![w].pc = "finish"]
      /\ files' = [files EXCEPT ![name] = new(t)]
      /\ reply' = [reply EXCEPT ![c] = SendOk(c, 0)]
      /\ disturbed' = disturbed \cup
           {d \in Gets : /\ phase[d] = "open" /\ Ask(d).name = name
                         /\ files[name] # new(t)}
  <2> DEFINE own == call[w].conn
             put(t) == [text |-> t,
                        ends |-> {e \in Lines[t] : e <= staging[own]}]
  <2>1. PICK t \in Stored(own) :
          /\ files' = [files EXCEPT ![Ask(own).name] = put(t)]
          /\ reply' = [reply EXCEPT ![own] = SendOk(own, 0)]
          /\ disturbed' = disturbed \cup
               {d \in Gets : /\ phase[d] = "open"
                             /\ Ask(d).name = Ask(own).name
                             /\ files[Ask(own).name] # put(t)}
    BY DEF Commit
  <2>2. /\ UNCHANGED <<gone, setup, queue, req, phase>>
        /\ call' = [call EXCEPT ![w].pc = "finish"]
    BY DEF Commit, around, books
  <2>3. own = c /\ put(t) = new(t)
    BY <1>1
  <2> HIDE DEF new, put, own
  <2> QED BY <2>1, <2>2, <2>3
<1>6. /\ call'[w].conn = c
      /\ \A v \in Workers : v # w => call'[v] = call[v]
  BY <1>1, <1>3, <1>4, <1>5 DEF CallFields
<1>7. Ask(c).op = "PUT" /\ staging[c] = req[c].total
  BY <1>1, <1>2 DEF Inv, Rounds, Round
<1>8. new(t) \in Versions
  <2>1. req[c].total = Size(Lines[Ask(c).text])
    BY <1>3, <1>7 DEF Inv, Counters
  <2>2. t \in Texts /\ {e \in Lines[t] : e <= staging[c]} = Lines[t]
    BY <1>3, <1>5, <1>7, <2>1, StoredWhole
  <2> QED BY <2>2 DEF Versions
<1> HIDE DEF new
<1>9. \A n \in Names : files'[n] = IF n = name THEN new(t) ELSE files[n]
  BY <1>4, <1>5
<1>10. /\ \A d \in Conns : d # c => reply'[d] = reply[d]
       /\ reply'[c].body = reply[c].body
  <2>1. SendOk(c, 0).body = reply[c].body
    BY <1>4 DEF SendOk
  <2> QED BY <1>3, <1>4, <1>5, <2>1
<1>11. ASSUME NEW d \in Conns, d # c PROVE Same(d)
  <2>1. ASSUME Getting(d)
        PROVE  /\ files'[Ask(d).name] \in Versions
               /\ files'[Ask(d).name] = Source(d) \/ d \in disturbed'
    <3>1. Source(d) \in Versions
      BY <2>1 DEF GetInv, Conn, Download
    <3>2. d \in Gets /\ Ask(d).name \in Names /\ phase[d] = "open"
      BY <2>1 DEF Inv, Shape, Getting, Gets, Asked, IsAsk
    <3>3. CASE Ask(d).name = name
      <4>1. files'[Ask(d).name] = new(t)
        BY <1>9, <3>2, <3>3
      <4>2. files[name] # new(t) => d \in disturbed'
        BY <1>5, <3>2, <3>3
      <4>3. Source(d) = files[name]
        BY <3>3 DEF Source
      <4> QED BY <1>8, <4>1, <4>2, <4>3
    <3>4. CASE Ask(d).name # name
      <4>1. files'[Ask(d).name] = files[Ask(d).name]
        BY <1>9, <3>2, <3>4
      <4> QED BY <3>1, <4>1 DEF Source
    <3> QED BY <3>3, <3>4
  <2>2. disturbed \subseteq disturbed'
    BY <1>5
  <2> QED BY <1>5, <1>10, <1>11, <2>1, <2>2 DEF Same
<1>12. Conn(c)'
  <2>1. reply[c].body \in Seq(Piece)
    BY <1>3 DEF GetInv, Conn
  <2>2. ~Getting(c)' /\ c \notin Gets'
    BY <1>5, <1>7 DEF Getting, Gets, Ask
  <2> QED BY <1>3, <1>5, <1>10, <2>1, <2>2 DEF Conn
<1>13. GetRound(w)'
  BY <1>5, <1>6, <1>7 DEF GetRound, Ask
<1>14. Stock'
  BY <1>8, <1>9 DEF GetInv, Stock
<1> QED BY <1>3, <1>6, <1>11, <1>12, <1>13, <1>14, GetInvStep

(* A worker takes a download up where its offset says. *)
LEMMA TakeGets ==
  ASSUME Inv, GetInv, NEW w \in Workers, NextDecision(w)
  PROVE  GetInv'
<1>1. /\ UNCHANGED <<gone, disturbed, setup, files, phase, reply>>
      /\ call[w].pc = "idle"
  BY DEF NextDecision, around, disk, books
<1>2. /\ DOMAIN queue = 1 .. Len(queue)
      /\ \A i \in 1 .. Len(queue) : queue[i] \in Conns
      /\ queue \in Seq(Conns) /\ IsInjective(queue)
  BY LenProperties, ElementOfSeq DEF Inv, Shape, Custody
<1>3. PICK i \in 1 .. Len(queue) :
        /\ queue' = RemoveAt(queue, i)
        /\ \E d : req' = [req EXCEPT ![queue[i]].deficit = d]
        /\ \E b : call' = [call EXCEPT ![w] =
             [pc |-> "serve", conn |-> queue[i], budget |-> b,
              at |-> req[queue[i]].offset, round |-> 0, left |-> 0,
              packet |-> <<>>, sent |-> 0, eof |-> FALSE]]
  BY <1>2 DEF NextDecision
<1>4. PICK c : c = queue[i]
  OBVIOUS
<1>5. /\ c \in Conns /\ c \in ToSet(queue) /\ phase[c] = "open"
      /\ DOMAIN req[c] = ReqFields
      /\ \A v \in Workers : ~(Busy(v) /\ call[v].conn = c)
  <2>1. c \in Conns /\ c \in ToSet(queue)
    BY <1>2, <1>4 DEF ToSet
  <2> QED BY <2>1 DEF Inv, Custody, Shape
<1>6. ToSet(queue') = ToSet(queue) \ {c}
  BY <1>2, <1>3, <1>4, RemoveSet
<1>7. DOMAIN call = Workers /\ DOMAIN req = Conns
  BY DEF Inv, Shape
<1>8. /\ call'[w].conn = c /\ call'[w].pc = "serve"
      /\ call'[w].at = req[c].offset /\ call'[w].round = 0
      /\ call'[w].packet = <<>> /\ call'[w].sent = 0
      /\ call'[w].eof = FALSE
      /\ \A v \in Workers : v # w => call'[v] = call[v]
  BY <1>3, <1>4, <1>7
<1>9. /\ \A d \in Conns : d # c => req'[d] = req[d]
      /\ req'[c].total = req[c].total /\ req'[c].offset = req[c].offset
      /\ req'[c].headed = req[c].headed
  BY <1>3, <1>4, <1>5, <1>7 DEF ReqFields
<1>10. ASSUME NEW d \in Conns, d # c PROVE Same(d)
  <2>1. Getting(d) => Source(d) \in Versions
    BY DEF GetInv, Conn, Download
  <2> QED BY <1>1, <1>6, <1>9, <1>10, <2>1 DEF Same, Source
<1>11. /\ Received(c)' = Received(c) /\ Source(c)' = Source(c)
       /\ Undisturbed(c)' = Undisturbed(c) /\ (Getting(c)' <=> Getting(c))
  BY <1>1 DEF Received, Source, Undisturbed, Getting, Ask
<1>12. Conn(c) /\ (Getting(c) => Download(c))
  BY <1>5 DEF GetInv, Conn
<1>13. Conn(c)'
  <2>1. Getting(c) => Download(c)'
    BY <1>1, <1>6, <1>9, <1>11, <1>12 DEF Download
  <2> QED BY <1>1, <1>5, <1>11, <1>12, <2>1 DEF Conn
<1>14. GetRound(w)'
  <2>1. SUFFICES ASSUME Ask(c).op = "GET"
                 PROVE  Reading(w)' /\ Steady(w)'
    BY <1>1, <1>8 DEF GetRound, Ask
  <2>2. Download(c)
    BY <1>5, <1>12, <2>1 DEF Getting
  <2>3. /\ req[c].offset \in Nat
        /\ c \notin gone => Received(c) = req[c].offset
    BY <1>5, <2>2 DEF Download
  <2>4. Reading(w)'
    <3>1. call'[w].packet \in Seq(Piece)
      BY <1>8, StretchEmpty
    <3>2. call'[w].eof \in BOOLEAN /\ ~call'[w].eof
      BY <1>8
    <3>3. c \notin gone' => Received(c)' = req'[c].offset + call'[w].sent
      BY <1>1, <1>8, <1>9, <1>11, <2>3
    <3> QED BY <1>8, <1>9, <2>3, <3>1, <3>2, <3>3 DEF Reading
  <2>5. Steady(w)'
    BY <1>8 DEF Steady
  <2> QED BY <2>4, <2>5
<1>15. Stock'
  BY <1>1 DEF GetInv, Stock
<1> QED BY <1>5, <1>8, <1>10, <1>13, <1>14, <1>15, GetInvStep

(* After a round: a download that is requeued had every byte of the round  *)
(* counted, and an undisturbed one that is not has had all of its file.    *)
LEMMA AccountGets ==
  ASSUME Inv, GetInv, NEW w \in Workers, Account(w)
  PROVE  GetInv'
<1>1. PICK c : c = call[w].conn
  OBVIOUS
<1>2. call[w].pc = "served" /\ Busy(w)
  BY DEF Account, Busy
<1>3. /\ c \in Conns /\ phase[c] = "open" /\ Conn(c)
      /\ DOMAIN req[c] = ReqFields /\ DOMAIN call[w] = CallFields
      /\ \A v \in Workers : v # w => ~(Busy(v) /\ call[v].conn = c)
  BY <1>1, <1>2, Holder DEF GetInv
<1>4. /\ DOMAIN call = Workers /\ DOMAIN req = Conns /\ queue \in Seq(Conns)
  BY DEF Inv, Shape
<1> DEFINE counted == Counted(req[c].total, req[c].offset, call[w].sent)
           again == ShouldRequeue(req[c].total, req[c].offset + counted)
<1>5. /\ UNCHANGED <<gone, disturbed, setup, files, phase, reply>>
      /\ \E d : req' = [req EXCEPT ![c].offset = @ + counted,
                                   ![c].deficit = d]
      /\ queue' = IF again THEN Append(queue, c) ELSE queue
      /\ call' = [call EXCEPT ![w] =
           IF again THEN Idle
           ELSE [call[w] EXCEPT !.pc =
                   IF Ask(c).op = "PUT" THEN "commit" ELSE "finish"]]
  BY <1>1 DEF Account, Processed, around, disk, books
<1>6. /\ \A d \in Conns : d # c => req'[d] = req[d]
      /\ req'[c].total = req[c].total /\ req'[c].headed = req[c].headed
      /\ req'[c].offset = req[c].offset + counted
  <2> HIDE DEF counted
  <2> QED BY <1>3, <1>4, <1>5 DEF ReqFields
<1>7. \A d \in Conns : d # c /\ d \in ToSet(queue') => d \in ToSet(queue)
  BY <1>3, <1>4, <1>5, AppendSet
<1>8. \A v \in Workers : v # w => call'[v] = call[v]
  BY <1>4, <1>5
<1>9. c \in ToSet(queue') => again
  BY <1>1, <1>2, <1>5, Holder
<1>10. ASSUME Ask(c).op = "GET"
       PROVE  /\ req'[c].offset \in Nat /\ req'[c].offset <= req[c].total
              /\ again => counted = call[w].sent
              /\ Undisturbed(c) /\ ~again => Received(c) = req[c].total
              /\ c \notin gone => Received(c) = req[c].offset + call[w].sent
              /\ Download(c) /\ Reading(w)
  <2>1. Download(c) /\ Reading(w) /\ (Undisturbed(c) => Steady(w))
    BY <1>1, <1>2, <1>10, InRound
  <2>2. /\ req[c].offset \in Nat /\ req[c].total \in Nat
        /\ req[c].offset <= req[c].total /\ call[w].sent \in Nat
        /\ c \notin gone => Received(c) = req[c].offset + call[w].sent
    BY <1>1, <1>2, <2>1 DEF Download, Reading
  <2>3. /\ counted \in Nat /\ req[c].offset + counted <= req[c].total
        /\ counted <= call[w].sent
        /\ counted < call[w].sent => req[c].offset + counted = req[c].total
    BY <2>2 DEF Counted, Least, Remaining
  <2> HIDE DEF counted
  <2>4. again <=> req[c].offset + counted < req[c].total
    BY <2>2, <2>3 DEF ShouldRequeue, Remaining
  <2> HIDE DEF again
  <2>5. again => counted = call[w].sent
    BY <2>2, <2>3, <2>4
  <2>6. Undisturbed(c) => req[c].offset + call[w].sent <= req[c].total
    BY <1>1, <1>2, <2>1 DEF Steady
  <2>7. Undisturbed(c) /\ ~again => req[c].offset + call[w].sent = req[c].total
    BY <2>2, <2>3, <2>4, <2>6
  <2>8. Undisturbed(c) => c \notin gone
    BY DEF Undisturbed
  <2> QED BY <1>6, <2>1, <2>2, <2>3, <2>5, <2>7, <2>8
<1> HIDE DEF counted, again
<1>11. ASSUME NEW d \in Conns, d # c PROVE Same(d)
  <2>1. Getting(d) => Source(d) \in Versions
    BY DEF GetInv, Conn, Download
  <2> QED BY <1>5, <1>6, <1>7, <1>11, <2>1 DEF Same, Source
<1>12. /\ Received(c)' = Received(c) /\ Source(c)' = Source(c)
       /\ Undisturbed(c)' = Undisturbed(c) /\ (Getting(c)' <=> Getting(c))
  BY <1>5 DEF Received, Source, Undisturbed, Getting, Ask
<1>13. Conn(c)'
  <2>1. ASSUME Getting(c) PROVE Download(c)'
    <3>1. Ask(c).op = "GET"
      BY <2>1 DEF Getting
    <3>2. /\ req'[c].offset \in Nat /\ req'[c].offset <= req'[c].total
          /\ c \in ToSet(queue') /\ c \notin gone =>
               Received(c) = req'[c].offset
      BY <1>6, <1>9, <1>10, <3>1
    <3> QED BY <1>5, <1>6, <1>10, <1>12, <3>1, <3>2 DEF Download
  <2> QED BY <1>3, <1>5, <1>12, <2>1 DEF Conn
<1>14. GetRound(w)'
  <2>1. CASE again
    <3>1. ~Busy(w)'
      BY <1>4, <1>5, <2>1 DEF Idle, Busy
    <3> QED BY <3>1 DEF GetRound
  <2>2. CASE ~again
    <3>1. /\ call'[w].conn = c /\ call'[w].at = call[w].at
          /\ call'[w].round = call[w].round /\ call'[w].sent = call[w].sent
          /\ call'[w].packet = call[w].packet /\ call'[w].eof = call[w].eof
          /\ call'[w].pc = IF Ask(c).op = "PUT" THEN "commit" ELSE "finish"
      BY <1>1, <1>3, <1>4, <1>5, <2>2 DEF CallFields
    <3>2. ASSUME Ask(c).op = "GET"
          PROVE  Reading(w)' /\ (Undisturbed(c)' => Steady(w)')
      <4>1. call'[w].pc = "finish" /\ req'[c].headed
        BY <1>1, <1>2, <1>6, <1>10, <3>1, <3>2 DEF Reading
      <4>2. Reading(w)'
        BY <1>10, <3>1, <3>2, <4>1 DEF Reading
      <4>3. Undisturbed(c)' => Steady(w)'
        BY <1>6, <1>10, <1>12, <2>2, <3>1, <3>2, <4>1 DEF Steady
      <4> QED BY <4>2, <4>3
    <3> QED BY <1>5, <3>1, <3>2 DEF GetRound, Ask
  <2> QED BY <2>1, <2>2
<1>15. Stock'
  BY <1>5 DEF GetInv, Stock
<1> QED BY <1>3, <1>8, <1>11, <1>13, <1>14, <1>15, GetInvStep

(* A download is admitted with the size its file has now. *)
LEMMA AdmitGets ==
  ASSUME Inv, GetInv, NEW c \in Conns, Admit(c)
  PROVE  GetInv'
<1>1. /\ UNCHANGED <<gone, disturbed, setup, files, reply, call>>
      /\ phase[c] = "new" /\ c \in DOMAIN setup.asks
      /\ Ask(c).op = "GET" => files[Ask(c).name] # Absent
      /\ queue' = Append(queue, c)
      /\ phase' = [phase EXCEPT ![c] = "open"]
  BY DEF Admit, around, disk
<1>2. /\ queue \in Seq(Conns) /\ DOMAIN req = Conns /\ DOMAIN phase = Conns
  BY DEF Inv, Shape
<1>3. /\ phase'[c] = "open" /\ \A d \in Conns : d # c => phase'[d] = phase[d]
  BY <1>1, <1>2
<1>4. ToSet(queue') = ToSet(queue) \cup {c}
  BY <1>1, <1>2, AppendSet
<1>5. /\ \A d \in Conns : d # c => req'[d] = req[d]
      /\ req'[c].offset = 0 /\ req'[c].headed = FALSE
      /\ Ask(c).op = "GET" => req'[c].total = Size(files[Ask(c).name].ends)
  <2> DEFINE new(n, a) == [total |-> n, offset |-> 0, deficit |-> 0,
                           headed |-> FALSE, arrival |-> a]
  <2>1. PICK n, a : /\ req' = [req EXCEPT ![c] = new(n, a)]
                    /\ Ask(c).op = "GET" =>
                         n = Size(files[Ask(c).name].ends)
    BY DEF Admit
  <2>2. /\ new(n, a).offset = 0 /\ new(n, a).headed = FALSE
        /\ new(n, a).total = n
    OBVIOUS
  <2> HIDE DEF new
  <2> QED BY <1>2, <2>1, <2>2
<1>6. ASSUME NEW d \in Conns, d # c PROVE Same(d)
  <2>1. Getting(d) => Source(d) \in Versions
    BY DEF GetInv, Conn, Download
  <2> QED BY <1>1, <1>3, <1>4, <1>5, <1>6, <2>1 DEF Same, Source
<1>7. Conn(c)'
  <2>1. reply[c].body \in Seq(Piece) /\ reply[c] = NoReply
    BY <1>1 DEF GetInv, Conn
  <2>2. reply[c].oks = <<>> /\ reply[c].body = <<>>
    BY <2>1 DEF NoReply
  <2>3. Received(c)' = 0
    BY <1>1, <2>2, StretchEmpty DEF Received
  <2>4. ASSUME Ask(c).op = "GET" PROVE Download(c)'
    <3>1. Ask(c).name \in Names
      BY <1>1, FileServerAssumption DEF Inv, Shape, IsSetup, IsAsk, Ask
    <3>2. Source(c) \in Versions /\ Source(c)' = Source(c)
      BY <1>1, <2>4, <3>1 DEF GetInv, Stock, Source, Ask
    <3>3. req'[c].total = Size(Source(c).ends)
      BY <1>5, <2>4 DEF Source
    <3>4. req'[c].total \in Nat
      BY <3>2, <3>3, VersionSize
    <3>5. Stretch(reply'[c].body, Source(c).text, 0, 0)
      BY <1>1, <2>2, StretchEmpty
    <3>6. req'[c].headed \in BOOLEAN
      BY <1>5
    <3>7. reply'[c].oks = IF req'[c].headed THEN <<req'[c].total>> ELSE <<>>
      BY <1>1, <1>5, <2>2
    <3>8. req'[c].offset = 0
      BY <1>5
    <3> QED BY <2>3, <3>2, <3>3, <3>4, <3>5, <3>6, <3>7, <3>8 DEF Download
  <2> QED BY <1>1, <1>3, <2>1, <2>4 DEF Conn, Getting, Ask
<1>8. ASSUME NEW d \in Conns PROVE Conn(d)'
  BY <1>6, <1>7, ConnKept DEF GetInv
<1>9. ASSUME NEW v \in Workers PROVE GetRound(v)'
  <2>1. Busy(v) => Same(call[v].conn)
    BY <1>1, <1>6, Holder
  <2> QED BY <1>1, <2>1, RoundKept DEF GetInv
<1>10. Stock'
  BY <1>1 DEF GetInv, Stock
<1> QED BY <1>8, <1>9, <1>10 DEF GetInv

(* A worker that leaves, a client, a signal, nobody: at most a client is   *)
(* gone, and a download of one that is gone promises less.                 *)
LEMMA OtherGets ==
  ASSUME Inv, GetInv,
         \/ Close \/ UNCHANGED fvars \/ \E c \in Conns : Disconnect(c)
         \/ \E w \in Workers : Exit(w)
  PROVE  GetInv'
<1>1. /\ UNCHANGED <<setup, files, phase, reply, req, queue, disturbed>>
      /\ gone \subseteq gone'
      /\ call' = call \/ \E w \in Workers : Exit(w)
  BY DEF Close, Disconnect, Exit, fvars, around, disk, books
<1>2. ASSUME NEW d \in Conns PROVE Same(d)
  <2>1. Getting(d) => Source(d) \in Versions
    BY DEF GetInv, Conn, Download
  <2> QED BY <1>1, <2>1 DEF Same, Source
<1>3. \A v \in Workers : call'[v] = call[v] \/ ~Busy(v)'
  <2>1. ASSUME NEW w \in Workers, Exit(w), NEW v \in Workers
        PROVE  call'[v] = call[v] \/ ~Busy(v)'
    <3>1. DOMAIN call = Workers /\ {"pc", "conn"} \subseteq DOMAIN call[w]
      BY DEF Inv, Shape
    <3>2. call' = [call EXCEPT ![w].pc = "exited"]
      BY <2>1 DEF Exit
    <3> QED BY <3>1, <3>2 DEF Busy
  <2> QED BY <1>1, <2>1
<1>4. Stock'
  BY <1>1 DEF GetInv, Stock
<1> QED BY <1>2, <1>3, <1>4, AllSame

(* At the start there are no downloads. *)
LEMMA GetInvInit == Init => GetInv
<1> SUFFICES ASSUME Init PROVE GetInv
  OBVIOUS
<1>1. Stock
  <2>1. ASSUME NEW n \in Names, files[n] # Absent PROVE files[n] \in Versions
    <3>1. files[n] = IF InitialFiles[n] = Absent THEN Absent
                     ELSE [text |-> InitialFiles[n],
                           ends |-> Lines[InitialFiles[n]]]
      BY DEF Init
    <3>2. InitialFiles[n] \in Texts
      BY <2>1, <3>1, FileServerAssumption
    <3> QED BY <2>1, <3>1, <3>2 DEF Versions
  <2> QED BY <2>1 DEF Stock
<1>2. ASSUME NEW c \in Conns PROVE Conn(c)
  BY StretchEmpty DEF Init, Conn, NoReply, Getting
<1>3. ASSUME NEW w \in Workers PROVE GetRound(w)
  BY DEF Init, GetRound, Busy, Idle
<1> QED BY <1>1, <1>2, <1>3 DEF GetInv

(* The invariant of the downloads holds of every reachable state.          *)
THEOREM DownloadInvariant == Spec => []GetInv
<1>1. ASSUME Inv, GetInv, [Next]_fvars PROVE GetInv'
  <2>1. CASE \E c \in Conns : Admit(c)
    BY <1>1, <2>1, AdmitGets
  <2>2. CASE \/ Close \/ UNCHANGED fvars \/ \E c \in Conns : Disconnect(c)
             \/ \E w \in Workers : Exit(w)
    BY <1>1, <2>2, OtherGets
  <2>3. ASSUME NEW w \in Workers, WorkerStep(w), ~Exit(w) PROVE GetInv'
    <3>1. CASE ServeGet(w)
      BY <1>1, <3>1, ServeGetInv
    <3>2. CASE SelectLine(w)
      BY <1>1, <3>2, SelectLineInv
    <3>3. CASE Resize(w)
      BY <1>1, <3>3, ResizeInv
    <3>4. CASE SendLine(w)
      BY <1>1, <3>4, SendLineInv
    <3>5. CASE SendLineFails(w) \/ SendBreaks(w)
      BY <1>1, <3>5, SendFailsInv
    <3>6. CASE ServePut(w) \/ ServePutFails(w)
      BY <1>1, <3>6, PutGets
    <3>7. CASE Drop(w) \/ CommitFails(w) \/ Finish(w)
      BY <1>1, <3>7, EndGets
    <3>8. CASE NextDecision(w)
      BY <1>1, <3>8, TakeGets
    <3>9. CASE Account(w)
      BY <1>1, <3>9, AccountGets
    <3>10. CASE Commit(w)
      BY <1>1, <3>10, CommitGets
    <3> QED BY <2>3, <3>1, <3>2, <3>3, <3>4, <3>5, <3>6, <3>7, <3>8, <3>9,
               <3>10 DEF WorkerStep
  <2> QED BY <1>1, <2>1, <2>2, <2>3 DEF Next, Terminated
<1> QED BY <1>1, GetInvInit, FileServerInvariant, PTL DEF Spec

(* Between rounds the offset a download carries through the queue is what  *)
(* its client has been sent, also when the file was replaced under it      *)
(* (serve_get, Scheduler::account and worker_thread's requeue).            *)
THEOREM OffsetsAreExact == Spec => []OffsetIsBytesSent
<1>1. ASSUME Inv, GetInv PROVE OffsetIsBytesSent
  <2>1. ASSUME NEW i \in DOMAIN queue, queue[i] \in Gets \ gone
        PROVE  req[queue[i]].offset = Received(queue[i])
    <3>1. queue[i] \in Conns /\ queue[i] \in ToSet(queue)
      BY <1>1, <2>1, LenProperties, ElementOfSeq DEF Inv, Shape, ToSet
    <3>2. phase[queue[i]] = "open" /\ Ask(queue[i]).op = "GET"
      BY <1>1, <2>1, <3>1 DEF Inv, Custody, Gets
    <3>3. Download(queue[i])
      BY <1>1, <3>1, <3>2 DEF GetInv, Conn, Getting
    <3> QED BY <2>1, <3>1, <3>3 DEF Download
  <2> QED BY <2>1 DEF OffsetIsBytesSent
<1> QED BY <1>1, DownloadInvariant, FileServerInvariant, PTL

(* A download nobody disturbed is exact: one OK line with its size, then   *)
(* that many bytes of one text from the first to the last, however the     *)
(* workers, the rounds and the packets cut it up (serve_get).              *)
THEOREM QuietGetsAreExact == Spec => []QuietGetIsExact
<1>1. ASSUME Inv, GetInv PROVE QuietGetIsExact
  <2>1. ASSUME NEW c \in Gets \ (disturbed \cup gone),
               phase[c] \in {"finished", "dropped"}
        PROVE  /\ Exact(c) /\ Cardinality(Sources(c)) <= 1
               /\ \A i \in DOMAIN reply[c].body :
                    reply[c].body[i][2] = IF i = 1 THEN 0
                                          ELSE reply[c].body[i - 1][3]
    <3>1. c \in Conns
      BY <1>1, FileServerAssumption DEF Inv, Shape, IsSetup, Gets
    <3>2. Exact(c) /\ reply[c].body \in Seq(Piece)
      BY <1>1, <2>1, <3>1 DEF GetInv, Conn, Undisturbed
    <3>3. PICK t : Stretch(reply[c].body, t, 0, Received(c))
      BY <3>2 DEF Exact
    <3>4. DOMAIN reply[c].body = 1 .. Len(reply[c].body)
      BY <3>2, LenProperties
    <3>5. Sources(c) \subseteq {t}
      BY <3>3, <3>4 DEF Sources, Stretch
    <3>6. Cardinality(Sources(c)) <= 1
      <4>1. IsFiniteSet({t}) /\ Cardinality({t}) = 1
        BY FS_Singleton
      <4> QED BY <3>5, <4>1, FS_Subset
    <3> QED BY <3>2, <3>3, <3>4, <3>6 DEF Stretch
  <2> QED BY <2>1 DEF QuietGetIsExact, Exact
<1> QED BY <1>1, DownloadInvariant, FileServerInvariant, PTL
=============================================================================
