-------------------------- MODULE AdmissionProofs ---------------------------
(***************************************************************************)
(* Proofs about Admission for any connections, any headers and any number  *)
(* of parsers, wherever the signal falls.                                  *)
(***************************************************************************)
EXTENDS Admission, SequenceLemmas, SequenceTheorems, TLAPS

Places == {"away", "backlog", "reset", "accepted", "health", "error",
           "admitted", "refused", "served"}

Types ==
  /\ net \in [Conns -> Places]
  /\ apc \in {"loop", "select", "accept", "push", "notify", "close",
              "closing", "ended"}
  /\ afd \in Conns \cup {None}
  /\ fds \in Seq(Conns)
  /\ fdsClosed \in BOOLEAN
  /\ ppc \in [Parsers -> {"pop", "read", "push", "ended"}]
  /\ pfd \in [Parsers -> Conns \cup {None}]
  /\ queue \in Seq(Conns)
  /\ closed \in BOOLEAN
  /\ mpc \in {"acceptor", "parsers", "workers", "done"}

(***************************************************************************)
(* The order of the shutdown: the descriptor queue is closed by the        *)
(* acceptor's last steps, a parser ends only on an empty closed one, and   *)
(* the request queue is closed only when all have ended.                   *)
(***************************************************************************)
Ends ==
  /\ fdsClosed <=> apc \in {"closing", "ended"}
  /\ mpc # "acceptor" => apc = "ended"
  /\ \A p \in Parsers : ppc[p] = "ended" => fdsClosed /\ fds = <<>>
  /\ closed <=> mpc \in {"workers", "done"}
  /\ closed => \A p \in Parsers : ppc[p] = "ended"
  /\ mpc = "done" => queue = <<>>

(***************************************************************************)
(* Custody.  An accepted connection is in the acceptor's hand, in the      *)
(* descriptor queue or in a parser's hand; an admitted one is in the       *)
(* request queue.  It is in one of these places only, and only once, so    *)
(* that no descriptor is closed twice.                                     *)
(***************************************************************************)
InHand(c) == \E p \in Parsers : pfd[p] = c

Hands ==
  /\ afd # None <=> apc = "push"
  /\ \A p \in Parsers : pfd[p] # None <=> ppc[p] \in {"read", "push"}

Custody ==
  /\ \A c \in Conns : net[c] = "accepted" <=>
                         c = afd \/ c \in ToSet(fds) \/ InHand(c)
  /\ \A c \in Conns : net[c] = "admitted" <=> c \in ToSet(queue)

OneHolder ==
  /\ IsInjective(fds) /\ IsInjective(queue)
  /\ \A p, q \in Parsers : pfd[p] # None /\ pfd[p] = pfd[q] => p = q
  /\ \A c \in ToSet(fds) : c # afd /\ ~InHand(c)
  /\ afd # None => ~InHand(afd)

Inv == Types /\ Ends /\ Hands /\ Custody /\ OneHolder /\ NeverRefused

(* The acceptor's steps, but for accept and push, move no descriptor.      *)
LEMMA QuietAcceptor ==
  ASSUME Inv, \/ AcceptLoop \/ Select \/ AcceptFails \/ FdPushNotify
              \/ FdClose \/ FdCloseNotify
  PROVE  Inv'
<1>1. UNCHANGED <<net, afd, fds, ppc, pfd, queue, closed, mpc>>
  BY DEF AcceptLoop, Select, AcceptFails, FdPushNotify, FdClose,
         FdCloseNotify, signal, fdq, parser, stamps, requests
<1>2. /\ apc # "push" /\ apc' # "push" /\ apc # "ended"
      /\ fdsClosed' \in BOOLEAN
      /\ apc' \in {"loop", "select", "accept", "notify", "close",
                   "closing", "ended"}
      /\ fdsClosed' <=> apc' \in {"closing", "ended"}
      /\ fdsClosed => fdsClosed'
  <2>1. fdsClosed \in BOOLEAN /\ (fdsClosed <=> apc \in {"closing", "ended"})
    BY DEF Inv, Types, Ends
  <2>2. CASE AcceptLoop \/ Select \/ AcceptFails \/ FdPushNotify
    <3>1. /\ apc \in {"loop", "select", "accept", "notify"}
          /\ apc' \in {"loop", "select", "accept", "close"}
          /\ fdsClosed' = fdsClosed
      BY <2>2 DEF AcceptLoop, Select, AcceptFails, FdPushNotify, Acceptor,
                  FailedAccept, fdq
    <3> QED BY <2>1, <3>1
  <2>3. CASE FdClose
    BY <2>3 DEF FdClose, Acceptor
  <2>4. CASE FdCloseNotify
    <3>1. apc = "closing" /\ apc' = "ended" /\ fdsClosed' = fdsClosed
      BY <2>4 DEF FdCloseNotify, Acceptor
    <3> QED BY <2>1, <3>1
  <2> QED BY <2>2, <2>3, <2>4
<1>3. Types'
  BY <1>1, <1>2 DEF Inv, Types
<1>4. Ends'
  BY <1>1, <1>2 DEF Inv, Ends
<1>5. Hands'
  BY <1>1, <1>2 DEF Inv, Hands
<1>6. Custody' /\ OneHolder' /\ NeverRefused'
  BY <1>1 DEF Inv, Custody, OneHolder, NeverRefused, InHand
<1> QED BY <1>3, <1>4, <1>5, <1>6 DEF Inv

(* accept takes a connection nobody has yet. *)
LEMMA AcceptStep ==
  ASSUME Inv, NEW c \in Conns, Accept(c)
  PROVE  Inv'
<1>1. /\ UNCHANGED <<fds, fdsClosed, ppc, pfd, queue, closed, mpc>>
      /\ net[c] = "backlog" /\ apc = "accept" /\ apc' = "push"
      /\ afd' = c /\ net' = [net EXCEPT ![c] = "accepted"]
  BY DEF Accept, Acceptor, Backlog, fdq, parser, stamps, requests
<1>2. c # None
  BY AdmissionAssumption
<1>3. afd = None
  BY <1>1 DEF Inv, Hands
<1>4. c \notin ToSet(fds) /\ ~InHand(c) /\ c \notin ToSet(queue)
  BY <1>1 DEF Inv, Custody
<1>5. Types'
  BY <1>1 DEF Inv, Types, Places
<1>6. Ends' /\ Hands'
  BY <1>1, <1>2 DEF Inv, Ends, Hands
<1>7. Custody'
  <2>1. ASSUME NEW d \in Conns
        PROVE  net'[d] = IF d = c THEN "accepted" ELSE net[d]
    BY <1>1 DEF Inv, Types
  <2>2. ASSUME NEW d \in Conns
        PROVE  /\ d = afd' \/ d \in ToSet(fds') \/ InHand(d)'
                   <=> d = c \/ d \in ToSet(fds) \/ InHand(d)
               /\ d # afd
    BY <1>1, <1>3, AdmissionAssumption DEF InHand
  <2> QED BY <1>1, <1>4, <2>1, <2>2 DEF Inv, Custody
<1>8. OneHolder'
  BY <1>1, <1>4 DEF Inv, OneHolder, InHand
<1>9. NeverRefused'
  BY <1>1 DEF Inv, Types, NeverRefused
<1> QED BY <1>5, <1>6, <1>7, <1>8, <1>9 DEF Inv

(* FdQueue::push hands the descriptor on.  It is never too late for it:    *)
(* the acceptor closes that queue itself, afterwards.                      *)
LEMMA FdPushStep ==
  ASSUME Inv, FdPush
  PROVE  Inv'
<1>1. /\ UNCHANGED <<net, fdsClosed, ppc, pfd, queue, closed, mpc>>
      /\ apc = "push" /\ apc' = "notify"
      /\ fds' = Append(fds, afd) /\ afd' = None /\ ~fdsClosed
  BY DEF FdPush, Acceptor, parser, stamps, requests
<1>2. afd \in Conns /\ afd # None
  BY <1>1 DEF Inv, Types, Hands
<1>3. afd \notin ToSet(fds) /\ ~InHand(afd)
  BY <1>2 DEF Inv, OneHolder
<1>4. /\ fds' \in Seq(Conns)
      /\ ToSet(fds') = ToSet(fds) \cup {afd}
      /\ IsInjective(fds')
  BY <1>1, <1>2, <1>3, AppendSet, AppendProperties DEF Inv, Types, OneHolder
<1>5. None \notin ToSet(fds')
  BY <1>4, AdmissionAssumption, LenProperties, ElementOfSeq DEF ToSet
<1>6. Types'
  BY <1>1, <1>4 DEF Inv, Types
<1>7. Ends' /\ Hands'
  BY <1>1 DEF Inv, Ends, Hands
<1>8. Custody'
  BY <1>1, <1>2, <1>4, AdmissionAssumption DEF Inv, Custody, InHand
<1>9. OneHolder'
  BY <1>1, <1>3, <1>4, <1>5 DEF Inv, OneHolder, InHand
<1>10. NeverRefused'
  BY <1>1 DEF Inv, NeverRefused
<1> QED BY <1>6, <1>7, <1>8, <1>9, <1>10 DEF Inv

(* A parser takes the oldest descriptor. *)
LEMMA FdPopStep ==
  ASSUME Inv, NEW p \in Parsers, FdPop(p)
  PROVE  Inv'
<1>1. /\ UNCHANGED <<net, apc, afd, fdsClosed, queue, closed, mpc>>
      /\ ppc[p] = "pop" /\ ppc' = [ppc EXCEPT ![p] = "read"]
      /\ fds # <<>> /\ fds' = Tail(fds)
      /\ pfd' = [pfd EXCEPT ![p] = Head(fds)]
  BY DEF FdPop, Parser, acceptor, stamps, requests
<1>2. pfd[p] = None
  BY <1>1 DEF Inv, Hands
<1>3. /\ fds' \in Seq(Conns) /\ Head(fds) \in Conns
      /\ Head(fds) \in ToSet(fds)
      /\ ToSet(fds') = ToSet(fds) \ {Head(fds)}
      /\ IsInjective(fds')
  BY <1>1, TailSet DEF Inv, Types, OneHolder
<1>4. Head(fds) # None /\ Head(fds) # afd /\ ~InHand(Head(fds))
  BY <1>3, AdmissionAssumption DEF Inv, OneHolder
<1>5. /\ pfd'[p] = Head(fds)
      /\ \A q \in Parsers : q # p => pfd'[q] = pfd[q]
      /\ \A q \in Parsers : ppc'[q] = IF q = p THEN "read" ELSE ppc[q]
  BY <1>1 DEF Inv, Types
<1>6. Types'
  BY <1>1, <1>3 DEF Inv, Types
<1>7. Ends'
  <2>1. \A q \in Parsers : ppc[q] # "ended"
    BY <1>1 DEF Inv, Ends
  <2> QED BY <1>1, <1>5, <2>1 DEF Inv, Ends
<1>8. Hands'
  BY <1>1, <1>4, <1>5 DEF Inv, Hands
<1>9. \A c \in Conns : InHand(c)' <=> InHand(c) \/ c = Head(fds)
  BY <1>2, <1>5, AdmissionAssumption DEF InHand
<1>10. Custody'
  BY <1>1, <1>3, <1>9 DEF Inv, Custody
<1>11. OneHolder'
  <2>1. \A q, r \in Parsers :
          pfd'[q] # None /\ pfd'[q] = pfd'[r] => q = r
    BY <1>4, <1>5 DEF Inv, OneHolder, InHand
  <2>2. ToSet(fds') \subseteq Conns
    BY <1>3, LenProperties, ElementOfSeq DEF ToSet
  <2>3. \A c \in ToSet(fds') : c # afd' /\ ~InHand(c)'
    BY <1>1, <1>3, <1>9, <2>2 DEF Inv, OneHolder
  <2>4. afd' # None => ~InHand(afd)'
    BY <1>1, <1>4, <1>9 DEF Inv, OneHolder, Types
  <2> QED BY <1>1, <1>3, <2>1, <2>3, <2>4 DEF Inv, OneHolder
<1>12. NeverRefused'
  BY <1>1 DEF Inv, NeverRefused
<1> QED BY <1>6, <1>7, <1>8, <1>10, <1>11, <1>12 DEF Inv

(* A parser lets go of its descriptor: the connection leaves the accepted  *)
(* ones, and nobody else had it.                                           *)
LEMMA LetGo ==
  ASSUME Inv, NEW p \in Parsers, ppc[p] \in {"read", "push"},
         UNCHANGED <<apc, afd, fds, fdsClosed, closed, mpc>>,
         ppc' = [ppc EXCEPT ![p] = "pop"],
         pfd' = [pfd EXCEPT ![p] = None],
         NEW place \in {"health", "error", "admitted"},
         net' = [net EXCEPT ![pfd[p]] = place],
         IF place = "admitted" THEN queue' = Append(queue, pfd[p])
                               ELSE queue' = queue
  PROVE  Inv'
<1>1. /\ pfd[p] \in Conns /\ pfd[p] # None
      /\ net[pfd[p]] = "accepted"
  BY AdmissionAssumption DEF Inv, Types, Hands, Custody, InHand
<1>2. \A q \in Parsers : q # p => pfd[q] # pfd[p]
  BY <1>1 DEF Inv, OneHolder
<1>3. /\ pfd'[p] = None
      /\ \A q \in Parsers : q # p => pfd'[q] = pfd[q]
      /\ \A q \in Parsers : ppc'[q] = IF q = p THEN "pop" ELSE ppc[q]
      /\ \A c \in Conns : net'[c] = IF c = pfd[p] THEN place ELSE net[c]
  BY DEF Inv, Types
<1>4. \A c \in Conns : InHand(c)' <=> InHand(c) /\ c # pfd[p]
  BY <1>2, <1>3, AdmissionAssumption DEF InHand
<1>5. pfd[p] \notin ToSet(fds) /\ pfd[p] # afd /\ pfd[p] \notin ToSet(queue)
  BY <1>1 DEF Inv, OneHolder, InHand, Custody
<1>6. /\ queue' \in Seq(Conns) /\ IsInjective(queue')
      /\ ToSet(queue') = IF place = "admitted"
                           THEN ToSet(queue) \cup {pfd[p]} ELSE ToSet(queue)
  <2>1. queue \in Seq(Conns) /\ IsInjective(queue)
    BY DEF Inv, Types, OneHolder
  <2>2. CASE place = "admitted"
    <3>1. queue' = Append(queue, pfd[p])
      BY <2>2
    <3> QED BY <1>1, <1>5, <2>1, <2>2, <3>1, AppendSet, AppendProperties
  <2>3. CASE place # "admitted"
    BY <2>1, <2>3
  <2> QED BY <2>2, <2>3
<1>7. ~closed /\ mpc # "done" /\ ppc[p] # "ended"
  BY DEF Inv, Ends
<1>8. Types'
  BY <1>1, <1>6 DEF Inv, Types, Places
<1>9. Ends'
  BY <1>3, <1>7 DEF Inv, Ends
<1>10. Hands'
  BY <1>3 DEF Inv, Hands
<1>11. Custody'
  <2>1. \A c \in Conns : net'[c] = "accepted" <=>
                           c = afd' \/ c \in ToSet(fds') \/ InHand(c)'
    BY <1>1, <1>3, <1>4, <1>5 DEF Inv, Custody
  <2>2. \A c \in Conns : net'[c] = "admitted" <=> c \in ToSet(queue')
    BY <1>3, <1>5, <1>6 DEF Inv, Custody
  <2> QED BY <2>1, <2>2 DEF Custody
<1>12. OneHolder'
  <2>1. \A q, r \in Parsers :
          pfd'[q] # None /\ pfd'[q] = pfd'[r] => q = r
    BY <1>3 DEF Inv, OneHolder
  <2>2. ToSet(fds) \subseteq Conns
    BY LenProperties, ElementOfSeq DEF Inv, Types, ToSet
  <2>3. \A c \in ToSet(fds') : c # afd' /\ ~InHand(c)'
    BY <1>4, <2>2 DEF Inv, OneHolder
  <2>4. afd' # None => ~InHand(afd)'
    BY <1>4 DEF Inv, OneHolder, Types
  <2> QED BY <1>6, <2>1, <2>3, <2>4 DEF Inv, OneHolder
<1>13. NeverRefused'
  BY <1>3 DEF Inv, NeverRefused
<1> QED BY <1>8, <1>9, <1>10, <1>11, <1>12, <1>13 DEF Inv

(* Every other step of a parser.  The push of a request is never refused,  *)
(* since the parser that makes it has not ended.                           *)
LEMMA ParserSteps ==
  ASSUME Inv, NEW p \in Parsers, ParserStep(p) \/ FdSpuriousWake(p)
  PROVE  Inv'
<1>1. CASE FdPop(p)
  BY <1>1, FdPopStep
<1>2. CASE FdBlock(p) \/ FdSpuriousWake(p)
  <2>1. UNCHANGED <<net, apc, afd, fds, fdsClosed, ppc, pfd, queue, closed,
                    mpc>>
    BY <1>2 DEF FdBlock, FdSpuriousWake, acceptor, parser, requests
  <2> QED BY <2>1 DEF Inv, Types, Ends, Hands, Custody, OneHolder,
                      NeverRefused, InHand
<1>3. CASE ParserExits(p)
  <2>1. /\ UNCHANGED <<net, apc, afd, fds, fdsClosed, pfd, queue, closed,
                       mpc>>
        /\ ppc[p] = "pop" /\ ppc' = [ppc EXCEPT ![p] = "ended"]
        /\ fds = <<>> /\ fdsClosed
    BY <1>3 DEF ParserExits, Parser, FdsOver, acceptor, fdq, requests
  <2>2. \A q \in Parsers : ppc'[q] = IF q = p THEN "ended" ELSE ppc[q]
    BY <2>1 DEF Inv, Types
  <2>3. Types'
    BY <2>1 DEF Inv, Types
  <2>4. Ends' /\ Hands'
    BY <2>1, <2>2 DEF Inv, Ends, Hands
  <2>5. Custody' /\ OneHolder' /\ NeverRefused'
    BY <2>1 DEF Inv, Custody, OneHolder, NeverRefused, InHand
  <2> QED BY <2>3, <2>4, <2>5 DEF Inv
<1>4. CASE Answer(p)
  <2>1. PICK place \in {"health", "error"} :
          net' = [net EXCEPT ![pfd[p]] = place]
    BY <1>4 DEF Answer
  <2>2. /\ UNCHANGED <<apc, afd, fds, fdsClosed, queue, closed, mpc>>
        /\ ppc[p] = "read" /\ ppc' = [ppc EXCEPT ![p] = "pop"]
        /\ pfd' = [pfd EXCEPT ![p] = None]
    BY <1>4 DEF Answer, Parser, acceptor, fdq, requests
  <2> QED BY <2>1, <2>2, LetGo
<1>5. CASE Stamp(p)
  <2>1. /\ UNCHANGED <<net, apc, afd, fds, fdsClosed, pfd, queue, closed,
                       mpc>>
        /\ ppc[p] = "read" /\ ppc' = [ppc EXCEPT ![p] = "push"]
    BY <1>5 DEF Stamp, Parser, acceptor, fdq, requests
  <2>2. \A q \in Parsers : ppc'[q] = IF q = p THEN "push" ELSE ppc[q]
    BY <2>1 DEF Inv, Types
  <2>3. Types'
    BY <2>1 DEF Inv, Types
  <2>4. Ends' /\ Hands'
    BY <2>1, <2>2 DEF Inv, Ends, Hands
  <2>5. Custody' /\ OneHolder' /\ NeverRefused'
    BY <2>1 DEF Inv, Custody, OneHolder, NeverRefused, InHand
  <2> QED BY <2>3, <2>4, <2>5 DEF Inv
<1>6. CASE Push(p)
  <2>1. ppc[p] = "push"
    BY <1>6 DEF Push, Parser
  <2>2. ~closed
    BY <2>1 DEF Inv, Ends
  <2>3. /\ UNCHANGED <<apc, afd, fds, fdsClosed, closed, mpc>>
        /\ ppc' = [ppc EXCEPT ![p] = "pop"]
        /\ pfd' = [pfd EXCEPT ![p] = None]
        /\ net' = [net EXCEPT ![pfd[p]] = "admitted"]
        /\ queue' = Append(queue, pfd[p])
    BY <1>6, <2>2 DEF Push, Parser, acceptor, fdq
  <2> QED BY <2>1, <2>3, LetGo
<1> QED BY <1>1, <1>2, <1>3, <1>4, <1>5, <1>6 DEF ParserStep

(* Clients, the signal and main move no descriptor; main closes the        *)
(* request queue when the parsers have ended.                              *)
LEMMA OtherSteps ==
  ASSUME Inv, \/ \E c \in Conns : Connect(c)
              \/ Signal \/ SignalShut \/ MainStep \/ Terminated
              \/ UNCHANGED avars
  PROVE  Inv'
<1>1. ASSUME NEW c \in Conns, Connect(c) PROVE Inv'
  <2>1. /\ UNCHANGED <<apc, afd, fds, fdsClosed, ppc, pfd, queue, closed,
                       mpc>>
        /\ net[c] = "away" /\ net' = [net EXCEPT ![c] = "backlog"]
    BY <1>1 DEF Connect, acceptor, fdq, parser, requests
  <2>2. \A d \in Conns : net'[d] = IF d = c THEN "backlog" ELSE net[d]
    BY <2>1 DEF Inv, Types
  <2>3. Types'
    BY <2>1 DEF Inv, Types, Places
  <2>4. Custody' /\ NeverRefused'
    BY <2>1, <2>2 DEF Inv, Custody, InHand, NeverRefused
  <2> QED BY <2>1, <2>3, <2>4 DEF Inv, Ends, Hands, OneHolder, InHand
<1>2. CASE SignalShut
  <2>1. /\ UNCHANGED <<apc, afd, fds, fdsClosed, ppc, pfd, queue, closed,
                       mpc>>
        /\ net' = [c \in Conns |->
                     IF c \in Backlog THEN "reset" ELSE net[c]]
    BY <1>2 DEF SignalShut, acceptor, fdq, parser, requests
  <2>2. Types'
    BY <2>1 DEF Inv, Types, Places
  <2>3. Custody' /\ NeverRefused'
    BY <2>1 DEF Inv, Custody, InHand, NeverRefused, Backlog
  <2> QED BY <2>1, <2>2, <2>3 DEF Inv, Ends, Hands, OneHolder, InHand
<1>3. CASE MainStep
  <2>1. UNCHANGED <<net, apc, afd, fds, fdsClosed, ppc, pfd, queue>>
    BY <1>3 DEF MainStep, JoinAcceptor, JoinParsers, JoinWorkers, acceptor,
                fdq, parser, requests
  <2>2. Ends' /\ mpc' \in {"parsers", "workers", "done"}
              /\ closed' \in BOOLEAN
    <3>1. CASE JoinAcceptor
      BY <2>1, <3>1 DEF JoinAcceptor, Join, requests, Inv, Ends, Types
    <3>2. CASE JoinParsers
      BY <2>1, <3>2 DEF JoinParsers, Join, Inv, Ends
    <3>3. CASE JoinWorkers
      BY <2>1, <3>3 DEF JoinWorkers, Join, requests, Inv, Ends, Types
    <3> QED BY <1>3, <3>1, <3>2, <3>3 DEF MainStep
  <2>3. Types'
    BY <2>1, <2>2 DEF Inv, Types
  <2> QED BY <2>1, <2>2, <2>3
             DEF Inv, Hands, Custody, OneHolder, NeverRefused, InHand
<1>4. CASE Signal \/ Terminated \/ UNCHANGED avars
  <2>1. UNCHANGED <<net, apc, afd, fds, fdsClosed, ppc, pfd, queue, closed,
                    mpc>>
    BY <1>4 DEF Signal, Terminated, avars, acceptor, fdq, parser, requests
  <2> QED BY <2>1 DEF Inv, Types, Ends, Hands, Custody, OneHolder,
                      NeverRefused, InHand
<1> QED BY <1>1, <1>2, <1>3, <1>4

(* The pool takes the oldest request. *)
LEMMA ServeStep ==
  ASSUME Inv, Serve
  PROVE  Inv'
<1>1. /\ UNCHANGED <<apc, afd, fds, fdsClosed, ppc, pfd, closed, mpc>>
      /\ queue # <<>> /\ queue' = Tail(queue)
      /\ net' = [net EXCEPT ![Head(queue)] = "served"]
  BY DEF Serve, acceptor, fdq, parser
<1>2. /\ queue' \in Seq(Conns) /\ Head(queue) \in Conns
      /\ Head(queue) \in ToSet(queue)
      /\ ToSet(queue') = ToSet(queue) \ {Head(queue)}
      /\ IsInjective(queue')
  BY <1>1, TailSet DEF Inv, Types, OneHolder
<1>3. /\ net[Head(queue)] = "admitted"
      /\ \A c \in Conns :
           net'[c] = IF c = Head(queue) THEN "served" ELSE net[c]
  BY <1>1, <1>2 DEF Inv, Types, Custody
<1>4. Types'
  BY <1>1, <1>2 DEF Inv, Types, Places
<1>5. Ends' /\ Hands' /\ OneHolder'
  BY <1>1, <1>2 DEF Inv, Ends, Hands, OneHolder, InHand
<1>6. Custody' /\ NeverRefused'
  BY <1>1, <1>2, <1>3 DEF Inv, Custody, NeverRefused, InHand
<1> QED BY <1>4, <1>5, <1>6 DEF Inv

(* The invariant is kept by every step. *)
LEMMA InvStep == Inv /\ [Next]_avars => Inv'
<1> SUFFICES ASSUME Inv, [Next]_avars PROVE Inv'
  OBVIOUS
<1>1. CASE AcceptorStep
  BY <1>1, QuietAcceptor, AcceptStep, FdPushStep DEF AcceptorStep
<1>2. CASE \E p \in Parsers : ParserStep(p) \/ FdSpuriousWake(p)
  BY <1>2, ParserSteps
<1>3. CASE Serve
  BY <1>3, ServeStep
<1> QED BY <1>1, <1>2, <1>3, OtherSteps DEF Next

(* The server starts with empty hands. *)
LEMMA InvInit == Init => Inv
<1> SUFFICES ASSUME Init PROVE Inv
  OBVIOUS
<1>1. <<>> \in Seq(Conns) /\ ToSet(<<>>) = {} /\ IsInjective(<<>>)
  BY EmptySeq DEF ToSet, IsInjective
<1>2. Types
  BY <1>1 DEF Init, Types, Places
<1>3. Ends /\ Hands /\ NeverRefused
  BY DEF Init, Ends, Hands, NeverRefused
<1>4. Custody /\ OneHolder
  BY <1>1, AdmissionAssumption DEF Init, Custody, OneHolder, InHand
<1> QED BY <1>2, <1>3, <1>4 DEF Inv

(* The whole invariant of admission and shutdown. *)
THEOREM AdmissionInvariant == Spec => []Inv
BY InvInit, InvStep, PTL DEF Spec

(* No client with a valid header is turned away, wherever the signal       *)
(* falls: main closes the request queue after the last parser's last push. *)
THEOREM NobodyIsRefused == Spec => []NeverRefused
<1>1. Inv => NeverRefused
  BY DEF Inv
<1> QED BY <1>1, AdmissionInvariant, PTL

(* When main has joined every thread no accepted connection is left open:  *)
(* what the acceptor took, a parser or the pool has answered.              *)
THEOREM NothingIsLeftOpen == Spec => []NothingLeftOpen
<1>1. ASSUME Inv PROVE NothingLeftOpen
  <2>1. SUFFICES ASSUME mpc = "done", NEW c \in Conns
                 PROVE  net[c] \notin {"accepted", "admitted"}
    BY DEF NothingLeftOpen
  <2>2. /\ apc = "ended" /\ queue = <<>>
        /\ \A p \in Parsers : ppc[p] = "ended"
    BY <1>1, <2>1 DEF Inv, Ends
  <2>3. fds = <<>> /\ afd = None /\ ~InHand(c)
    BY <1>1, <2>2, AdmissionAssumption DEF Inv, Ends, Hands, InHand
  <2>4. ToSet(<<>>) = {}
    BY DEF ToSet
  <2> QED BY <1>1, <2>2, <2>3, <2>4, AdmissionAssumption DEF Inv, Custody
<1>2. Inv => NothingLeftOpen
  BY <1>1
<1> QED BY <1>2, AdmissionInvariant, PTL

(* A descriptor is in one place at a time, once: no two threads ever hold, *)
(* answer or close the same connection.                                    *)
THEOREM OneHolderPerConnection == Spec => []OneHolder
<1>1. Inv => OneHolder
  BY DEF Inv
<1> QED BY <1>1, AdmissionInvariant, PTL
=============================================================================
