----------------------------- MODULE Admission ------------------------------
(***************************************************************************)
(* How a connection becomes a request, and how the server stops: the       *)
(* signal handler, acceptor_thread, the FdQueue, parser_thread and the     *)
(* joins of main (main.cpp, queue.cpp).  The FdQueue is a monitor with its *)
(* condition variable; of the RequestQueue only the order of its contents  *)
(* and closed_ matter here (RequestQueue has the rest), and the worker     *)
(* pool is one step that serves the front.                                 *)
(***************************************************************************)
EXTENDS Naturals, SequencesExt

CONSTANTS Conns,    (* client connections                                  *)
          Parsers,  (* threads running parser_thread                       *)
          Header,   (* Header[c]: what the first line of c amounts to      *)
          None

Headers == {"transfer",  (* GET of a file that exists, or a PUT            *)
            "health",
            "bad",       (* malformed, bad name, or no such file           *)
            "silent"}    (* no whole line within the timeout               *)

(* main starts at least eight parsers.                                     *)
ASSUME AdmissionAssumption ==
  /\ IsFiniteSet(Conns) /\ IsFiniteSet(Parsers)
  /\ Parsers # {}
  /\ None \notin Conns
  /\ Header \in [Conns -> Headers]

VARIABLES shutdown,   (* shutdown_flag                                     *)
          deaf,       (* the listening socket has been shut down           *)
          net,        (* where each connection is                          *)
          apc, afd,   (* the acceptor, and the descriptor it holds         *)
          fds,        (* FdQueue::queue_                                   *)
          fdsClosed,  (* FdQueue::closed_                                  *)
          sleeping,   (* parsers asleep in FdQueue::wait_pop               *)
          ppc, pfd,   (* each parser, and the descriptor it holds          *)
          now,        (* the monotonic clock, advanced when it is read     *)
          arrival,    (* arrival_ns of each request, 0 before              *)
          queue,      (* RequestQueue::queue_                              *)
          closed,     (* RequestQueue::closed_                             *)
          mpc         (* main: which join it is in                         *)

signal == <<shutdown, deaf>>
acceptor == <<apc, afd>>
fdq == <<fds, fdsClosed, sleeping>>
parser == <<ppc, pfd>>
stamps == <<now, arrival>>
requests == <<queue, closed>>
avars == <<signal, net, acceptor, fdq, parser, stamps, requests, mpc>>

Init ==
  /\ shutdown = FALSE /\ deaf = FALSE
  /\ net = [c \in Conns |-> "away"]
  /\ apc = "loop" /\ afd = None
  /\ fds = <<>> /\ fdsClosed = FALSE /\ sleeping = {}
  /\ ppc = [p \in Parsers |-> "pop"]
  /\ pfd = [p \in Parsers |-> None]
  /\ now = 1 /\ arrival = [c \in Conns |-> 0]
  /\ queue = <<>> /\ closed = FALSE
  /\ mpc = "acceptor"

Backlog == {c \in Conns : net[c] = "backlog"}

-----------------------------------------------------------------------------
(* The surroundings: clients connect, and a signal arrives.  The handler   *)
(* sets the flag and then shuts the listening socket down, which resets    *)
(* what is still in the backlog.                                           *)
Connect(c) ==
  /\ net[c] = "away" /\ ~deaf
  /\ net' = [net EXCEPT ![c] = "backlog"]
  /\ UNCHANGED <<signal, acceptor, fdq, parser, stamps, requests, mpc>>

Signal ==
  /\ ~shutdown
  /\ shutdown' = TRUE
  /\ UNCHANGED <<acceptor, fdq, parser, stamps, requests, deaf, net, mpc>>

SignalShut ==
  /\ shutdown /\ ~deaf
  /\ deaf' = TRUE
  /\ net' = [c \in Conns |-> IF c \in Backlog THEN "reset" ELSE net[c]]
  /\ UNCHANGED <<acceptor, fdq, parser, stamps, requests, shutdown, mpc>>

-----------------------------------------------------------------------------
(* acceptor_thread. *)
Acceptor(from, to) == apc = from /\ apc' = to

(* The loop condition. *)
AcceptLoop ==
  /\ Acceptor("loop", IF shutdown THEN "close" ELSE "select")
  /\ UNCHANGED <<signal, fdq, parser, stamps, requests, net, afd, mpc>>

(* select: readable, or nothing for 100 ms, or interrupted by the signal.  *)
Select ==
  /\ \/ Acceptor("select", "accept") /\ (Backlog # {} \/ deaf)
     \/ Acceptor("select", "loop") /\ Backlog = {} /\ ~deaf
     \/ Acceptor("select", "close") /\ shutdown
  /\ UNCHANGED <<signal, fdq, parser, stamps, requests, net, afd, mpc>>

Accept(c) ==
  /\ c \in Backlog
  /\ Acceptor("accept", "push")
  /\ afd' = c
  /\ net' = [net EXCEPT ![c] = "accepted"]
  /\ UNCHANGED <<signal, fdq, parser, stamps, requests, mpc>>

FailedAccept == IF shutdown THEN "close" ELSE "loop"

(* accept fails: once the socket is shut down, when the flag is up, or     *)
(* before that, out of descriptors say, and then the loop goes on.         *)
AcceptFails ==
  /\ Acceptor("accept", FailedAccept)
  /\ UNCHANGED <<signal, fdq, parser, stamps, requests, net, afd, mpc>>

(* FdQueue::push under its mutex, then notify_one outside it.              *)
FdPush ==
  /\ Acceptor("push", "notify")
  /\ ~fdsClosed
  /\ fds' = Append(fds, afd)
  /\ afd' = None
  /\ UNCHANGED <<signal, parser, stamps, requests, net, fdsClosed, sleeping,
                 mpc>>

(* Variant: the notification wakes nobody.                                 *)
FdNotifyOneLost == UNCHANGED sleeping

FdNotifyOne ==
  \/ sleeping = {} /\ UNCHANGED sleeping
  \/ \E p \in sleeping : sleeping' = sleeping \ {p}

FdPushNotify ==
  /\ Acceptor("notify", "loop")
  /\ FdNotifyOne
  /\ UNCHANGED <<signal, parser, stamps, requests, net, afd, fds, fdsClosed,
                 mpc>>

(* Variant: close wakes one parser.                                        *)
FdNotifyAllAsOne == FdNotifyOne

FdNotifyAll == sleeping' = {}

(* FdQueue::close, then notify_all; the thread ends. *)
FdClose ==
  /\ Acceptor("close", "closing")
  /\ fdsClosed' = TRUE
  /\ UNCHANGED <<signal, parser, stamps, requests, net, afd, fds, sleeping,
                 mpc>>

FdCloseNotify ==
  /\ Acceptor("closing", "ended")
  /\ FdNotifyAll
  /\ UNCHANGED <<signal, parser, stamps, requests, net, afd, fds, fdsClosed,
                 mpc>>

-----------------------------------------------------------------------------
(* parser_thread. *)
Parser(p, from, to) == ppc[p] = from /\ ppc' = [ppc EXCEPT ![p] = to]

(* FdQueue::wait_pop: a descriptor, or sleep, or the end of the thread.    *)
FdPop(p) ==
  /\ p \notin sleeping
  /\ Parser(p, "pop", "read")
  /\ fds # <<>>
  /\ pfd' = [pfd EXCEPT ![p] = Head(fds)]
  /\ fds' = Tail(fds)
  /\ UNCHANGED <<signal, acceptor, stamps, requests, net, fdsClosed,
                 sleeping, mpc>>

FdBlock(p) ==
  /\ ppc[p] = "pop" /\ p \notin sleeping
  /\ fds = <<>> /\ ~fdsClosed
  /\ sleeping' = sleeping \cup {p}
  /\ UNCHANGED <<signal, acceptor, parser, stamps, requests, net, fds,
                 fdsClosed, mpc>>

(* Variant: queued descriptors are abandoned.                              *)
FdsOverAtOnce == fdsClosed

FdsOver == fds = <<>> /\ fdsClosed

ParserExits(p) ==
  /\ p \notin sleeping
  /\ Parser(p, "pop", "ended")
  /\ FdsOver
  /\ UNCHANGED <<signal, acceptor, fdq, stamps, requests, net, pfd, mpc>>

FdSpuriousWake(p) ==
  /\ p \in sleeping
  /\ sleeping' = sleeping \ {p}
  /\ UNCHANGED <<signal, acceptor, parser, stamps, requests, net, fds,
                 fdsClosed, mpc>>

(* The connection is answered and closed without entering the queue: an    *)
(* error, a timeout after one second, or the queue depth for HEALTH.       *)
Answer(p) ==
  /\ Parser(p, "read", "pop")
  /\ Header[pfd[p]] # "transfer"
  /\ net' = [net EXCEPT ![pfd[p]] =
       IF Header[pfd[p]] = "health" THEN "health" ELSE "error"]
  /\ pfd' = [pfd EXCEPT ![p] = None]
  /\ UNCHANGED <<signal, acceptor, fdq, stamps, requests, mpc>>

(* Admission takes two steps, not synchronised with another parser: the    *)
(* identity, from an atomic counter, with the time of arrival; the push.   *)
Stamp(p) ==
  /\ Parser(p, "read", "push")
  /\ Header[pfd[p]] = "transfer"
  /\ arrival' = [arrival EXCEPT ![pfd[p]] = now]
  /\ now' = now + 1
  /\ UNCHANGED <<signal, acceptor, fdq, requests, net, pfd, mpc>>

(* RequestQueue::push; when refused, an error and close.                   *)
Push(p) ==
  /\ Parser(p, "push", "pop")
  /\ IF closed
       THEN net' = [net EXCEPT ![pfd[p]] = "refused"] /\ UNCHANGED queue
       ELSE /\ net' = [net EXCEPT ![pfd[p]] = "admitted"]
            /\ queue' = Append(queue, pfd[p])
  /\ pfd' = [pfd EXCEPT ![p] = None]
  /\ UNCHANGED <<signal, acceptor, fdq, stamps, closed, mpc>>

-----------------------------------------------------------------------------
(* The worker pool: the front of the queue is served to its end.           *)
Serve ==
  /\ queue # <<>>
  /\ net' = [net EXCEPT ![Head(queue)] = "served"]
  /\ queue' = Tail(queue)
  /\ UNCHANGED <<signal, acceptor, fdq, parser, stamps, closed, mpc>>

Join(from, to) == mpc = from /\ mpc' = to

(* Variant: the request queue is closed too early.                         *)
JoinAcceptorAndClose ==
  /\ Join("acceptor", "parsers") /\ apc = "ended"
  /\ closed' = TRUE
  /\ UNCHANGED <<signal, acceptor, fdq, parser, stamps, net, queue>>

(* main: join the acceptor, join the parsers and close the request queue,  *)
(* join the workers (who leave a closed queue when it is drained).         *)
JoinAcceptor ==
  /\ Join("acceptor", "parsers") /\ apc = "ended"
  /\ UNCHANGED <<signal, acceptor, fdq, parser, stamps, requests, net>>

JoinParsers ==
  /\ Join("parsers", "workers") /\ \A p \in Parsers : ppc[p] = "ended"
  /\ closed' = TRUE
  /\ UNCHANGED <<signal, acceptor, fdq, parser, stamps, net, queue>>

JoinWorkers ==
  /\ Join("workers", "done") /\ queue = <<>>
  /\ UNCHANGED <<signal, acceptor, fdq, parser, stamps, requests, net>>

Terminated == mpc = "done" /\ UNCHANGED avars

AcceptorStep ==
  \/ AcceptLoop \/ Select \/ (\E c \in Conns : Accept(c)) \/ AcceptFails
  \/ FdPush \/ FdPushNotify \/ FdClose \/ FdCloseNotify

ParserStep(p) ==
  \/ FdPop(p) \/ FdBlock(p) \/ ParserExits(p)
  \/ Answer(p) \/ Stamp(p) \/ Push(p)

MainStep == JoinAcceptor \/ JoinParsers \/ JoinWorkers

Next ==
  \/ \E c \in Conns : Connect(c)
  \/ Signal \/ SignalShut
  \/ AcceptorStep
  \/ \E p \in Parsers : ParserStep(p) \/ FdSpuriousWake(p)
  \/ Serve
  \/ MainStep
  \/ Terminated

Spec == Init /\ [][Next]_avars

(* Every thread keeps running, every wait of a parser for a header ends    *)
(* (one second), a handler that has begun ends, and admitted requests are  *)
(* served.  Nobody has to connect, and no signal has to arrive.            *)
FairSpec ==
  /\ Spec
  /\ WF_avars(SignalShut) /\ WF_avars(AcceptorStep)
  /\ \A p \in Parsers : WF_avars(ParserStep(p))
  /\ WF_avars(Serve) /\ WF_avars(MainStep)

-----------------------------------------------------------------------------
(* The answer "server shutting down" (main.cpp:112) is never given: main   *)
(* closes the request queue only after the last parser has returned, so no *)
(* client that got as far as a valid header is turned away, also long      *)
(* after a signal.  "After SIGINT, new admissions stop" (README.md:120)    *)
(* says otherwise.                                                         *)
NeverRefused == \A c \in Conns : net[c] # "refused"

(* No descriptor is left behind: when the server is done, every connection *)
(* it accepted has been answered and closed or served, also those accepted *)
(* while the signal was being handled.                                     *)
NothingLeftOpen ==
  mpc = "done" => \A c \in Conns : net[c] \notin {"accepted", "admitted"}

(* "A silent client cannot stall admission of others" (README.md): every   *)
(* accepted connection is answered or admitted, whoever else is silent.    *)
AcceptedAreHandled ==
  \A c \in Conns : net[c] = "accepted" ~> net[c] # "accepted"

(* After a signal main gets through all of its joins.                      *)
ShutdownCompletes == shutdown ~> mpc = "done"

(* "FCFS: arrival order" (README.md): the queue is ordered by arrival_ns.  *)
QueueInArrivalOrder ==
  \A i, j \in DOMAIN queue : i < j => arrival[queue[i]] < arrival[queue[j]]
=============================================================================
