---------------------------- MODULE RequestQueue ----------------------------
(***************************************************************************)
(* The monitor RequestQueue of queue.h and queue.cpp, with the threads of  *)
(* main.cpp that call it: parsers push, workers pop, requeue or complete,  *)
(* and the main thread closes.                                             *)
(*                                                                         *)
(* Every method is one critical section of mutex_, so one step; a          *)
(* notification sent after the mutex is released (push, requeue, close) is *)
(* a step of its own, because any thread may run in between.  Blocking in  *)
(* cv_.wait is membership of waiters; a notification only removes a thread *)
(* from waiters, and the thread re-evaluates the predicate in a later step.*)
(***************************************************************************)
EXTENDS Naturals, SequencesExt

CONSTANTS Workers,       (* threads running worker_thread                  *)
          Parsers,       (* threads running parser_thread                  *)
          Requests,      (* request identities                             *)
          None,          (* "holds no request"                             *)
          Better(_, _),  (* the comparison given to wait_pop_best          *)
          MaxRequeues    (* bound: how often one request is preempted      *)

ASSUME QueueAssumption ==
  /\ IsFiniteSet(Workers)
  /\ IsFiniteSet(Parsers)
  /\ None \notin Requests
  /\ MaxRequeues \in Nat

(* The comparison of scheduling.cpp is strict; it need not be total, as    *)
(* two requests of one size may have the same arrival_ns.                  *)
ASSUME BetterAssumption ==
  \A a, b \in Requests : Better(a, b) => ~Better(b, a)

VARIABLES queue,     (* queue_                                             *)
          closed,    (* closed_                                            *)
          inflight,  (* inflight_                                          *)
          waiters,   (* workers asleep in cv_.wait                         *)
          wpc,       (* where each worker is                               *)
          ppc,       (* where each parser is                               *)
          mpc,       (* where the main thread is                           *)
          held,      (* the request each worker has popped                 *)
          unpushed,  (* requests not yet passed to push                    *)
          refused,   (* requests push returned false for                   *)
          finished,  (* requests complete() was called for                 *)
          requeues,  (* how often each request was preempted               *)
          method,    (* the pop that Scheduler::next calls, fixed by policy*)
          passed     (* history: passed[r][x] counts the pops of x during  *)
                     (* the present wait of r                              *)

service == <<method, passed>>
qvars == <<queue, closed, inflight, waiters, wpc, ppc, mpc, held, unpushed,
           refused, finished, requeues, method, passed>>

Nobody == [x \in Requests |-> 0]

Init ==
  /\ queue = <<>>
  /\ closed = FALSE
  /\ inflight = 0
  /\ waiters = {}
  /\ wpc = [w \in Workers |-> "ready"]
  /\ ppc = [p \in Parsers |-> "ready"]
  /\ mpc = "open"
  /\ held = [w \in Workers |-> None]
  /\ unpushed = Requests
  /\ refused = {}
  /\ finished = {}
  /\ requeues = [r \in Requests |-> 0]
  /\ method \in {"wait_pop", "wait_pop_best"}
  /\ passed = [r \in Requests |-> Nobody]

(* The workers in each place; Awake ones evaluate the predicate next.      *)
Serving == {w \in Workers : wpc[w] = "serving"}
Awake == {w \in Workers : wpc[w] = "ready" /\ w \notin waiters}
Notifying == {w \in Workers : wpc[w] = "requeued"}
Pushed == {p \in Parsers : ppc[p] = "pushed"}
Exited == {w \in Workers : wpc[w] = "exited"}

(* Variant: the notification wakes nobody.                                 *)
NotifyOneLost == UNCHANGED waiters

(* cv_.notify_one: some thread asleep wakes, none if none is asleep.       *)
NotifyOne ==
  \/ waiters = {} /\ UNCHANGED waiters
  \/ \E w \in waiters : waiters' = waiters \ {w}

(* Variant: only one sleeper is woken.                                     *)
NotifyAllAsOne ==
  \/ waiters = {} /\ UNCHANGED waiters
  \/ \E w \in waiters : waiters' = waiters \ {w}

(* cv_.notify_all. *)
NotifyAll == waiters' = {}

(* Variant: requests in flight are forgotten.                              *)
WakePredicateNoInflight == queue # <<>> \/ closed

(* The predicate of the two cv_.wait calls. *)
WakePredicate == queue # <<>> \/ (closed /\ inflight = 0)

(***************************************************************************)
(* push: refused once closed, else appended, then notify_one unlocked.     *)
(***************************************************************************)
(* Variant: closed_ is not looked at.                                      *)
AdmitsAlways == TRUE

Admits == ~closed

PushRefused(p, r) ==
  /\ ppc[p] = "ready"
  /\ r \in unpushed
  /\ ~Admits
  /\ unpushed' = unpushed \ {r}
  /\ refused' = refused \cup {r}
  /\ UNCHANGED <<queue, closed, inflight, waiters, wpc, ppc, mpc, held,
                 finished, requeues, service>>

Push(p, r) ==
  /\ ppc[p] = "ready"
  /\ r \in unpushed
  /\ Admits
  /\ queue' = Append(queue, r)
  /\ unpushed' = unpushed \ {r}
  /\ ppc' = [ppc EXCEPT ![p] = "pushed"]
  /\ UNCHANGED <<closed, inflight, waiters, wpc, mpc, held, refused,
                 finished, requeues, service>>

PushNotify(p) ==
  /\ ppc[p] = "pushed"
  /\ NotifyOne
  /\ ppc' = [ppc EXCEPT ![p] = "ready"]
  /\ UNCHANGED <<queue, closed, inflight, wpc, mpc, held, unpushed, refused,
                 finished, requeues, service>>

(***************************************************************************)
(* The pops.  PopAt is what they share once an index is chosen.            *)
(***************************************************************************)
(* Variant: inflight_ is not incremented.                                  *)
IncrementedNot == inflight

Incremented == inflight + 1

(* Variant: the request stays in the queue.                                *)
ErasedNot(i) == queue

Erased(i) == RemoveAt(queue, i)

(* The waits that go on while queue[i] is popped, and the one that ends.   *)
Overtaken(i) ==
  [r \in Requests |->
    IF r = queue[i] THEN Nobody
    ELSE IF r \in ToSet(queue) THEN [passed[r] EXCEPT ![queue[i]] = @ + 1]
    ELSE passed[r]]

PopAt(w, i) ==
  /\ held' = [held EXCEPT ![w] = queue[i]]
  /\ queue' = Erased(i)
  /\ inflight' = Incremented
  /\ wpc' = [wpc EXCEPT ![w] = "serving"]
  /\ passed' = Overtaken(i)
  /\ UNCHANGED <<closed, waiters, ppc, mpc, unpushed, refused, finished,
                 requeues, method>>

(* wait_pop, woken with work: the front of the queue. *)
WaitPop(w) ==
  /\ w \in Awake
  /\ method = "wait_pop"
  /\ queue # <<>>
  /\ PopAt(w, 1)

(* Variant: the first element is taken.                                    *)
IsBestUnscanned(i) == i = 1

(* The index a left-to-right scan with a strict comparison ends on: better *)
(* than all before it, and nothing after it is better.                     *)
IsBest(i) ==
  /\ \A j \in 1 .. (i - 1) : Better(queue[i], queue[j])
  /\ \A j \in (i + 1) .. Len(queue) : ~Better(queue[j], queue[i])

(* wait_pop_best, woken with work. *)
WaitPopBest(w) ==
  /\ w \in Awake
  /\ method = "wait_pop_best"
  /\ queue # <<>>
  /\ \E i \in DOMAIN queue : IsBest(i) /\ PopAt(w, i)

(* try_pop: never blocks, and on an empty queue changes nothing.  The      *)
(* server has no caller of it; a caller that polls is a worker of a server *)
(* that serves in order of arrival.                                        *)
TryPop(w) ==
  /\ w \in Awake
  /\ method = "wait_pop"
  /\ queue # <<>>
  /\ PopAt(w, 1)

(* A pop whose predicate is false: the mutex is released and w sleeps.     *)
Block(w) ==
  /\ w \in Awake
  /\ ~WakePredicate
  /\ waiters' = waiters \cup {w}
  /\ UNCHANGED <<queue, closed, inflight, wpc, ppc, mpc, held, unpushed,
                 refused, finished, requeues, service>>

(* A pop that returns false: worker_thread leaves its loop.                *)
Exit(w) ==
  /\ w \in Awake
  /\ WakePredicate
  /\ queue = <<>>
  /\ wpc' = [wpc EXCEPT ![w] = "exited"]
  /\ UNCHANGED <<queue, closed, inflight, waiters, ppc, mpc, held, unpushed,
                 refused, finished, requeues, service>>

(* A condition variable may wake a thread that nobody notified.            *)
SpuriousWake(w) ==
  /\ w \in waiters
  /\ waiters' = waiters \ {w}
  /\ UNCHANGED <<queue, closed, inflight, wpc, ppc, mpc, held, unpushed,
                 refused, finished, requeues, service>>

(***************************************************************************)
(* requeue and complete, called by the worker that popped the request.     *)
(* Both decrement inflight_ only while it is positive.                     *)
(***************************************************************************)
Decremented == IF inflight > 0 THEN inflight - 1 ELSE inflight

(* Variant: the request is used after it was moved.                        *)
RequeuedMoved(w) == Append(queue, None)

(* Variant: push_front for push_back.                                      *)
RequeuedAtFront(w) == <<held[w]>> \o queue

Requeued(w) == Append(queue, held[w])

Requeue(w) ==
  /\ wpc[w] = "serving"
  /\ requeues[held[w]] < MaxRequeues
  /\ inflight' = Decremented
  /\ queue' = Requeued(w)
  /\ requeues' = [requeues EXCEPT ![held[w]] = @ + 1]
  /\ held' = [held EXCEPT ![w] = None]
  /\ wpc' = [wpc EXCEPT ![w] = "requeued"]
  /\ UNCHANGED <<closed, waiters, ppc, mpc, unpushed, refused, finished,
                 service>>

RequeueNotify(w) ==
  /\ wpc[w] = "requeued"
  /\ NotifyOne
  /\ wpc' = [wpc EXCEPT ![w] = "ready"]
  /\ UNCHANGED <<queue, closed, inflight, ppc, mpc, held, unpushed, refused,
                 finished, requeues, service>>

Complete(w) ==
  /\ wpc[w] = "serving"
  /\ inflight' = Decremented
  /\ NotifyAll
  /\ finished' = finished \cup {held[w]}
  /\ held' = [held EXCEPT ![w] = None]
  /\ wpc' = [wpc EXCEPT ![w] = "ready"]
  /\ UNCHANGED <<queue, closed, ppc, mpc, unpushed, refused, requeues,
                 service>>

(***************************************************************************)
(* close, then its notify_all outside the mutex.                           *)
(***************************************************************************)
Close ==
  /\ mpc = "open"
  /\ closed' = TRUE
  /\ mpc' = "closing"
  /\ UNCHANGED <<queue, inflight, waiters, wpc, ppc, held, unpushed, refused,
                 finished, requeues, service>>

CloseNotify ==
  /\ mpc = "closing"
  /\ NotifyAll
  /\ mpc' = "closed"
  /\ UNCHANGED <<queue, closed, inflight, wpc, ppc, held, unpushed, refused,
                 finished, requeues, service>>

(* The end of the program: every thread is done and nothing moves.         *)
Terminated ==
  /\ Exited = Workers
  /\ mpc = "closed"
  /\ Pushed = {}
  /\ unpushed = {}
  /\ UNCHANGED qvars

WorkerStep(w) ==
  \/ WaitPop(w) \/ WaitPopBest(w) \/ Block(w) \/ Exit(w)
  \/ Requeue(w) \/ RequeueNotify(w) \/ Complete(w)

Next ==
  \/ \E p \in Parsers, r \in Requests : Push(p, r) \/ PushRefused(p, r)
  \/ \E p \in Parsers : PushNotify(p)
  \/ \E w \in Workers : WorkerStep(w) \/ TryPop(w) \/ SpuriousWake(w)
  \/ Close
  \/ CloseNotify
  \/ Terminated

Spec == Init /\ [][Next]_qvars

(***************************************************************************)
(* Threads that hold or can take the mutex keep running: each worker       *)
(* (a round of service ends, by success, error or timeout), and each       *)
(* thread that has already entered push or close.  Nothing makes a parser  *)
(* push, the main thread close, or a wake-up spurious.                     *)
(***************************************************************************)
Fairness ==
  /\ \A w \in Workers : WF_qvars(WorkerStep(w))
  /\ \A p \in Parsers : WF_qvars(PushNotify(p))
  /\ WF_qvars(CloseNotify)

FairSpec == Spec /\ Fairness

-----------------------------------------------------------------------------
(* Every variable but the history has its type. *)
TypeOK ==
  /\ queue \in Seq(Requests)
  /\ closed \in BOOLEAN
  /\ inflight \in Nat
  /\ waiters \subseteq Workers
  /\ wpc \in [Workers -> {"ready", "serving", "requeued", "exited"}]
  /\ ppc \in [Parsers -> {"ready", "pushed"}]
  /\ mpc \in {"open", "closing", "closed"}
  /\ held \in [Workers -> Requests \cup {None}]
  /\ unpushed \subseteq Requests
  /\ refused \subseteq Requests
  /\ finished \subseteq Requests
  /\ requeues \in [Requests -> Nat]
  /\ method \in {"wait_pop", "wait_pop_best"}

(* inflight_ counts exactly the workers between a pop and the requeue or   *)
(* complete that answers it, so the guards "if (inflight_ > 0)" of requeue *)
(* and complete (queue.cpp:50, queue.cpp:62) never hide a decrement that   *)
(* was not earned.                                                         *)
InflightExact == inflight = Cardinality(Serving)

(* An admitted request is in exactly one place: once in queue_, or held by *)
(* one worker, or finished; never lost or served twice at a time.          *)
Taken == {held[w] : w \in Serving}
Outside == unpushed \cup refused \cup finished

OnePlace ==
  /\ IsInjective(queue)
  /\ \A v, w \in Serving : held[v] = held[w] => v = w
  /\ \A w \in Workers : held[w] # None <=> w \in Serving
  /\ ToSet(queue) \cup Taken \cup Outside = Requests
  /\ ToSet(queue) \cap Taken = {}
  /\ Outside \cap (ToSet(queue) \cup Taken) = {}

(* A worker that has left its loop (pop returned false) leaves nothing     *)
(* behind: the queue is closed, empty, and no request is in flight that    *)
(* could still be requeued after close (the requeue of queue.cpp:46 does   *)
(* not look at closed_).                                                   *)
ExitOnlyWhenDrained ==
  Exited # {} => closed /\ queue = <<>> /\ Serving = {}

(* No wake-up is lost: while some worker sleeps, every queued request has  *)
(* a worker that is awake to take it, or a notify_one still to be sent     *)
(* after the mutex was released.                                           *)
NoLostWakeup ==
  waiters # {} =>
    Len(queue) <= Cardinality(Awake) + Cardinality(Notifying)
                    + Cardinality(Pushed)

(* Nobody sleeps through the end: when the queue is closed, empty and idle *)
(* only the notify_all of close can still be missing.                      *)
NoSleepAfterDrain ==
  (closed /\ queue = <<>> /\ inflight = 0 /\ waiters # {}) => mpc = "closing"

(* First come, first served between preemptions: while r waits, nobody is  *)
(* popped twice.  requeue puts the preempted request behind r, and push    *)
(* puts newcomers behind r, so each other request passes r at most once    *)
(* (FCFS, RR and DRR, which pop the front: scheduling.cpp:29, 56, 64).     *)
NoDoubleBypass ==
  method = "wait_pop" =>
    \A i \in DOMAIN queue : \A x \in Requests : passed[queue[i]][x] <= 1

(* Shortest job first: whoever passes a waiting request is better, by size *)
(* and then arrival (scheduling.cpp:39-47), whatever the order of arrival. *)
OvertakenOnlyByBetter ==
  method = "wait_pop_best" =>
    \A i \in DOMAIN queue : \A x \in Requests :
      passed[queue[i]][x] > 0 => Better(x, queue[i])

(* Every admitted request is eventually finished, before and after close,  *)
(* whatever the pop order, as long as preemptions are bounded.             *)
EveryRequestFinished ==
  \A r \in Requests :
    (\E i \in DOMAIN queue : queue[i] = r) ~> r \in finished

(* After close every worker returns, so the joins of main.cpp:412 end.     *)
WorkersJoin == closed ~> (Exited = Workers)

(* The queue implements the abstract pool, including its two promises of   *)
(* progress.                                                               *)
Pool == INSTANCE WorkPool WITH
          pending <- ToSet(queue), serving <- held, done <- finished,
          shut <- closed, gone <- Exited

ImplementsPool == Pool!PoolSpec
=============================================================================
