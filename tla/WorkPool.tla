------------------------------ MODULE WorkPool ------------------------------
(***************************************************************************)
(* What the request queue promises to the threads around it, with neither  *)
(* mutex, condition variable nor counter: a pool of requests that workers  *)
(* take, hand back or finish, and that a worker leaves only when no work   *)
(* can ever come again.  RequestQueue is shown to implement it.            *)
(***************************************************************************)
CONSTANTS Workers, Requests, None

VARIABLES pending,  (* requests waiting for a worker                       *)
          serving,  (* serving[w]: the request w works on, or None         *)
          done,     (* requests no worker will see again                   *)
          shut,     (* no further request is taken into the pool           *)
          gone      (* workers that have left                              *)

poolVars == <<pending, serving, done, shut, gone>>

PoolInit ==
  /\ pending = {}
  /\ serving = [w \in Workers |-> None]
  /\ done = {}
  /\ shut = FALSE
  /\ gone = {}

InService(r) == \E w \in Workers : serving[w] = r

Submit(r) ==
  /\ ~shut
  /\ r \notin pending \cup done
  /\ ~InService(r)
  /\ pending' = pending \cup {r}
  /\ UNCHANGED <<serving, done, shut, gone>>

Take(w, r) ==
  /\ w \notin gone
  /\ serving[w] = None
  /\ r \in pending
  /\ pending' = pending \ {r}
  /\ serving' = [serving EXCEPT ![w] = r]
  /\ UNCHANGED <<done, shut, gone>>

HandBack(w) ==
  /\ serving[w] # None
  /\ pending' = pending \cup {serving[w]}
  /\ serving' = [serving EXCEPT ![w] = None]
  /\ UNCHANGED <<done, shut, gone>>

Finish(w) ==
  /\ serving[w] # None
  /\ done' = done \cup {serving[w]}
  /\ serving' = [serving EXCEPT ![w] = None]
  /\ UNCHANGED <<pending, shut, gone>>

Shut ==
  /\ shut' = TRUE
  /\ UNCHANGED <<pending, serving, done, gone>>

Drained == shut /\ pending = {} /\ \A w \in Workers : serving[w] = None

Leave(w) ==
  /\ Drained
  /\ w \notin gone
  /\ gone' = gone \cup {w}
  /\ UNCHANGED <<pending, serving, done, shut>>

PoolNext ==
  \/ \E r \in Requests : Submit(r)
  \/ \E w \in Workers, r \in Requests : Take(w, r)
  \/ \E w \in Workers : HandBack(w) \/ Finish(w) \/ Leave(w)
  \/ Shut

PoolSafety == PoolInit /\ [][PoolNext]_poolVars

(* Pending work never waits for ever beside an idle worker, and a drained  *)
(* pool is left by everybody.                                              *)
PoolFairness ==
  /\ WF_poolVars(\E w \in Workers, r \in Requests : Take(w, r))
  /\ \A w \in Workers : WF_poolVars(Leave(w))

PoolSpec == PoolSafety /\ PoolFairness
=============================================================================
