------------------------- MODULE RequestQueueProofs -------------------------
(***************************************************************************)
(* Proofs about RequestQueue for any finite sets of workers and parsers,   *)
(* any requests, either pop and any comparison.                            *)
(***************************************************************************)
EXTENDS RequestQueue, SequenceLemmas, FiniteSetTheorems, SequenceTheorems,
        TLAPS

-----------------------------------------------------------------------------
(* The three pops are one step: an awake worker takes the element at some  *)
(* index.                                                                  *)
SomePop(w, i) == w \in Awake /\ PopAt(w, i)

(* The steps of the queue with the pops merged.                            *)
LEMMA StepCases ==
  ASSUME TypeOK, Next
  PROVE  \/ \E p \in Parsers, r \in Requests : Push(p, r)
         \/ \E p \in Parsers, r \in Requests : PushRefused(p, r)
         \/ \E p \in Parsers : PushNotify(p)
         \/ \E w \in Workers, i \in 1 .. Len(queue) : SomePop(w, i)
         \/ \E w \in Workers : Block(w)
         \/ \E w \in Workers : Exit(w)
         \/ \E w \in Workers : SpuriousWake(w)
         \/ \E w \in Workers : Requeue(w)
         \/ \E w \in Workers : RequeueNotify(w)
         \/ \E w \in Workers : Complete(w)
         \/ Close
         \/ CloseNotify
         \/ UNCHANGED qvars
<1>1. DOMAIN queue = 1 .. Len(queue) /\ Len(queue) \in Nat
  BY LenProperties DEF TypeOK
<1>2. queue # <<>> => 1 \in 1 .. Len(queue)
  BY <1>1, EmptySeq DEF TypeOK
<1>3. ASSUME NEW w \in Workers, WaitPop(w) \/ TryPop(w)
      PROVE  \E i \in 1 .. Len(queue) : SomePop(w, i)
  BY <1>2, <1>3 DEF WaitPop, TryPop, SomePop
<1>4. ASSUME NEW w \in Workers, WaitPopBest(w)
      PROVE  \E i \in 1 .. Len(queue) : SomePop(w, i)
  BY <1>1, <1>4 DEF WaitPopBest, SomePop
<1> QED BY <1>3, <1>4 DEF Next, WorkerStep, Terminated

(***************************************************************************)
(* The base of every other invariant: types, together with where a worker  *)
(* may hold a request (TypeOK alone is not inductive: a requeue must put   *)
(* a request, not None, into the queue) and where it may sleep.            *)
(***************************************************************************)
HeldExact == \A w \in Workers : held[w] # None <=> wpc[w] = "serving"
SleepersReady == \A w \in waiters : wpc[w] = "ready"
Base == TypeOK /\ HeldExact /\ SleepersReady

(* The base is preserved by every step. *)
LEMMA BaseStep ==
  ASSUME Base, Next
  PROVE  Base'
<1> USE QueueAssumption DEF TypeOK, HeldExact, SleepersReady, Base, service
<1>1. ASSUME NEW p \in Parsers, NEW r \in Requests, Push(p, r)
      PROVE  Base'
  <2>1. Append(queue, r) \in Seq(Requests)
    BY AppendProperties
  <2> QED BY <1>1, <2>1 DEF Push, Admits
<1>2. ASSUME NEW p \in Parsers, NEW r \in Requests, PushRefused(p, r)
      PROVE  Base'
  BY <1>2 DEF PushRefused, Admits
<1>3. ASSUME NEW p \in Parsers, PushNotify(p)
      PROVE  Base'
  BY <1>3 DEF PushNotify, NotifyOne
<1>4. ASSUME NEW w \in Workers, NEW i \in 1 .. Len(queue), SomePop(w, i)
      PROVE  Base'
  <2>1. queue[i] \in Requests /\ RemoveAt(queue, i) \in Seq(Requests)
    BY ElementOfSeq, RemoveAtProperties
  <2> QED BY <2>1, <1>4 DEF SomePop, PopAt, Erased, Incremented, Awake
<1>5. ASSUME NEW w \in Workers, Block(w)
      PROVE  Base'
  BY <1>5 DEF Block, Awake
<1>6. ASSUME NEW w \in Workers, Exit(w)
      PROVE  Base'
  BY <1>6 DEF Exit, Awake
<1>7. ASSUME NEW w \in Workers, SpuriousWake(w)
      PROVE  Base'
  BY <1>7 DEF SpuriousWake
<1>8. ASSUME NEW w \in Workers, Requeue(w)
      PROVE  Base'
  <2>1. held[w] \in Requests
    BY <1>8 DEF Requeue, Requeued
  <2>2. Append(queue, held[w]) \in Seq(Requests)
    BY <2>1, AppendProperties
  <2>3. inflight' \in Nat
    BY <1>8 DEF Requeue, Requeued, Decremented
  <2> QED BY <1>8, <2>1, <2>2, <2>3 DEF Requeue, Requeued
<1>9. ASSUME NEW w \in Workers, RequeueNotify(w)
      PROVE  Base'
  BY <1>9 DEF RequeueNotify, NotifyOne
<1>10. ASSUME NEW w \in Workers, Complete(w)
       PROVE  Base'
  <2>1. held[w] \in Requests
    BY <1>10 DEF Complete
  <2>2. inflight' \in Nat
    BY <1>10 DEF Complete, Decremented
  <2> QED BY <1>10, <2>1, <2>2 DEF Complete, NotifyAll
<1>11. CASE Close
  BY <1>11 DEF Close
<1>12. CASE CloseNotify
  BY <1>12 DEF CloseNotify, NotifyAll
<1>13. CASE UNCHANGED qvars
  BY <1>13 DEF qvars
<1> QED
  BY StepCases, <1>1, <1>2, <1>3, <1>4, <1>5, <1>6, <1>7, <1>8, <1>9, <1>10,
     <1>11, <1>12, <1>13

(* The queue starts in its types. *)
LEMMA BaseInit == Init => Base
<1>1. <<>> \in Seq(Requests)
  BY EmptySeq
<1>2. ASSUME Init PROVE TypeOK
  BY <1>1, <1>2 DEF Init, TypeOK
<1>3. ASSUME Init PROVE HeldExact /\ SleepersReady
  BY <1>3 DEF Init, HeldExact, SleepersReady
<1> QED BY <1>2, <1>3 DEF Base

(* The queue and the threads around it never leave their types: no None is *)
(* ever queued, whatever is moved out of a Request.                        *)
THEOREM QueueTypes == Spec => []TypeOK
<1>1. Base /\ [Next]_qvars => Base'
  <2>1. CASE Next
    BY <2>1, BaseStep
  <2>2. CASE UNCHANGED qvars
    BY <2>2 DEF qvars, Base, TypeOK, HeldExact, SleepersReady
  <2> QED BY <2>1, <2>2
<1>2. Base => TypeOK
  BY DEF Base
<1> QED BY <1>1, <1>2, BaseInit, PTL DEF Spec

-----------------------------------------------------------------------------
(* The sets of threads the invariants count are finite. *)
LEMMA ThreadsFinite ==
  /\ IsFiniteSet(Serving) /\ Cardinality(Serving) \in Nat
  /\ IsFiniteSet(Awake) /\ Cardinality(Awake) \in Nat
  /\ IsFiniteSet(Notifying) /\ Cardinality(Notifying) \in Nat
  /\ IsFiniteSet(Pushed) /\ Cardinality(Pushed) \in Nat
<1>1. /\ Serving \in SUBSET Workers /\ Awake \in SUBSET Workers
      /\ Notifying \in SUBSET Workers /\ Pushed \in SUBSET Parsers
  BY DEF Serving, Awake, Notifying, Pushed
<1>2. /\ IsFiniteSet(Serving) /\ IsFiniteSet(Awake)
      /\ IsFiniteSet(Notifying) /\ IsFiniteSet(Pushed)
  BY <1>1, FS_Subset, QueueAssumption
<1> QED BY <1>2, FS_CardinalityType

(* Every pop is counted once and every requeue or complete uncounts once.  *)
LEMMA InflightStep ==
  ASSUME Base, InflightExact, Next
  PROVE  InflightExact'
<1> USE DEF Base, TypeOK, InflightExact
<1>1. ASSUME NEW w \in Workers, NEW i \in 1 .. Len(queue), SomePop(w, i)
      PROVE  InflightExact'
  <2>1. Serving' = Serving \cup {w} /\ w \notin Serving
    BY <1>1 DEF SomePop, PopAt, Erased, Incremented, Awake, Serving
  <2>2. inflight' = inflight + 1
    BY <1>1 DEF SomePop, PopAt, Erased, Incremented
  <2> QED BY <2>1, <2>2, ThreadsFinite, FS_AddElement
<1>2. ASSUME NEW w \in Workers, Requeue(w) \/ Complete(w)
      PROVE  InflightExact'
  <2>1. Serving' = Serving \ {w} /\ w \in Serving
    BY <1>2 DEF Requeue, Requeued, Complete, Serving
  <2>2. inflight' = Decremented
    BY <1>2 DEF Requeue, Requeued, Complete
  <2>3. Cardinality(Serving \ {w}) = Cardinality(Serving) - 1
    BY <2>1, ThreadsFinite, FS_RemoveElement
  <2>4. Cardinality(Serving) > 0
    BY <2>1, ThreadsFinite, FS_EmptySet
  <2> QED BY <2>1, <2>2, <2>3, <2>4, ThreadsFinite DEF Decremented
<1>3. ASSUME UNCHANGED inflight, Serving' = Serving
      PROVE  InflightExact'
  BY <1>3
<1>4. ASSUME NEW p \in Parsers, NEW r \in Requests,
             Push(p, r) \/ PushRefused(p, r)
      PROVE  InflightExact'
  BY <1>3, <1>4 DEF Push, PushRefused, Admits, Serving
<1>5. ASSUME NEW w \in Workers,
             Block(w) \/ Exit(w) \/ SpuriousWake(w) \/ RequeueNotify(w)
      PROVE  InflightExact'
  BY <1>3, <1>5
     DEF Block, Exit, SpuriousWake, RequeueNotify, Serving, Awake
<1>6. ASSUME Close \/ CloseNotify \/ UNCHANGED qvars
      PROVE  InflightExact'
  BY <1>3, <1>6 DEF Close, CloseNotify, qvars, Serving
<1>7. ASSUME NEW p \in Parsers, PushNotify(p)
      PROVE  InflightExact'
  BY <1>3, <1>7 DEF PushNotify, Serving
<1> QED BY StepCases, <1>1, <1>2, <1>4, <1>5, <1>6, <1>7

-----------------------------------------------------------------------------
(***************************************************************************)
(* Requests are neither lost nor doubled.  OnePlace alone does not say     *)
(* that a request still to be pushed has not been refused or finished.     *)
(***************************************************************************)
FreshApart == unpushed \cap (refused \cup finished) = {}

(* No step loses or doubles a request. *)
LEMMA OnePlaceStep ==
  ASSUME Base, OnePlace, FreshApart, Next
  PROVE  OnePlace' /\ FreshApart'
<1> USE QueueAssumption DEF Base, TypeOK, FreshApart
<1>1. ASSUME NEW p \in Parsers, NEW r \in Requests, Push(p, r)
      PROVE  OnePlace' /\ FreshApart'
  <2>1. ToSet(queue') = ToSet(queue) \cup {r} /\ IsInjective(queue')
    BY <1>1, AppendSet DEF Push, Admits, OnePlace, Outside
  <2>2. UNCHANGED <<Serving, Taken, held>> /\ Outside' = Outside \ {r}
    BY <1>1 DEF Push, Admits, Serving, Taken, Outside
  <2>3. r \in Outside
    BY <1>1 DEF Push, Admits, Outside
  <2>4. OnePlace'
    BY <2>1, <2>2, <2>3 DEF OnePlace
  <2> QED BY <1>1, <2>4 DEF Push, Admits
<1>2. ASSUME NEW p \in Parsers, NEW r \in Requests, PushRefused(p, r)
      PROVE  OnePlace' /\ FreshApart'
  <2>1. UNCHANGED <<queue, Serving, Taken, held, Outside>>
    BY <1>2 DEF PushRefused, Admits, Serving, Taken, Outside
  <2>2. OnePlace'
    BY <2>1 DEF OnePlace
  <2> QED BY <1>2, <2>2 DEF PushRefused, Admits
<1>3. ASSUME NEW w \in Workers, NEW i \in 1 .. Len(queue), SomePop(w, i)
      PROVE  OnePlace' /\ FreshApart'
  <2>1. /\ ToSet(queue') = ToSet(queue) \ {queue[i]}
        /\ IsInjective(queue')
    BY <1>3, RemoveSet DEF SomePop, PopAt, Erased, Incremented, OnePlace
  <2>2. queue[i] \in Requests /\ queue[i] \in ToSet(queue)
    BY ElementOfSeq, LenProperties DEF ToSet
  <2>3. /\ w \notin Serving
        /\ Serving' = Serving \cup {w}
        /\ held' = [held EXCEPT ![w] = queue[i]]
    BY <1>3 DEF SomePop, PopAt, Erased, Incremented, Awake, Serving
  <2>4. Taken' = Taken \cup {queue[i]}
    BY <2>3 DEF Taken, Serving
  <2>5. Outside' = Outside /\ FreshApart'
    BY <1>3 DEF SomePop, PopAt, Erased, Incremented, Outside
  <2>6. \A u, v \in Serving' : held'[u] = held'[v] => u = v
    BY <2>2, <2>3 DEF OnePlace, Taken, Serving
  <2>7. \A v \in Workers : held'[v] # None <=> v \in Serving'
    BY <2>2, <2>3 DEF OnePlace
  <2>8. /\ ToSet(queue') \cup Taken' \cup Outside' = Requests
        /\ ToSet(queue') \cap Taken' = {}
        /\ Outside' \cap (ToSet(queue') \cup Taken') = {}
    BY <2>1, <2>2, <2>4, <2>5 DEF OnePlace
  <2> QED BY <2>1, <2>5, <2>6, <2>7, <2>8 DEF OnePlace
<1>4. ASSUME NEW w \in Workers, Requeue(w) \/ Complete(w)
      PROVE  /\ w \in Serving /\ held[w] \in Taken /\ held[w] \in Requests
             /\ Serving' = Serving \ {w}
             /\ Taken' = Taken \ {held[w]}
             /\ \A u, v \in Serving' : held'[u] = held'[v] => u = v
             /\ \A v \in Workers : held'[v] # None <=> v \in Serving'
  <2>1. /\ w \in Serving
        /\ Serving' = Serving \ {w}
        /\ held' = [held EXCEPT ![w] = None]
    BY <1>4 DEF Requeue, Requeued, Complete, Serving
  <2>2. held[w] \in Taken /\ held[w] \in Requests
    BY <2>1 DEF Taken, OnePlace, Serving
  <2>3. \A v \in Serving' : v \in Workers /\ v # w /\ held'[v] = held[v]
    BY <2>1 DEF Serving
  <2>4. Taken' = {held[v] : v \in Serving \ {w}}
    BY <2>1, <2>3 DEF Taken
  <2>5. {held[v] : v \in Serving \ {w}} = Taken \ {held[w]}
    BY <2>1 DEF Taken, OnePlace
  <2> QED BY <2>1, <2>2, <2>3, <2>4, <2>5 DEF OnePlace
<1>5. ASSUME NEW w \in Workers, Requeue(w)
      PROVE  OnePlace' /\ FreshApart'
  <2>1. /\ queue' = Append(queue, held[w])
        /\ Outside' = Outside /\ FreshApart'
    BY <1>5 DEF Requeue, Requeued, Outside
  <2>2. held[w] \notin ToSet(queue)
    BY <1>4, <1>5 DEF OnePlace
  <2>3. ToSet(queue') = ToSet(queue) \cup {held[w]} /\ IsInjective(queue')
    BY <2>1, <2>2, <1>4, <1>5, AppendSet DEF OnePlace
  <2> QED BY <2>1, <2>3, <1>4, <1>5 DEF OnePlace
<1>6. ASSUME NEW w \in Workers, Complete(w)
      PROVE  OnePlace' /\ FreshApart'
  <2>1. queue' = queue /\ Outside' = Outside \cup {held[w]}
    BY <1>6 DEF Complete, Outside
  <2>2. held[w] \notin unpushed
    BY <1>4, <1>6 DEF OnePlace, Outside
  <2>3. FreshApart'
    BY <2>2, <1>6 DEF Complete
  <2> QED BY <2>1, <2>3, <1>4, <1>6 DEF OnePlace
<1>7. ASSUME UNCHANGED <<queue, held, unpushed, refused, finished>>,
             Serving' = Serving
      PROVE  OnePlace' /\ FreshApart'
  BY <1>7 DEF OnePlace, Taken, Outside
<1>8. ASSUME NEW p \in Parsers, PushNotify(p)
      PROVE  OnePlace' /\ FreshApart'
  BY <1>7, <1>8 DEF PushNotify, Serving
<1>9. ASSUME NEW w \in Workers,
             Block(w) \/ Exit(w) \/ SpuriousWake(w) \/ RequeueNotify(w)
      PROVE  OnePlace' /\ FreshApart'
  BY <1>7, <1>9
     DEF Block, Exit, SpuriousWake, RequeueNotify, Serving, Awake
<1>10. ASSUME Close \/ CloseNotify \/ UNCHANGED qvars
       PROVE  OnePlace' /\ FreshApart'
  BY <1>7, <1>10 DEF Close, CloseNotify, qvars, Serving
<1> QED BY StepCases, <1>1, <1>2, <1>3, <1>5, <1>6, <1>8, <1>9, <1>10

-----------------------------------------------------------------------------
(* A worker leaves only a drained queue, and nothing can refill it.        *)
LEMMA DrainedStep ==
  ASSUME Base, InflightExact, ExitOnlyWhenDrained, Next
  PROVE  ExitOnlyWhenDrained'
<1> USE DEF Base, TypeOK, ExitOnlyWhenDrained
<1>1. ASSUME NEW w \in Workers, Exit(w)
      PROVE  ExitOnlyWhenDrained'
  <2>1. closed /\ inflight = 0 /\ queue = <<>>
    BY <1>1 DEF Exit, WakePredicate
  <2>2. Serving = {}
    BY <2>1, ThreadsFinite, FS_EmptySet DEF InflightExact
  <2>3. UNCHANGED <<closed, queue>> /\ Serving' = {}
    BY <1>1, <2>2 DEF Exit, Serving, Awake
  <2> QED BY <2>1, <2>3
<1>2. ASSUME NEW w \in Workers, NEW i \in 1 .. Len(queue), SomePop(w, i)
      PROVE  ExitOnlyWhenDrained'
  <2>1. queue # <<>>
    BY EmptySeq
  <2>2. Exited' = Exited
    BY <1>2 DEF SomePop, PopAt, Erased, Incremented, Awake, Exited
  <2> QED BY <2>1, <2>2
<1>3. ASSUME NEW w \in Workers, Requeue(w) \/ Complete(w)
      PROVE  ExitOnlyWhenDrained'
  <2>1. w \in Serving /\ Exited' = Exited
    BY <1>3 DEF Requeue, Requeued, Complete, Serving, Exited
  <2> QED BY <2>1
<1>4. ASSUME NEW p \in Parsers, NEW r \in Requests, Push(p, r)
      PROVE  ExitOnlyWhenDrained'
  BY <1>4 DEF Push, Admits, Exited
<1>5. ASSUME closed => closed', UNCHANGED queue, Serving' = Serving,
             Exited' = Exited
      PROVE  ExitOnlyWhenDrained'
  BY <1>5
<1>6. ASSUME NEW p \in Parsers, NEW r \in Requests, PushRefused(p, r)
      PROVE  ExitOnlyWhenDrained'
  BY <1>5, <1>6 DEF PushRefused, Admits, Serving, Exited
<1>7. ASSUME NEW p \in Parsers, PushNotify(p)
      PROVE  ExitOnlyWhenDrained'
  BY <1>5, <1>7 DEF PushNotify, Serving, Exited
<1>8. ASSUME NEW w \in Workers,
             Block(w) \/ SpuriousWake(w) \/ RequeueNotify(w)
      PROVE  ExitOnlyWhenDrained'
  BY <1>5, <1>8 DEF Block, SpuriousWake, RequeueNotify, Serving, Exited
<1>9. ASSUME Close \/ CloseNotify \/ UNCHANGED qvars
      PROVE  ExitOnlyWhenDrained'
  BY <1>5, <1>9 DEF Close, CloseNotify, qvars, Serving, Exited
<1> QED BY StepCases, <1>1, <1>2, <1>3, <1>4, <1>6, <1>7, <1>8, <1>9

-----------------------------------------------------------------------------
(***************************************************************************)
(* Wake-ups.  The proof counts: a step that adds a queued request adds a   *)
(* thread that owes a notify_one; paying that debt wakes a sleeper if one  *)
(* is left; and a pop uses up one request and one awake worker.            *)
(***************************************************************************)
Owing == Cardinality(Awake) + Cardinality(Notifying) + Cardinality(Pushed)

(* No step loses a wake-up. *)
LEMMA WakeupStep ==
  ASSUME Base, NoLostWakeup, Next
  PROVE  NoLostWakeup'
<1> USE DEF Base, TypeOK
<1>0. Len(queue) \in Nat /\ Owing \in Nat
  BY LenProperties, ThreadsFinite DEF Owing
<1>1. ASSUME NEW p \in Parsers, NEW r \in Requests, Push(p, r)
      PROVE  NoLostWakeup'
  <2>1. Len(queue') = Len(queue) + 1
    BY <1>1, AppendProperties DEF Push, Admits
  <2>2. /\ Pushed' = Pushed \cup {p} /\ p \notin Pushed
        /\ Awake' = Awake /\ Notifying' = Notifying
        /\ waiters' = waiters
    BY <1>1 DEF Push, Admits, Pushed, Awake, Notifying
  <2>3. Cardinality(Pushed') = Cardinality(Pushed) + 1
    BY <2>2, ThreadsFinite, FS_AddElement
  <2> QED BY <1>0, <2>1, <2>2, <2>3, ThreadsFinite DEF NoLostWakeup
<1>2. ASSUME NEW w \in waiters, waiters' = waiters \ {w}, wpc' = wpc
      PROVE  Cardinality(Awake') = Cardinality(Awake) + 1
  <2>1. Awake' = Awake \cup {w} /\ w \notin Awake
    BY <1>2 DEF Awake, SleepersReady
  <2> QED BY <2>1, ThreadsFinite, FS_AddElement
<1>3. ASSUME NEW p \in Parsers, PushNotify(p)
      PROVE  NoLostWakeup'
  <2>1. CASE waiters' = {}
    BY <2>1 DEF NoLostWakeup
  <2>2. CASE waiters' # {}
    <3>1. PICK w \in waiters : waiters' = waiters \ {w}
      BY <1>3, <2>2 DEF PushNotify, NotifyOne
    <3>2. Cardinality(Awake') = Cardinality(Awake) + 1
      BY <1>2, <1>3, <3>1 DEF PushNotify
    <3>3. Pushed' = Pushed \ {p} /\ p \in Pushed /\ Notifying' = Notifying
      BY <1>3 DEF PushNotify, Pushed, Notifying
    <3>4. Cardinality(Pushed') = Cardinality(Pushed) - 1
      BY <3>3, ThreadsFinite, FS_RemoveElement
    <3>5. queue' = queue
      BY <1>3 DEF PushNotify
    <3> QED BY <1>0, <3>1, <3>2, <3>3, <3>4, <3>5, ThreadsFinite
            DEF NoLostWakeup
  <2> QED BY <2>1, <2>2
<1>4. ASSUME NEW w \in Workers, NEW i \in 1 .. Len(queue), SomePop(w, i)
      PROVE  NoLostWakeup'
  <2>1. Len(queue') = Len(queue) - 1
    BY <1>4, RemoveAtProperties DEF SomePop, PopAt, Erased, Incremented
  <2>2. /\ Awake' = Awake \ {w} /\ w \in Awake
        /\ Notifying' = Notifying /\ Pushed' = Pushed
        /\ waiters' = waiters
    BY <1>4 DEF SomePop, PopAt, Erased, Incremented, Awake, Notifying, Pushed
  <2>3. Cardinality(Awake') = Cardinality(Awake) - 1
    BY <2>2, ThreadsFinite, FS_RemoveElement
  <2> QED BY <1>0, <2>1, <2>2, <2>3, ThreadsFinite DEF NoLostWakeup
<1>5. ASSUME NEW w \in Workers, Block(w) \/ Exit(w)
      PROVE  NoLostWakeup'
  <2>1. queue' = <<>>
    BY <1>5 DEF Block, Exit, WakePredicate
  <2>2. Len(queue') = 0
    BY <2>1, EmptySeq
  <2>3. /\ IsFiniteSet(Awake') /\ IsFiniteSet(Notifying')
        /\ IsFiniteSet(Pushed')
    <3>1. /\ Awake' \in SUBSET Workers /\ Notifying' \in SUBSET Workers
          /\ Pushed' \in SUBSET Parsers
      BY DEF Awake, Notifying, Pushed
    <3> QED BY <3>1, FS_Subset, QueueAssumption
  <2>4. /\ Cardinality(Awake') \in Nat /\ Cardinality(Notifying') \in Nat
        /\ Cardinality(Pushed') \in Nat
    BY <2>3, FS_CardinalityType
  <2> QED BY <2>2, <2>4 DEF NoLostWakeup
<1>6. ASSUME NEW w \in Workers, SpuriousWake(w)
      PROVE  NoLostWakeup'
  <2>1. /\ w \in waiters /\ waiters' = waiters \ {w} /\ queue' = queue
        /\ wpc' = wpc /\ Notifying' = Notifying /\ Pushed' = Pushed
    BY <1>6 DEF SpuriousWake, Notifying, Pushed
  <2>2. Cardinality(Awake') = Cardinality(Awake) + 1
    BY <1>2, <2>1
  <2> QED BY <1>0, <2>1, <2>2, ThreadsFinite DEF NoLostWakeup
<1>7. ASSUME NEW w \in Workers, Requeue(w)
      PROVE  NoLostWakeup'
  <2>1. held[w] \in Requests
    BY <1>7 DEF Requeue, Requeued, HeldExact
  <2>2. Len(queue') = Len(queue) + 1
    BY <1>7, <2>1, AppendProperties DEF Requeue, Requeued
  <2>3. /\ Notifying' = Notifying \cup {w} /\ w \notin Notifying
        /\ Awake' = Awake /\ Pushed' = Pushed
        /\ waiters' = waiters
    BY <1>7 DEF Requeue, Requeued, Notifying, Awake, Pushed
  <2>4. Cardinality(Notifying') = Cardinality(Notifying) + 1
    BY <2>3, ThreadsFinite, FS_AddElement
  <2> QED BY <1>0, <2>2, <2>3, <2>4, ThreadsFinite DEF NoLostWakeup
<1>8. ASSUME NEW w \in Workers, RequeueNotify(w)
      PROVE  NoLostWakeup'
  <2>1. CASE waiters' = {}
    BY <2>1 DEF NoLostWakeup
  <2>2. CASE waiters' # {}
    <3>1. PICK v \in waiters : waiters' = waiters \ {v}
      BY <1>8, <2>2 DEF RequeueNotify, NotifyOne
    <3>2. /\ Awake' = (Awake \cup {v}) \cup {w}
          /\ v \notin Awake /\ w \notin Awake \cup {v}
      BY <1>8, <3>1 DEF RequeueNotify, Awake, SleepersReady
    <3>3. Cardinality(Awake') = Cardinality(Awake) + 2
      <4>1. /\ IsFiniteSet(Awake \cup {v})
            /\ Cardinality(Awake \cup {v}) = Cardinality(Awake) + 1
        BY <3>2, ThreadsFinite, FS_AddElement
      <4>2. Cardinality((Awake \cup {v}) \cup {w})
              = Cardinality(Awake \cup {v}) + 1
        BY <4>1, <3>2, FS_AddElement
      <4> QED BY <4>1, <4>2, <3>2, ThreadsFinite
    <3>4. /\ Notifying' = Notifying \ {w} /\ w \in Notifying
          /\ Pushed' = Pushed /\ queue' = queue
      BY <1>8 DEF RequeueNotify, Notifying, Pushed
    <3>5. Cardinality(Notifying') = Cardinality(Notifying) - 1
      BY <3>4, ThreadsFinite, FS_RemoveElement
    <3> QED BY <1>0, <3>1, <3>3, <3>4, <3>5, ThreadsFinite DEF NoLostWakeup
  <2> QED BY <2>1, <2>2
<1>9. ASSUME CloseNotify \/ \E w \in Workers : Complete(w)
      PROVE  NoLostWakeup'
  BY <1>9 DEF CloseNotify, Complete, NotifyAll, NoLostWakeup
<1>10. ASSUME UNCHANGED <<queue, waiters, wpc, ppc>>
       PROVE  NoLostWakeup'
  BY <1>10 DEF NoLostWakeup, Awake, Notifying, Pushed
<1>11. ASSUME \/ Close \/ UNCHANGED qvars
              \/ \E p \in Parsers, r \in Requests : PushRefused(p, r)
       PROVE  NoLostWakeup'
  BY <1>10, <1>11 DEF Close, qvars, PushRefused, Admits
<1> QED BY StepCases, <1>1, <1>3, <1>4, <1>5, <1>6, <1>7, <1>8, <1>9, <1>11

(* No step lets a worker sleep through the end of the server. *)
LEMMA NoSleepStep ==
  ASSUME Base, NoSleepAfterDrain, Next
  PROVE  NoSleepAfterDrain'
<1> USE DEF Base, TypeOK, NoSleepAfterDrain
<1>1. ASSUME NEW p \in Parsers, NEW r \in Requests, Push(p, r)
      PROVE  NoSleepAfterDrain'
  BY <1>1 DEF Push, Admits
<1>2. ASSUME NEW w \in Workers, Requeue(w)
      PROVE  NoSleepAfterDrain'
  <2>1. held[w] \in Requests
    BY <1>2 DEF Requeue, Requeued, HeldExact
  <2>2. queue' # <<>>
    BY <1>2, <2>1, AppendProperties DEF Requeue, Requeued
  <2> QED BY <2>2
<1>3. ASSUME NEW w \in Workers, NEW i \in 1 .. Len(queue), SomePop(w, i)
      PROVE  NoSleepAfterDrain'
  BY <1>3 DEF SomePop, PopAt, Erased, Incremented
<1>4. ASSUME NEW w \in Workers, Block(w)
      PROVE  NoSleepAfterDrain'
  BY <1>4 DEF Block, WakePredicate
<1>5. ASSUME CloseNotify \/ \E w \in Workers : Complete(w)
      PROVE  NoSleepAfterDrain'
  BY <1>5 DEF CloseNotify, Complete, NotifyAll
<1>6. CASE Close
  BY <1>6 DEF Close
<1>7. ASSUME UNCHANGED <<queue, closed, inflight, mpc>>,
             waiters' \subseteq waiters
      PROVE  NoSleepAfterDrain'
  BY <1>7
<1>8. ASSUME NEW p \in Parsers, PushNotify(p)
      PROVE  NoSleepAfterDrain'
  BY <1>7, <1>8 DEF PushNotify, NotifyOne
<1>9. ASSUME NEW w \in Workers, Exit(w) \/ SpuriousWake(w) \/ RequeueNotify(w)
      PROVE  NoSleepAfterDrain'
  BY <1>7, <1>9 DEF Exit, SpuriousWake, RequeueNotify, NotifyOne
<1>10. ASSUME \/ UNCHANGED qvars
              \/ \E p \in Parsers, r \in Requests : PushRefused(p, r)
       PROVE  NoSleepAfterDrain'
  BY <1>7, <1>10 DEF qvars, PushRefused, Admits
<1> QED BY StepCases, <1>1, <1>2, <1>3, <1>4, <1>5, <1>6, <1>8, <1>9, <1>10

-----------------------------------------------------------------------------
(* The inductive invariant: all of the above. *)
IInv ==
  /\ Base
  /\ InflightExact
  /\ OnePlace /\ FreshApart
  /\ ExitOnlyWhenDrained
  /\ NoLostWakeup
  /\ NoSleepAfterDrain

(* An empty queue beside ready threads satisfies it. *)
LEMMA InvInit == Init => IInv
<1> SUFFICES ASSUME Init PROVE IInv
  OBVIOUS
<1> USE DEF Init
<1>1. Base
  BY BaseInit
<1>2. Serving = {} /\ Exited = {} /\ Taken = {} /\ ToSet(queue) = {}
  <2>1. Serving = {} /\ Exited = {}
    BY DEF Serving, Exited
  <2>2. ToSet(queue) = {}
    BY DEF ToSet
  <2> QED BY <2>1, <2>2 DEF Taken
<1>3. InflightExact
  BY <1>2, FS_EmptySet DEF InflightExact
<1>4. OnePlace /\ FreshApart
  <2>1. IsInjective(queue)
    BY DEF IsInjective
  <2>2. Outside = Requests
    BY DEF Outside
  <2>3. \A w \in Workers : held[w] # None <=> w \in Serving
    BY <1>2
  <2> QED BY <1>2, <2>1, <2>2, <2>3 DEF OnePlace, FreshApart
<1>5. ExitOnlyWhenDrained /\ NoLostWakeup /\ NoSleepAfterDrain
  BY <1>2 DEF ExitOnlyWhenDrained, NoLostWakeup, NoSleepAfterDrain
<1> QED BY <1>1, <1>3, <1>4, <1>5 DEF IInv

(* It is preserved by every step, stuttering included. *)
LEMMA InvStep == IInv /\ [Next]_qvars => IInv'
<1>1. ASSUME IInv, Next PROVE IInv'
  BY <1>1, BaseStep, InflightStep, OnePlaceStep, DrainedStep, WakeupStep,
     NoSleepStep
     DEF IInv
<1>2. ASSUME IInv, UNCHANGED qvars PROVE IInv'
  <2>1. UNCHANGED <<Serving, Awake, Notifying, Pushed, Exited>>
    BY <1>2 DEF qvars, Serving, Awake, Notifying, Pushed, Exited
  <2>2. UNCHANGED <<Taken, Outside>>
    BY <1>2, <2>1 DEF qvars, Taken, Outside
  <2>3. Base'
    BY <1>2 DEF IInv, Base, TypeOK, HeldExact, SleepersReady, qvars
  <2>4. OnePlace' /\ FreshApart'
    BY <1>2, <2>1, <2>2 DEF IInv, OnePlace, FreshApart, qvars
  <2>5. /\ InflightExact' /\ ExitOnlyWhenDrained' /\ NoLostWakeup'
        /\ NoSleepAfterDrain'
    BY <1>2, <2>1
       DEF IInv, InflightExact, ExitOnlyWhenDrained, NoLostWakeup,
           NoSleepAfterDrain, qvars
  <2> QED BY <2>3, <2>4, <2>5 DEF IInv
<1> QED BY <1>1, <1>2

(* Every behaviour of the queue satisfies the inductive invariant. *)
THEOREM QueueInvariant == Spec => []IInv
BY InvInit, InvStep, PTL DEF Spec

(* inflight_ is exact for any number of workers and requests, so closing   *)
(* and draining can rely on it.                                            *)
THEOREM InflightIsExact == Spec => []InflightExact
<1>1. IInv => InflightExact
  BY DEF IInv
<1> QED BY <1>1, QueueInvariant, PTL

(* No admitted request is ever lost, duplicated or served by two workers.  *)
THEOREM RequestsInOnePlace == Spec => []OnePlace
<1>1. IInv => OnePlace
  BY DEF IInv
<1> QED BY <1>1, QueueInvariant, PTL

(* A worker that leaves its loop leaves no work behind, although requeue   *)
(* ignores closed_.                                                        *)
THEOREM WorkersLeaveDrained == Spec => []ExitOnlyWhenDrained
<1>1. IInv => ExitOnlyWhenDrained
  BY DEF IInv
<1> QED BY <1>1, QueueInvariant, PTL

(* No wake-up of push or requeue is lost, though both notify outside the   *)
(* mutex, and none of the end is: nobody sleeps on a drained closed queue  *)
(* once close has notified.                                                *)
THEOREM WakeupsSuffice == Spec => [](NoLostWakeup /\ NoSleepAfterDrain)
<1>1. IInv => NoLostWakeup /\ NoSleepAfterDrain
  BY DEF IInv
<1> QED BY <1>1, QueueInvariant, PTL

-----------------------------------------------------------------------------
(***************************************************************************)
(* The queue implements the pool: under the mapping of RequestQueue every  *)
(* step of the queue is a step of the pool, or changes nothing it sees.    *)
(***************************************************************************)
LEMMA PoolStep ==
  ASSUME IInv, Next
  PROVE  Pool!PoolNext \/ UNCHANGED Pool!poolVars
<1> USE QueueAssumption DEF IInv, Base, TypeOK
<1>1. ASSUME NEW p \in Parsers, NEW r \in Requests, Push(p, r)
      PROVE  Pool!Submit(r)
  <2>1. ToSet(queue') = ToSet(queue) \cup {r}
    BY <1>1, AppendSet DEF Push, Admits
  <2>2. r \notin ToSet(queue) /\ r \notin Taken /\ r \notin finished
    BY <1>1 DEF Push, Admits, OnePlace, Outside, FreshApart
  <2>3. ~Pool!InService(r)
    BY <2>2 DEF Pool!InService, Taken, OnePlace
  <2>4. Exited' = Exited
    BY <1>1 DEF Push, Admits, Exited
  <2> QED BY <1>1, <2>1, <2>2, <2>3, <2>4 DEF Push, Admits, Pool!Submit
<1>2. ASSUME NEW w \in Workers, NEW i \in 1 .. Len(queue), SomePop(w, i)
      PROVE  \E r \in Requests : Pool!Take(w, r)
  <2>1. ToSet(queue') = ToSet(queue) \ {queue[i]}
    BY <1>2, RemoveSet DEF SomePop, PopAt, Erased, Incremented, OnePlace
  <2>2. queue[i] \in Requests /\ queue[i] \in ToSet(queue)
    BY ElementOfSeq, LenProperties DEF ToSet
  <2>3. w \notin Exited /\ Exited' = Exited /\ held[w] = None
    BY <1>2 DEF SomePop, PopAt, Erased, Incremented, Awake, Exited, HeldExact
  <2>4. Pool!Take(w, queue[i])
    BY <1>2, <2>1, <2>2, <2>3
       DEF SomePop, PopAt, Erased, Incremented, Pool!Take
  <2> QED BY <2>2, <2>4
<1>3. ASSUME NEW w \in Workers, Requeue(w)
      PROVE  Pool!HandBack(w)
  <2>1. held[w] \in Requests /\ Exited' = Exited
    BY <1>3 DEF Requeue, Requeued, HeldExact, Exited
  <2>2. ToSet(queue') = ToSet(queue) \cup {held[w]}
    BY <1>3, <2>1, AppendSet DEF Requeue, Requeued
  <2> QED BY <1>3, <2>1, <2>2 DEF Requeue, Requeued, Pool!HandBack
<1>4. ASSUME NEW w \in Workers, Complete(w)
      PROVE  Pool!Finish(w)
  <2>1. held[w] # None /\ Exited' = Exited
    BY <1>4 DEF Complete, HeldExact, Exited
  <2> QED BY <1>4, <2>1 DEF Complete, Pool!Finish
<1>5. ASSUME NEW w \in Workers, Exit(w)
      PROVE  Pool!Leave(w)
  <2>1. closed /\ inflight = 0 /\ queue = <<>>
    BY <1>5 DEF Exit, WakePredicate
  <2>2. Serving = {}
    BY <2>1, ThreadsFinite, FS_EmptySet DEF InflightExact
  <2>3. ToSet(queue) = {} /\ \A v \in Workers : held[v] = None
    BY <2>1, <2>2 DEF ToSet, OnePlace
  <2>4. Exited' = Exited \cup {w} /\ w \notin Exited
    BY <1>5 DEF Exit, Awake, Exited
  <2> QED BY <1>5, <2>1, <2>3, <2>4 DEF Exit, Pool!Leave, Pool!Drained
<1>6. ASSUME Close
      PROVE  Pool!Shut
  BY <1>6 DEF Close, Pool!Shut, Exited
<1>7. ASSUME UNCHANGED <<queue, held, finished, closed>>, Exited' = Exited
      PROVE  UNCHANGED Pool!poolVars
  BY <1>7 DEF Pool!poolVars
<1>8. ASSUME NEW p \in Parsers, PushNotify(p)
      PROVE  UNCHANGED Pool!poolVars
  BY <1>7, <1>8 DEF PushNotify, Exited
<1>9. ASSUME NEW w \in Workers,
             Block(w) \/ SpuriousWake(w) \/ RequeueNotify(w)
      PROVE  UNCHANGED Pool!poolVars
  BY <1>7, <1>9 DEF Block, SpuriousWake, RequeueNotify, Exited
<1>10. ASSUME \/ CloseNotify \/ UNCHANGED qvars
              \/ \E p \in Parsers, r \in Requests : PushRefused(p, r)
       PROVE  UNCHANGED Pool!poolVars
  BY <1>7, <1>10 DEF CloseNotify, qvars, PushRefused, Admits, Exited
<1> QED
  BY StepCases, <1>1, <1>2, <1>3, <1>4, <1>5, <1>6, <1>8, <1>9, <1>10
     DEF Pool!PoolNext

(* The monitor with its counter, condition variable and unlocked           *)
(* notifications does nothing the abstract pool would not.                 *)
THEOREM QueueImplementsPool == Spec => Pool!PoolSafety
<1>1. Init => Pool!PoolInit
  <2>1. ASSUME Init PROVE ToSet(queue) = {} /\ Exited = {}
    BY <2>1 DEF Init, ToSet, Exited
  <2> QED BY <2>1 DEF Init, Pool!PoolInit
<1>2. IInv /\ [Next]_qvars => [Pool!PoolNext]_(Pool!poolVars)
  <2>1. ASSUME IInv, Next PROVE [Pool!PoolNext]_(Pool!poolVars)
    BY <2>1, PoolStep
  <2>2. ASSUME UNCHANGED qvars PROVE UNCHANGED Pool!poolVars
    BY <2>2 DEF qvars, Pool!poolVars, Exited
  <2> QED BY <2>1, <2>2
<1> QED BY <1>1, <1>2, QueueInvariant, PTL DEF Spec, Pool!PoolSafety

-----------------------------------------------------------------------------
(***************************************************************************)
(* The order of service.  Of the queue and the history of overtaking a     *)
(* step does one of three things: it pops (the front, or the best), it     *)
(* appends a request that was not queued, or it leaves both alone.         *)
(***************************************************************************)
Chosen(k) ==
  /\ method = "wait_pop" => k = 1
  /\ method = "wait_pop_best" => IsBest(k)

PopsAt(k) ==
  Chosen(k) /\ queue' = RemoveAt(queue, k) /\ passed' = Overtaken(k)

Joins(r) ==
  r \notin ToSet(queue) /\ queue' = Append(queue, r) /\ passed' = passed

(* Those are all the steps. *)
LEMMA OrderSteps ==
  ASSUME IInv, Next
  PROVE  /\ method' = method
         /\ \/ \E k \in 1 .. Len(queue) : PopsAt(k)
            \/ \E r \in Requests : Joins(r)
            \/ UNCHANGED <<queue, passed>>
<1> USE DEF service
<1>1. DOMAIN queue = 1 .. Len(queue) /\ Len(queue) \in Nat
  BY LenProperties DEF IInv, Base, TypeOK
<1>2. queue # <<>> => 1 \in 1 .. Len(queue)
  BY <1>1, EmptySeq DEF IInv, Base, TypeOK
<1>3. ASSUME NEW w \in Workers, WaitPop(w) \/ TryPop(w)
      PROVE  method' = method /\ \E k \in 1 .. Len(queue) : PopsAt(k)
  <2>1. PopsAt(1) /\ method' = method /\ queue # <<>>
    BY <1>3 DEF WaitPop, TryPop, PopAt, Erased, PopsAt, Chosen
  <2> QED BY <1>2, <2>1
<1>4. ASSUME NEW w \in Workers, WaitPopBest(w)
      PROVE  method' = method /\ \E k \in 1 .. Len(queue) : PopsAt(k)
  BY <1>1, <1>4 DEF WaitPopBest, PopAt, Erased, PopsAt, Chosen
<1>5. ASSUME NEW p \in Parsers, NEW r \in Requests, Push(p, r)
      PROVE  method' = method /\ Joins(r)
  <2>1. r \notin ToSet(queue)
    BY <1>5 DEF Push, IInv, OnePlace, Outside
  <2> QED BY <1>5, <2>1 DEF Push, Joins
<1>6. ASSUME NEW w \in Workers, Requeue(w)
      PROVE  method' = method /\ \E r \in Requests : Joins(r)
  <2>1. w \in Serving /\ held[w] \in Taken /\ held[w] \in Requests
    BY <1>6 DEF Requeue, Serving, Taken, IInv, Base, TypeOK, HeldExact
  <2>2. held[w] \notin ToSet(queue)
    BY <2>1 DEF IInv, OnePlace
  <2>3. method' = method /\ Joins(held[w])
    BY <1>6, <2>2 DEF Requeue, Requeued, Joins
  <2> QED BY <2>1, <2>3
<1>7. ASSUME NEW w \in Workers,
             \/ Block(w) \/ Exit(w) \/ SpuriousWake(w)
             \/ RequeueNotify(w) \/ Complete(w)
      PROVE  method' = method /\ UNCHANGED <<queue, passed>>
  BY <1>7 DEF Block, Exit, SpuriousWake, RequeueNotify, Complete
<1>8. ASSUME \/ \E p \in Parsers, r \in Requests : PushRefused(p, r)
             \/ \E p \in Parsers : PushNotify(p)
             \/ Close \/ CloseNotify \/ Terminated
      PROVE  method' = method /\ UNCHANGED <<queue, passed>>
  BY <1>8 DEF PushRefused, PushNotify, Close, CloseNotify, Terminated, qvars
<1> QED
  BY <1>3, <1>4, <1>5, <1>6, <1>7, <1>8 DEF Next, WorkerStep

(***************************************************************************)
(* The history of overtaking: whoever is not waiting has a clean one, and  *)
(* nobody passes himself.                                                  *)
(***************************************************************************)
Waits ==
  /\ passed \in [Requests -> [Requests -> Nat]]
  /\ \A r \in Requests : r \notin ToSet(queue) => passed[r] = Nobody
  /\ \A r \in Requests : passed[r][r] = 0

(* In order of arrival: those ahead of r have not been popped while r      *)
(* waited.                                                                 *)
InLine ==
  method = "wait_pop" =>
    \A i, j \in 1 .. Len(queue) :
      i < j => passed[queue[j]][queue[i]] = 0

(* By the comparison: nobody worse has passed r.                           *)
NeverByWorse ==
  method = "wait_pop_best" =>
    \A i \in 1 .. Len(queue) : \A x \in Requests :
      passed[queue[i]][x] > 0 => ~Better(queue[i], x)

OrderInv == Waits /\ InLine /\ NoDoubleBypass /\ NeverByWorse

(* What the pop at index k does to those who go on waiting: each moves to  *)
(* its new index and is passed once more, by queue[k].                     *)
LEMMA PopHistory ==
  ASSUME TypeOK, IsInjective(queue), Waits, NEW k \in 1 .. Len(queue),
         queue' = RemoveAt(queue, k), passed' = Overtaken(k)
  PROVE  /\ Waits'
         /\ Len(queue) \in Nat /\ Len(queue') = Len(queue) - 1
         /\ \A m \in 1 .. Len(queue) :
              /\ queue[m] \in Requests
              /\ m # k => \A x \in Requests :
                   /\ passed[queue[m]][x] \in Nat
                   /\ passed'[queue[m]][x] =
                        IF x = queue[k] THEN passed[queue[m]][x] + 1
                        ELSE passed[queue[m]][x]
         /\ \A j \in 1 .. (Len(queue) - 1) :
              queue'[j] = IF j < k THEN queue[j] ELSE queue[j + 1]
<1>1. /\ Len(queue) \in Nat /\ DOMAIN queue = 1 .. Len(queue)
      /\ \A m \in 1 .. Len(queue) : queue[m] \in Requests
  BY LenProperties, ElementOfSeq DEF TypeOK
<1>2. /\ Len(queue') = Len(queue) - 1
      /\ \A j \in 1 .. (Len(queue) - 1) :
           queue'[j] = IF j < k THEN queue[j] ELSE queue[j + 1]
  BY RemoveAtProperties DEF TypeOK
<1>3. ToSet(queue') = ToSet(queue) \ {queue[k]}
  BY RemoveSet DEF TypeOK
<1>4. ASSUME NEW r \in Requests
      PROVE  passed'[r] = IF r = queue[k] THEN Nobody
                          ELSE IF r \in ToSet(queue)
                            THEN [passed[r] EXCEPT ![queue[k]] = @ + 1]
                          ELSE passed[r]
  BY DEF Overtaken
<1>5. Nobody \in [Requests -> Nat] /\ \A x \in Requests : Nobody[x] = 0
  BY DEF Nobody
<1>6. passed' \in [Requests -> [Requests -> Nat]]
  <2>1. ASSUME NEW r \in Requests PROVE passed'[r] \in [Requests -> Nat]
    <3>1. passed[r] \in [Requests -> Nat] /\ queue[k] \in Requests
      BY <1>1 DEF Waits
    <3>2. [passed[r] EXCEPT ![queue[k]] = @ + 1] \in [Requests -> Nat]
      BY <3>1
    <3> QED BY <1>4, <1>5, <3>1, <3>2
  <2>2. passed' = [r \in Requests |-> passed'[r]]
    BY DEF Overtaken
  <2> QED BY <2>1, <2>2
<1>7. ASSUME NEW r \in Requests, r \notin ToSet(queue')
      PROVE  passed'[r] = Nobody
  BY <1>3, <1>4, <1>7 DEF Waits
<1>8. ASSUME NEW r \in Requests
      PROVE  passed'[r][r] = 0
  <2>1. passed[r] \in [Requests -> Nat] /\ passed[r][r] = 0
    BY <1>1 DEF Waits
  <2>2. CASE r = queue[k]
    BY <1>4, <1>5, <2>2
  <2>3. CASE r # queue[k]
    BY <1>4, <2>1, <2>3
  <2> QED BY <2>2, <2>3
<1>9. ASSUME NEW m \in 1 .. Len(queue), m # k, NEW x \in Requests
      PROVE  /\ passed[queue[m]][x] \in Nat
             /\ passed'[queue[m]][x] =
                  IF x = queue[k] THEN passed[queue[m]][x] + 1
                  ELSE passed[queue[m]][x]
  <2>1. queue[m] \in ToSet(queue) /\ queue[m] # queue[k]
    BY <1>1, <1>9 DEF IsInjective, ToSet
  <2>2. passed'[queue[m]] = [passed[queue[m]] EXCEPT ![queue[k]] = @ + 1]
    BY <1>1, <1>4, <2>1
  <2>3. passed[queue[m]] \in [Requests -> Nat]
    BY <1>1 DEF Waits
  <2> QED BY <2>2, <2>3
<1> QED BY <1>1, <1>2, <1>6, <1>7, <1>8, <1>9 DEF Waits

(* A pop keeps the order of service. *)
LEMMA OrderPop ==
  ASSUME IInv, OrderInv, method' = method,
         NEW k \in 1 .. Len(queue), PopsAt(k)
  PROVE  OrderInv'
<1> DEFINE old(j) == IF j < k THEN j ELSE j + 1
<1>1. TypeOK /\ IsInjective(queue) /\ Waits
  BY DEF IInv, Base, OnePlace, OrderInv
<1>2. queue' = RemoveAt(queue, k) /\ passed' = Overtaken(k)
  BY DEF PopsAt
<1>3. /\ Waits'
      /\ Len(queue) \in Nat /\ Len(queue') = Len(queue) - 1
      /\ \A m \in 1 .. Len(queue) :
           /\ queue[m] \in Requests
           /\ m # k => \A x \in Requests :
                /\ passed[queue[m]][x] \in Nat
                /\ passed'[queue[m]][x] =
                     IF x = queue[k] THEN passed[queue[m]][x] + 1
                     ELSE passed[queue[m]][x]
      /\ \A j \in 1 .. (Len(queue) - 1) :
           queue'[j] = IF j < k THEN queue[j] ELSE queue[j + 1]
  BY <1>1, <1>2, PopHistory
<1>4. ASSUME NEW j \in 1 .. Len(queue')
      PROVE  /\ old(j) \in 1 .. Len(queue) /\ old(j) # k
             /\ queue'[j] = queue[old(j)]
  BY <1>3
<1>5. DOMAIN queue = 1 .. Len(queue) /\ DOMAIN queue' = 1 .. Len(queue')
  BY <1>1, <1>2, RemoveAtProperties, LenProperties DEF TypeOK
<1>6. ASSUME method = "wait_pop" PROVE InLine' /\ NoDoubleBypass'
  <2>1. k = 1
    BY <1>6 DEF PopsAt, Chosen
  <2>2. \A j \in 1 .. Len(queue') :
          j + 1 \in 1 .. Len(queue) /\ queue'[j] = queue[j + 1]
    BY <1>3, <2>1
  <2>3. \A i, j \in 1 .. Len(queue) :
          i < j => passed[queue[j]][queue[i]] = 0
    BY <1>6 DEF OrderInv, InLine
  <2>4. \A m \in 1 .. Len(queue) : \A x \in Requests :
          passed[queue[m]][x] <= 1
    BY <1>5, <1>6 DEF OrderInv, NoDoubleBypass
  <2>5. ASSUME NEW i \in 1 .. Len(queue'), NEW j \in 1 .. Len(queue'),
               i < j
        PROVE  passed'[queue'[j]][queue'[i]] = 0
    <3>1. /\ i + 1 \in 1 .. Len(queue) /\ j + 1 \in 1 .. Len(queue)
          /\ i + 1 < j + 1 /\ j + 1 # 1 /\ i + 1 # 1
          /\ queue'[i] = queue[i + 1] /\ queue'[j] = queue[j + 1]
      BY <1>3, <2>2, <2>5
    <3>2. queue[i + 1] # queue[1] /\ queue[i + 1] \in Requests
      BY <1>1, <1>3, <1>5, <3>1, <2>1 DEF IsInjective
    <3>3. passed'[queue[j + 1]][queue[i + 1]]
            = passed[queue[j + 1]][queue[i + 1]]
      BY <1>3, <2>1, <3>1, <3>2
    <3> QED BY <2>3, <3>1, <3>3
  <2>6. ASSUME NEW j \in 1 .. Len(queue'), NEW x \in Requests
        PROVE  passed'[queue'[j]][x] <= 1
    <3>1. /\ j + 1 \in 1 .. Len(queue) /\ 1 < j + 1
          /\ queue'[j] = queue[j + 1]
      BY <1>3, <2>2
    <3>2. passed'[queue[j + 1]][x] =
            IF x = queue[1] THEN passed[queue[j + 1]][x] + 1
            ELSE passed[queue[j + 1]][x]
      BY <1>3, <2>1, <3>1
    <3>3. passed[queue[j + 1]][queue[1]] = 0
      BY <2>1, <2>3, <3>1
    <3> QED BY <2>4, <3>1, <3>2, <3>3
  <2> QED BY <1>5, <2>5, <2>6 DEF InLine, NoDoubleBypass
<1>7. ASSUME method = "wait_pop_best" PROVE NeverByWorse'
  <2>1. SUFFICES ASSUME NEW j \in 1 .. Len(queue'), NEW x \in Requests,
                        passed'[queue'[j]][x] > 0
                 PROVE  ~Better(queue'[j], x)
    BY DEF NeverByWorse
  <2>2. PICK m \in 1 .. Len(queue) : m # k /\ queue'[j] = queue[m]
    BY <1>4
  <2>3. CASE x = queue[k]
    <3>1. IsBest(k)
      BY <1>7 DEF PopsAt, Chosen
    <3>2. CASE m < k
      <4>1. Better(queue[k], queue[m])
        BY <1>3, <2>2, <3>1, <3>2 DEF IsBest
      <4> QED BY <1>3, <2>2, <2>3, <4>1, BetterAssumption
    <3>3. CASE m > k
      BY <1>3, <2>2, <2>3, <3>1, <3>3 DEF IsBest
    <3> QED BY <1>3, <2>2, <3>2, <3>3
  <2>4. CASE x # queue[k]
    <3>1. passed[queue[m]][x] > 0
      BY <1>3, <2>1, <2>2, <2>4
    <3> QED BY <1>7, <2>2, <3>1 DEF OrderInv, NeverByWorse
  <2> QED BY <2>3, <2>4
<1>8. method # "wait_pop" => InLine' /\ NoDoubleBypass'
  BY DEF InLine, NoDoubleBypass
<1>9. method # "wait_pop_best" => NeverByWorse'
  BY DEF NeverByWorse
<1> QED BY <1>3, <1>6, <1>7, <1>8, <1>9 DEF OrderInv

(* A request that joins at the back keeps the order of service. *)
LEMMA OrderJoin ==
  ASSUME IInv, OrderInv, method' = method, NEW r \in Requests, Joins(r)
  PROVE  OrderInv'
<1>1. /\ queue \in Seq(Requests) /\ r \notin ToSet(queue)
      /\ queue' = Append(queue, r) /\ passed' = passed
  BY DEF IInv, Base, TypeOK, Joins
<1>2. /\ Len(queue) \in Nat /\ DOMAIN queue = 1 .. Len(queue)
      /\ Len(queue') = Len(queue) + 1
      /\ DOMAIN queue' = 1 .. Len(queue')
      /\ \A i \in 1 .. Len(queue) : queue'[i] = queue[i]
      /\ queue'[Len(queue) + 1] = r
  BY <1>1, LenProperties, AppendProperties
<1>3. ToSet(queue') = ToSet(queue) \cup {r}
  BY <1>1, AppendSet
<1>4. \A x \in Requests : passed[r][x] = 0
  BY <1>1 DEF OrderInv, Waits, Nobody
<1>5. \A i \in 1 .. Len(queue) : queue[i] \in Requests
  BY <1>1, ElementOfSeq
<1>6. Waits'
  BY <1>1, <1>3 DEF OrderInv, Waits
<1>7. InLine'
  <2>1. SUFFICES ASSUME method = "wait_pop",
                        NEW i \in 1 .. Len(queue'),
                        NEW j \in 1 .. Len(queue'), i < j
                 PROVE  passed[queue'[j]][queue'[i]] = 0
    BY <1>1 DEF InLine
  <2>2. i \in 1 .. Len(queue) /\ queue'[i] = queue[i]
    BY <1>2, <2>1
  <2>3. CASE j = Len(queue) + 1
    BY <1>2, <1>4, <1>5, <2>2, <2>3
  <2>4. CASE j \in 1 .. Len(queue)
    BY <1>2, <2>1, <2>2, <2>4 DEF OrderInv, InLine
  <2> QED BY <1>2, <2>3, <2>4
<1>8. NoDoubleBypass'
  <2>1. SUFFICES ASSUME method = "wait_pop",
                        NEW i \in 1 .. Len(queue'), NEW x \in Requests
                 PROVE  passed[queue'[i]][x] <= 1
    BY <1>1, <1>2 DEF NoDoubleBypass
  <2>2. CASE i = Len(queue) + 1
    BY <1>2, <1>4, <2>2
  <2>3. CASE i \in 1 .. Len(queue)
    BY <1>2, <2>1, <2>3 DEF OrderInv, NoDoubleBypass
  <2> QED BY <1>2, <2>2, <2>3
<1>9. NeverByWorse'
  <2>1. SUFFICES ASSUME method = "wait_pop_best",
                        NEW i \in 1 .. Len(queue'), NEW x \in Requests,
                        passed[queue'[i]][x] > 0
                 PROVE  ~Better(queue'[i], x)
    BY <1>1 DEF NeverByWorse
  <2>2. CASE i = Len(queue) + 1
    BY <1>2, <1>4, <2>1, <2>2
  <2>3. CASE i \in 1 .. Len(queue)
    BY <1>2, <2>1, <2>3 DEF OrderInv, NeverByWorse
  <2> QED BY <1>2, <2>2, <2>3
<1> QED BY <1>6, <1>7, <1>8, <1>9 DEF OrderInv

(* Every step keeps the order of service. *)
LEMMA OrderStep == IInv /\ OrderInv /\ [Next]_qvars => OrderInv'
<1> SUFFICES ASSUME IInv, OrderInv, [Next]_qvars PROVE OrderInv'
  OBVIOUS
<1>1. CASE UNCHANGED <<queue, passed, method>>
  BY <1>1 DEF OrderInv, Waits, InLine, NoDoubleBypass, NeverByWorse
<1>2. CASE Next
  BY <1>1, <1>2, OrderSteps, OrderPop, OrderJoin
<1>3. CASE UNCHANGED qvars
  BY <1>1, <1>3 DEF qvars
<1> QED BY <1>2, <1>3

(* Nobody has waited yet. *)
LEMMA OrderInit == Init => OrderInv
<1> SUFFICES ASSUME Init PROVE OrderInv
  OBVIOUS
<1>1. /\ queue = <<>> /\ passed = [r \in Requests |-> Nobody]
      /\ Nobody \in [Requests -> Nat]
  BY DEF Init, Nobody
<1>2. Waits
  BY <1>1 DEF Waits, Nobody
<1>3. Len(queue) = 0 /\ DOMAIN queue = {}
  BY <1>1
<1> QED BY <1>2, <1>3 DEF OrderInv, InLine, NoDoubleBypass, NeverByWorse

(* First come, first served between preemptions: with wait_pop nobody is   *)
(* popped twice while another request waits, for any number of workers and *)
(* any pattern of preemptions.                                             *)
THEOREM ServedInTurn == Spec => []NoDoubleBypass
<1>1. OrderInv => NoDoubleBypass
  BY DEF OrderInv
<1> QED BY <1>1, InvInit, InvStep, OrderInit, OrderStep, PTL DEF Spec

(* Shortest job first: with wait_pop_best nobody worse passes a waiting    *)
(* request, even where the comparison ties.                                *)
THEOREM NeverPassedByWorse == Spec => []NeverByWorse
<1>1. OrderInv => NeverByWorse
  BY DEF OrderInv
<1> QED BY <1>1, InvInit, InvStep, OrderInit, OrderStep, PTL DEF Spec

(* No two requests tie: their sizes or their arrival_ns differ.            *)
NoTies == \A a, b \in Requests : a # b => Better(a, b) \/ Better(b, a)

(* Without ties, whoever passes a request waiting under SJF is better than *)
(* it, whatever the order of arrival.                                      *)
THEOREM PassedOnlyByBetter ==
  ASSUME NoTies
  PROVE  Spec => []OvertakenOnlyByBetter
<1>1. ASSUME IInv, OrderInv PROVE OvertakenOnlyByBetter
  <2>1. SUFFICES ASSUME method = "wait_pop_best", NEW i \in DOMAIN queue,
                        NEW x \in Requests, passed[queue[i]][x] > 0
                 PROVE  Better(x, queue[i])
    BY DEF OvertakenOnlyByBetter
  <2>2. i \in 1 .. Len(queue) /\ queue[i] \in Requests
    BY <1>1, ElementOfSeq, LenProperties DEF IInv, Base, TypeOK
  <2>3. x # queue[i]
    BY <1>1, <2>1, <2>2 DEF OrderInv, Waits
  <2>4. ~Better(queue[i], x)
    BY <1>1, <2>1, <2>2 DEF OrderInv, NeverByWorse
  <2> QED BY <2>2, <2>3, <2>4 DEF NoTies
<1>2. IInv /\ OrderInv => OvertakenOnlyByBetter
  BY <1>1
<1> QED BY <1>2, InvInit, InvStep, OrderInit, OrderStep, PTL DEF Spec
=============================================================================
