----------------------------- MODULE LoadProofs -----------------------------
(***************************************************************************)
(* Proofs about Load, for any number of threads, requests and files.       *)
(***************************************************************************)
EXTENDS Load, FiniteSetTheorems, SequenceTheorems, TLAPS

Everyone == Threads \cup {Main}
Seeds == {Files[i] : i \in DOMAIN Files}
Row == [id : Nat, arrival : Nat, start : Nat, finish : Nat]
Connection ==
  [at : {"idle", "sent", "admitted", "running", "served", "refused"},
   op : {"GET", "PUT", None}, name : Seeds \cup {None},
   row : Row \cup {None}]

Types ==
  /\ cmd \in Commands
  /\ pc \in [Everyone -> {"ready", "seed", "join", "loop", "gone"}]
  /\ conn \in [Everyone -> Connection]
  /\ \A t \in Everyone : conn[t].at = "admitted" => conn[t].row \in Row
  /\ next \in Nat /\ issued \in Nat /\ clock \in Nat /\ ids \in Nat

(* Main seeds alone; of what it has sent, all but the last is in place.    *)
ToLoad == cmd.requests \in Int /\ cmd.requests > 0
Underway == {"sent", "admitted", "running", "refused"}
Seeding ==
  /\ conn[Main].at # "idle" => pc[Main] = "seed" /\ conn[Main].op = "PUT"
  /\ pc[Main] = "ready" => next = 0
  /\ pc[Main] = "seed" =>
       /\ ToLoad /\ next <= Len(Files)
       /\ \A i \in 1 .. next :
            \/ Files[i] \in store
            \/ /\ i = next /\ conn[Main].at \in Underway
               /\ conn[Main].name = Files[i]

(* The threads start together, after the seeding.  A thread is gone only   *)
(* when the counter has passed the last request.                           *)
Unstarted ==
  /\ \A t \in Threads : pc[t] = "ready" /\ conn[t].at = "idle"
  /\ pc[Main] # "join" /\ issued = 0
Loading ==
  /\ \A t \in Threads : pc[t] \in {"loop", "gone"}
  /\ pc[Main] \in {"join", "gone"}
  /\ Seeds \subseteq store /\ ToLoad
  /\ issued = IF next <= cmd.requests THEN next ELSE cmd.requests
  /\ \A t \in Threads : pc[t] = "gone" => next > cmd.requests

(* No thread asks for what is not there. *)
Asked ==
  \A t \in Everyone :
    conn[t].at = "sent" /\ conn[t].op = "GET" => conn[t].name \in store

LoadInv ==
  /\ Types /\ Seeding /\ (Unstarted \/ Loading) /\ Asked
  /\ missing = 0

-----------------------------------------------------------------------------
(* The workload is a sequence. *)
LEMMA FilesInOrder ==
  /\ Len(Files) \in Nat /\ DOMAIN Files = 1 .. Len(Files)
  /\ \A i \in 1 .. Len(Files) : Files[i] \in Seeds
<1> DEFINE X == {d \in Directory : d.regular /\ ~d.hidden}
           f == [e \in X |-> e.name]
<1>1. IsFiniteSet(X)
  BY LoadAssumption, FS_Subset
<1>2. f \in Surjection(X, Names)
  BY DEF Surjection, Names
<1>3. IsFiniteSet(Names)
  BY <1>1, <1>2, FS_Surjection
<1>4. Cardinality(Names) \in Nat
  BY <1>3, FS_CardinalityType
<1>5. DOMAIN Files = 1 .. Cardinality(Names)
  BY DEF Files
<1>6. Len(Files) = Cardinality(Names)
  <2> DEFINE S == {Files[i] : i \in 1 .. Cardinality(Names)}
  <2>1. Files = [i \in 1 .. Cardinality(Names) |-> Files[i]]
    BY DEF Files
  <2>2. Files \in [1 .. Cardinality(Names) -> S]
    BY <2>1
  <2>3. Files \in Seq(S)
    BY <1>4, <2>2, SeqDef
  <2> QED BY <1>4, <1>5, <2>3, LenProperties
<1> QED BY <1>4, <1>5, <1>6 DEF Seeds

(* One connection changes. *)
LEMMA OneChanges ==
  ASSUME Types, NEW t \in Everyone, NEW x \in Connection,
         conn' = [conn EXCEPT ![t] = x], x.at = "admitted" => x.row \in Row
  PROVE  /\ conn' \in [Everyone -> Connection] /\ conn'[t] = x
         /\ \A u \in Everyone : u # t => conn'[u] = conn[u]
         /\ \A u \in Everyone :
              conn'[u].at = "admitted" => conn'[u].row \in Row
<1>1. /\ conn' \in [Everyone -> Connection] /\ conn'[t] = x
      /\ \A u \in Everyone : u # t => conn'[u] = conn[u]
  BY DEF Types
<1>2. \A u \in Everyone : conn[u].at = "admitted" => conn[u].row \in Row
  BY DEF Types
<1>3. ASSUME NEW u \in Everyone, conn'[u].at = "admitted"
      PROVE  conn'[u].row \in Row
  <2>1. CASE u = t
    BY <1>1, <1>3, <2>1
  <2>2. CASE u # t
    BY <1>1, <1>2, <1>3, <2>2
  <2> QED BY <2>1, <2>2
<1> QED BY <1>1, <1>3

(* The server takes a request a step further. *)
LEMMA Further ==
  ASSUME LoadInv, NEW t \in Everyone, NEW x \in Connection,
         UNCHANGED <<cmd, pc, next, issued>>, store \subseteq store',
         conn' = [conn EXCEPT ![t] = x], x.at = "admitted" => x.row \in Row,
         conn[t].at \in {"sent", "admitted", "running"},
         x.at \in {"admitted", "running", "served", "refused"},
         x.op = conn[t].op, x.name = conn[t].name,
         x.at = "served" /\ x.op = "PUT" => x.name \in store',
         clock' \in Nat, ids' \in Nat, missing' = 0
  PROVE  LoadInv'
<1>1. /\ conn' \in [Everyone -> Connection] /\ conn'[t] = x
      /\ \A u \in Everyone : u # t => conn'[u] = conn[u]
      /\ \A u \in Everyone : conn'[u].at = "admitted" => conn'[u].row \in Row
  BY OneChanges DEF LoadInv
<1>2. Types'
  BY <1>1 DEF LoadInv, Types
<1>3. Main \in Everyone /\ Threads \subseteq Everyone
  BY DEF Everyone
<1>4. Seeding'
  <2>1. Seeding
    BY DEF LoadInv
  <2>2. CASE t = Main
    <3>1. /\ pc[Main] = "seed" /\ x.op = "PUT" /\ conn'[Main] = x
          /\ ToLoad /\ next <= Len(Files)
          /\ \A i \in 1 .. next :
               \/ Files[i] \in store
               \/ i = next /\ conn[Main].name = Files[i]
      BY <1>1, <2>1, <2>2 DEF Seeding
    <3>2. \A i \in 1 .. next :
            \/ Files[i] \in store'
            \/ /\ i = next /\ conn'[Main].at \in Underway
               /\ conn'[Main].name = Files[i]
      BY <2>2, <3>1 DEF Underway
    <3> QED BY <2>2, <3>1, <3>2 DEF Seeding, ToLoad
  <2>3. CASE t # Main
    <3>1. conn'[Main] = conn[Main]
      BY <1>1, <1>3, <2>3
    <3> QED BY <2>1, <3>1 DEF Seeding, ToLoad
  <2> QED BY <2>2, <2>3
<1>5. (Unstarted \/ Loading)'
  <2>1. CASE Unstarted
    <3>1. t = Main
      BY <2>1 DEF Unstarted, Everyone
    <3>2. \A u \in Threads : conn'[u] = conn[u]
      BY <1>1, <1>3, <3>1, LoadAssumption
    <3> QED BY <2>1, <3>2 DEF Unstarted
  <2>2. CASE Loading
    BY <2>2 DEF Loading, ToLoad
  <2> QED BY <2>1, <2>2 DEF LoadInv
<1>6. Asked'
  <2>1. ASSUME NEW u \in Everyone, conn'[u].at = "sent", conn'[u].op = "GET"
        PROVE  conn'[u].name \in store'
    <3>1. u # t
      BY <1>1, <2>1
    <3>2. conn'[u] = conn[u]
      BY <1>1, <3>1
    <3> QED BY <2>1, <3>2 DEF LoadInv, Asked
  <2> QED BY <2>1 DEF Asked
<1> QED BY <1>2, <1>4, <1>5, <1>6 DEF LoadInv

(* A reply ends a request. *)
LEMMA Replied ==
  ASSUME LoadInv, NEW t \in Everyone, NEW ok \in BOOLEAN, Reply(t, ok)
  PROVE  LoadInv'
<1> USE DEF LoadInv
<1>1. /\ UNCHANGED <<cmd, next, issued, store, clock, ids, missing>>
      /\ conn' = [conn EXCEPT ![t] = Idle]
      /\ conn[t].at \in {"served", "refused"}
      /\ ok => conn[t].at = "served"
      /\ \/ UNCHANGED pc /\ (t # Main \/ ok)
         \/ t = Main /\ pc' = [pc EXCEPT ![Main] = "gone"]
  BY DEF Reply, server, SeedFailed, Leave
<1>2. Idle \in Connection /\ Idle.at = "idle"
  BY DEF Idle, Connection
<1>3. /\ conn' \in [Everyone -> Connection] /\ conn'[t] = Idle
      /\ \A u \in Everyone : u # t => conn'[u] = conn[u]
      /\ \A u \in Everyone : conn'[u].at = "admitted" => conn'[u].row \in Row
  BY <1>1, <1>2, OneChanges
<1>4. Main \in Everyone /\ Threads \subseteq Everyone /\ Main \notin Threads
  BY LoadAssumption DEF Everyone
<1>5. /\ pc \in [Everyone -> {"ready", "seed", "join", "loop", "gone"}]
      /\ pc' \in [Everyone -> {"ready", "seed", "join", "loop", "gone"}]
      /\ \A u \in Threads : pc'[u] = pc[u]
      /\ UNCHANGED pc \/ pc'[Main] = "gone"
  <2>1. pc \in [Everyone -> {"ready", "seed", "join", "loop", "gone"}]
    BY DEF Types
  <2>2. CASE UNCHANGED pc
    BY <2>1, <2>2
  <2>3. CASE pc' = [pc EXCEPT ![Main] = "gone"]
    BY <1>4, <2>1, <2>3
  <2> QED BY <1>1, <2>2, <2>3
<1>6. Types'
  BY <1>1, <1>3, <1>5 DEF Types
<1>7. Asked'
  <2>1. ASSUME NEW u \in Everyone, conn'[u].at = "sent", conn'[u].op = "GET"
        PROVE  conn'[u].name \in store'
    <3>1. conn'[u] = conn[u]
      BY <1>2, <1>3, <2>1
    <3> QED BY <1>1, <2>1, <3>1 DEF Asked
  <2> QED BY <2>1 DEF Asked
<1>8. CASE t = Main
  <2>1. pc[Main] = "seed" /\ ~Loading
    BY <1>1, <1>8 DEF Seeding, Loading
  <2>2. Unstarted'
    <3>1. \A u \in Threads : conn'[u] = conn[u]
      BY <1>3, <1>4, <1>8
    <3> QED BY <1>1, <1>5, <2>1, <3>1 DEF Unstarted
  <2>3. Seeding'
    <3>1. CASE pc'[Main] = "gone"
      BY <1>2, <1>3, <1>8, <3>1 DEF Seeding
    <3>2. CASE UNCHANGED pc
      <4>1. conn[Main].at = "served"
        <5>1. pc'[Main] # "gone"
          BY <2>1, <3>2
        <5> QED BY <1>1, <1>4, <1>5, <1>8, <5>1
      <4>2. \A i \in 1 .. next : Files[i] \in store
        BY <2>1, <4>1 DEF Seeding, Underway
      <4> QED BY <1>1, <1>2, <1>3, <1>8, <2>1, <3>2, <4>2
              DEF Seeding, ToLoad
    <3> QED BY <1>1, <1>5, <3>1, <3>2
  <2> QED BY <1>1, <1>6, <1>7, <2>2, <2>3
<1>9. CASE t # Main
  <2>1. UNCHANGED pc /\ conn'[Main] = conn[Main]
    BY <1>1, <1>3, <1>4, <1>9
  <2>2. Seeding'
    BY <1>1, <2>1 DEF Seeding, ToLoad
  <2>3. Loading
    BY <1>1, <1>9 DEF Unstarted, Everyone
  <2>4. Loading'
    BY <1>1, <2>1, <2>3 DEF Loading, ToLoad
  <2> QED BY <1>1, <1>6, <1>7, <2>2, <2>4
<1> QED BY <1>8, <1>9

(* Each step keeps LoadInv. *)
LEMMA LoadStep ==
  ASSUME LoadInv, [Next]_lvars PROVE LoadInv'
<1> DEFINE Places == {"ready", "seed", "join", "loop", "gone"}
<1>1. /\ Types /\ Seeding /\ (Unstarted \/ Loading) /\ Asked
      /\ missing = 0
  BY DEF LoadInv
<1>2. /\ pc \in [Everyone -> Places] /\ conn \in [Everyone -> Connection]
      /\ next \in Nat /\ issued \in Nat /\ clock \in Nat /\ ids \in Nat
      /\ \A t \in Everyone : conn[t].at = "admitted" => conn[t].row \in Row
  BY <1>1 DEF Types
<1>3. Main \in Everyone /\ Threads \subseteq Everyone /\ Main \notin Threads
  BY LoadAssumption DEF Everyone
<1>4. CASE UNCHANGED <<cmd, pc, next, issued, conn, store, missing>>
           /\ clock' \in Nat /\ ids' \in Nat
  BY <1>1, <1>4 DEF LoadInv, Types, Seeding, Unstarted, Loading, Asked,
     ToLoad
<1>5. CASE UNCHANGED lvars \/ Terminated \/ Shutdown
  BY <1>2, <1>4, <1>5 DEF lvars, client, server, Terminated, Shutdown
<1>6. CASE Record
  BY <1>2, <1>4, <1>6 DEF Record, client
<1>7. ASSUME NEW r, Leave(r), UNCHANGED <<cmd, next, issued, conn, server>>,
             conn[Main].at = "idle"
      PROVE  LoadInv'
  <2>1. /\ pc' \in [Everyone -> Places] /\ pc'[Main] = "gone"
        /\ \A t \in Threads : pc'[t] = pc[t]
        /\ UNCHANGED <<store, clock, ids, missing>>
    BY <1>2, <1>3, <1>7 DEF Leave, server
  <2>2. Types' /\ Asked' /\ Seeding'
    BY <1>1, <1>7, <2>1 DEF Types, Asked, Seeding
  <2>3. (Unstarted \/ Loading)'
    BY <1>1, <1>7, <2>1 DEF Unstarted, Loading, ToLoad
  <2> QED BY <1>1, <2>1, <2>2, <2>3 DEF LoadInv
<1>8. CASE Args
  <2>1. /\ UNCHANGED <<cmd, next, issued, conn, server>>
        /\ pc[Main] = "ready" /\ conn[Main].at = "idle"
        /\ \/ \E r : Leave(r)
           \/ /\ ArgsOk /\ cmd.command = "load"
              /\ pc' = [pc EXCEPT ![Main] = "seed"]
    BY <1>8 DEF Args, At
  <2>2. CASE ArgsOk /\ cmd.command = "load"
             /\ pc' = [pc EXCEPT ![Main] = "seed"]
    <3>1. /\ pc' \in [Everyone -> Places] /\ pc'[Main] = "seed"
          /\ \A t \in Threads : pc'[t] = pc[t]
          /\ UNCHANGED <<store, clock, ids, missing>>
      BY <1>2, <1>3, <2>1, <2>2 DEF server
    <3>2. ToLoad
      BY <1>1, <2>2, LoadAssumption DEF ArgsOk, ToLoad, Types
    <3>3. Unstarted
      BY <1>1, <2>1 DEF Loading
    <3>4. Seeding'
      <4>1. next = 0 /\ Len(Files) \in Nat
        BY <1>1, <2>1, FilesInOrder DEF Seeding
      <4>2. next <= Len(Files) /\ 1 .. next = {}
        BY <4>1
      <4> QED BY <2>1, <3>1, <3>2, <4>2 DEF Seeding, ToLoad
    <3>5. Types' /\ Asked' /\ Unstarted'
      BY <1>1, <2>1, <3>1, <3>3 DEF Types, Asked, Unstarted
    <3> QED BY <1>1, <3>1, <3>4, <3>5 DEF LoadInv
  <2> QED BY <1>7, <2>1, <2>2
<1>9. CASE Join
  BY <1>1, <1>7, <1>9 DEF Join, Seeding
<1>10. CASE SeedNext
  <2> DEFINE x == Request("PUT", Files[next + 1])
  <2>1. /\ UNCHANGED <<cmd, pc, issued, store, clock, ids, missing>>
        /\ pc[Main] = "seed" /\ conn[Main].at = "idle"
        /\ next < Len(Files) /\ next' = next + 1
        /\ conn' = [conn EXCEPT ![Main] = x]
    BY <1>10 DEF SeedNext, At, server
  <2>2. next + 1 \in 1 .. Len(Files) /\ Files[next + 1] \in Seeds
    BY <1>2, <2>1, FilesInOrder
  <2>3. /\ x \in Connection /\ x.at = "sent" /\ x.op = "PUT"
        /\ x.name = Files[next + 1]
    BY <2>2 DEF Request, Idle, Connection
  <2> HIDE DEF x
  <2>4. /\ conn' \in [Everyone -> Connection] /\ conn'[Main] = x
        /\ \A u \in Everyone : u # Main => conn'[u] = conn[u]
        /\ \A u \in Everyone :
             conn'[u].at = "admitted" => conn'[u].row \in Row
    BY <1>1, <1>3, <2>1, <2>3, OneChanges
  <2>5. Types'
    BY <1>1, <1>2, <2>1, <2>4 DEF Types
  <2>6. Unstarted'
    BY <1>1, <1>3, <2>1, <2>4 DEF Unstarted, Loading
  <2>7. Seeding'
    <3>1. /\ ToLoad
          /\ \A i \in 1 .. next : Files[i] \in store
      BY <1>1, <2>1 DEF Seeding, Underway
    <3>2. \A i \in 1 .. (next + 1) : i \in 1 .. next \/ i = next + 1
      BY <1>2
    <3>3. next + 1 <= Len(Files)
      BY <2>2, FilesInOrder
    <3> QED BY <2>1, <2>3, <2>4, <3>1, <3>2, <3>3
            DEF Seeding, ToLoad, Underway
  <2>8. Asked'
    <3>1. ASSUME NEW u \in Everyone, conn'[u].at = "sent",
                 conn'[u].op = "GET"
          PROVE  conn'[u].name \in store'
      <4>1. conn'[u] = conn[u]
        BY <2>3, <2>4, <3>1
      <4> QED BY <1>1, <2>1, <3>1, <4>1 DEF Asked
    <3> QED BY <3>1 DEF Asked
  <2> QED BY <1>1, <2>1, <2>5, <2>6, <2>7, <2>8 DEF LoadInv
<1>11. CASE SeedDone
  <2>1. /\ UNCHANGED <<cmd, issued, conn, store, clock, ids, missing>>
        /\ pc[Main] = "seed" /\ conn[Main].at = "idle"
        /\ next = Len(Files) /\ next' = 0
        /\ pc' = [t \in DOMAIN pc |-> IF t = Main THEN "join" ELSE "loop"]
    BY <1>11 DEF SeedDone, At, server
  <2>2. /\ pc' \in [Everyone -> Places] /\ pc'[Main] = "join"
        /\ \A t \in Threads : pc'[t] = "loop"
    BY <1>2, <1>3, <2>1
  <2>3. ToLoad /\ \A i \in 1 .. Len(Files) : Files[i] \in store
    BY <1>1, <2>1 DEF Seeding, Underway
  <2>4. Seeds \subseteq store
    BY <2>3, FilesInOrder DEF Seeds
  <2>5. issued = 0
    BY <1>1, <2>1 DEF Unstarted, Loading
  <2>6. Types' /\ Asked' /\ Seeding'
    BY <1>1, <2>1, <2>2 DEF Types, Asked, Seeding
  <2>7. Loading'
    <3>1. cmd.requests \in Int /\ cmd.requests > 0 /\ 0 <= cmd.requests
      BY <2>3 DEF ToLoad
    <3> QED BY <2>1, <2>2, <2>4, <2>5, <3>1 DEF Loading, ToLoad
  <2> QED BY <1>1, <2>1, <2>6, <2>7 DEF LoadInv
<1>12. ASSUME NEW t \in Threads, NEW op \in {"GET", "PUT"},
              NEW i \in DOMAIN Files, Turn(t, op, Files[i])
       PROVE  LoadInv'
  <2> DEFINE x == Request(op, Files[i])
  <2>1. /\ UNCHANGED <<cmd, pc, store, clock, ids, missing>>
        /\ pc[t] = "loop" /\ conn[t].at = "idle"
        /\ ~(next >= cmd.requests) /\ next' = next + 1
        /\ issued' = issued + 1
        /\ conn' = [conn EXCEPT ![t] = x]
    BY <1>12 DEF Turn, Enough, At, server
  <2>2. Files[i] \in Seeds
    BY DEF Seeds
  <2>3. /\ x \in Connection /\ x.at = "sent" /\ x.op = op
        /\ x.name = Files[i]
    BY <2>2 DEF Request, Idle, Connection
  <2> HIDE DEF x
  <2>4. /\ conn' \in [Everyone -> Connection] /\ conn'[t] = x
        /\ \A u \in Everyone : u # t => conn'[u] = conn[u]
        /\ \A u \in Everyone :
             conn'[u].at = "admitted" => conn'[u].row \in Row
    BY <1>1, <1>3, <2>1, <2>3, OneChanges
  <2>5. Types'
    BY <1>1, <1>2, <2>1, <2>4 DEF Types
  <2>6. Loading
    BY <1>1, <2>1 DEF Unstarted
  <2>7. /\ cmd.requests \in Int
        /\ issued = IF next <= cmd.requests THEN next ELSE cmd.requests
        /\ \A u \in Threads : pc[u] = "gone" => next > cmd.requests
    BY <2>6 DEF Loading, ToLoad
  <2>8. Loading'
    <3>1. issued' = IF next' <= cmd.requests THEN next' ELSE cmd.requests
      BY <1>2, <2>1, <2>7
    <3>2. \A u \in Threads : pc[u] = "gone" => next' > cmd.requests
      BY <1>2, <2>1, <2>7
    <3> QED BY <2>1, <2>6, <3>1, <3>2 DEF Loading, ToLoad
  <2>9. Seeding'
    <3>1. conn'[Main] = conn[Main] /\ pc[Main] \in {"join", "gone"}
      BY <1>3, <2>4, <2>6 DEF Loading
    <3> QED BY <1>1, <2>1, <3>1 DEF Seeding
  <2>10. Asked'
    <3>1. ASSUME NEW u \in Everyone, conn'[u].at = "sent",
                 conn'[u].op = "GET"
          PROVE  conn'[u].name \in store'
      <4>1. CASE u = t
        BY <2>1, <2>2, <2>3, <2>4, <2>6, <4>1 DEF Loading
      <4>2. CASE u # t
        <5>1. conn'[u] = conn[u]
          BY <2>4, <4>2
        <5> QED BY <1>1, <2>1, <3>1, <5>1 DEF Asked
      <4> QED BY <4>1, <4>2
    <3> QED BY <3>1 DEF Asked
  <2> QED BY <1>1, <2>1, <2>5, <2>8, <2>9, <2>10 DEF LoadInv
<1>13. ASSUME NEW t \in Threads, Stop(t) PROVE LoadInv'
  <2>1. /\ UNCHANGED <<cmd, issued, conn, store, clock, ids, missing>>
        /\ pc[t] = "loop" /\ next >= cmd.requests /\ next' = next + 1
        /\ pc' = [pc EXCEPT ![t] = "gone"]
    BY <1>13 DEF Stop, Enough, At, server
  <2>2. /\ pc' \in [Everyone -> Places] /\ pc'[Main] = pc[Main]
        /\ \A u \in Threads : pc'[u] \in {"gone", pc[u]}
    BY <1>2, <1>3, <2>1
  <2>3. Loading
    BY <1>1, <2>1 DEF Unstarted
  <2>4. /\ cmd.requests \in Int
        /\ issued = IF next <= cmd.requests THEN next ELSE cmd.requests
    BY <2>3 DEF Loading, ToLoad
  <2>5. /\ issued = IF next + 1 <= cmd.requests THEN next + 1
                    ELSE cmd.requests
        /\ next + 1 > cmd.requests
    BY <1>2, <2>1, <2>4
  <2>6. Loading'
    BY <2>1, <2>2, <2>3, <2>5 DEF Loading, ToLoad
  <2>7. Types' /\ Asked'
    BY <1>1, <1>2, <2>1, <2>2 DEF Types, Asked
  <2>8. Seeding'
    BY <1>1, <2>1, <2>2, <2>3 DEF Seeding, Loading
  <2> QED BY <1>1, <2>1, <2>6, <2>7, <2>8 DEF LoadInv
<1>14. ASSUME NEW t \in Everyone, Admit(t) PROVE LoadInv'
  <2>1. /\ UNCHANGED <<cmd, pc, next, issued, store>>
        /\ conn[t].at = "sent"
    BY <1>14 DEF Admit, client
  <2>2. ~(conn[t].op = "GET" /\ conn[t].name \notin store)
    BY <1>1, <2>1 DEF Asked
  <2> DEFINE row == [id |-> ids, arrival |-> clock, start |-> 0, finish |-> 0]
             x == [conn[t] EXCEPT !.at = "admitted", !.row = row]
  <2>3. /\ conn' = [conn EXCEPT ![t] = x] /\ missing' = missing
        /\ ids' = ids + 1 /\ clock' = clock + 1
    BY <1>2, <1>14, <2>2 DEF Admit
  <2>4. row \in Row
    BY <1>2 DEF Row
  <2> HIDE DEF row
  <2>5. /\ x \in Connection /\ x.at = "admitted" /\ x.row \in Row
        /\ x.op = conn[t].op /\ x.name = conn[t].name
    BY <1>2, <2>4 DEF Connection
  <2> HIDE DEF x
  <2>6. clock' \in Nat /\ ids' \in Nat /\ missing' = 0
    BY <1>1, <1>2, <2>3
  <2> QED BY <2>1, <2>3, <2>5, <2>6, Further
<1>15. ASSUME NEW t \in Everyone, Start(t) PROVE LoadInv'
  <2> DEFINE row == [conn[t].row EXCEPT !.start = clock]
             x == [conn[t] EXCEPT !.at = "running", !.row = row]
  <2>1. /\ UNCHANGED <<cmd, pc, next, issued, store, ids, missing>>
        /\ conn[t].at = "admitted" /\ clock' = clock + 1
        /\ conn' = [conn EXCEPT ![t] = x]
    BY <1>2, <1>15 DEF Start, client
  <2>2. row \in Row
    BY <1>2, <2>1 DEF Row
  <2> HIDE DEF row
  <2>3. /\ x \in Connection /\ x.at = "running"
        /\ x.op = conn[t].op /\ x.name = conn[t].name
    BY <1>2, <2>2 DEF Connection
  <2> HIDE DEF x
  <2>4. clock' \in Nat /\ ids' \in Nat /\ missing' = 0
    BY <1>1, <1>2, <2>1
  <2> QED BY <2>1, <2>3, <2>4, Further
<1>16. ASSUME NEW t \in Everyone, Serve(t) PROVE LoadInv'
  <2> DEFINE x == [conn[t] EXCEPT !.at = "served"]
  <2>1. /\ UNCHANGED <<cmd, pc, next, issued, clock, ids, missing>>
        /\ conn[t].at = "running"
        /\ conn' = [conn EXCEPT ![t] = x]
        /\ store' = IF conn[t].op = "PUT" THEN store \cup {conn[t].name}
                    ELSE store
    BY <1>2, <1>16 DEF Serve, client
  <2>2. /\ x \in Connection /\ x.at = "served"
        /\ x.op = conn[t].op /\ x.name = conn[t].name
    BY <1>2 DEF Connection
  <2> HIDE DEF x
  <2> QED BY <1>1, <1>2, <2>1, <2>2, Further
<1>17. ASSUME NEW t \in Everyone, ServeFails(t) PROVE LoadInv'
  <2> DEFINE x == [conn[t] EXCEPT !.at = "refused"]
  <2>1. /\ UNCHANGED <<cmd, pc, next, issued, store, clock, ids, missing>>
        /\ conn[t].at \in {"sent", "running"}
        /\ conn' = [conn EXCEPT ![t] = x]
    BY <1>2, <1>17 DEF ServeFails, client, server
  <2>2. /\ x \in Connection /\ x.at = "refused"
        /\ x.op = conn[t].op /\ x.name = conn[t].name
    BY <1>2 DEF Connection
  <2> HIDE DEF x
  <2> QED BY <1>1, <1>2, <2>1, <2>2, Further
<1> QED BY <1>5, <1>6, <1>8, <1>9, <1>10, <1>11, <1>12, <1>13, <1>14, <1>15,
           <1>16, <1>17, Replied DEF Next, Everyone

(* LoadInv holds throughout. *)
THEOREM LoadInvariant == Spec => []LoadInv
<1>1. ASSUME Init PROVE LoadInv
  <2>1. Idle \in Connection /\ Idle.at = "idle"
    BY DEF Idle, Connection
  <2>2. /\ pc = [t \in Everyone |-> "ready"]
        /\ conn = [t \in Everyone |-> Idle]
        /\ cmd \in Commands /\ next = 0 /\ clock = 0 /\ ids = 1
        /\ store = {} /\ missing = 0 /\ issued = 0
    BY <1>1 DEF Init, Everyone
  <2>3. Main \in Everyone /\ Threads \subseteq Everyone
    BY DEF Everyone
  <2> QED BY <2>1, <2>2, <2>3
          DEF LoadInv, Types, Seeding, Unstarted, Asked
<1> QED BY <1>1, LoadStep, PTL DEF Spec

(* However the threads interleave and whatever fails, they send exactly as *)
(* many requests as were asked for, and each GET asks for a file that is   *)
(* there (client.cpp:336, 362).                                            *)
THEOREM LoadsExactly == Spec => []RequestsExact
<1>1. ASSUME LoadInv PROVE RequestsExact
  <2>1. CASE Unstarted
    <3>1. ~Loaded
      BY <2>1, LoadAssumption DEF Unstarted, Loaded
    <3> QED BY <1>1, <2>1, <3>1 DEF LoadInv, Unstarted, RequestsExact
  <2>2. CASE Loading
    <3>1. /\ cmd.requests \in Int /\ next \in Nat
          /\ issued = IF next <= cmd.requests THEN next ELSE cmd.requests
          /\ \A t \in Threads : pc[t] = "gone" => next > cmd.requests
      BY <1>1, <2>2 DEF LoadInv, Types, Loading, ToLoad
    <3>2. issued <= cmd.requests
      BY <3>1
    <3>3. ASSUME Loaded PROVE issued = cmd.requests
      <4>1. PICK t \in Threads : TRUE
        BY LoadAssumption
      <4>2. next > cmd.requests
        BY <3>1, <3>3 DEF Loaded
      <4> QED BY <3>1, <4>2
    <3> QED BY <1>1, <3>2, <3>3 DEF LoadInv, RequestsExact
  <2> QED BY <1>1, <2>1, <2>2 DEF LoadInv
<1> QED BY <1>1, LoadInvariant, PTL
-----------------------------------------------------------------------------
(***************************************************************************)
(* Sorting.  The place of an element counts those that come no later; the  *)
(* places are a bijection, so each is taken once.                          *)
(***************************************************************************)
(* Places follow the keys, and every place is taken once.                  *)
LEMMA Places ==
  ASSUME NEW n \in Nat, NEW key \in [1 .. n -> Int]
  PROVE  /\ Place(key) \in [1 .. n -> 1 .. n]
         /\ \A i, j \in 1 .. n :
              key[i] < key[j] => Place(key)[i] < Place(key)[j]
         /\ \A i, j \in 1 .. n : Place(key)[i] = Place(key)[j] => i = j
         /\ \A k \in 1 .. n : \E j \in 1 .. n : Place(key)[j] = k
<1> DEFINE Upto(i) ==
             {j \in 1 .. n :
                key[j] < key[i] \/ (key[j] = key[i] /\ j <= i)}
           place == Place(key)
<1>1. DOMAIN key = 1 .. n /\ \A i \in 1 .. n : key[i] \in Int
  OBVIOUS
<1>2. place = [i \in 1 .. n |-> Cardinality(Upto(i))]
  BY <1>1 DEF Place
<1>3. IsFiniteSet(1 .. n) /\ Cardinality(1 .. n) = n
  BY FS_Interval
<1>4. ASSUME NEW i \in 1 .. n
      PROVE  /\ i \in Upto(i) /\ IsFiniteSet(Upto(i))
             /\ Cardinality(Upto(i)) \in 1 .. n
  <2>1. i \in Upto(i) /\ Upto(i) \subseteq 1 .. n
    BY <1>1
  <2>2. IsFiniteSet(Upto(i)) /\ Cardinality(Upto(i)) <= n
    BY <1>3, <2>1, FS_Subset
  <2>3. Cardinality(Upto(i)) \in Nat /\ Cardinality(Upto(i)) # 0
    BY <2>1, <2>2, FS_CardinalityType, FS_EmptySet
  <2> QED BY <2>1, <2>2, <2>3
<1>5. ASSUME NEW i \in 1 .. n, NEW j \in 1 .. n,
             key[i] < key[j] \/ (key[i] = key[j] /\ i < j)
      PROVE  Cardinality(Upto(i)) < Cardinality(Upto(j))
  <2>1. key[i] \in Int /\ key[j] \in Int
    BY <1>1
  <2>2. ASSUME NEW k \in Upto(i) PROVE k \in Upto(j)
    <3>1. key[k] \in Int /\ k \in 1 .. n
      BY <1>1
    <3> QED BY <1>5, <2>1, <3>1
  <2>3. j \notin Upto(i)
    BY <1>5, <2>1
  <2>4. j \in Upto(j) /\ IsFiniteSet(Upto(j))
    BY <1>4
  <2> HIDE DEF Upto
  <2>5. Upto(i) \subseteq Upto(j) /\ Upto(i) # Upto(j)
    BY <2>2, <2>3, <2>4
  <2>6. /\ Cardinality(Upto(i)) <= Cardinality(Upto(j))
        /\ Cardinality(Upto(j)) # Cardinality(Upto(i))
    BY <2>4, <2>5, FS_Subset
  <2>7. Cardinality(Upto(i)) \in 1 .. n /\ Cardinality(Upto(j)) \in 1 .. n
    BY <1>4
  <2> QED BY <2>6, <2>7
<1> HIDE DEF Upto
<1>6. /\ place \in [1 .. n -> 1 .. n]
      /\ \A i \in 1 .. n : place[i] = Cardinality(Upto(i))
  BY <1>2, <1>4
<1> HIDE DEF place
<1>7. ASSUME NEW i \in 1 .. n, NEW j \in 1 .. n, place[i] = place[j]
      PROVE  i = j
  <2>1. ~(place[i] < place[j]) /\ ~(place[j] < place[i])
    BY <1>6, <1>7
  <2>2. /\ ~(key[i] < key[j] \/ (key[i] = key[j] /\ i < j))
        /\ ~(key[j] < key[i] \/ (key[j] = key[i] /\ j < i))
    BY <1>5, <1>6, <2>1
  <2> QED BY <1>1, <2>2
<1>8. place \in Injection(1 .. n, 1 .. n)
  BY <1>6, <1>7 DEF Injection, IsInjective
<1>9. place \in Surjection(1 .. n, 1 .. n)
  BY <1>3, <1>8, FS_Injection
<1>10. \A k \in 1 .. n : \E j \in 1 .. n : place[j] = k
  BY <1>9 DEF Surjection
<1>11. \A i, j \in 1 .. n : key[i] < key[j] => place[i] < place[j]
  BY <1>5, <1>6
<1> QED BY <1>6, <1>7, <1>10, <1>11 DEF place

(* A sorted sequence has the same elements, each where its key comes.      *)
LEMMA SortedProperties ==
  ASSUME NEW S, NEW s \in Seq(S), NEW key \in [1 .. Len(s) -> Int]
  PROVE  /\ Sorted(s, key) \in Seq(S) /\ Len(Sorted(s, key)) = Len(s)
         /\ \A j \in 1 .. Len(s) : Sorted(s, key)[Place(key)[j]] = s[j]
<1> DEFINE n == Len(s)
           place == Place(key)
           Of(i) == CHOOSE j \in 1 .. n : place[j] = i
<1>1. n \in Nat /\ DOMAIN s = 1 .. n /\ \A i \in 1 .. n : s[i] \in S
  BY LenProperties, ElementOfSeq
<1>2. /\ place \in [1 .. n -> 1 .. n]
      /\ \A i, j \in 1 .. n : place[i] = place[j] => i = j
      /\ \A k \in 1 .. n : \E j \in 1 .. n : place[j] = k
  BY <1>1, Places
<1>3. Sorted(s, key) = [i \in 1 .. n |-> s[Of(i)]]
  BY <1>1 DEF Sorted
<1> HIDE DEF place, n
<1>4. \A i \in 1 .. n : Of(i) \in 1 .. n /\ place[Of(i)] = i
  BY <1>2
<1>5. \A j \in 1 .. n : Of(place[j]) = j
  BY <1>2, <1>4
<1> HIDE DEF Of
<1>6. Sorted(s, key) \in [1 .. n -> S]
  BY <1>1, <1>3, <1>4
<1>7. Sorted(s, key) \in Seq(S) /\ Len(Sorted(s, key)) = n
  BY <1>1, <1>6, SeqDef, LenProperties
<1>8. \A j \in 1 .. n : Sorted(s, key)[place[j]] = s[j]
  BY <1>2, <1>3, <1>5
<1> QED BY <1>7, <1>8 DEF place, n

(* Rows with numbers of their own come out by number, all of them.         *)
LEMMA CsvProperties ==
  ASSUME NEW S, S \subseteq [id : Nat, arrival : Nat, start : Nat,
                             finish : Nat],
         NEW s \in Seq(S),
         \A i, j \in DOMAIN s : s[i].id = s[j].id => i = j
  PROVE  /\ Csv(s) \in Seq(S) /\ Len(Csv(s)) = Len(s)
         /\ Range(Csv(s)) = Range(s)
         /\ \A i, j \in DOMAIN Csv(s) : i < j => Csv(s)[i].id < Csv(s)[j].id
<1> DEFINE n == Len(s)
           key == [i \in 1 .. n |-> s[i].id]
           place == Place(key)
           csv == Csv(s)
<1>1. n \in Nat /\ DOMAIN s = 1 .. n /\ \A i \in 1 .. n : s[i] \in S
  BY LenProperties, ElementOfSeq
<1>2. key \in [1 .. n -> Int] /\ \A i \in 1 .. n : key[i] = s[i].id
  BY <1>1
<1>3. csv = Sorted(s, key)
  BY <1>1 DEF Csv
<1> HIDE DEF key, csv
<1>4. /\ csv \in Seq(S) /\ Len(csv) = n
      /\ \A j \in 1 .. n : csv[place[j]] = s[j]
  <2>1. /\ Sorted(s, key) \in Seq(S) /\ Len(Sorted(s, key)) = Len(s)
        /\ \A j \in 1 .. Len(s) : Sorted(s, key)[Place(key)[j]] = s[j]
    BY <1>2, SortedProperties
  <2> QED BY <1>3, <2>1
<1>5. /\ place \in [1 .. n -> 1 .. n]
      /\ \A i, j \in 1 .. n : key[i] < key[j] => place[i] < place[j]
      /\ \A k \in 1 .. n : \E j \in 1 .. n : place[j] = k
  BY <1>1, <1>2, Places
<1> HIDE DEF place, n
<1>6. DOMAIN csv = 1 .. n
  BY <1>4, LenProperties
<1>7. Range(csv) = Range(s)
  <2>1. ASSUME NEW k \in 1 .. n PROVE \E j \in 1 .. n : csv[k] = s[j]
    <3>1. PICK j \in 1 .. n : place[j] = k
      BY <1>5
    <3> QED BY <1>4, <3>1
  <2>2. ASSUME NEW j \in 1 .. n PROVE \E k \in 1 .. n : csv[k] = s[j]
    <3>1. place[j] \in 1 .. n
      BY <1>5
    <3> QED BY <1>4, <3>1
  <2>3. /\ Range(csv) = {csv[i] : i \in 1 .. n}
        /\ Range(s) = {s[i] : i \in 1 .. n}
    BY <1>1, <1>6 DEF Range
  <2>4. \A x \in Range(csv) : x \in Range(s)
    BY <2>1, <2>3
  <2>5. ASSUME NEW x \in Range(s) PROVE x \in Range(csv)
    <3>1. PICK j \in 1 .. n : x = s[j]
      BY <2>3
    <3>2. PICK k \in 1 .. n : csv[k] = s[j]
      BY <2>2
    <3> QED BY <2>3, <3>1, <3>2
  <2> QED BY <2>4, <2>5
<1>8. ASSUME NEW i \in 1 .. n, NEW j \in 1 .. n, i < j
      PROVE  csv[i].id < csv[j].id
  <2>1. PICK a \in 1 .. n : place[a] = i
    BY <1>5
  <2>2. PICK b \in 1 .. n : place[b] = j
    BY <1>5
  <2>3. key[a] \in Int /\ key[b] \in Int
    BY <1>2
  <2>4. ~(key[b] < key[a])
    BY <1>5, <1>8, <2>1, <2>2
  <2>5. key[a] # key[b]
    <3>1. a # b
      BY <1>8, <2>1, <2>2
    <3> QED BY <1>1, <1>2, <3>1
  <2>6. key[a] < key[b]
    BY <2>3, <2>4, <2>5
  <2>7. csv[i] = s[a] /\ csv[j] = s[b]
    BY <1>4, <2>1, <2>2
  <2> QED BY <1>2, <2>6, <2>7
<1> QED BY <1>4, <1>6, <1>7, <1>8 DEF csv, n

(* The rank of a percentile: the least that covers so many per cent.       *)
LEMMA Ranks ==
  ASSUME NEW n \in Nat \ {0}, NEW p \in {50, 99}
  PROVE  LET k == Min({RankIndex(n, p), n - 1}) + 1
         IN  k \in 1 .. n /\ 100 * k >= p * n /\ 100 * (k - 1) < p * n
<1> DEFINE q == CeilDiv(p * n, 100)
<1>1. CASE p = 50
  <2>1. q = (50 * n + 99) \div 100 /\ p * n = 50 * n
    BY <1>1 DEF CeilDiv
  <2> HIDE DEF q
  <2>2. q \in 1 .. n /\ 100 * q >= p * n /\ 100 * (q - 1) < p * n
    BY <2>1
  <2>3. {RankIndex(n, p), n - 1} = {q - 1, n - 1}
    BY DEF RankIndex, q
  <2>4. \A x \in {q - 1, n - 1} : q - 1 <= x /\ x \in Int
    BY <2>2
  <2>5. Min({q - 1, n - 1}) = q - 1
    BY <2>4 DEF Min
  <2> QED BY <2>2, <2>3, <2>5
<1>2. CASE p = 99
  <2>1. q = (99 * n + 99) \div 100 /\ p * n = 99 * n
    BY <1>2 DEF CeilDiv
  <2> HIDE DEF q
  <2>2. q \in 1 .. n /\ 100 * q >= p * n /\ 100 * (q - 1) < p * n
    BY <2>1
  <2>3. {RankIndex(n, p), n - 1} = {q - 1, n - 1}
    BY DEF RankIndex, q
  <2>4. \A x \in {q - 1, n - 1} : q - 1 <= x /\ x \in Int
    BY <2>2
  <2>5. Min({q - 1, n - 1}) = q - 1
    BY <2>4 DEF Min
  <2> QED BY <2>2, <2>3, <2>5
<1> QED BY <1>1, <1>2

(* How many values do not exceed x. *)
Atmost(key, x) == Cardinality({i \in DOMAIN key : key[i] <= x})

(* Of the values, k at least do not exceed the one in place k, and fewer   *)
(* than k do not exceed a smaller one.                                     *)
LEMMA RankCounts ==
  ASSUME NEW n \in Nat, NEW key \in [1 .. n -> Int],
         NEW k \in 1 .. n
  PROVE  \E m \in 1 .. n :
           /\ Place(key)[m] = k
           /\ Atmost(key, key[m]) >= k
           /\ \A x \in Int : x < key[m] => Atmost(key, x) <= k - 1
           /\ \A x \in Int : Atmost(key, x) \in Nat
<1> DEFINE place == Place(key)
           Upto(x) == {i \in DOMAIN key : key[i] <= x}
<1>1. /\ place \in [1 .. n -> 1 .. n]
      /\ \A i, j \in 1 .. n : key[i] < key[j] => place[i] < place[j]
      /\ \A i, j \in 1 .. n : place[i] = place[j] => i = j
      /\ \A r \in 1 .. n : \E j \in 1 .. n : place[j] = r
  BY Places
<1> HIDE DEF place
<1>2. PICK m \in 1 .. n : place[m] = k
  BY <1>1
<1>3. \A x : IsFiniteSet(Upto(x)) /\ Cardinality(Upto(x)) \in Nat
  <2>1. IsFiniteSet(1 .. n)
    BY FS_Interval
  <2> QED BY <2>1, FS_Subset, FS_CardinalityType
<1>4. Cardinality(Upto(key[m])) >= k
  <2> DEFINE low == {i \in 1 .. n : place[i] <= k}
             f == [i \in low |-> place[i]]
  <2>1. ASSUME NEW i \in low PROVE i \in Upto(key[m])
    <3>1. i \in 1 .. n /\ ~(place[m] < place[i])
      BY <1>1, <1>2
    <3>2. ~(key[m] < key[i])
      BY <1>1, <3>1
    <3>3. key[m] \in Int /\ key[i] \in Int
      BY <3>1
    <3> QED BY <3>1, <3>2, <3>3
  <2>2. f \in [low -> 1 .. k]
    BY <1>1
  <2>3. ASSUME NEW r \in 1 .. k PROVE \E i \in low : f[i] = r
    <3>1. r \in 1 .. n
      OBVIOUS
    <3>2. PICK i \in 1 .. n : place[i] = r
      BY <1>1, <3>1
    <3>3. i \in low
      BY <3>2
    <3> QED BY <3>2, <3>3
  <2>4. f \in Surjection(low, 1 .. k)
    BY <2>2, <2>3 DEF Surjection
  <2> HIDE DEF Upto, low, f
  <2>5. low \subseteq Upto(key[m])
    BY <2>1
  <2>6. IsFiniteSet(low) /\ Cardinality(low) <= Cardinality(Upto(key[m]))
    BY <1>3, <2>5, FS_Subset
  <2>7. Cardinality(1 .. k) <= Cardinality(low)
    BY <2>4, <2>6, FS_Surjection
  <2>8. Cardinality(1 .. k) = k
    BY FS_Interval
  <2>9. Cardinality(low) \in Nat /\ Cardinality(Upto(key[m])) \in Nat
    BY <1>3, <2>6, FS_CardinalityType
  <2> QED BY <2>6, <2>7, <2>8, <2>9
<1>5. ASSUME NEW x \in Int, x < key[m] PROVE Cardinality(Upto(x)) <= k - 1
  <2> DEFINE f == [i \in Upto(x) |-> place[i]]
  <2>1. ASSUME NEW i \in Upto(x) PROVE place[i] \in 1 .. (k - 1)
    <3>1. i \in 1 .. n /\ key[i] < key[m]
      BY <1>5
    <3>2. place[i] < k /\ place[i] \in 1 .. n
      BY <1>1, <1>2, <3>1
    <3> QED BY <3>2
  <2>2. f \in Injection(Upto(x), 1 .. (k - 1))
    BY <1>1, <2>1 DEF Injection, IsInjective
  <2>3. IsFiniteSet(1 .. (k - 1)) /\ Cardinality(1 .. (k - 1)) = k - 1
    BY FS_Interval
  <2> QED BY <2>2, <2>3, FS_Injection
<1> HIDE DEF Upto
<1>6. \A x : Atmost(key, x) = Cardinality(Upto(x))
  BY DEF Atmost, Upto
<1> QED BY <1>2, <1>3, <1>4, <1>5, <1>6 DEF place

(* nearest_rank is the percentile, of any values (metrics.cpp:84).         *)
THEOREM NearestRankExact ==
  ASSUME NEW values \in Seq(Int), values # << >>, NEW p \in {50, 99}
  PROVE  IsPercentile(NearestRank(values, p), values, p)
<1> DEFINE n == Len(values)
           k == Min({RankIndex(n, p), n - 1}) + 1
           v == NearestRank(values, p)
           q == p * n
<1>1. /\ n \in Nat \ {0} /\ n \in Nat /\ DOMAIN values = 1 .. n
      /\ values \in [1 .. n -> Int]
  BY LenProperties, EmptySeq
<1>2. k \in 1 .. n /\ 100 * k >= q /\ 100 * (k - 1) < q
  BY <1>1, Ranks, Zenon
<1>3. v = Sorted(values, values)[k]
  BY <1>1 DEF NearestRank
<1>4. q \in Int
  BY <1>1
<1> HIDE DEF k, v, q, n
<1>5. PICK m \in 1 .. n :
        /\ Place(values)[m] = k
        /\ Atmost(values, values[m]) >= k
        /\ \A x \in Int : x < values[m] => Atmost(values, x) <= k - 1
        /\ \A x \in Int : Atmost(values, x) \in Nat
  BY <1>1, <1>2, RankCounts
<1>6. v = values[m] /\ v \in Int
  <2>1. Sorted(values, values)[Place(values)[m]] = values[m]
    BY <1>1, SortedProperties DEF n
  <2> QED BY <1>1, <1>3, <1>5, <2>1
<1>7. v \in Range(values) /\ \A x \in Range(values) : x \in Int
  BY <1>1, <1>6 DEF Range
<1>8. 100 * Atmost(values, v) >= q
  <2>1. Atmost(values, v) \in Nat /\ Atmost(values, v) >= k
    BY <1>5, <1>6
  <2> QED BY <1>2, <1>4, <2>1
<1>9. ASSUME NEW x \in Int, x < v PROVE 100 * Atmost(values, x) < q
  <2>1. Atmost(values, x) \in Nat /\ Atmost(values, x) <= k - 1
    BY <1>5, <1>6, <1>9
  <2> QED BY <1>2, <1>4, <2>1
<1> QED BY <1>7, <1>8, <1>9 DEF IsPercentile, Atmost, v, q, n

-----------------------------------------------------------------------------
(***************************************************************************)
(* The server's books.  A request admitted and not yet served has a row    *)
(* with a number of its own; so have those that are served or recorded.    *)
(***************************************************************************)
Live == {t \in Everyone : conn[t].at \in {"admitted", "running"}}

(* The rows, and that their times are in order and behind the clock. *)
Timed(row) ==
  /\ row \in Row /\ row.id < ids
  /\ row.arrival < row.start /\ row.start < clock
Rows ==
  /\ \A t \in Live : conn[t].row \in Row /\ conn[t].row.id < ids
  /\ \A t \in Live : conn[t].row.arrival < clock
  /\ \A t \in Live : conn[t].at = "running" => Timed(conn[t].row)
  /\ IsFiniteSet(ending) /\ \A r \in ending : Timed(r)
  /\ records \in Seq(Row)
  /\ \A i \in DOMAIN records :
       Timed(records[i]) /\ records[i].start < records[i].finish

(* No number is given twice. *)
LiveApart ==
  \A t \in Live :
    /\ \A u \in Live : conn[t].row.id = conn[u].row.id => t = u
    /\ \A r \in ending : conn[t].row.id # r.id
    /\ \A i \in DOMAIN records : conn[t].row.id # records[i].id
BooksApart ==
  /\ \A r, s \in ending : r.id = s.id => r = s
  /\ \A r \in ending, i \in DOMAIN records : r.id # records[i].id
  /\ \A i, j \in DOMAIN records : records[i].id = records[j].id => i = j

(* As long as nothing has failed, each request sent is under way, served   *)
(* or recorded.                                                            *)
Busy == {t \in Everyone : conn[t].at \in Underway}
Known == Cardinality(Busy) + Cardinality(ending) + Len(records)
Accounted ==
  /\ IsFiniteSet(Busy)
  /\ lost \in Nat /\ failures \in Nat
  /\ Unstarted => failures = 0
  /\ Unstarted /\ pc[Main] # "gone" => lost = 0
  /\ Loading => lost = failures
  /\ lost = 0 /\ Unstarted => Known = next
  /\ lost = 0 /\ Loading => Known = Len(Files) + issued

(* Who has left waits for nothing, and after the client's exit no request  *)
(* is made.  The books are those of the end.                               *)
Quit ==
  /\ \A t \in Threads : pc[t] = "gone" => conn[t].at = "idle"
  /\ exit # None => pc[Main] = "gone" /\ (Unstarted \/ Loaded)
  /\ cmd.command = "load" /\ exit = 0 => Loading /\ failures = 0
Balanced ==
  books # None =>
    /\ exit # None /\ ending = {}
    /\ books.csv \in {Csv(records), None}
    /\ books.summary = Summary(records)

BooksInv ==
  Rows /\ LiveApart /\ BooksApart /\ Accounted /\ Quit /\ Balanced

(* The rows are kept when no request is admitted, served or recorded.      *)
LEMMA RowsKept ==
  ASSUME BooksInv, UNCHANGED <<ids, clock, ending, records>>,
         \A t \in Live' : t \in Live /\ conn'[t] = conn[t]
  PROVE  (Rows /\ LiveApart /\ BooksApart)'
<1>1. Rows /\ LiveApart /\ BooksApart
  BY DEF BooksInv
<1>2. Rows'
  BY <1>1 DEF Rows, Timed
<1>3. LiveApart'
  BY <1>1 DEF LiveApart
<1>4. BooksApart'
  BY <1>1 DEF BooksApart
<1> QED BY <1>2, <1>3, <1>4

(* Threads that have not started are not loading, and the other way round. *)
LEMMA EitherOr ==
  /\ ~(Unstarted /\ Loading)
  /\ ~(Unstarted /\ Loading)'
  /\ \A t \in Threads : Unstarted => pc[t] # "gone"
<1>1. PICK t \in Threads : TRUE
  BY LoadAssumption
<1> QED BY <1>1 DEF Unstarted, Loading

(* After the client's exit nothing is on its way. *)
LEMMA Resting ==
  ASSUME LoadInv, BooksInv, exit # None
  PROVE  \A t \in Everyone : conn[t].at = "idle"
<1>1. pc[Main] = "gone" /\ (Unstarted \/ Loaded)
  BY DEF BooksInv, Quit
<1>2. conn[Main].at = "idle"
  BY <1>1 DEF LoadInv, Seeding
<1>3. \A t \in Threads : conn[t].at = "idle"
  BY <1>1 DEF Unstarted, Loaded, BooksInv, Quit
<1> QED BY <1>2, <1>3 DEF Everyone

(* The client does something without sending or receiving. *)
LEMMA ClientMoves ==
  ASSUME LoadInv, BooksInv,
         UNCHANGED <<cmd, conn, failures, lost, server, issued>>,
         Unstarted' => Unstarted /\ UNCHANGED next,
         Unstarted' /\ pc'[Main] # "gone" => pc[Main] # "gone",
         Loading' => Loading \/ (Unstarted /\ next = Len(Files) /\ issued = 0
                                 /\ pc[Main] # "gone")
  PROVE  (Rows /\ LiveApart /\ BooksApart /\ Accounted)'
<1>1. /\ UNCHANGED <<ids, clock, ending, records>>
      /\ Live' = Live /\ Busy' = Busy /\ Known' = Known
  BY DEF server, Live, Busy, Known
<1>2. (Rows /\ LiveApart /\ BooksApart)'
  BY <1>1, RowsKept
<1>3. Accounted
  BY DEF BooksInv
<1>4. /\ IsFiniteSet(Busy') /\ lost' \in Nat /\ failures' \in Nat
      /\ (Unstarted => failures = 0)'
      /\ (Unstarted /\ pc[Main] # "gone" => lost = 0)'
      /\ (lost = 0 /\ Unstarted => Known = next)'
  BY <1>1, <1>3 DEF Accounted
<1>5. ASSUME Loading'
      PROVE  lost' = failures' /\ (lost' = 0 => Known' = Len(Files) + issued')
  <2>1. CASE Loading
    BY <1>1, <1>3, <2>1 DEF Accounted
  <2>2. CASE ~Loading
    <3>1. Unstarted /\ next = Len(Files) /\ issued = 0 /\ pc[Main] # "gone"
      BY <1>5, <2>2
    <3>2. lost = 0 /\ failures = 0 /\ Known = next
      BY <1>3, <3>1 DEF Accounted
    <3> QED BY <1>1, <3>1, <3>2, FilesInOrder
  <2> QED BY <2>1, <2>2
<1>6. Accounted'
  BY <1>4, <1>5 DEF Accounted
<1> QED BY <1>2, <1>6

(* The client sends a request. *)
LEMMA Sends ==
  ASSUME LoadInv, BooksInv, NEW t \in Everyone, NEW x \in Connection,
         UNCHANGED <<cmd, pc, exit, failures, lost, server, books>>,
         conn[t].at = "idle", x.at = "sent",
         conn' = [conn EXCEPT ![t] = x],
         next' = next + 1, pc[t] # "gone",
         t = Main => UNCHANGED issued /\ Unstarted,
         t # Main => issued' = issued + 1 /\ Loading,
         exit = None
  PROVE  BooksInv'
<1>1. /\ conn' \in [Everyone -> Connection] /\ conn'[t] = x
      /\ \A u \in Everyone : u # t => conn'[u] = conn[u]
      /\ next \in Nat /\ issued \in Nat
  BY OneChanges DEF LoadInv, Types
<1>2. UNCHANGED <<store, clock, ids, ending, records, missing>>
  BY DEF server
<1>3. \A u \in Live' : u \in Live /\ conn'[u] = conn[u]
  BY <1>1 DEF Live
<1>4. (Rows /\ LiveApart /\ BooksApart)'
  BY <1>2, <1>3, RowsKept
<1>5. Busy' = Busy \cup {t} /\ t \notin Busy
  BY <1>1 DEF Busy, Underway
<1>6. Accounted
  BY DEF BooksInv
<1>7. IsFiniteSet(Busy') /\ Cardinality(Busy') = Cardinality(Busy) + 1
  BY <1>5, <1>6, FS_AddElement DEF Accounted
<1>8. /\ Cardinality(Busy) \in Nat /\ Cardinality(ending) \in Nat
      /\ Len(records) \in Nat
  BY <1>6, FS_CardinalityType, LenProperties DEF Accounted, BooksInv, Rows
<1>9. Known' = Known + 1 /\ Known \in Nat
  BY <1>2, <1>7, <1>8 DEF Known
<1>10. Accounted'
  <2>1. CASE t = Main
    <3>1. Unstarted /\ ~Loading' /\ UNCHANGED issued
      BY <2>1, EitherOr DEF Loading, Unstarted
    <3> QED BY <1>6, <1>7, <1>9, <3>1 DEF Accounted
  <2>2. CASE t # Main
    <3>1. Loading /\ ~Unstarted' /\ issued' = issued + 1
      BY <2>2 DEF Loading, Unstarted, Everyone
    <3>2. lost = failures /\ (lost = 0 => Known = Len(Files) + issued)
      BY <1>6, <3>1 DEF Accounted
    <3>3. lost = 0 => Known' = Len(Files) + issued'
      BY <1>1, <1>9, <3>1, <3>2, FilesInOrder
    <3> QED BY <1>6, <1>7, <3>1, <3>2, <3>3 DEF Accounted
  <2> QED BY <2>1, <2>2
<1>11. Quit'
  <2>1. \A u \in Threads : pc'[u] = "gone" => conn'[u].at = "idle"
    BY <1>1 DEF BooksInv, Quit, Everyone
  <2>2. cmd'.command = "load" /\ exit' = 0 => FALSE
    BY LoadAssumption
  <2> QED BY <2>1, <2>2 DEF Quit
<1>12. Balanced'
  BY DEF BooksInv, Balanced
<1> QED BY <1>4, <1>10, <1>11, <1>12 DEF BooksInv

(* A reply ends a request. *)
LEMMA ReplyBooked ==
  ASSUME LoadInv, BooksInv, NEW t \in Everyone, NEW ok \in BOOLEAN,
         Reply(t, ok)
  PROVE  BooksInv'
<1>1. /\ UNCHANGED <<cmd, next, issued, store, clock, ids, ending, records>>
      /\ UNCHANGED books
      /\ conn' = [conn EXCEPT ![t] = Idle]
      /\ conn[t].at \in {"served", "refused"}
      /\ ok => conn[t].at = "served"
      /\ IF t = Main /\ ~ok
           THEN exit' = 1 /\ pc' = [pc EXCEPT ![Main] = "gone"]
           ELSE UNCHANGED <<pc, exit>>
      /\ failures' = IF t # Main /\ ~ok THEN failures + 1 ELSE failures
      /\ lost' = IF ok THEN lost ELSE lost + 1
  BY DEF Reply, server, SeedFailed, Leave
<1>2. Idle \in Connection /\ Idle.at = "idle"
  BY DEF Idle, Connection
<1>3. /\ conn' \in [Everyone -> Connection] /\ conn'[t] = Idle
      /\ \A u \in Everyone : u # t => conn'[u] = conn[u]
  BY <1>1, <1>2, OneChanges DEF LoadInv
<1>4. exit = None
  BY <1>1, Resting
<1>5. (Rows /\ LiveApart /\ BooksApart)'
  <2>1. \A u \in Live' : u \in Live /\ conn'[u] = conn[u]
    BY <1>2, <1>3 DEF Live
  <2> QED BY <1>1, <2>1, RowsKept
<1>6. Accounted
  BY DEF BooksInv
<1>7. Busy' = Busy \ {t}
  BY <1>2, <1>3 DEF Busy, Underway
<1>8. IsFiniteSet(Busy') /\ lost' \in Nat /\ failures' \in Nat
  BY <1>1, <1>6, <1>7, FS_RemoveElement DEF Accounted
<1>9. /\ pc \in [Everyone -> {"ready", "seed", "join", "loop", "gone"}]
      /\ Main \in Everyone /\ Main \notin Threads /\ Threads \subseteq Everyone
  BY LoadAssumption DEF LoadInv, Types, Everyone
<1>10. t = Main <=> Unstarted
  <2>1. CASE t = Main
    <3>1. pc[Main] = "seed"
      BY <1>1, <2>1 DEF LoadInv, Seeding
    <3> QED BY <2>1, <3>1 DEF LoadInv, Loading
  <2>2. CASE t # Main
    BY <1>1, <2>2 DEF Unstarted, Everyone
  <2> QED BY <2>1, <2>2
<1>11. /\ Unstarted' => Unstarted
       /\ Loading' => Loading
       /\ Loading => UNCHANGED pc
       /\ ~ok /\ Unstarted => pc'[Main] = "gone"
       /\ \A u \in Threads : pc'[u] = pc[u]
  <2>1. \A u \in Threads : pc'[u] = pc[u]
    BY <1>1, <1>9
  <2>2. Loading => t # Main
    BY <1>10, EitherOr
  <2>3. ~ok /\ Unstarted => pc'[Main] = "gone"
    BY <1>1, <1>9, <1>10
  <2>4. PICK u \in Threads : TRUE
    BY LoadAssumption
  <2>5. Loading \/ Unstarted
    BY DEF LoadInv
  <2>6. Unstarted' => Unstarted
    BY <2>1, <2>4, <2>5 DEF Loading, Unstarted
  <2>7. Loading' => Loading
    BY <2>1, <2>4, <2>5 DEF Loading, Unstarted
  <2> QED BY <1>1, <2>1, <2>2, <2>3, <2>6, <2>7
<1>12. Accounted'
  <2>1. CASE ok
    <3>1. UNCHANGED <<pc, failures, lost>> /\ Busy' = Busy /\ Known' = Known
      <4>1. t \notin Busy
        BY <1>1, <2>1 DEF Busy, Underway
      <4> QED BY <1>1, <1>7, <2>1, <4>1 DEF Known
    <3> QED BY <1>1, <1>6, <1>8, <1>11, <3>1 DEF Accounted
  <2>2. CASE ~ok
    <3>1. lost' # 0 /\ lost' = lost + 1
      BY <1>1, <1>6, <2>2 DEF Accounted
    <3>2. CASE Unstarted
      <4>1. failures' = failures /\ ~Loading' /\ pc'[Main] = "gone"
        BY <1>1, <1>10, <1>11, <2>2, <3>2, EitherOr
      <4> QED BY <1>6, <1>8, <3>1, <3>2, <4>1 DEF Accounted
    <3>3. CASE ~Unstarted
      <4>1. failures' = failures + 1 /\ ~Unstarted'
        BY <1>1, <1>10, <1>11, <2>2, <3>3
      <4> QED BY <1>6, <1>8, <1>11, <3>1, <4>1 DEF Accounted
    <3> QED BY <3>2, <3>3
  <2> QED BY <2>1, <2>2
<1>13. Quit'
  <2>1. \A u \in Threads : pc'[u] = "gone" => conn'[u].at = "idle"
    BY <1>2, <1>3, <1>9, <1>11 DEF BooksInv, Quit
  <2>2. CASE t = Main /\ ~ok
    <3>1. exit' = 1 /\ pc'[Main] = "gone"
      BY <1>1, <1>9, <2>2
    <3>2. Unstarted'
      <4>1. \A u \in Threads : pc'[u] = "ready" /\ conn'[u].at = "idle"
        BY <1>3, <1>9, <1>10, <1>11, <2>2 DEF Unstarted
      <4> QED BY <1>1, <1>10, <2>2, <3>1, <4>1 DEF Unstarted
    <3> QED BY <2>1, <3>1, <3>2 DEF Quit
  <2>3. CASE ~(t = Main /\ ~ok)
    <3>1. exit' = None
      BY <1>1, <1>4, <2>3
    <3> QED BY <2>1, <3>1, LoadAssumption DEF Quit
  <2> QED BY <2>2, <2>3
<1>14. Balanced'
  <2>1. books = None
    BY <1>4 DEF BooksInv, Balanced
  <2> QED BY <1>1, <2>1 DEF Balanced
<1> QED BY <1>5, <1>12, <1>13, <1>14 DEF BooksInv

(* The server takes a request a step further: what the steps share.        *)
LEMMA ServerMoves ==
  ASSUME LoadInv, BooksInv, NEW t \in Everyone, NEW x \in Connection,
         UNCHANGED <<cmd, client, books>>,
         conn' = [conn EXCEPT ![t] = x],
         conn[t].at \in {"sent", "admitted", "running"},
         x.at \in {"admitted", "running", "served", "refused"},
         x.at = "admitted" => x.row \in Row,
         IsFiniteSet(Busy'), Known' = Known,
         (Rows /\ LiveApart /\ BooksApart)'
  PROVE  BooksInv'
<1>1. /\ conn' \in [Everyone -> Connection] /\ conn'[t] = x
      /\ \A u \in Everyone : u # t => conn'[u] = conn[u]
  BY OneChanges DEF LoadInv
<1>2. UNCHANGED <<pc, exit, next, failures, issued, lost>>
  BY DEF client
<1>3. exit = None
  BY Resting
<1>4. /\ Unstarted' => Unstarted
      /\ Loading' => Loading
  <2>1. PICK u \in Threads : TRUE
    BY LoadAssumption
  <2> QED BY <1>2, <2>1 DEF LoadInv, Unstarted, Loading
<1>5. Accounted'
  BY <1>2, <1>4 DEF BooksInv, Accounted
<1>6. Quit'
  <2>1. \A u \in Threads : pc'[u] = "gone" => conn'[u].at = "idle"
    BY <1>1, <1>2 DEF BooksInv, Quit, Everyone
  <2> QED BY <1>2, <1>3, <2>1, LoadAssumption DEF Quit
<1>7. Balanced'
  BY <1>2, <1>3 DEF BooksInv, Balanced
<1> QED BY <1>5, <1>6, <1>7 DEF BooksInv

(* Admitted: the next number, and the time now. *)
LEMMA AdmitBooked ==
  ASSUME LoadInv, BooksInv, NEW t \in Everyone, Admit(t)
  PROVE  BooksInv'
<1> DEFINE row == [id |-> ids, arrival |-> clock, start |-> 0, finish |-> 0]
           x == [conn[t] EXCEPT !.at = "admitted", !.row = row]
<1>1. /\ conn[t] \in Connection /\ ids \in Nat /\ clock \in Nat
      /\ conn \in [Everyone -> Connection]
  BY DEF LoadInv, Types
<1>2. /\ UNCHANGED <<cmd, client, store, ending, records, books>>
      /\ conn[t].at = "sent" /\ conn' = [conn EXCEPT ![t] = x]
      /\ ids' = ids + 1 /\ clock' = clock + 1
  <2>1. /\ conn[t].at = "sent"
        /\ ~(conn[t].op = "GET" /\ conn[t].name \notin store)
    BY DEF Admit, LoadInv, Asked
  <2> QED BY <1>1, <2>1 DEF Admit
<1>3. row \in Row /\ row.id = ids /\ row.arrival = clock
  BY <1>1 DEF Row
<1> HIDE DEF row
<1>4. x \in Connection /\ x.at = "admitted" /\ x.row = row
  BY <1>1, <1>3 DEF Connection
<1> HIDE DEF x
<1>5. /\ conn'[t] = x
      /\ \A u \in Everyone : u # t => conn'[u] = conn[u]
  BY <1>1, <1>2
<1>6. /\ Live' = Live \cup {t} /\ t \notin Live
      /\ \A u \in Live : conn'[u] = conn[u]
  BY <1>2, <1>4, <1>5 DEF Live
<1>7. Busy' = Busy /\ Known' = Known
  <2>1. Busy' = Busy
    BY <1>2, <1>4, <1>5 DEF Busy, Underway
  <2> QED BY <1>2, <2>1 DEF Known
<1>8. Rows /\ LiveApart /\ BooksApart /\ IsFiniteSet(Busy)
  BY DEF BooksInv, Accounted
<1>9. \A r : Timed(r) => Timed(r)' /\ r.id # ids
  BY <1>1, <1>2 DEF Timed, Row
<1>10. Rows'
  <2>1. /\ \A u \in Live' : conn'[u].row \in Row /\ conn'[u].row.id < ids'
        /\ \A u \in Live' : conn'[u].row.arrival < clock'
    <3>1. ASSUME NEW u \in Live
          PROVE  /\ conn'[u].row \in Row /\ conn'[u].row.id < ids'
                 /\ conn'[u].row.arrival < clock'
      BY <1>1, <1>2, <1>6, <1>8 DEF Rows, Row
    <3>2. /\ conn'[t].row \in Row /\ conn'[t].row.id < ids'
          /\ conn'[t].row.arrival < clock'
      BY <1>1, <1>2, <1>3, <1>4, <1>5
    <3> QED BY <1>6, <3>1, <3>2
  <2>2. \A u \in Live' : conn'[u].at = "running" => Timed(conn[u].row)'
    <3>1. \A u \in Live : conn[u].at = "running" => Timed(conn[u].row)
      BY <1>8 DEF Rows
    <3>2. \A u \in Live : conn'[u].at = "running" => Timed(conn[u].row)'
      BY <1>2, <1>6, <1>9, <3>1 DEF Timed
    <3> QED BY <1>4, <1>5, <1>6, <3>2
  <2>3. IsFiniteSet(ending') /\ \A r \in ending' : Timed(r)'
    BY <1>2, <1>8, <1>9 DEF Rows
  <2>4. /\ records' \in Seq(Row)
        /\ \A i \in DOMAIN records' :
             Timed(records[i])' /\ records'[i].start < records'[i].finish
    BY <1>2, <1>8, <1>9 DEF Rows, Timed
  <2> QED BY <2>1, <2>2, <2>3, <2>4 DEF Rows
<1>11. LiveApart'
  <2>1. /\ \A u \in Live : conn[u].row.id # ids
        /\ \A r \in ending : r.id # ids
        /\ \A i \in DOMAIN records : records[i].id # ids
    <3>1. \A u \in Live : conn[u].row \in Row /\ conn[u].row.id < ids
      BY <1>8 DEF Rows
    <3>2. \A u \in Live : conn[u].row.id # ids
      BY <1>1, <3>1 DEF Row
    <3> QED BY <1>8, <1>9, <3>2 DEF Rows
  <2>2. conn'[t].row.id = ids
    BY <1>3, <1>4, <1>5
  <2>3. \A u \in Live : conn'[u].row.id = conn[u].row.id
    BY <1>6
  <2> QED BY <1>2, <1>6, <1>8, <2>1, <2>2, <2>3 DEF LiveApart
<1>12. BooksApart'
  BY <1>2, <1>8 DEF BooksApart
<1> QED BY <1>2, <1>3, <1>4, <1>7, <1>8, <1>10, <1>11, <1>12, ServerMoves

(* Started: the row gets its second time. *)
LEMMA StartBooked ==
  ASSUME LoadInv, BooksInv, NEW t \in Everyone, Start(t)
  PROVE  BooksInv'
<1> DEFINE row == [conn[t].row EXCEPT !.start = clock]
           x == [conn[t] EXCEPT !.at = "running", !.row = row]
<1>1. /\ conn[t] \in Connection /\ ids \in Nat /\ clock \in Nat
      /\ conn \in [Everyone -> Connection]
  BY DEF LoadInv, Types
<1>2. /\ UNCHANGED <<cmd, client, store, ids, ending, records, books>>
      /\ conn[t].at = "admitted" /\ conn' = [conn EXCEPT ![t] = x]
      /\ clock' = clock + 1
  BY <1>1 DEF Start
<1>3. Rows /\ LiveApart /\ BooksApart /\ IsFiniteSet(Busy) /\ t \in Live
  BY <1>2 DEF BooksInv, Accounted, Live
<1>4. /\ conn[t].row \in Row /\ conn[t].row.id < ids
      /\ conn[t].row.arrival < clock
  BY <1>3 DEF Rows
<1>5. /\ row \in Row /\ row.id = conn[t].row.id /\ row.start = clock
      /\ row.arrival = conn[t].row.arrival
  BY <1>1, <1>4 DEF Row
<1> HIDE DEF row
<1>6. x \in Connection /\ x.at = "running" /\ x.row = row
  BY <1>1, <1>5 DEF Connection
<1> HIDE DEF x
<1>7. /\ conn'[t] = x
      /\ \A u \in Everyone : u # t => conn'[u] = conn[u]
  BY <1>1, <1>2
<1>8. /\ Live' = Live
      /\ \A u \in Live : u # t => conn'[u] = conn[u]
  BY <1>2, <1>6, <1>7 DEF Live
<1>9. Busy' = Busy /\ Known' = Known
  <2>1. Busy' = Busy
    BY <1>2, <1>6, <1>7 DEF Busy, Underway
  <2> QED BY <1>2, <2>1 DEF Known
<1>10. \A r : Timed(r) => Timed(r)'
  BY <1>1, <1>2 DEF Timed, Row
<1>11. \A u \in Live : conn'[u].row.id = conn[u].row.id
  BY <1>5, <1>6, <1>7, <1>8
<1>12. Rows'
  <2>1. Timed(conn[t].row)'
    <3>1. row.arrival < row.start /\ row.start < clock'
      BY <1>1, <1>2, <1>4, <1>5
    <3> QED BY <1>2, <1>4, <1>5, <1>6, <1>7, <3>1 DEF Timed
  <2>2. ASSUME NEW u \in Live
        PROVE  /\ conn'[u].row \in Row /\ conn'[u].row.id < ids'
               /\ conn'[u].row.arrival < clock'
               /\ conn'[u].at = "running" => Timed(conn[u].row)'
    <3>1. CASE u = t
      <4>1. conn[t].row.arrival < clock'
        BY <1>1, <1>2, <1>4 DEF Row
      <4> QED BY <1>2, <1>4, <1>5, <1>6, <1>7, <2>1, <3>1, <4>1
    <3>2. CASE u # t
      <4>1. /\ conn[u].row \in Row /\ conn[u].row.id < ids
            /\ conn[u].row.arrival < clock
            /\ conn[u].at = "running" => Timed(conn[u].row)
        BY <1>3 DEF Rows
      <4>2. conn[u].row.arrival < clock'
        BY <1>1, <1>2, <4>1 DEF Row
      <4> QED BY <1>2, <1>8, <1>10, <3>2, <4>1, <4>2 DEF Timed
    <3> QED BY <3>1, <3>2
  <2>3. IsFiniteSet(ending') /\ \A r \in ending' : Timed(r)'
    BY <1>2, <1>3, <1>10 DEF Rows
  <2>4. /\ records' \in Seq(Row)
        /\ \A i \in DOMAIN records' :
             Timed(records[i])' /\ records'[i].start < records'[i].finish
    BY <1>2, <1>3, <1>10 DEF Rows, Timed
  <2> QED BY <1>8, <2>2, <2>3, <2>4 DEF Rows
<1>13. LiveApart'
  BY <1>2, <1>3, <1>8, <1>11 DEF LiveApart
<1>14. BooksApart'
  BY <1>2, <1>3 DEF BooksApart
<1> QED BY <1>2, <1>3, <1>6, <1>9, <1>12, <1>13, <1>14, ServerMoves

(* Served: the row waits to be recorded. *)
LEMMA ServeBooked ==
  ASSUME LoadInv, BooksInv, NEW t \in Everyone, Serve(t)
  PROVE  BooksInv'
<1> DEFINE x == [conn[t] EXCEPT !.at = "served"]
           row == conn[t].row
<1>1. /\ conn[t] \in Connection /\ conn \in [Everyone -> Connection]
  BY DEF LoadInv, Types
<1>2. /\ UNCHANGED <<cmd, client, clock, ids, records, books>>
      /\ conn[t].at = "running" /\ conn' = [conn EXCEPT ![t] = x]
      /\ ending' = ending \cup {row}
  BY <1>1 DEF Serve
<1>3. /\ Rows /\ LiveApart /\ BooksApart /\ IsFiniteSet(Busy)
      /\ t \in Live /\ t \in Busy
  BY <1>2 DEF BooksInv, Accounted, Live, Busy, Underway
<1>4. Timed(row) /\ row \notin ending /\ \A r \in ending : r.id # row.id
  BY <1>2, <1>3 DEF Rows, LiveApart
<1>5. x \in Connection /\ x.at = "served"
  BY <1>1 DEF Connection
<1> HIDE DEF x
<1>6. /\ conn'[t] = x
      /\ \A u \in Everyone : u # t => conn'[u] = conn[u]
  BY <1>1, <1>2
<1>7. /\ Live' = Live \ {t}
      /\ \A u \in Live' : conn'[u] = conn[u]
  BY <1>5, <1>6 DEF Live
<1>8. Busy' = Busy \ {t}
  BY <1>5, <1>6 DEF Busy, Underway
<1>9. /\ IsFiniteSet(Busy') /\ Cardinality(Busy') = Cardinality(Busy) - 1
      /\ Cardinality(Busy) \in Nat
  BY <1>3, <1>8, FS_RemoveElement, FS_CardinalityType
<1>10. /\ IsFiniteSet(ending') /\ Cardinality(ending) \in Nat
       /\ Cardinality(ending') = Cardinality(ending) + 1
  BY <1>2, <1>3, <1>4, FS_AddElement, FS_CardinalityType DEF Rows
<1>11. Known' = Known
  <2>1. Len(records) \in Nat
    BY <1>3, LenProperties DEF Rows
  <2> QED BY <1>2, <1>9, <1>10, <2>1 DEF Known
<1>12. Rows'
  <2>1. \A r : Timed(r) => Timed(r)'
    BY <1>2 DEF Timed
  <2>2. \A r \in ending' : Timed(r)'
    <3>1. \A r \in ending' : Timed(r)
      BY <1>2, <1>3, <1>4 DEF Rows
    <3> QED BY <2>1, <3>1
  <2>3. ASSUME NEW u \in Live'
        PROVE  /\ conn'[u].row \in Row /\ conn'[u].row.id < ids'
               /\ conn'[u].row.arrival < clock'
               /\ conn'[u].at = "running" => Timed(conn[u].row)'
    <3>1. /\ conn[u].row \in Row /\ conn[u].row.id < ids
          /\ conn[u].row.arrival < clock
          /\ conn[u].at = "running" => Timed(conn[u].row)
      BY <1>3, <1>7 DEF Rows
    <3> QED BY <1>2, <1>7, <3>1 DEF Timed
  <2>4. /\ records' \in Seq(Row)
        /\ \A i \in DOMAIN records' :
             Timed(records[i])' /\ records'[i].start < records'[i].finish
    BY <1>2, <1>3 DEF Rows, Timed
  <2> QED BY <1>10, <2>2, <2>3, <2>4 DEF Rows
<1>13. LiveApart'
  <2>1. ASSUME NEW u \in Live' PROVE conn[u].row.id # row.id
    BY <1>3, <1>7 DEF LiveApart
  <2> QED BY <1>2, <1>3, <1>7, <2>1 DEF LiveApart
<1>14. BooksApart'
  <2>1. \A i \in DOMAIN records : row.id # records[i].id
    BY <1>3 DEF LiveApart
  <2> QED BY <1>2, <1>3, <1>4, <2>1 DEF BooksApart
<1> QED BY <1>2, <1>5, <1>9, <1>11, <1>12, <1>13, <1>14, ServerMoves

(* Failed: the request is answered and leaves no row. *)
LEMMA ServeFailsBooked ==
  ASSUME LoadInv, BooksInv, NEW t \in Everyone, ServeFails(t)
  PROVE  BooksInv'
<1> DEFINE x == [conn[t] EXCEPT !.at = "refused"]
<1>1. /\ conn[t] \in Connection /\ conn \in [Everyone -> Connection]
  BY DEF LoadInv, Types
<1>2. /\ UNCHANGED <<cmd, client, clock, ids, ending, records, books>>
      /\ conn[t].at \in {"sent", "running"}
      /\ conn' = [conn EXCEPT ![t] = x]
  BY <1>1 DEF ServeFails, server
<1>3. x \in Connection /\ x.at = "refused"
  BY <1>1 DEF Connection
<1> HIDE DEF x
<1>4. /\ conn'[t] = x
      /\ \A u \in Everyone : u # t => conn'[u] = conn[u]
  BY <1>1, <1>2
<1>5. \A u \in Live' : u \in Live /\ conn'[u] = conn[u]
  BY <1>3, <1>4 DEF Live
<1>6. Busy' = Busy
  BY <1>2, <1>3, <1>4 DEF Busy, Underway
<1>7. IsFiniteSet(Busy') /\ Known' = Known
  BY <1>2, <1>6 DEF Known, BooksInv, Accounted
<1>8. (Rows /\ LiveApart /\ BooksApart)'
  BY <1>2, <1>5, RowsKept
<1> QED BY <1>2, <1>3, <1>7, <1>8, ServerMoves

(* Recorded: the row gets its last time and moves into the records.        *)
LEMMA RecordBooked ==
  ASSUME LoadInv, BooksInv, Record
  PROVE  BooksInv'
<1>1. /\ UNCHANGED <<cmd, pc, exit, next, failures, issued, lost, conn>>
      /\ UNCHANGED <<store, ids, books>> /\ clock' = clock + 1
  BY DEF Record, client
<1>2. PICK r \in ending :
        /\ records' = Append(records, [r EXCEPT !.finish = clock])
        /\ ending' = ending \ {r}
  BY DEF Record, Recorded
<1> DEFINE row == [r EXCEPT !.finish = clock]
           n == Len(records)
<1>3. /\ Rows /\ LiveApart /\ BooksApart /\ Accounted
      /\ clock \in Nat /\ records \in Seq(Row) /\ Timed(r)
  BY DEF BooksInv, LoadInv, Types, Rows
<1>4. /\ row \in Row /\ row.id = r.id /\ row.arrival = r.arrival
      /\ row.start = r.start /\ row.finish = clock
  BY <1>3 DEF Timed, Row
<1>5. records' = Append(records, row)
  BY <1>2
<1> HIDE DEF row
<1>6. /\ n \in Nat /\ DOMAIN records = 1 .. n
      /\ records' \in Seq(Row) /\ Len(records') = n + 1
      /\ DOMAIN records' = 1 .. (n + 1) /\ records'[n + 1] = row
      /\ \A i \in 1 .. n : records'[i] = records[i]
  BY <1>3, <1>4, <1>5, LenProperties, AppendProperties
<1> HIDE DEF n
<1>7. Live' = Live /\ Busy' = Busy /\ (Unstarted <=> Unstarted')
      /\ (Loading <=> Loading') /\ (Loaded <=> Loaded')
  BY <1>1 DEF Live, Busy, Unstarted, Loading, ToLoad, Loaded
<1>8. Known' = Known
  <2>1. /\ Cardinality(ending') = Cardinality(ending) - 1
        /\ Cardinality(ending) \in Nat
    BY <1>2, <1>3, FS_RemoveElement, FS_CardinalityType DEF Rows
  <2>2. Cardinality(Busy) \in Nat
    BY <1>3, FS_CardinalityType DEF Accounted
  <2> QED BY <1>6, <1>7, <2>1, <2>2 DEF Known, n
<1>9. Accounted'
  BY <1>1, <1>3, <1>7, <1>8 DEF Accounted
<1>10. \A q : Timed(q) => Timed(q)'
  BY <1>1, <1>3 DEF Timed, Row
<1>11. Rows'
  <2>1. ASSUME NEW u \in Live'
        PROVE  /\ conn'[u].row \in Row /\ conn'[u].row.id < ids'
               /\ conn'[u].row.arrival < clock'
               /\ conn'[u].at = "running" => Timed(conn[u].row)'
    <3>1. /\ conn[u].row \in Row /\ conn[u].row.id < ids
          /\ conn[u].row.arrival < clock
          /\ conn[u].at = "running" => Timed(conn[u].row)
      BY <1>3, <1>7 DEF Rows
    <3>2. conn[u].row.arrival < clock'
      BY <1>1, <1>3, <3>1 DEF Row
    <3> QED BY <1>1, <1>10, <3>1, <3>2 DEF Timed
  <2>2. IsFiniteSet(ending') /\ \A q \in ending' : Timed(q)'
    <3>1. IsFiniteSet(ending') /\ \A q \in ending' : Timed(q)
      BY <1>2, <1>3, FS_RemoveElement DEF Rows
    <3> QED BY <1>10, <3>1
  <2>3. ASSUME NEW i \in 1 .. (n + 1)
        PROVE  Timed(records[i])' /\ records'[i].start < records'[i].finish
    <3>1. CASE i \in 1 .. n
      <4>1. Timed(records[i]) /\ records[i].start < records[i].finish
        BY <1>3, <1>6, <3>1 DEF Rows
      <4>2. records'[i] = records[i]
        BY <1>6, <3>1
      <4> QED BY <1>10, <4>1, <4>2 DEF Timed
    <3>2. CASE i = n + 1
      <4>1. records'[i] = row
        BY <1>6, <3>2
      <4>2. row.start < clock' /\ row.start < row.finish /\ row.id < ids
            /\ row.arrival < row.start
        BY <1>1, <1>3, <1>4 DEF Timed, Row
      <4> QED BY <1>1, <1>4, <4>1, <4>2 DEF Timed
    <3> QED BY <1>6, <3>1, <3>2
  <2> QED BY <1>6, <2>1, <2>2, <2>3 DEF Rows
<1>12. \A i \in 1 .. (n + 1) : i \in 1 .. n \/ i = n + 1
  BY <1>6
<1>13. LiveApart'
  <2>1. ASSUME NEW u \in Live, NEW i \in 1 .. (n + 1)
        PROVE  conn[u].row.id # records'[i].id
    BY <1>3, <1>4, <1>6, <1>12 DEF LiveApart
  <2> QED BY <1>1, <1>2, <1>3, <1>6, <1>7, <2>1 DEF LiveApart
<1>14. BooksApart'
  <2>1. \A p, q \in ending' : p.id = q.id => p = q
    BY <1>2, <1>3 DEF BooksApart
  <2>2. ASSUME NEW q \in ending', NEW i \in 1 .. (n + 1)
        PROVE  q.id # records'[i].id
    <3>1. q \in ending /\ q # r
      BY <1>2
    <3>2. q.id # r.id
      BY <1>3, <3>1 DEF BooksApart
    <3> QED BY <1>3, <1>4, <1>6, <1>12, <3>1, <3>2 DEF BooksApart
  <2>3. ASSUME NEW i \in 1 .. (n + 1), NEW j \in 1 .. (n + 1),
               records'[i].id = records'[j].id
        PROVE  i = j
    BY <1>3, <1>4, <1>6, <1>12, <2>3 DEF BooksApart
  <2> QED BY <1>6, <2>1, <2>2, <2>3 DEF BooksApart
<1>15. Quit'
  BY <1>1, <1>7 DEF BooksInv, Quit
<1>16. Balanced'
  <2>1. books = None
    BY DEF BooksInv, Balanced
  <2> QED BY <1>1, <2>1 DEF Balanced
<1> QED BY <1>9, <1>11, <1>13, <1>14, <1>15, <1>16 DEF BooksInv

(* The main thread of the client leaves. *)
LEMMA LeaveBooked ==
  ASSUME LoadInv, BooksInv, NEW code, Leave(code), exit = None,
         UNCHANGED <<cmd, next, failures, issued, lost, conn, server, books>>,
         Unstarted \/ Loaded,
         cmd.command = "load" /\ code = 0 => Loading /\ failures = 0
  PROVE  BooksInv'
<1>1. /\ pc' = [pc EXCEPT ![Main] = "gone"] /\ exit' = code
      /\ pc \in [Everyone -> {"ready", "seed", "join", "loop", "gone"}]
      /\ Main \in Everyone /\ Threads \subseteq Everyone /\ Main \notin Threads
  BY LoadAssumption DEF Leave, LoadInv, Types, Everyone
<1>2. pc'[Main] = "gone" /\ \A t \in Threads : pc'[t] = pc[t]
  BY <1>1
<1>3. PICK t \in Threads : TRUE
  BY LoadAssumption
<1>4. /\ (Unstarted => Unstarted') /\ (Unstarted' => Unstarted)
      /\ (Loading => Loading') /\ (Loading' => Loading)
      /\ (Loaded => Loaded')
  <2>1. UNCHANGED store
    BY DEF server
  <2>2. (Unstarted => Unstarted') /\ (Loading => Loading')
        /\ (Loaded => Loaded')
    BY <1>2, <2>1 DEF Unstarted, Loading, Loaded, ToLoad
  <2>3. (Unstarted' => Unstarted) /\ (Loading' => Loading)
    BY <1>2, <1>3 DEF LoadInv, Unstarted, Loading
  <2> QED BY <2>2, <2>3
<1>5. (Rows /\ LiveApart /\ BooksApart /\ Accounted)'
  BY <1>2, <1>4, ClientMoves
<1>6. Quit'
  BY <1>1, <1>2, <1>4 DEF BooksInv, Quit
<1>7. Balanced'
  BY DEF BooksInv, Balanced
<1> QED BY <1>5, <1>6, <1>7 DEF BooksInv

(* Each step keeps BooksInv. *)
LEMMA BooksStep ==
  ASSUME LoadInv, BooksInv, [Next]_lvars
  PROVE  BooksInv'
<1>1. /\ pc \in [Everyone -> {"ready", "seed", "join", "loop", "gone"}]
      /\ conn \in [Everyone -> Connection] /\ next \in Nat /\ issued \in Nat
      /\ Main \in Everyone /\ Threads \subseteq Everyone /\ Main \notin Threads
      /\ Seeding /\ (Unstarted \/ Loading) /\ Quit /\ Accounted /\ Balanced
  BY LoadAssumption DEF LoadInv, Types, Everyone, BooksInv
<1>2. PICK thread \in Threads : TRUE
  BY LoadAssumption
<1>3. CASE UNCHANGED <<cmd, client, conn, server>>
           /\ (Balanced' \/ UNCHANGED books)
  <2>1. /\ UNCHANGED <<pc, exit, next, failures, issued, lost, store>>
        /\ UNCHANGED <<ending, records>>
    BY <1>3 DEF client, server
  <2>2. /\ Unstarted' <=> Unstarted
        /\ Loading' <=> Loading
        /\ Loaded' <=> Loaded
    BY <1>3, <2>1 DEF Unstarted, Loading, Loaded, ToLoad
  <2>3. (Rows /\ LiveApart /\ BooksApart /\ Accounted)'
    BY <1>3, <2>1, <2>2, ClientMoves
  <2>4. Quit' /\ Balanced'
    BY <1>1, <1>3, <2>1, <2>2 DEF Quit, Balanced
  <2> QED BY <2>3, <2>4 DEF BooksInv
<1>4. CASE UNCHANGED lvars \/ Terminated
  BY <1>3, <1>4 DEF lvars, Terminated
<1>5. CASE Shutdown
  <2>1. UNCHANGED <<cmd, client, conn, server>>
    BY <1>5 DEF Shutdown
  <2>2. Balanced'
    BY <1>5 DEF Shutdown, Balanced, client, server
  <2> QED BY <1>3, <2>1, <2>2
<1>6. CASE Args
  <2>1. /\ pc[Main] = "ready" /\ conn[Main].at = "idle" /\ Unstarted
        /\ exit = None
        /\ UNCHANGED <<cmd, next, failures, issued, lost, conn, server, books>>
    BY <1>1, <1>6 DEF Args, At, Loading, Quit
  <2>2. CASE Leave(1)
    BY <2>1, <2>2, LeaveBooked
  <2>3. CASE cmd.command # "load" /\ \E code \in {0, 1} : Leave(code)
    BY <2>1, <2>3, LeaveBooked
  <2>4. CASE pc' = [pc EXCEPT ![Main] = "seed"] /\ UNCHANGED exit
    <3>1. pc'[Main] = "seed" /\ \A t \in Threads : pc'[t] = pc[t]
      BY <1>1, <2>4
    <3>2. ~Loading'
      BY <1>2, <2>1, <3>1 DEF Unstarted, Loading
    <3>3. (Rows /\ LiveApart /\ BooksApart /\ Accounted)'
      BY <2>1, <3>2, ClientMoves
    <3>4. Quit'
      BY <1>1, <2>1, <2>4, <3>1, LoadAssumption DEF Quit
    <3>5. Balanced'
      BY <1>1, <2>1, <2>4 DEF Balanced
    <3> QED BY <3>3, <3>4, <3>5 DEF BooksInv
  <2> QED BY <1>6, <2>2, <2>3, <2>4 DEF Args
<1>7. CASE Join
  <2>1. /\ pc[Main] = "join" /\ Loaded /\ Leave(LoadExit)
        /\ UNCHANGED <<cmd, next, failures, issued, lost, conn, server, books>>
    BY <1>7 DEF Join, Loaded
  <2>2. exit = None /\ Loading
    BY <1>1, <2>1 DEF Quit, Unstarted
  <2>3. LoadExit = 0 => failures = 0
    BY DEF LoadExit
  <2> QED BY <2>1, <2>2, <2>3, LeaveBooked
<1>8. CASE SeedNext
  <2> DEFINE x == Request("PUT", Files[next + 1])
  <2>1. /\ pc[Main] = "seed" /\ conn[Main].at = "idle"
        /\ next < Len(Files) /\ next' = next + 1
        /\ conn' = [conn EXCEPT ![Main] = x]
        /\ UNCHANGED <<cmd, pc, exit, failures, issued, lost, server, books>>
    BY <1>8 DEF SeedNext, At
  <2>2. next + 1 \in 1 .. Len(Files) /\ Files[next + 1] \in Seeds
    BY <1>1, <2>1, FilesInOrder
  <2>3. x \in Connection /\ x.at = "sent"
    BY <2>2 DEF Request, Idle, Connection
  <2> HIDE DEF x
  <2>4. exit = None /\ Unstarted
    BY <1>1, <2>1 DEF Quit, Loading
  <2> QED BY <1>1, <2>1, <2>3, <2>4, Sends
<1>9. CASE SeedDone
  <2>1. /\ pc[Main] = "seed" /\ next = Len(Files)
        /\ pc' = [t \in DOMAIN pc |-> IF t = Main THEN "join" ELSE "loop"]
        /\ UNCHANGED <<cmd, exit, failures, issued, lost, conn, server, books>>
    BY <1>9 DEF SeedDone, At
  <2>2. pc'[Main] = "join" /\ \A t \in Threads : pc'[t] = "loop"
    BY <1>1, <2>1
  <2>3. exit = None /\ Unstarted /\ ~Unstarted' /\ issued = 0
    BY <1>1, <2>1, <2>2 DEF Quit, Loading, Unstarted
  <2>4. (Rows /\ LiveApart /\ BooksApart /\ Accounted)'
    BY <2>1, <2>3, ClientMoves
  <2>5. Quit'
    BY <2>1, <2>2, <2>3, LoadAssumption DEF Quit
  <2>6. Balanced'
    BY <1>1, <2>1, <2>3 DEF Balanced
  <2> QED BY <2>4, <2>5, <2>6 DEF BooksInv
<1>10. ASSUME NEW t \in Threads, NEW op \in {"GET", "PUT"},
              NEW i \in DOMAIN Files, Turn(t, op, Files[i])
       PROVE  BooksInv'
  <2> DEFINE x == Request(op, Files[i])
  <2>1. /\ pc[t] = "loop" /\ conn[t].at = "idle"
        /\ next' = next + 1 /\ issued' = issued + 1
        /\ conn' = [conn EXCEPT ![t] = x]
        /\ UNCHANGED <<cmd, pc, exit, failures, lost, server, books>>
    BY <1>10 DEF Turn, At
  <2>2. Files[i] \in Seeds
    BY DEF Seeds
  <2>3. x \in Connection /\ x.at = "sent"
    BY <2>2 DEF Request, Idle, Connection
  <2> HIDE DEF x
  <2>4. exit = None /\ Loading
    BY <1>1, <2>1 DEF Quit, Unstarted, Loaded
  <2> QED BY <1>1, <2>1, <2>3, <2>4, Sends
<1>11. ASSUME NEW t \in Threads, Stop(t) PROVE BooksInv'
  <2>1. /\ pc[t] = "loop" /\ conn[t].at = "idle"
        /\ pc' = [pc EXCEPT ![t] = "gone"]
        /\ UNCHANGED <<cmd, exit, failures, issued, lost, conn, server, books>>
    BY <1>11 DEF Stop, At
  <2>2. exit = None /\ Loading
    BY <1>1, <2>1 DEF Quit, Unstarted, Loaded
  <2>3. pc'[t] = "gone" /\ \A u \in Threads : u # t => pc'[u] = pc[u]
    BY <1>1, <2>1
  <2>4. ~Unstarted'
    BY <2>3 DEF Unstarted
  <2>5. (Rows /\ LiveApart /\ BooksApart /\ Accounted)'
    BY <2>1, <2>2, <2>4, ClientMoves
  <2>6. Quit'
    BY <1>1, <2>1, <2>2, <2>3, LoadAssumption DEF Quit
  <2>7. Balanced'
    BY <1>1, <2>1, <2>2 DEF Balanced
  <2> QED BY <2>5, <2>6, <2>7 DEF BooksInv
<1> QED BY <1>4, <1>5, <1>6, <1>7, <1>8, <1>9, <1>10, <1>11, RecordBooked,
           ReplyBooked, AdmitBooked, StartBooked, ServeBooked,
           ServeFailsBooked DEF Next, Everyone

(* BooksInv holds throughout. *)
THEOREM BooksInvariant == Spec => []BooksInv
<1>1. ASSUME Init PROVE BooksInv
  <2>1. /\ pc = [t \in Everyone |-> "ready"]
        /\ conn = [t \in Everyone |-> Idle] /\ Idle.at = "idle"
        /\ exit = None /\ next = 0 /\ failures = 0 /\ ids = 1
        /\ ending = {} /\ records = << >> /\ books = None
        /\ issued = 0 /\ lost = 0
    BY <1>1 DEF Init, Everyone, Idle
  <2>2. Live = {} /\ Busy = {}
    BY <2>1 DEF Live, Busy, Underway
  <2>3. /\ IsFiniteSet({}) /\ Cardinality({}) = 0
        /\ records \in Seq(Row) /\ Len(records) = 0 /\ DOMAIN records = {}
    BY <2>1, FS_EmptySet
  <2>4. Rows /\ LiveApart /\ BooksApart
    BY <2>1, <2>2, <2>3 DEF Rows, LiveApart, BooksApart
  <2>5. ~Loading
    <3>1. PICK t \in Threads : TRUE
      BY LoadAssumption
    <3> QED BY <2>1, <3>1 DEF Loading, Everyone
  <2>6. Accounted
    BY <2>1, <2>2, <2>3, <2>5 DEF Accounted, Known
  <2>7. Quit /\ Balanced
    BY <2>1, LoadAssumption DEF Quit, Balanced, Everyone
  <2> QED BY <2>4, <2>6, <2>7 DEF BooksInv
<1>2. LoadInv /\ BooksInv /\ [Next]_lvars => BooksInv'
  BY BooksStep
<1> QED BY <1>1, <1>2, LoadInvariant, PTL DEF Spec

(* The CSV has each recorded row once, by number, its times in order; and  *)
(* after a load that exits with 0 it has a row for every seed and every    *)
(* request, in whatever order they were recorded (metrics.cpp:51,          *)
(* client.cpp:362), unless it could not be written (main.cpp:419).         *)
THEOREM CsvIsExact == Spec => []CsvExact
<1>1. ASSUME LoadInv, RequestsExact, BooksInv PROVE CsvExact
  <2> SUFFICES ASSUME books # None, books.csv # None PROVE CsvExact
    BY DEF CsvExact
  <2>1. /\ books.csv = Csv(records) /\ ending = {} /\ exit # None
        /\ Rows /\ BooksApart
    BY <1>1 DEF BooksInv, Balanced
  <2>2. /\ records \in Seq(Row)
        /\ \A i, j \in DOMAIN records :
             records[i].id = records[j].id => i = j
        /\ \A i \in DOMAIN records :
             /\ records[i].arrival < records[i].start
             /\ records[i].start < records[i].finish
    BY <2>1 DEF Rows, Timed, BooksApart
  <2>3. /\ Len(Csv(records)) = Len(records)
        /\ Range(Csv(records)) = Range(records)
        /\ \A i, j \in DOMAIN Csv(records) :
             i < j => Csv(records)[i].id < Csv(records)[j].id
    BY <2>2, CsvProperties DEF Row
  <2>4. ASSUME cmd.command = "load", exit = 0
        PROVE  lost = 0 /\ Len(records) = Len(Files) + cmd.requests
    <3>1. Loading /\ failures = 0 /\ Loaded
      BY <1>1, <2>1, <2>4, EitherOr DEF BooksInv, Quit
    <3>2. lost = 0 /\ Known = Len(Files) + issued
      BY <1>1, <3>1 DEF BooksInv, Accounted
    <3>3. Busy = {}
      BY <1>1, <2>1, Resting DEF Busy, Underway
    <3>4. Known = Len(records)
      <4>1. Cardinality(Busy) = 0 /\ Cardinality(ending) = 0
        BY <2>1, <3>3, FS_EmptySet
      <4>2. Len(records) \in Nat
        BY <2>2, LenProperties
      <4> QED BY <4>1, <4>2 DEF Known
    <3> QED BY <1>1, <3>1, <3>2, <3>4 DEF RequestsExact
  <2>5. \A row \in Range(records) :
          row.arrival < row.start /\ row.start < row.finish
    BY <2>2 DEF Range
  <2> QED BY <2>1, <2>3, <2>4, <2>5 DEF CsvExact
<1> QED BY <1>1, LoadInvariant, LoadsExactly, BooksInvariant, PTL

(* The percentiles of the summary are percentiles, of every history and of *)
(* any list (metrics.cpp:84).                                              *)
THEOREM PercentilesAreExact == Spec => []PercentilesExact
<1>1. ASSUME BooksInv PROVE PercentilesExact
  <2>1. ASSUME NEW n \in 1 .. RankBound, NEW p \in {50, 99}
        PROVE  LET values == [i \in 1 .. n |-> (i * 37) % 101]
               IN  IsPercentile(NearestRank(values, p), values, p)
    <3> DEFINE values == [i \in 1 .. n |-> (i * 37) % 101]
    <3>1. values \in [1 .. n -> Int] /\ n \in Nat \ {0}
      BY LoadAssumption
    <3> HIDE DEF values
    <3>2. values \in Seq(Int) /\ Len(values) = n
      BY <3>1, SeqDef, LenProperties
    <3>3. values # << >>
      BY <3>1, <3>2, EmptySeq
    <3>4. IsPercentile(NearestRank(values, p), values, p)
      BY <3>2, <3>3, NearestRankExact
    <3> QED BY <3>4 DEF values
  <2>2. ASSUME books # None, records # << >>, NEW p \in {50, 99}
        PROVE  /\ IsPercentile(books.summary.waiting[p], Waiting(records), p)
               /\ IsPercentile(books.summary.response[p], Response(records), p)
    <3>1. records \in Seq(Row) /\ books.summary = Summary(records)
      BY <1>1, <2>2 DEF BooksInv, Rows, Balanced
    <3>2. /\ Summary(records).waiting[p] = NearestRank(Waiting(records), p)
          /\ Summary(records).response[p] = NearestRank(Response(records), p)
      BY DEF Summary
    <3> DEFINE n == Len(records)
    <3>3. /\ n \in Nat \ {0} /\ DOMAIN records = 1 .. n
          /\ \A i \in 1 .. n : records[i] \in Row
      BY <2>2, <3>1, LenProperties, EmptySeq, ElementOfSeq
    <3>4. /\ Waiting(records) \in [1 .. n -> Int]
          /\ Response(records) \in [1 .. n -> Int]
      BY <3>3 DEF Waiting, Response, Elapsed, Row
    <3> HIDE DEF n
    <3>5. /\ Waiting(records) \in Seq(Int) /\ Len(Waiting(records)) = n
          /\ Response(records) \in Seq(Int) /\ Len(Response(records)) = n
      BY <3>3, <3>4, SeqDef, LenProperties
    <3>6. Waiting(records) # << >> /\ Response(records) # << >>
      BY <3>3, <3>5, EmptySeq
    <3> QED BY <3>1, <3>2, <3>5, <3>6, NearestRankExact
  <2> QED BY <2>1, <2>2 DEF PercentilesExact
<1> QED BY <1>1, BooksInvariant, PTL
=============================================================================
