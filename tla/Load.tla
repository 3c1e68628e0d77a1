-------------------------------- MODULE Load --------------------------------
(***************************************************************************)
(* An experiment: client.cpp's load against a server, and the books the    *)
(* server writes when it is stopped afterwards.  What a request does on    *)
(* its connection is Session's; here it is admitted, started, served and   *)
(* recorded, or it fails, on either side.                                  *)
(***************************************************************************)
EXTENDS Metrics

CONSTANTS Commands,   (* command lines of the client                       *)
          Directory,  (* entries of the workload directory                 *)
          Threads,    (* client_threads of them                            *)
          Workers,    (* server_threads                                    *)
          MaxInt,     (* of int                                            *)
          RankBound,  (* longest list a percentile is tried on             *)
          Main, None

ASSUME LoadAssumption ==
  /\ Threads # {} /\ Main \notin Threads /\ Workers \in Nat \ {0}
  /\ IsFiniteSet(Directory) /\ RankBound \in Nat /\ None \notin {0, 1}
  (* Beyond it next wraps, and threads go on after the last request.       *)
  /\ \A cmd \in Commands :
       cmd.requests # None =>
         /\ cmd.requests \in Int
         /\ cmd.requests + Cardinality(Threads) <= MaxInt

VARIABLES cmd,       (* the command line, fixed                            *)
          pc,        (* main, then each thread                             *)
          exit,      (* of the client                                      *)
          next,      (* next                                               *)
          failures,  (* failures                                           *)
          conn,      (* what each thread is waiting for                    *)
          store,     (* the names the server has                           *)
          clock,     (* monotonic_ns, counting stamps                      *)
          ids,       (* next_request_id                                    *)
          ending,    (* served requests not recorded yet                   *)
          records,   (* records_                                           *)
          books,     (* summary and CSV, or None; None is also a CSV that  *)
                     (* could not be written                               *)
          issued, lost, missing  (* history: requests sent by threads, how *)
                     (* many failed, GETs of names the server had not      *)

client == <<pc, exit, next, failures, issued, lost>>
server == <<store, clock, ids, ending, records, missing>>
lvars == <<cmd, client, conn, server, books>>

(* list_workload: regular files that are not hidden, by name: before the   *)
(* i-th of them there are i - 1 others.                                    *)
Names == {e.name : e \in {d \in Directory : d.regular /\ ~d.hidden}}
Files ==
  [i \in 1 .. Cardinality(Names) |->
     CHOOSE n \in Names : Cardinality({m \in Names : m < n}) = i - 1]

Idle == [at |-> "idle", op |-> None, name |-> None, row |-> None]
Request(op, name) == [Idle EXCEPT !.at = "sent", !.op = op, !.name = name]

Init ==
  /\ cmd \in Commands
  /\ pc = [t \in Threads \cup {Main} |-> "ready"]
  /\ exit = None
  /\ next = 0 /\ failures = 0
  /\ conn = [t \in Threads \cup {Main} |-> Idle]
  /\ store = {} /\ clock = 0 /\ ids = 1
  /\ ending = {} /\ records = << >>
  /\ books = None
  /\ issued = 0 /\ lost = 0 /\ missing = 0

At(t, where) == pc[t] = where /\ conn[t].at = "idle"
Leave(code) == exit' = code /\ pc' = [pc EXCEPT ![Main] = "gone"]

-----------------------------------------------------------------------------
(* The client's main: the command line.  --requests goes with load only.   *)
ArgsOk ==
  /\ cmd.command \in {"get", "put", "health", "load"}
  /\ cmd.command # "health" => cmd.positional = 2
  /\ cmd.requests # None <=> cmd.command = "load"
  /\ cmd.command = "load" => cmd.requests > 0

Args ==
  /\ At(Main, "ready")
  /\ \/ Leave(1)     (* wrong flags; load_config or list_workload throws *)
     \/ /\ ArgsOk /\ cmd.command # "load"
        /\ \E code \in {0, 1} : Leave(code)                (* one Session *)
     \/ /\ ArgsOk /\ cmd.command = "load" /\ Files # << >>
        /\ pc' = [pc EXCEPT ![Main] = "seed"]
        /\ UNCHANGED exit
  /\ UNCHANGED <<cmd, next, failures, issued, lost, conn, server, books>>

(* load_workload: the files are uploaded in turn; next is the position.    *)
SeedNext ==
  /\ At(Main, "seed")
  /\ next < Len(Files)
  /\ next' = next + 1
  /\ conn' = [conn EXCEPT ![Main] = Request("PUT", Files[next + 1])]
  /\ UNCHANGED <<cmd, pc, exit, failures, issued, lost, server, books>>

SeedDone ==
  /\ At(Main, "seed")
  /\ next = Len(Files)
  /\ next' = 0
  /\ pc' = [t \in DOMAIN pc |-> IF t = Main THEN "join" ELSE "loop"]
  /\ UNCHANGED <<cmd, exit, failures, issued, lost, conn, server, books>>

(* Variant: one request too many.                                          *)
EnoughExclusive(i) == i > cmd.requests

Enough(i) == i >= cmd.requests

(* One turn of a thread's loop: fetch_add, then a request of its choice.   *)
Turn(t, op, name) ==
  /\ t \in Threads /\ At(t, "loop")
  /\ ~Enough(next)
  /\ next' = next + 1
  /\ issued' = issued + 1
  /\ conn' = [conn EXCEPT ![t] = Request(op, name)]
  /\ UNCHANGED <<cmd, pc, exit, failures, lost, server, books>>

Stop(t) ==
  /\ t \in Threads /\ At(t, "loop")
  /\ Enough(next)
  /\ next' = next + 1
  /\ pc' = [pc EXCEPT ![t] = "gone"]
  /\ UNCHANGED <<cmd, exit, failures, issued, lost, conn, server, books>>

SeedFailed == Leave(1)

(* get_file or put_file returns.  A reply may be lost on its way even if   *)
(* the request was served.                                                 *)
Reply(t, ok) ==
  /\ conn[t].at \in {"served", "refused"}
  /\ ok => conn[t].at = "served"
  /\ conn' = [conn EXCEPT ![t] = Idle]
  /\ IF t = Main /\ ~ok THEN SeedFailed ELSE UNCHANGED <<pc, exit>>
  /\ failures' = IF t # Main /\ ~ok THEN failures + 1 ELSE failures
  /\ lost' = IF ok THEN lost ELSE lost + 1
  /\ UNCHANGED <<cmd, next, issued, server, books>>

LoadExit == IF failures # 0 THEN 1 ELSE 0

Join ==
  /\ pc[Main] = "join"
  /\ \A t \in Threads : pc[t] = "gone"
  /\ Leave(LoadExit)
  /\ UNCHANGED <<cmd, next, failures, issued, lost, conn, server, books>>

-----------------------------------------------------------------------------
(* The server, one connection per thread. *)
Running == {t \in DOMAIN conn : conn[t].at = "running"}

(* A GET of a name that is not there is refused before it is queued.       *)
Admit(t) ==
  /\ conn[t].at = "sent"
  /\ IF conn[t].op = "GET" /\ conn[t].name \notin store
       THEN /\ conn' = [conn EXCEPT ![t].at = "refused"]
            /\ missing' = missing + 1
            /\ UNCHANGED <<clock, ids>>
       ELSE /\ conn' = [conn EXCEPT ![t].at = "admitted",
                          ![t].row = [id |-> ids, arrival |-> clock,
                                      start |-> 0, finish |-> 0]]
            /\ ids' = ids + 1 /\ clock' = clock + 1
            /\ UNCHANGED missing
  /\ UNCHANGED <<cmd, client, store, ending, records, books>>

Start(t) ==
  /\ conn[t].at = "admitted"
  /\ Cardinality(Running) + Cardinality(ending) < Workers
  /\ conn' = [conn EXCEPT ![t].at = "running", ![t].row.start = clock]
  /\ clock' = clock + 1
  /\ UNCHANGED <<cmd, client, store, ids, ending, records, missing, books>>

(* The last byte or the last OK is out, and an upload is in place; the     *)
(* client may return before the worker stamps and records.                 *)
Serve(t) ==
  /\ conn[t].at = "running"
  /\ conn' = [conn EXCEPT ![t].at = "served"]
  /\ ending' = ending \cup {conn[t].row}
  /\ store' = IF conn[t].op = "PUT" THEN store \cup {conn[t].name} ELSE store
  /\ UNCHANGED <<cmd, client, clock, ids, records, missing, books>>

(* No connection, a rejected header, or a round that fails: no record.     *)
ServeFails(t) ==
  /\ conn[t].at \in {"sent", "running"}
  /\ conn' = [conn EXCEPT ![t].at = "refused"]
  /\ UNCHANGED <<cmd, client, server, books>>

Recorded(row) == Append(records, [row EXCEPT !.finish = clock])

Record ==
  /\ \E r \in ending : records' = Recorded(r) /\ ending' = ending \ {r}
  /\ clock' = clock + 1
  /\ UNCHANGED <<cmd, client, conn, store, ids, missing, books>>

(* The server is stopped after the load: workers are joined, then the      *)
(* summary is printed and the CSV written, or it fails and is missed.      *)
Shutdown ==
  /\ exit # None /\ books = None
  /\ ending = {}
  /\ \E csv \in {Csv(records), None} :
       books' = [csv |-> csv, summary |-> Summary(records)]
  /\ UNCHANGED <<cmd, client, conn, server>>

Terminated == books # None /\ UNCHANGED lvars

Next ==
  \/ Args \/ SeedNext \/ SeedDone \/ Join \/ Shutdown \/ Record
  \/ \E t \in Threads : Stop(t)
  \/ \E t \in Threads, op \in {"GET", "PUT"}, i \in DOMAIN Files :
       Turn(t, op, Files[i])
  \/ \E t \in Threads \cup {Main} :
       \/ \E ok \in BOOLEAN : Reply(t, ok)
       \/ Admit(t) \/ Start(t) \/ Serve(t) \/ ServeFails(t)
  \/ Terminated

Spec == Init /\ [][Next]_lvars

-----------------------------------------------------------------------------
Loaded == \A t \in Threads : pc[t] = "gone"

(* The threads send exactly N requests between them, however their         *)
(* fetch_adds interleave and whatever fails ("then issues N closed-loop    *)
(* requests", client.cpp:362), and none of them asks for a file before the *)
(* upload that seeds it is in place (client.cpp:336).                      *)
RequestsExact ==
  /\ issued > 0 => issued <= cmd.requests
  /\ Loaded => issued = cmd.requests
  /\ missing = 0

(* The rows of the CSV are in order of request_id, no two are equal, and   *)
(* none is lost or made up, in whatever order the workers recorded them;   *)
(* the times of each are in order, as print_summary's subtractions want.   *)
(* When the client exits with 0, nothing has failed on any thread and      *)
(* there is one row for every seed and every request, though a client may  *)
(* return before its request is recorded (main.cpp:243-246).  A CSV that   *)
(* could not be written (main.cpp:419) is none.                            *)
CsvExact ==
  books # None /\ books.csv # None =>
    /\ \A i, j \in DOMAIN books.csv :
         i < j => books.csv[i].id < books.csv[j].id
    /\ Range(books.csv) = Range(records)
    /\ \A row \in Range(books.csv) :
         row.arrival < row.start /\ row.start < row.finish
    /\ cmd.command = "load" /\ exit = 0 =>
         lost = 0 /\ Len(books.csv) = Len(Files) + cmd.requests

(* nearest_rank returns the percentile: of the waiting and response times  *)
(* of every history, and of long lists, where the 99th is not the largest  *)
(* value (metrics.cpp:84).                                                 *)
PercentilesExact ==
  /\ pc[Main] = "ready" =>
       \A n \in 1 .. RankBound : \A p \in {50, 99} :
         LET values == [i \in 1 .. n |-> (i * 37) % 101]
         IN  IsPercentile(NearestRank(values, p), values, p)
  /\ books # None /\ records # << >> => \A p \in {50, 99} :
       /\ IsPercentile(books.summary.waiting[p], Waiting(records), p)
       /\ IsPercentile(books.summary.response[p], Response(records), p)
=============================================================================
