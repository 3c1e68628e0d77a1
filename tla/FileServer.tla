----------------------------- MODULE FileServer -----------------------------
(***************************************************************************)
(* Several workers (worker_thread of main.cpp) serving admitted GET and    *)
(* PUT requests (serve_get and serve_put of server.cpp) from one directory *)
(* while uploads replace the files being read.  serve_get opens the file   *)
(* by name again for every line it reads, so a rename may fall between any *)
(* two lines; that is the grain of this model.  The queue is atomic here:  *)
(* RequestQueue shows that it can be.                                      *)
(*                                                                         *)
(* A file has a text, and the set of its line ends (see Transfer); that    *)
(* two uploads may carry the same text is what lets a load client reload   *)
(* files it is downloading.  The counters rounds, forfeited_bytes and      *)
(* a14_events steer nothing and are left to Transfer.                      *)
(***************************************************************************)
EXTENDS Scheduler, SequencesExt

CONSTANTS Workers, Names, Conns,
          Setups,           (* the servers and clients to be considered    *)
          Packetization,    (* --p                                         *)
          Lines,            (* the line ends of every text                 *)
          Unterminated,     (* texts whose last line has no newline        *)
          InitialFiles,     (* the directory at start, text by name        *)
          Unwritable,       (* uploads whose rename may fail               *)
          FullDisk,         (* uploads whose last flush may be lost        *)
          Absent, None

Texts == DOMAIN Lines

(* A header as parse_request_header leaves it; the text of an upload is    *)
(* what its client will send.                                              *)
IsAsk(a) ==
  /\ a.op \in {"GET", "PUT"} /\ a.name \in Names
  /\ a.op = "PUT" => a.text \in Texts

(* --sched and --quantum, the header of each connection that is made, and  *)
(* the connections whose client may leave early.                           *)
IsSetup(s) ==
  /\ s.policy \in Policies /\ s.quantum \in Nat
  /\ QuantumAllowed(s.policy, s.quantum)
  /\ DOMAIN s.asks \subseteq Conns /\ s.leavers \subseteq Conns
  /\ \A c \in DOMAIN s.asks : IsAsk(s.asks[c])

(* validate_config refuses a server without workers; a text, being         *)
(* finite, has a last line end unless it is empty.                         *)
ASSUME FileServerAssumption ==
  /\ \A s \in Setups : IsSetup(s)
  /\ Workers # {}
  /\ Packetization \in Nat \ {0}
  /\ \A t \in Texts :
       /\ Lines[t] \subseteq Nat \ {0}
       /\ \E last \in Lines[t] \cup {0} : \A e \in Lines[t] : e <= last
  /\ \A n \in Names : InitialFiles[n] \in Texts \cup {Absent}

VARIABLES setup,     (* the one of Setups this is, fixed                   *)
          files,     (* the served directory: name to version              *)
          staging,   (* bytes in each staging file, or Absent              *)
          torn,      (* uploads some of whose bytes never reached the disk *)
          req,       (* admitted requests                                  *)
          queue,     (* RequestQueue::queue_                               *)
          closed,    (* RequestQueue::closed_                              *)
          call,      (* what each worker is doing                          *)
          reply,     (* what each client has been sent                     *)
          gone,      (* clients that have disconnected                     *)
          phase,     (* "new", "open", or how the connection was closed    *)
          metrics,   (* Metrics::records_                                  *)
          disturbed  (* history: GETs whose text was replaced meanwhile    *)

around == <<setup, closed, gone>>
disk == <<files, staging, torn, disturbed>>
books == <<phase, metrics>>
fvars == <<around, disk, books, req, queue, call, reply>>

Policy == setup.policy
Quantum == setup.quantum
Ask(c) == setup.asks[c]
Gets == {c \in DOMAIN setup.asks : Ask(c).op = "GET"}

Size(ends) == Max(ends \cup {0})
Idle == [pc |-> "idle", conn |-> None]
NoReply == [oks |-> <<>>, body |-> <<>>, err |-> FALSE]

Init ==
  /\ setup \in Setups
  /\ files = [n \in Names |->
                IF InitialFiles[n] = Absent THEN Absent
                ELSE [text |-> InitialFiles[n],
                      ends |-> Lines[InitialFiles[n]]]]
  /\ staging = [c \in Conns |-> Absent]
  /\ torn = {}
  /\ req = [c \in Conns |-> None]
  /\ queue = <<>>
  /\ closed = FALSE
  /\ call = [w \in Workers |-> Idle]
  /\ reply = [c \in Conns |-> NoReply]
  /\ gone = {}
  /\ phase = [c \in Conns |-> "new"]
  /\ metrics = <<>>
  /\ disturbed = {}

(* send_response and send_error: what a vanished client is sent is lost,   *)
(* and the server does not mind.                                           *)
SendOk(c, n) == IF c \in gone THEN reply[c]
                ELSE [reply[c] EXCEPT !.oks = Append(@, n)]
SendError(c) == IF c \in gone THEN reply[c]
                ELSE [reply[c] EXCEPT !.err = TRUE]

(***************************************************************************)
(* parser_thread, the part that admits: a GET's size is that of the file   *)
(* now, a PUT's is the declared one.                                       *)
(***************************************************************************)
Admit(c) ==
  /\ ~closed
  /\ phase[c] = "new" /\ c \in DOMAIN setup.asks
  /\ Ask(c).op = "GET" => files[Ask(c).name] # Absent
  /\ req' = [req EXCEPT ![c] =
       [total |-> IF Ask(c).op = "GET" THEN Size(files[Ask(c).name].ends)
                  ELSE Size(Lines[Ask(c).text]),
        offset |-> 0, deficit |-> 0, headed |-> FALSE,
        arrival |-> Cardinality({d \in Conns : phase[d] # "new"})]]
  /\ queue' = Append(queue, c)
  /\ phase' = [phase EXCEPT ![c] = "open"]
  /\ UNCHANGED <<around, disk, metrics, call, reply>>

(***************************************************************************)
(* Scheduler::next: the front of the queue, or for SJF the smallest        *)
(* request, ties by arrival.                                               *)
(***************************************************************************)
Shorter(c, d) ==
  IF req[c].total # req[d].total THEN req[c].total < req[d].total
  ELSE req[c].arrival < req[d].arrival

Chosen(i) ==
  IF Policy = "SJF"
    THEN \A j \in DOMAIN queue \ {i} : Shorter(queue[i], queue[j])
    ELSE i = 1

NextDecision(w) ==
  /\ call[w].pc = "idle"
  /\ \E i \in DOMAIN queue :
       LET c == queue[i]
           d == RaisedDeficit(Policy, Quantum, req[c].total,
                              req[c].offset, req[c].deficit)
       IN  /\ Chosen(i)
           /\ queue' = RemoveAt(queue, i)
           /\ req' = [req EXCEPT ![c].deficit = d]
           /\ call' = [call EXCEPT ![w] =
                [pc |-> "serve", conn |-> c,
                 budget |-> Budget(Policy, Quantum,
                                   req[c].total, req[c].offset, d),
                 at |-> req[c].offset, round |-> 0, left |-> 0,
                 packet |-> <<>>, sent |-> 0, eof |-> FALSE]]
  /\ UNCHANGED <<around, disk, books, reply>>

(* A worker leaves once the closed queue is drained. *)
Exit(w) ==
  /\ call[w].pc = "idle"
  /\ queue = <<>> /\ closed
  /\ \A v \in Workers : call[v].pc \in {"idle", "exited"}
  /\ call' = [call EXCEPT ![w].pc = "exited"]
  /\ UNCHANGED <<around, disk, books, req, queue, reply>>

-----------------------------------------------------------------------------
(* serve_get.  Worker w is in a call for connection c of a GET.            *)
At(w, pc, op) == call[w].pc = pc /\ Ask(call[w].conn).op = op
Version(w) == files[Ask(call[w].conn).name]

(* read_file_line: the ends of the lines that start at or after position p;*)
(* empty when the read fails.                                              *)
EndsAfter(w, p) == {e \in Version(w).ends : e > p}
LineEnd(w, p) == Min(EndsAfter(w, p))

(* A last line without newline leaves no position to continue from, and    *)
(* read_file_line asks get_file_size for one, by name: a second look at    *)
(* the directory, a step of its own before the next read.                  *)
HitsEof(w, end) ==
  Version(w).text \in Unterminated /\ end = Size(Version(w).ends)

Resize(w) ==
  /\ call[w].pc \in {"select", "send"}
  /\ call[w].eof
  /\ call' = [call EXCEPT ![w].at = Size(Version(w).ends), ![w].eof = FALSE]
  /\ UNCHANGED <<around, disk, books, req, queue, reply>>

(* The response header is sent on the first round only.  A budget that     *)
(* covers what remains skips the selection.                                *)
ServeGet(w) ==
  /\ At(w, "serve", "GET")
  /\ LET c == call[w].conn
         remaining == Remaining(req[c].total, req[c].offset)
     IN  /\ reply' = [reply EXCEPT ![c] =
                        IF req[c].headed THEN @ ELSE SendOk(c, req[c].total)]
         /\ req' = [req EXCEPT ![c].headed = TRUE]
         /\ call' =
              IF remaining = 0 \/ call[w].budget = 0
                THEN [call EXCEPT ![w].pc = "served"]
              ELSE IF call[w].budget >= remaining
                THEN [call EXCEPT ![w].pc = "send", ![w].left = remaining]
              ELSE [call EXCEPT ![w].pc = "select"]
  /\ UNCHANGED <<around, disk, books, queue>>

(* Variant: sending goes on where selection stopped.                       *)
RewoundNot(w) == call[w].at

Rewound(w) == req[call[w].conn].offset

(* The selection loop ends with r bytes chosen, to be sent from the start. *)
Select(w, r) ==
  IF r = 0 THEN [call EXCEPT ![w].pc = "served"]
  ELSE [call EXCEPT ![w].pc = "send", ![w].left = r, ![w].at = Rewound(w)]

(* Variant: RR waits as DRR does.                                          *)
OverrunNone(line) == 0

(* A line that alone exceeds the allowance: RR sends it (A14), DRR waits.  *)
Overrun(line) == IF Policy = "RR" THEN line ELSE 0

(* One iteration of the selection loop of serve_get. *)
SelectLine(w) ==
  /\ At(w, "select", "GET")
  /\ ~call[w].eof
  /\ LET round == call[w].round
         budget == call[w].budget
         line == LineEnd(w, call[w].at) - call[w].at
     IN  call' =
           IF EndsAfter(w, call[w].at) = {}
             THEN Select(w, round)
           ELSE IF round = 0 /\ line > budget
             THEN Select(w, Overrun(line))
           ELSE IF round + line > budget
             THEN Select(w, round)
           ELSE IF round + line = budget
             THEN Select(w, budget)
           ELSE [call EXCEPT ![w].round = round + line,
                             ![w].at = LineEnd(w, call[w].at),
                             ![w].eof = HitsEof(w, LineEnd(w, call[w].at))]
  /\ UNCHANGED <<around, disk, books, req, queue, reply>>

(***************************************************************************)
(* One iteration of the packetization loop: a line is read again, and the  *)
(* packet is sent when it is full or the round's last byte is in it.  A    *)
(* packet is the sequence of <<text, from, to>> pieces in it.            *)
(***************************************************************************)
Bytes(packet) ==
  LET upto[i \in 0 .. Len(packet)] ==
        IF i = 0 THEN 0 ELSE upto[i - 1] + packet[i][3] - packet[i][2]
  IN  upto[Len(packet)]

Sending(w) == At(w, "send", "GET") /\ ~call[w].eof

(* No line is left, or even the next one is too long for the round.        *)
ReadFails(w) ==
  \A e \in EndsAfter(w, call[w].at) : e - call[w].at > call[w].left

(* The packet once the next line is in it, and whether it goes out now.    *)
Packet(w) ==
  Append(call[w].packet,
         <<Version(w).text, call[w].at, LineEnd(w, call[w].at)>>)
LeftAfter(w) == call[w].left - (LineEnd(w, call[w].at) - call[w].at)
PacketFull(w) == Len(Packet(w)) = Packetization \/ LeftAfter(w) = 0

SendLineFails(w) ==
  /\ Sending(w)
  /\ ReadFails(w)
  /\ reply' = [reply EXCEPT ![call[w].conn] = SendError(call[w].conn)]
  /\ call' = [call EXCEPT ![w].pc = "failed"]
  /\ UNCHANGED <<around, disk, books, req, queue>>

SendLine(w) ==
  LET c == call[w].conn
      end == LineEnd(w, call[w].at)
      full == PacketFull(w)
  IN  /\ Sending(w)
      /\ ~ReadFails(w)
      /\ call' = [call EXCEPT
           ![w].at = end, ![w].left = LeftAfter(w),
           ![w].eof = HitsEof(w, end) /\ LeftAfter(w) > 0,
           ![w].packet = IF full THEN <<>> ELSE Packet(w),
           ![w].sent = IF full THEN @ + Bytes(Packet(w)) ELSE @,
           ![w].pc = IF LeftAfter(w) = 0 THEN "served" ELSE "send"]
      /\ reply' = [reply EXCEPT ![c].body =
                     IF full /\ c \notin gone THEN @ \o Packet(w) ELSE @]
      /\ UNCHANGED <<around, disk, books, req, queue>>

(* send_all fails: the client is gone.  No error line is tried. *)
SendBreaks(w) ==
  /\ Sending(w)
  /\ ~ReadFails(w)
  /\ PacketFull(w)
  /\ call[w].conn \in gone
  /\ call' = [call EXCEPT ![w].pc = "failed"]
  /\ UNCHANGED <<around, disk, books, req, queue, reply>>

-----------------------------------------------------------------------------
(* file.close() at the end of a round: what the round wrote is still in    *)
(* the buffer of the file, and nobody asks whether it could be flushed.    *)
(* With the disk full the round succeeds and bytes of it are lost.         *)
Flushes(c, bytes) ==
  {torn} \cup {torn \cup {d} : d \in {e \in FullDisk \cap {c} : bytes > 0}}

(* What may be on the disk of an upload of text t that lost bytes: a text  *)
(* no longer than it, whose lines end where those of t do (a gap before a  *)
(* later round has no newline), but for the last line of a text cut short. *)
Remains(t) ==
  {r \in Texts : /\ Size(Lines[r]) <= Size(Lines[t])
                 /\ Lines[r] \subseteq Lines[t] \cup {Size(Lines[r])}}

(* serve_put.  The first round answers OK and creates the staging file;    *)
(* each round receives exactly its bytes (Transfer shows their order), or  *)
(* fails: error, end of stream or five seconds of silence.  A failure is   *)
(* answered with an error line, except that of a zero-byte upload.         *)
ServePut(w) ==
  /\ At(w, "serve", "PUT")
  /\ LET c == call[w].conn
         bytes == Least(call[w].budget,
                        Remaining(req[c].total, req[c].offset))
     IN  /\ reply' = [reply EXCEPT ![c] =
                        IF req[c].offset = 0 THEN SendOk(c, 0) ELSE @]
         /\ staging' = [staging EXCEPT ![c] = req[c].offset + bytes]
         /\ call' = [call EXCEPT ![w].pc = "served", ![w].sent = bytes]
         /\ torn' \in Flushes(c, bytes)
  /\ UNCHANGED <<around, files, disturbed, books, req, queue>>

ServePutFails(w) ==
  /\ At(w, "serve", "PUT")
  /\ LET c == call[w].conn
     IN  /\ reply' = [reply EXCEPT ![c] =
              [(IF req[c].offset = 0 THEN SendOk(c, 0) ELSE reply[c])
                 EXCEPT !.err = c \notin gone /\ req[c].total > 0]]
         /\ \E bytes \in 0 .. Least(call[w].budget,
                                   Remaining(req[c].total, req[c].offset)) :
              staging' = [staging EXCEPT ![c] = req[c].offset + bytes]
  /\ call' = [call EXCEPT ![w].pc = "failed"]
  /\ UNCHANGED <<around, files, torn, disturbed, books, req, queue>>

-----------------------------------------------------------------------------
(* The rest of worker_thread's loop.                                       *)

(* Variant: the staging file is not removed.                               *)
RemovedNot(c) == staging[c]

Removed(c) == Absent

(* A failed round: remove the staging file, complete, close.               *)
Drop(w) ==
  /\ call[w].pc = "failed"
  /\ staging' = [staging EXCEPT ![call[w].conn] = Removed(call[w].conn)]
  /\ phase' = [phase EXCEPT ![call[w].conn] = "dropped"]
  /\ call' = [call EXCEPT ![w] = Idle]
  /\ UNCHANGED <<around, files, torn, disturbed, metrics, req, queue, reply>>

(* Variant: the budget is booked for the bytes.                            *)
ProcessedBudget(w) == call[w].budget

(* bytes_processed, as the round reports it.                               *)
Processed(w) == call[w].sent

(* account, should_requeue, and requeue at the tail if bytes remain.       *)
Account(w) ==
  /\ call[w].pc = "served"
  /\ LET c == call[w].conn
         counted == Counted(req[c].total, req[c].offset, Processed(w))
         again == ShouldRequeue(req[c].total, req[c].offset + counted)
     IN  /\ req' = [req EXCEPT
              ![c].offset = @ + counted,
              ![c].deficit = SpentDeficit(Policy, @, counted)]
         /\ queue' = IF again THEN Append(queue, c) ELSE queue
         /\ call' = [call EXCEPT ![w] =
              IF again THEN Idle
              ELSE [@ EXCEPT !.pc = IF Ask(c).op = "PUT" THEN "commit"
                                    ELSE "finish"]]
  /\ UNCHANGED <<around, disk, books, reply>>

(* What the staging file of upload c may turn out to hold.                 *)
Stored(c) == IF c \in torn THEN Remains(Ask(c).text) ELSE {Ask(c).text}

(* rename over the final name, then the last OK.  GETs of that name that   *)
(* are under way will read the new file from their old offset.             *)
Commit(w) ==
  /\ call[w].pc = "commit"
  /\ \E text \in Stored(call[w].conn) :
       LET c == call[w].conn
           name == Ask(c).name
           new == [text |-> text,
                   ends |-> {e \in Lines[text] : e <= staging[c]}]
       IN  /\ files' = [files EXCEPT ![name] = new]
           /\ staging' = [staging EXCEPT ![c] = Absent]
           /\ reply' = [reply EXCEPT ![c] = SendOk(c, 0)]
           /\ disturbed' = disturbed \cup
                {d \in Gets : /\ phase[d] = "open" /\ Ask(d).name = name
                              /\ files[name] # new}
  /\ call' = [call EXCEPT ![w].pc = "finish"]
  /\ UNCHANGED <<around, torn, books, req, queue>>

(* rename fails: error, complete, close; the staging file stays.           *)
CommitFails(w) ==
  /\ call[w].pc = "commit"
  /\ call[w].conn \in Unwritable
  /\ reply' = [reply EXCEPT ![call[w].conn] = SendError(call[w].conn)]
  /\ phase' = [phase EXCEPT ![call[w].conn] = "dropped"]
  /\ call' = [call EXCEPT ![w] = Idle]
  /\ UNCHANGED <<around, disk, metrics, req, queue>>

(* metrics.record, complete, close. *)
Finish(w) ==
  /\ call[w].pc = "finish"
  /\ metrics' = Append(metrics, call[w].conn)
  /\ phase' = [phase EXCEPT ![call[w].conn] = "finished"]
  /\ call' = [call EXCEPT ![w] = Idle]
  /\ UNCHANGED <<around, disk, req, queue, reply>>

-----------------------------------------------------------------------------
(* The surroundings: clients may disconnect, and after a signal the main   *)
(* thread closes the queue once every parser is done.                      *)
Disconnect(c) ==
  /\ c \in setup.leavers \ gone
  /\ gone' = gone \cup {c}
  /\ UNCHANGED <<setup, closed, disk, books, req, queue, call, reply>>

Close ==
  /\ ~closed
  /\ closed' = TRUE
  /\ UNCHANGED <<setup, gone, disk, books, req, queue, call, reply>>

AllExited == \A w \in Workers : call[w].pc = "exited"

Terminated == AllExited /\ UNCHANGED fvars

WorkerStep(w) ==
  \/ NextDecision(w) \/ Exit(w)
  \/ ServeGet(w) \/ SelectLine(w) \/ Resize(w)
  \/ SendLine(w) \/ SendLineFails(w)
  \/ SendBreaks(w)
  \/ ServePut(w) \/ ServePutFails(w)
  \/ Drop(w) \/ Account(w) \/ Commit(w) \/ CommitFails(w) \/ Finish(w)

Next ==
  \/ \E c \in Conns : Admit(c) \/ Disconnect(c)
  \/ \E w \in Workers : WorkerStep(w)
  \/ Close
  \/ Terminated

Spec == Init /\ [][Next]_fvars

(* Workers keep running: a receive ends within its timeout, and a client   *)
(* that stays connected keeps reading what it is sent.                     *)
FairSpec == Spec /\ \A w \in Workers : WF_fvars(WorkerStep(w))

-----------------------------------------------------------------------------
(* What client c has received: its bytes, and the texts they come from.    *)
Received(c) == Bytes(reply[c].body)
Sources(c) == {reply[c].body[i][1] : i \in DOMAIN reply[c].body}

(* A download nobody disturbed is exact: one OK with the size, and then    *)
(* that many bytes of one text, in order, whatever the interleaving with   *)
(* other requests and however it was cut into rounds and packets; an       *)
(* upload of the same text over the file, as the load client does it, is   *)
(* no disturbance.                                                         *)
QuietGetIsExact ==
  \A c \in Gets \ (disturbed \cup gone) :
    phase[c] \in {"finished", "dropped"} =>
      /\ phase[c] = "finished"
      /\ reply[c].oks = <<req[c].total>> /\ ~reply[c].err
      /\ Received(c) = req[c].total
      /\ Cardinality(Sources(c)) <= 1
      /\ \A i \in DOMAIN reply[c].body :
           reply[c].body[i][2] = IF i = 1 THEN 0 ELSE reply[c].body[i - 1][3]

(* Between rounds the offset a request carries through the queue is what   *)
(* its client has been sent, even when the file changed under it; so no    *)
(* byte count is lost or sent twice at a preemption.                       *)
OffsetIsBytesSent ==
  \A i \in DOMAIN queue :
    LET c == queue[i]
    IN  c \in Gets \ gone => req[c].offset = Received(c)

(* The uploads of a name that were renamed to it, or are about to be told. *)
Renamed(n) ==
  {c \in DOMAIN setup.asks :
     /\ Ask(c).op = "PUT" /\ Ask(c).name = n
     /\ \/ phase[c] = "finished"
        \/ \E w \in Workers : call[w].pc = "finish" /\ call[w].conn = c}

(* What a name stands for is the text it had at the start, or all that one *)
(* upload handed to the disk, and that upload did not fail: also while     *)
(* others of the same name are being received, fail or are dropped, and    *)
(* over any number of rounds (server.cpp:235, main.cpp:232-238).           *)
CommittedWhole ==
  \A n \in Names : files[n] # Absent =>
    /\ files[n].ends = Lines[files[n].text]
    /\ \/ files[n].text = InitialFiles[n]
       \/ \E c \in Renamed(n) :
            \/ files[n].text = Ask(c).text
            \/ c \in torn /\ files[n].text \in Remains(Ask(c).text)

(* "Stage the upload so GET never observes a partially written file"       *)
(* (server.cpp:235): every byte a client is sent is of a text that was     *)
(* there at the start or of the whole of what some client uploaded.        *)
NoPartialFile ==
  \A g \in Gets : \A t \in Sources(g) :
    \/ t = InitialFiles[Ask(g).name]
    \/ \E c \in DOMAIN setup.asks \ Gets :
         Ask(c).name = Ask(g).name /\ t = Ask(c).text

(* At the end the books close: every admitted request was finished or      *)
(* dropped, the finished ones are in the metrics once each and none of     *)
(* them was told of an error, and no staging file is left but those whose  *)
(* rename failed (main.cpp:206-246).                                       *)
BooksClose ==
  /\ \A i, j \in DOMAIN metrics : metrics[i] = metrics[j] => i = j
  /\ ToSet(metrics) = {c \in Conns : phase[c] = "finished"}
  /\ \A c \in Conns : reply[c].err => phase[c] # "finished"
  /\ AllExited => \A c \in Conns :
       /\ phase[c] # "open"
       /\ staging[c] # Absent => c \in Unwritable

(* "SIGINT/SIGTERM: ... finish admitted requests (including RR/DRR         *)
(* requeues)" (README.md): after close every worker returns.               *)
DrainsAfterShutdown == closed ~> AllExited
=============================================================================
