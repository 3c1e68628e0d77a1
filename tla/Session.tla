------------------------------ MODULE Session -------------------------------
(***************************************************************************)
(* One connection seen from both ends, byte by byte: the client's          *)
(* get_file, put_file and health (client.cpp) against read_header_line,    *)
(* the parser and the worker that serves the request (socket.cpp,          *)
(* main.cpp, server.cpp).  TCP is a bounded stream in each direction that  *)
(* either end reads in pieces of any size.                                 *)
(*                                                                         *)
(* A byte is a pair <<what, which>>.  A line is a content byte, repeated   *)
(* up to its length, and the newline.  A line of a file is one byte here,  *)
(* and of the rounds only the choice of lines of a download is kept:       *)
(* between two bytes the worker may take as long as it likes.  Transfer    *)
(* and FileServer have the rest.                                           *)
(***************************************************************************)
EXTENDS Integers, SequencesExt

CONSTANTS Calls,      (* what the client may be asked to do                *)
          Cap,        (* what a socket buffers in one direction            *)
          Buf,        (* sizeof(buffer)                                    *)
          LineLimit,  (* 8192                                              *)
          Timeout,    (* timeout_ms                                        *)
          Milli,      (* ticks of the steady clock per millisecond         *)
          FileSize,   (* of the file a GET asks for                        *)
          NewSize,    (* of the file that may replace it                   *)
          None

(* A command, its header with something before the newline, and the        *)
(* server's quantum under RR; 0 is FCFS, SJF or DRR, whose budget comes to *)
(* cover all that remains.                                                 *)
IsCall(k) ==
  /\ k.op \in {"GET", "PUT", "HEALTH", "BAD"} /\ k.eager \in BOOLEAN
  /\ {k.size, k.more, k.quantum} \subseteq Nat
  /\ k.header \in Nat /\ k.header >= 2

(* None is no exit code and no contents of a file.                         *)
ASSUME SessionAssumption ==
  /\ {Buf, LineLimit, Timeout, Milli} \subseteq Nat \ {0}
  /\ LineLimit >= 2                  (* a status line fits                 *)
  /\ Cap \in Nat /\ Cap >= 4         (* two status lines fit               *)
  /\ {FileSize, NewSize} \subseteq Nat
  /\ None \notin {0, 1, <<<<"torn", 0>>>>}
  /\ \A k \in Calls : IsCall(k) /\ None # [i \in 1 .. k.size |-> <<"data", i>>]

VARIABLES call,     (* the client's command, fixed                         *)
          c,        (* the client                                          *)
          s,        (* the server's thread that has the connection         *)
          up, down, (* bytes on the way to the server, to the client       *)
          open,     (* the ends whose socket is open, and the link         *)
          version,  (* of the file a GET reads                             *)
          stored    (* what rename has put in place, or None; Torn is data *)
                    (* that has lost bytes of a round                      *)

svars == <<call, c, s, up, down, open, version, stored>>

Newline == <<"\n", 0>>
OkLine(n) == <<<<"OK", n>>, Newline>>
ErrLine == <<<<"ERR", 0>>, Newline>>
Text(v, n) == [i \in 1 .. n |-> <<v, i>>]
Torn == <<<<"torn", 0>>>>

(* What the client has to say.  Header and body of an eager client leave   *)
(* together, perhaps with more; client.cpp waits for the first OK.         *)
HeaderLine ==
  [i \in 1 .. call.header |->
     IF i = call.header THEN Newline ELSE <<call.op, call.size>>]
Data == Text("data", IF call.op = "PUT" THEN call.size ELSE 0)
Eagerly == IF call.eager THEN Data \o Text("more", call.more) ELSE <<>>

Taken(stream, k) == SubSeq(stream, 1, k)
Rest(stream, k) == SubSeq(stream, k + 1, Len(stream))
Pieces(most, stream) == 1 .. Min({most, Len(stream)})

(* The loop that both ends scan a chunk with: the line up to its newline,  *)
(* and what the chunk holds beyond it.                                     *)
LineEnds(chunk) == {i \in DOMAIN chunk : chunk[i] = Newline}
Upto(chunk) ==
  IF LineEnds(chunk) = {} THEN chunk ELSE Taken(chunk, Min(LineEnds(chunk)))

(* Variant: the newline stays with what follows it.                        *)
BeyondWithNewline(chunk) ==
  Rest(chunk, Len(Upto(chunk)) - Cardinality(LineEnds(Upto(chunk))))

Beyond(chunk) == Rest(chunk, Len(Upto(chunk)))
IsLine(line) == line # <<>> /\ Last(line) = Newline

Init ==
  /\ call \in Calls
  /\ c = [pc |-> "status", ret |-> None, line |-> <<>>, got |-> <<>>,
          need |-> 0, out |-> HeaderLine \o Eagerly]
  /\ s = [pc |-> "check", now |-> 0, until |-> 0, line |-> <<>>,
          left |-> <<>>, total |-> 0, sent |-> 0, round |-> 0,
          staged |-> <<>>, out |-> <<>>]
  /\ up = <<>> /\ down = <<>>
  /\ open = {"client", "server", "link"}
  /\ version = "old"
  /\ stored = None

-----------------------------------------------------------------------------
(* The client.  A step that ends a command closes the socket.              *)
Returned(r) == [c EXCEPT !.pc = "done", !.ret = r, !.out = <<>>]
Closing == open' = IF c'.pc = "done" THEN open \ {"client"} ELSE open

(* send_all, one send at a time. *)
ClientSend(k) ==
  /\ "server" \in open
  /\ k \in Pieces(Cap - Len(up), c.out)
  /\ up' = up \o Taken(c.out, k)
  /\ c' = [c EXCEPT !.out = Rest(@, k)]
  /\ UNCHANGED <<call, s, down, open, version, stored>>

(* The server has closed: send fails, or it succeeds and the reset that    *)
(* answers it may destroy what has not been read.                          *)
ClientSendLate ==
  /\ "server" \notin open
  /\ c.out # <<>>
  /\ c' \in {Returned(1), [c EXCEPT !.out = <<>>]}
  /\ down' \in {down, <<>>}
  /\ Closing
  /\ UNCHANGED <<call, s, up, version, stored>>

(* recv_exact: the bytes that came with the status line count first.       *)
Receiving(size, left) ==
  LET got == Taken(left, Min({size, Len(left)}))
  IN  [c EXCEPT !.pc = IF Len(got) = size THEN "done" ELSE "body",
                !.ret = IF Len(got) = size THEN 0 ELSE None,
                !.got = got, !.need = size]

(* Variant: the second OK is expected to repeat the size.                  *)
FinalOkWithSize(line) == line = OkLine(call.size)

FinalOk(line) == line = OkLine(0)

AfterFirstOk == IF call.eager THEN <<>> ELSE Data

(* What each command does with a status line.  put_file has sent its data  *)
(* by the second one, and drops what came with the first.                  *)
Answered(line, left) ==
  IF call.op = "HEALTH" THEN Returned(0)
  ELSE IF c.pc = "final" THEN Returned(IF FinalOk(line) THEN 0 ELSE 1)
  ELSE IF line[1][1] # "OK" THEN Returned(1)
  ELSE IF call.op = "PUT"
    THEN [c EXCEPT !.pc = "final", !.line = <<>>, !.out = AfterFirstOk]
  ELSE Receiving(line[1][2], left)

(* read_status_line, one recv at a time. *)
ClientReadLine(k) ==
  LET line == c.line \o Upto(Taken(down, k))
  IN  /\ c.pc \in {"status", "final"} /\ c.out = <<>>
      /\ k \in Pieces(Buf, down)
      /\ down' = Rest(down, k)
      /\ c' = IF IsLine(line) THEN Answered(line, Beyond(Taken(down, k)))
              ELSE IF Len(line) < LineLimit THEN [c EXCEPT !.line = line]
              ELSE Returned(1)
      /\ Closing
      /\ UNCHANGED <<call, s, up, version, stored>>

(* recv_exact, one recv at a time; got is what the output file was given,  *)
(* whose close is not checked either.                                      *)
ClientReadBody(k) ==
  /\ c.pc = "body"
  /\ k \in Pieces(Min({Buf, c.need - Len(c.got)}), down)
  /\ down' = Rest(down, k)
  /\ c' = LET got == c.got \o Taken(down, k)
          IN  IF Len(got) = c.need THEN [Returned(0) EXCEPT !.got = got]
              ELSE [c EXCEPT !.got = got]
  /\ Closing
  /\ UNCHANGED <<call, s, up, version, stored>>

(* The output file cannot be created, or does not take what was received. *)
ClientDiskFails(k) ==
  /\ call.op = "GET" /\ c.out = <<>>
  /\ k \in Pieces(Buf, down)
  /\ \/ c.pc = "body"
     \/ c.pc = "status" /\ IsLine(c.line \o Upto(Taken(down, k)))
  /\ down' = Rest(down, k)
  /\ c' = Returned(1)
  /\ Closing
  /\ UNCHANGED <<call, s, up, version, stored>>

(* Variant: only n < 0 is an error.                                        *)
EofRetried == c

EofFails == Returned(1)

(* recv returns nothing more: the server has closed. *)
ClientEof ==
  /\ c.pc # "done" /\ c.out = <<>>
  /\ down = <<>> /\ "server" \notin open
  /\ c' = EofFails
  /\ Closing
  /\ UNCHANGED <<call, s, up, down, version, stored>>

(* The client is killed, and what it has sent may be lost with it. *)
ClientDies ==
  /\ c.pc # "done"
  /\ c' = Returned(None)
  /\ up' \in {up, <<>>}
  /\ Closing
  /\ UNCHANGED <<call, s, down, version, stored>>

(* The connection breaks: send or recv fails at the client, and what it    *)
(* has sent may or may not arrive before the server finds out.             *)
ConnectionLost ==
  /\ c.pc # "done"
  /\ c' = Returned(1)
  /\ up' \in {up, <<>>}
  /\ open' = open \ {"client", "link"}
  /\ UNCHANGED <<call, s, down, version, stored>>

ClientStep ==
  \/ \E k \in 1 .. Cap : ClientSend(k)
  \/ \E k \in 1 .. Buf : ClientReadLine(k) \/ ClientReadBody(k)
  \/ ClientSendLate \/ ClientEof

-----------------------------------------------------------------------------
(* read_header_line, in the parser thread. *)
Deadline == Timeout * Milli

(* Variant: every recv waits for the whole timeout.                        *)
WaitWhole == Timeout * Milli

(* remaining_ms: truncated to milliseconds, and at least one.              *)
Wait == Max({(Deadline - s.now) \div Milli, 1}) * Milli

(* Variant: the limit is not looked at.                                    *)
LineMayGrowAlways(line) == TRUE

LineMayGrow(line) == Len(line) < LineLimit

Reject == s' = [s EXCEPT !.pc = "closing", !.out = ErrLine]

HeaderCheck ==
  /\ s.pc = "check"
  /\ IF LineMayGrow(s.line) /\ s.now < Deadline
       THEN s' = [s EXCEPT !.pc = "recv", !.until = s.now + Wait]
       ELSE Reject
  /\ UNCHANGED <<call, c, up, down, open, version, stored>>

HeaderRecv(k) ==
  LET line == s.line \o Upto(Taken(up, k))
  IN  /\ s.pc = "recv"
      /\ k \in Pieces(Buf, up)
      /\ up' = Rest(up, k)
      /\ s' = [s EXCEPT !.line = line,
                        !.left = Beyond(Taken(up, k)),
                        !.pc = IF IsLine(line) THEN "parse" ELSE "check"]
      /\ UNCHANGED <<call, c, down, open, version, stored>>

(* Variant: recv without select.                                           *)
TimedOutNever == FALSE

TimedOut == s.now = s.until

(* select runs into its timeout, or recv into the end of the stream.       *)
HeaderSilence ==
  /\ s.pc = "recv" /\ up = <<>>
  /\ TimedOut \/ "client" \notin open
  /\ Reject
  /\ UNCHANGED <<call, c, up, down, open, version, stored>>

(* Time passes while the thread sleeps in select with nothing to read.     *)
Tick ==
  /\ s.pc = "recv" /\ up = <<>>
  /\ s.now < s.until
  /\ s' = [s EXCEPT !.now = @ + 1]
  /\ UNCHANGED <<call, c, up, down, open, version, stored>>

(* Of the file that a GET names, now.                                      *)
Size == IF version = "old" THEN FileSize ELSE NewSize

(* parser_thread and parse_request_header by outcome, then the first thing *)
(* the worker does with the request: its OK line.                          *)
Dispatch ==
  LET ask == s.line[1]
  IN  /\ s.pc = "parse"
      /\ \/ ask[1] = "BAD" /\ Reject
         \/ /\ ask[1] = "HEALTH"
            /\ s' = [s EXCEPT !.pc = "closing", !.out = OkLine(0)]
         \/ /\ ask[1] = "GET"
            /\ s' = [s EXCEPT !.pc = "body", !.total = Size,
                              !.out = OkLine(Size)]
         \/ /\ ask[1] = "PUT"
            /\ s' = [s EXCEPT !.pc = "store", !.total = ask[2],
                              !.out = OkLine(0)]
      /\ UNCHANGED <<call, c, up, down, open, version, stored>>

-----------------------------------------------------------------------------
(* The worker.  Whatever is in out goes first (send_all). *)
ServerSend(k) ==
  /\ "client" \in open
  /\ k \in Pieces(Cap - Len(down), s.out)
  /\ down' = down \o Taken(s.out, k)
  /\ s' = [s EXCEPT !.out = Rest(@, k)]
  /\ UNCHANGED <<call, c, up, open, version, stored>>

(* The client has closed: send fails or not, and only the sending of file  *)
(* data minds.                                                             *)
ServerSendLate ==
  /\ "client" \notin open
  /\ s.out # <<>>
  /\ s' \in {[s EXCEPT !.out = <<>>],
             [s EXCEPT !.out = <<>>,
                       !.pc = IF s.sent > 0 THEN "closing" ELSE @]}
  /\ UNCHANGED <<call, c, up, down, open, version, stored>>

Free(pc) == s.pc = pc /\ s.out = <<>>

(* serve_get, first half: all that remains when the budget covers it, or   *)
(* the complete lines that the file still has and the quantum allows.      *)
Selected ==
  LET remaining == s.total - s.sent
      budget == IF call.quantum = 0 THEN remaining ELSE call.quantum
  IN  IF budget >= remaining THEN remaining
      ELSE Min({budget, Max({Size - s.sent, 0})})

(* A round of no bytes is a success: the request is queued again.          *)
SelectLines ==
  /\ Free("body")
  /\ s.round = 0 /\ s.sent < s.total
  /\ s' = [s EXCEPT !.round = Selected]
  /\ UNCHANGED <<call, c, up, down, open, version, stored>>

(* Second half: the file is opened by name for every line of the round,    *)
(* and a line that is not there any more is an error.                      *)
SendFileLine ==
  /\ Free("body")
  /\ \/ s.sent = s.total /\ s' = [s EXCEPT !.pc = "closing"]
     \/ /\ s.sent < s.total /\ s.round > 0
        /\ IF s.sent < Size
             THEN s' = [s EXCEPT !.sent = @ + 1, !.round = @ - 1,
                                 !.out = <<<<version, s.sent + 1>>>>]
             ELSE Reject
  /\ UNCHANGED <<call, c, up, down, open, version, stored>>

(* Another connection's upload of the same name is committed.              *)
Replace ==
  /\ version = "old"
  /\ version' = "new"
  /\ UNCHANGED <<call, c, s, up, down, open, stored>>

(* pending_bytes, as far as the upload goes. *)
Pending == Taken(s.left, Min({s.total, Len(s.left)}))

(* serve_put: first the bytes that came with the header ...                *)
StorePending ==
  /\ Free("store") /\ s.left # <<>>
  /\ s' = [s EXCEPT !.staged = Pending, !.left = <<>>]
  /\ UNCHANGED <<call, c, up, down, open, version, stored>>

(* ... then no more than what is missing from the socket.                  *)
StoreRecv(k) ==
  /\ Free("store") /\ s.left = <<>>
  /\ k \in Pieces(Min({Buf, s.total - Len(s.staged)}), up)
  /\ s' = [s EXCEPT !.staged = @ \o Taken(up, k)]
  /\ up' = Rest(up, k)
  /\ UNCHANGED <<call, c, down, open, version, stored>>

(* End of stream, five seconds of silence, or an open, seek or write that  *)
(* reports an error: an error line, except for an empty upload.            *)
StoreFails ==
  /\ Free("store")
  /\ s' = [s EXCEPT !.pc = "closing",
                    !.out = IF s.total = 0 THEN <<>> ELSE ErrLine]
  /\ UNCHANGED <<call, c, up, down, open, version, stored>>

(* rename, then the last OK; or an error. *)
Commit ==
  /\ Free("store")
  /\ Len(s.staged) = s.total
  /\ stored' = s.staged
  /\ s' = [s EXCEPT !.pc = "closing", !.out = OkLine(0)]
  /\ UNCHANGED <<call, c, up, down, open, version>>

(* Bytes that were still in the fstream's buffer could not be written when *)
(* a round closed it, which nobody looks at: the rest is put in place.     *)
CommitTorn ==
  /\ Free("store")
  /\ Len(s.staged) = s.total /\ s.total > 0
  /\ stored' = Torn
  /\ s' = [s EXCEPT !.pc = "closing", !.out = OkLine(0)]
  /\ UNCHANGED <<call, c, up, down, open, version>>

CommitFails ==
  /\ Free("store")
  /\ Len(s.staged) = s.total
  /\ Reject
  /\ UNCHANGED <<call, c, up, down, open, version, stored>>

(* close; with unread bytes it is a reset, which may overtake the answer.  *)
ServerClose ==
  /\ Free("closing")
  /\ s' = [s EXCEPT !.pc = "closed"]
  /\ open' = open \ {"server"}
  /\ down' \in IF up = <<>> THEN {down} ELSE {down, <<>>}
  /\ UNCHANGED <<call, c, up, version, stored>>

ServerStep ==
  \/ \E k \in 1 .. Cap : ServerSend(k)
  \/ \E k \in 1 .. Buf : HeaderRecv(k) \/ StoreRecv(k)
  \/ HeaderCheck \/ HeaderSilence \/ Tick \/ Dispatch
  \/ ServerSendLate \/ SelectLines \/ SendFileLine
  \/ StorePending \/ StoreFails \/ Commit \/ CommitTorn \/ CommitFails
  \/ ServerClose

Ended == c.pc = "done" /\ s.pc = "closed"

Terminated == Ended /\ UNCHANGED svars

Next ==
  \/ ClientStep \/ ClientDies \/ ConnectionLost
  \/ \E k \in 1 .. Buf : ClientDiskFails(k)
  \/ ServerStep \/ Replace \/ Terminated

Spec == Init /\ [][Next]_svars

(* The server's threads run and its clock goes on.  Of the client nothing  *)
(* is assumed: it may stop reading or writing and stay connected.          *)
FairSpec == Spec /\ WF_svars(ServerStep)

-----------------------------------------------------------------------------
(* Nothing but the whole data is ever put in place, also when the client   *)
(* dies, falls silent, or sends data and header in one piece (pending      *)
(* bytes, server.cpp:285), unless bytes were lost when a round closed the  *)
(* staging file (server.cpp:360).  And the exit code of put tells what     *)
(* happened: 0 only when something is in place, however header, data and   *)
(* answers were cut into pieces (client.cpp:264); 1, for a non-empty file, *)
(* a client that waits for the first OK and a connection that holds, only  *)
(* when nothing is.                                                        *)
PutExitHonest ==
  /\ stored \in {None, Data, Torn}
  /\ call.op = "PUT" =>
       /\ c.ret = 0 => stored # None
       /\ ~call.eager /\ call.size > 0 /\ "link" \in open /\ c.ret = 1 =>
            stored = None

(* get_file returns 0 only with the file in full when nobody replaced it,  *)
(* though the status line and the data come in arbitrary pieces            *)
(* (client.cpp:73, client.cpp:92).                                         *)
QuietGetIsFile ==
  call.op = "GET" /\ c.ret = 0 /\ version = "old" =>
    c.got = Text("old", FileSize)

(* "Overall deadline": a client that sends its header a byte at a time     *)
(* cannot hold a parser for longer than the timeout and the millisecond    *)
(* that remaining_ms is rounded up to (socket.cpp:107, 119).               *)
HeaderDeadline == s.now < Deadline + Milli

(* Nor can a line without end make the buffer grow: the limit is looked at *)
(* between two recv calls, so a line exceeds it by less than a buffer      *)
(* (socket.cpp:110).                                                       *)
HeaderBounded == Len(s.line) < LineLimit + Buf

(* An RR download that selects no lines: the file has been replaced by one *)
(* that ends before the offset, and more than a quantum remains.           *)
Stalled ==
  /\ Free("body") /\ s.round = 0
  /\ s.sent < s.total /\ Selected = 0

(* A connection is let go by the server, whatever its client does or omits *)
(* to do, unless the client stays connected and stops reading with a full  *)
(* window before it: send (socket.cpp:158) is the one call of the server   *)
(* without a timeout.  The other way to hold it is a download that stalls  *)
(* (server.cpp:113), and only RR has that.                                 *)
HeldOnlyByFullWindow ==
  \/ <>("server" \notin open)
  \/ <>[](Len(down) = Cap /\ "client" \in open)
  \/ call.op = "GET" /\ call.quantum > 0 /\ <>[](version = "new" /\ Stalled)

(* With a client that keeps going as client.cpp does, both ends finish:    *)
(* they never wait for each other, unless the download stalls.             *)
BothEnd == WF_svars(ClientStep) => <>Ended \/ <>[]Stalled

(* "get downloads <name> into the current directory under that name"       *)
(* (README.md:58): when get_file returns 0, what it wrote is a version of  *)
(* that file.                                                              *)
GetSuccessIsFile ==
  call.op = "GET" /\ c.ret = 0 =>
    c.got \in {Text("old", FileSize), Text("new", NewSize)}

(* "PUT <name> <bytes> -> OK 0 -> body -> OK 0" (README.md:66): the client *)
(* that gets both answers has succeeded, so put_file returns 1 on a        *)
(* connection that holds only when the upload was not stored.              *)
PutFailureMeansNotStored ==
  call.op = "PUT" /\ ~call.eager /\ "link" \in open /\ c.ret = 1 =>
    stored = None
=============================================================================
