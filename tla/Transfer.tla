------------------------------ MODULE Transfer ------------------------------
(***************************************************************************)
(* The life of one admitted request, round by round, as worker_thread of   *)
(* main.cpp drives it: Scheduler::next gives a budget, serve_get or        *)
(* serve_put moves bytes, Scheduler::account books them, and the request   *)
(* is requeued or finished.  The file a GET reads stays the same here;     *)
(* FileServer lets uploads replace it.                                     *)
(*                                                                         *)
(* A file is the set of the positions where its lines end: {3, 7} has two  *)
(* lines, of 3 and 4 bytes (newline included), and 7 bytes in all.         *)
(***************************************************************************)
EXTENDS Scheduler

CONSTANTS Files,       (* the files a GET may ask for                      *)
          PutSizes,    (* the byte counts a PUT header may declare         *)
          Leftovers,   (* how many body bytes may arrive with the header   *)
          Quanta       (* the values of --quantum                          *)

VARIABLES policy, quantum,  (* the server's flags, fixed                   *)
          op,               (* "GET" or "PUT"                              *)
          lines,            (* the file a GET reads                        *)
          total,            (* total_bytes                                 *)
          offset,           (* offset                                      *)
          rounds,           (* rounds                                      *)
          forfeited,        (* forfeited_bytes                             *)
          deficit,          (* deficit                                     *)
          a14,              (* a14_events                                  *)
          headed,           (* response_sent                               *)
          leftover,         (* pending_bytes.size()                        *)
          pended,           (* pending_offset                              *)
          wire,             (* body bytes taken off the socket, ever       *)
          staged,           (* which body byte was written where           *)
          oks,              (* "OK" lines sent to the client               *)
          phase             (* "queued", "done" or "failed"                *)

flags == <<policy, quantum, op, lines, total, leftover>>
tvars == <<policy, quantum, op, lines, total, offset, rounds, forfeited,
           deficit, a14, headed, leftover, pended, wire, staged, oks, phase>>

IsFile(f) ==
  f \subseteq Nat \ {0} /\ (f = {} \/ \E s \in f : \A e \in f : e <= s)

(* get_file_size. *)
IsSize(f, s) == IF f = {} THEN s = 0 ELSE s \in f /\ \A e \in f : e <= s

(***************************************************************************)
(* A file is at most half of Wrap long (st_size is a signed 64-bit count), *)
(* while a PUT header may declare any uint64_t.                            *)
(***************************************************************************)
ASSUME TransferAssumption ==
  /\ \A f \in Files : IsFile(f) /\ \A e \in f : e + e < Wrap
  /\ PutSizes \subseteq 0 .. (Wrap - 1)
  /\ Leftovers \subseteq Nat
  /\ Quanta \subseteq 0 .. (Wrap - 1)

Init ==
  /\ policy \in Policies
  /\ quantum \in Quanta
  /\ QuantumAllowed(policy, quantum)
  /\ \/ /\ op = "GET"
        /\ lines \in Files
        /\ total \in lines \cup {0}
        /\ IsSize(lines, total)
        /\ leftover = 0
     \/ /\ op = "PUT"
        /\ lines = {}
        /\ total \in PutSizes
        /\ leftover \in Leftovers
  /\ offset = 0
  /\ rounds = 0
  /\ forfeited = 0
  /\ deficit = 0
  /\ a14 = 0
  /\ headed = FALSE
  /\ pended = 0
  /\ wire = leftover
  /\ staged = [i \in 1 .. 0 |-> 0]
  /\ oks = 0
  /\ phase = "queued"

(* Scheduler::next: the deficit and the budget this round starts with.     *)
RoundDeficit == RaisedDeficit(policy, quantum, total, offset, deficit)

(* Variant: the budget ignores the new quantum.                            *)
RoundBudgetStale == Budget(policy, quantum, total, offset, deficit)
RoundBudget == Budget(policy, quantum, total, offset, RoundDeficit)

(***************************************************************************)
(* serve_get.  Fitting: the line ends the allowance reaches; Ahead: all    *)
(* that remain.  The selection loop takes every whole line that fits; if   *)
(* not even one does, RR takes that line alone (A14) and DRR nothing.      *)
(***************************************************************************)
Fitting(f, off, budget) == {e \in f : off < e /\ e <= off + budget}
Ahead(f, off) == {e \in f : off < e}

(* Variant: the allowance is used to the byte.                             *)
LinesSelectedSplit(f, off, budget, overrun, bytes) == bytes = budget

(* Variant: A14 is missing.                                                *)
LinesSelectedNoOverrun(f, off, budget, overrun, bytes) ==
  IF Fitting(f, off, budget) # {}
    THEN IsSize(Fitting(f, off, budget), off + bytes)
    ELSE bytes = 0

LinesSelected(f, off, budget, overrun, bytes) ==
  IF Fitting(f, off, budget) # {}
    THEN IsSize(Fitting(f, off, budget), off + bytes)
  ELSE IF overrun /\ Ahead(f, off) # {}
    THEN /\ off + bytes \in Ahead(f, off)
         /\ \A e \in Ahead(f, off) : off + bytes <= e
  ELSE bytes = 0

GetBytes(bytes) ==
  IF offset >= total \/ RoundBudget = 0 THEN bytes = 0
  ELSE IF RoundBudget >= total - offset THEN bytes = total - offset
  ELSE LinesSelected(lines, offset, RoundBudget, policy = "RR", bytes)

(***************************************************************************)
(* What worker_thread does with a successful round of either operation:    *)
(* account, should_requeue, the forfeit, requeue or finish.                *)
(***************************************************************************)
Book(bytes) ==
  LET counted == Counted(total, offset, bytes)
      again   == ShouldRequeue(total, offset + counted)
  IN  /\ rounds' = rounds + 1
      /\ offset' = offset + counted
      /\ deficit' = SpentDeficit(policy, RoundDeficit, counted)
      /\ forfeited' =
           forfeited + Forfeit(policy, op, again, RoundBudget, bytes)
      /\ phase' = IF again THEN "queued" ELSE "done"

GetRound ==
  /\ phase = "queued"
  /\ op = "GET"
  /\ \E bytes \in 0 .. total :
       /\ GetBytes(bytes)
       /\ Book(bytes)
       /\ a14' = IF bytes > RoundBudget THEN a14 + 1 ELSE a14
  /\ headed' = TRUE
  /\ oks' = IF headed THEN oks ELSE oks + 1
  /\ UNCHANGED <<flags, pended, wire, staged>>

(***************************************************************************)
(* serve_put: exactly to_receive bytes, the ones left over from the header *)
(* first, written at the request's offset.  worker_thread sends the first  *)
(* OK on a round that starts at offset 0, and the last one on finishing.   *)
(***************************************************************************)
ToReceive == Least(RoundBudget, Remaining(total, offset))
(* Variant: the bytes left over are not bounded.                           *)
FromLeftoverUnbounded == ToReceive
FromLeftover == Least(ToReceive, Remaining(leftover, pended))

(* Variant: pending_offset is ignored.                                     *)
WrittenLeftoverRestart(i) ==
  IF i <= offset THEN staged[i]
  ELSE IF i <= offset + FromLeftover THEN i - offset
  ELSE wire + (i - offset - FromLeftover)

Written(i) ==
  IF i <= offset THEN staged[i]
  ELSE IF i <= offset + FromLeftover THEN pended + (i - offset)
  ELSE wire + (i - offset - FromLeftover)

Staging == staged' = [i \in 1 .. (offset + ToReceive) |-> Written(i)]

PutRound ==
  /\ phase = "queued"
  /\ op = "PUT"
  /\ Staging
  /\ pended' = pended + FromLeftover
  /\ wire' = wire + (ToReceive - FromLeftover)
  /\ Book(ToReceive)
  /\ oks' = oks + (IF offset = 0 THEN 1 ELSE 0)
                + (IF phase' = "done" THEN 1 ELSE 0)
  /\ UNCHANGED <<flags, a14, headed>>

(***************************************************************************)
(* A round that fails (the peer is gone, the receive times out, a write    *)
(* reports an error): the staging file is removed and the request never    *)
(* comes back; its counters are dropped with it.  A PUT has had its first  *)
(* OK by then, a GET may fail before or after its header.                  *)
(***************************************************************************)
RoundFails ==
  /\ phase = "queued"
  /\ phase' = "failed"
  /\ staged' = [i \in 1 .. 0 |-> 0]
  /\ \/ op = "PUT" /\ oks' = oks + (IF offset = 0 THEN 1 ELSE 0)
     \/ op = "GET" /\ oks' \in {oks, IF headed THEN oks ELSE oks + 1}
  /\ UNCHANGED <<flags, offset, rounds, forfeited, deficit, a14, headed,
                 pended, wire>>

Ended == phase # "queued" /\ UNCHANGED tvars

Next == GetRound \/ PutRound \/ RoundFails \/ Ended

Spec == Init /\ [][Next]_tvars

-----------------------------------------------------------------------------
(* Every variable has its type, and no more bytes are counted than were    *)
(* declared.                                                               *)
TypeOK ==
  /\ policy \in Policies /\ quantum \in Quanta
  /\ op \in {"GET", "PUT"}
  /\ lines \in Files \cup {{}}
  /\ total \in 0 .. (Wrap - 1) /\ offset \in 0 .. total
  /\ rounds \in Nat /\ forfeited \in Nat /\ deficit \in Nat /\ a14 \in Nat
  /\ headed \in BOOLEAN
  /\ leftover \in Nat /\ pended \in 0 .. leftover /\ wire \in Nat
  /\ oks \in Nat
  /\ phase \in {"queued", "done", "failed"}

(* "Never split a GET line between scheduling rounds" (server.cpp:100):    *)
(* between rounds a GET stands at the start of a line, under every policy  *)
(* and also after an A14 overrun.                                          *)
WholeLines == op = "GET" => offset \in lines \cup {0}

(* A DRR GET that has had k rounds has been sent exactly the lines that    *)
(* end within its first k * Q bytes: the deficit carries all unused        *)
(* allowance forward, so no line waits longer and none goes earlier.       *)
DrrExact ==
  policy = "DRR" /\ op = "GET" =>
    \A e \in lines : e <= offset <=> e <= rounds * quantum

(* The uint64_t addition of get_budget (scheduling.cpp:111) never wraps,   *)
(* so a deficit never shrinks to nothing and no round gets a zero budget.  *)
DeficitNeverWraps ==
  policy = "DRR" /\ phase = "queued" => deficit + quantum < Wrap

(* An RR GET is served or charged for its whole allowance: bytes sent plus *)
(* bytes forfeited make k quanta after k unfinished rounds, and exceed     *)
(* that only through A14 overruns.                                         *)
RrLedger ==
  policy = "RR" /\ op = "GET" /\ phase = "queued" =>
    /\ rounds * quantum <= offset + forfeited
    /\ a14 = 0 <=> rounds * quantum = offset + forfeited

(* No request stalls, however long its lines: an RR round moves at least  *)
(* one byte (what A14 is for), a DRR request is requeued only while its    *)
(* quanta do not make up its size, and the other policies never requeue.   *)
(* So every request has a bounded number of rounds.                        *)
RoundsBounded ==
  phase = "queued" /\ rounds > 0 =>
    CASE policy = "RR"  -> rounds <= offset
      [] policy = "DRR" -> rounds * quantum < total
      [] OTHER          -> FALSE

(* An upload receives exactly its allowance in every round but the last    *)
(* (server.cpp:272), and the staging file is given the body in order,      *)
(* however the bytes were split between the header's packet and the        *)
(* socket, and between rounds (server.cpp:285).  That the disk may lose    *)
(* what the file was given is FileServer's Flushes.                        *)
PutExact ==
  op = "PUT" =>
    /\ policy \in {"RR", "DRR"} => offset = Least(total, rounds * quantum)
    /\ phase # "failed" => staged = [i \in 1 .. offset |-> i]

(* The client gets one OK for a GET and two for a PUT, though the first OK *)
(* of a PUT is tied to offset = 0 and not to a flag: no PUT is requeued    *)
(* before its first byte.                                                  *)
RepliesExact ==
  /\ phase = "queued" => oks = IF rounds = 0 THEN 0 ELSE 1
  /\ phase = "done" => oks = IF op = "GET" THEN 1 ELSE 2
=============================================================================
