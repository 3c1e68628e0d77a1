---------------------------- MODULE MCFileServer ----------------------------
(* Small instances of FileServer.  The directory holds a.txt with the text *)
(* "old"; uploads of that name shorten it, or bring the same text again.   *)
EXTENDS FileServer

Get(n) == [op |-> "GET", name |-> n]
Put(n, t) == [op |-> "PUT", name |-> n, text |-> t]
Setup(p, q, asks, leavers) ==
  [policy |-> p, quantum |-> q, asks |-> asks, leavers |-> leavers]

MCLines == [old |-> {1, 2, 5}, new |-> {1, 2, 4}, stub |-> {1}, empty |-> {}]
MCFiles == [n \in {"a", "b"} |-> IF n = "a" THEN "old" ELSE Absent]

(* A download beside an upload one byte shorter and one of the same text.  *)
Rewritten == <<Get("a"), Put("a", "new"), Put("a", "old")>>

(* Two downloads of a file that shrinks by a byte.                         *)
Shared == <<Get("a"), Put("a", "new"), Get("a")>>

(* An empty upload among others.                                           *)
Mixed == <<Get("a"), Put("b", "empty"), Put("a", "old")>>

(* A download whose file shrinks to less than it has been sent.            *)
Shrunk == <<Get("a"), Put("a", "stub")>>

MCSetups ==
  {Setup("DRR", 2, Rewritten, {}), Setup("DRR", 1, Shrunk, {}),
   Setup("RR", 2, Shared, {}), Setup("SJF", 0, Mixed, {1, 3})}

(* The same under RR, whose allowance never grows.                         *)
StallSetups == {Setup("RR", 1, Shrunk, {})}

(* An upload in two rounds, and the download of what it left.              *)
FullSetups == {Setup("RR", 4, <<Put("b", "old"), Get("b")>>, {})}
=============================================================================
