----------------------------- MODULE MCSession ------------------------------
(* Small instances of Session: every command, uploads that are empty, fill *)
(* the window or exceed it, and headers up to and beyond the limit.        *)
EXTENDS Session

Call(op, size, header, eager, more) ==
  [op |-> op, size |-> size, header |-> header, eager |-> eager,
   more |-> more, quantum |-> 0]
Plain(op, size, header) == Call(op, size, header, FALSE, 0)

(* Under RR the file may shrink to less than has been sent, with more than *)
(* the quantum to go.                                                      *)
RrGet == [Plain("GET", 0, 2) EXCEPT !.quantum = 1]

MCCalls ==
  {Plain("GET", 0, 2), RrGet, Plain("HEALTH", 0, 2), Plain("BAD", 0, 8),
   Plain("PUT", 0, 3), Plain("PUT", 5, 3)}
    \cup {Call("PUT", n, 2, TRUE, m) : n \in {0, 5}, m \in {0, 1}}

GetCall == {Plain("GET", 0, 2)}
EmptyPutCall == {Plain("PUT", 0, 2)}
=============================================================================
