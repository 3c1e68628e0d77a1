------------------------------- MODULE MCLoad -------------------------------
(* A load of three requests by two threads, and command lines that are     *)
(* refused or are one Session.                                             *)
EXTENDS Load

Cmd(c, n, r) == [command |-> c, positional |-> n, requests |-> r]
MCCommands ==
  {Cmd("load", 2, 3), Cmd("load", 2, 0), Cmd("load", 1, 1),
   Cmd("load", 2, None), Cmd("get", 2, None), Cmd("get", 2, 1),
   Cmd("put", 3, None), Cmd("health", 1, None), Cmd("other", 2, None)}

Entry(name, regular, hidden) ==
  [name |-> name, regular |-> regular, hidden |-> hidden]
MCDirectory ==
  {Entry(2, TRUE, FALSE), Entry(1, TRUE, FALSE), Entry(0, TRUE, TRUE),
   Entry(3, FALSE, FALSE)}

(* The threads are interchangeable, and no liveness is checked.            *)
MCSymmetry == Permutations(Threads)
=============================================================================
