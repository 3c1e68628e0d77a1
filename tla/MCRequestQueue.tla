--------------------------- MODULE MCRequestQueue ---------------------------
(* Small instances of RequestQueue.  Requests are numbered in order of     *)
(* arrival; MCBytes gives each a declared size, and MCBetter is the        *)
(* comparison of scheduling.cpp (size, then arrival).                      *)
EXTENDS RequestQueue

MCBytes == <<3, 1, 3>>

MCBetter(a, b) ==
  IF MCBytes[a] # MCBytes[b] THEN MCBytes[a] < MCBytes[b] ELSE a < b
=============================================================================
