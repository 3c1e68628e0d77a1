---------------------------- MODULE ConfigMeaning ---------------------------
(***************************************************************************)
(* What a configuration file means, and what is promised of the parser in  *)
(* its terms.  The meaning is recursive, so this is for TLC only.          *)
(***************************************************************************)
EXTENDS ConfigFile

(* What a text means, by splitting it at the commas outside its brackets   *)
(* instead of reading it from left to right.                               *)
Depth(ts, i) ==
  Cardinality({j \in 1 .. i - 1 : ts[j].k \in {"{", "["}})
  - Cardinality({j \in 1 .. i - 1 : ts[j].k \in {"}", "]"}})

Split(ts) ==
  LET cuts == {0, Len(ts) + 1}
              \cup {i \in DOMAIN ts : ts[i].k = "," /\ Depth(ts, i) = 0}
      at == SetToSortSeq(cuts, <)
  IN  [i \in 1 .. Len(at) - 1 |-> SubSeq(ts, at[i] + 1, at[i + 1] - 1)]

RECURSIVE Meaning(_)
Meaning(ts) ==
  LET inner == SubSeq(ts, 2, Len(ts) - 1)
      parts == IF inner = << >> THEN << >> ELSE Split(inner)
      Of(i) == Meaning(SubSeq(parts[i], 3, Len(parts[i])))
      Key(i) == Unescaped(parts[i][1].s)
      elements == [i \in DOMAIN parts |-> Meaning(parts[i])]
  IN  CASE Len(ts) = 1 /\ IsScalar(ts[1]) -> Scalar(ts[1])
        [] Len(ts) > 1 /\ ts[1].k = "{" /\ Last(ts).k = "}" /\
           \A i \in DOMAIN parts :
             /\ Len(parts[i]) > 2 /\ parts[i][1].k = "string"
             /\ parts[i][2].k = ":" /\ Of(i) # None ->
           [Json("object") EXCEPT !.members =
              [key \in {Key(i) : i \in DOMAIN parts} |->
                 Of(Min({i \in DOMAIN parts : Key(i) = key}))]]
        [] Len(ts) > 1 /\ ts[1].k = "[" /\ Last(ts).k = "]" /\
           \A i \in DOMAIN parts : elements[i] # None ->
           [Json("array") EXCEPT !.array = elements]
        [] OTHER -> None

(* The parser reads exactly the texts that have a meaning, and returns it: *)
(* no trailing comma, nothing after the value, no bracket left open or     *)
(* closed by the other kind, at any depth (config.cpp:46-177); and of two  *)
(* members with one name the first counts (config.cpp:140).                *)
ParserExact ==
  CASE json.pc \in {"parsed", "loaded"} -> json.value = Meaning(text)
    [] json.pc = "malformed"            -> Meaning(text) = None
    [] OTHER                            -> TRUE
=============================================================================
