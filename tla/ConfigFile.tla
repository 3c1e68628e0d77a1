---------------------------- MODULE ConfigFile ------------------------------
(***************************************************************************)
(* config.cpp: the recursive-descent parser, with its call stack explicit, *)
(* and the checks of load_config on the value it returns.                  *)
(*                                                                         *)
(* A file is a sequence of tokens.  Characters are left out: what          *)
(* parse_string, parse_number, parse_bool and parse_null cannot read is a  *)
(* token of its own, and white space is gone.  Integers keep two widths:   *)
(* long long where they are read, int where they are stored.               *)
(***************************************************************************)
EXTENDS Integers, SequencesExt

CONSTANTS IntBits,   (* of int                                             *)
          LongBits,  (* of long long                                       *)
          MaxPort,   (* 65535                                              *)
          None

(* The members that load_config looks up. *)
Keys == {"server", "load_balancer", "ip", "port", "server_threads",
         "client_threads", "health_interval_ms", "backends"}

ASSUME ConfigAssumption ==
  /\ IntBits \in Nat \ {0} /\ LongBits \in Nat \ {0}
  /\ 2 ^ (IntBits - 1) \in Nat \ {0} /\ 2 ^ IntBits = 2 * 2 ^ (IntBits - 1)
  /\ MaxPort \in 1 .. 2 ^ (IntBits - 1) - 1
  /\ None \notin Keys

VARIABLES text,    (* the file                                             *)
          json,    (* the parser: pc, pos, stack of open values, value     *)
          config,  (* what load_config returns, or None                    *)
          blamed   (* what its exception says, or None                     *)

cvars == <<text, json, config, blamed>>

Signed(bits) == -(2 ^ (bits - 1)) .. 2 ^ (bits - 1) - 1

(* Tokens. *)
AnyToken == [k : STRING \ {"end"}, s : STRING, n : Int]
Sign(k) == [k |-> k, s |-> "", n |-> 0]
Str(s) == [k |-> "string", s |-> s, n |-> 0]
Num(n) == [k |-> "int", s |-> "", n |-> n]
EndOfText == Sign("end")

(* Values; a container is its members by name or its elements. *)
Json(type) == [type |-> type, n |-> 0, s |-> "", members |-> << >>,
               array |-> << >>]

(* A \u escape becomes a question mark, whatever it names. *)
Unescaped(s) == IF s = "\\u" THEN "?" ELSE s

(* parse_string, parse_number, parse_bool and parse_null. *)
IsScalar(t) ==
  \/ t.k \in {"string", "real", "word"}
  \/ t.k = "int" /\ t.n \in Signed(LongBits)
Scalar(t) == [Json(t.k) EXCEPT !.n = t.n, !.s = Unescaped(t.s)]

Opening == [k \in {"{", "["} |-> IF k = "{" THEN "}" ELSE "]"]
OpenType == [k \in {"{", "["} |-> IF k = "{" THEN "object" ELSE "array"]

-----------------------------------------------------------------------------
(* The parser. *)
Reading == [pc |-> "value", pos |-> 1, stack |-> << >>, value |-> None]

Token(i) == IF i \in DOMAIN text THEN text[i] ELSE EndOfText
Tok == Token(json.pos)
Fail == json' = [json EXCEPT !.pc = "malformed"]
Same == UNCHANGED <<text, config, blamed>>

(* emplace keeps the first of two equal keys. *)
Emplace(map, key, v) ==
  [k \in DOMAIN map \cup {key} |-> IF k \in DOMAIN map THEN map[k] ELSE v]

Absorbed(frame, v) ==
  IF frame.type = "object"
    THEN [frame EXCEPT !.members = Emplace(@, frame.s, v)]
    ELSE [frame EXCEPT !.array = Append(@, v)]

(* A value is complete: back to the loop of the container it is in. *)
Returned(v, stack, used) ==
  json' = IF stack = << >>
            THEN [pc |-> "end", pos |-> json.pos + used, stack |-> stack,
                  value |-> v]
            ELSE [pc |-> "more", pos |-> json.pos + used, value |-> None,
                  stack |-> Front(stack) \o <<Absorbed(Last(stack), v)>>]

ParseScalar ==
  /\ json.pc = "value"
  /\ Tok.k \notin DOMAIN Opening
  /\ IF IsScalar(Tok) THEN Returned(Scalar(Tok), json.stack, 1) ELSE Fail
  /\ Same

(* parse_object and parse_array up to their loop. *)
ParseOpen ==
  /\ json.pc = "value"
  /\ Tok.k \in DOMAIN Opening
  /\ LET new == Json(OpenType[Tok.k])
     IN  IF Token(json.pos + 1).k = Opening[Tok.k]
           THEN Returned(new, json.stack, 2)
           ELSE json' = [json EXCEPT !.pos = @ + 1,
                                     !.pc = IF Tok.k = "{" THEN "key" ELSE @,
                                     !.stack = Append(@, new)]
  /\ Same

ParseKey ==
  /\ json.pc = "key"
  /\ IF Tok.k = "string" /\ Token(json.pos + 1).k = ":"
       THEN json' = [json EXCEPT !.pos = @ + 2, !.pc = "value",
              !.stack[Len(json.stack)].s = Unescaped(Tok.s)]
       ELSE Fail
  /\ Same

MayClose(frame) == Tok.k = IF frame.type = "object" THEN "}" ELSE "]"

Comma(frame) == [json EXCEPT !.pos = @ + 1,
                   !.pc = IF frame.type = "object" THEN "key" ELSE "value"]

ParseMore ==
  LET frame == Last(json.stack)
  IN  /\ json.pc = "more"
      /\ \/ /\ MayClose(frame)
            /\ Returned([frame EXCEPT !.s = ""], Front(json.stack), 1)
         \/ /\ ~MayClose(frame) /\ Tok.k = ","
            /\ json' = Comma(frame)
         \/ /\ ~MayClose(frame) /\ Tok.k # ","
            /\ Fail
      /\ Same

(* Variant: what follows the value is ignored.                             *)
AtEndAlways == TRUE

AtEnd == Tok = EndOfText

ParseEnd ==
  /\ json.pc = "end"
  /\ IF AtEnd THEN json' = [json EXCEPT !.pc = "parsed"] ELSE Fail
  /\ Same

Parse == ParseScalar \/ ParseOpen \/ ParseKey \/ ParseMore \/ ParseEnd

-----------------------------------------------------------------------------
(* load_config. *)
Absent == Json("absent")
At(j, key) ==
  IF j.type = "object" /\ key \in DOMAIN j.members
    THEN j.members[key] ELSE Absent

(* static_cast<int> *)
Narrow(n) == ((n + 2 ^ (IntBits - 1)) % (2 ^ IntBits)) - 2 ^ (IntBits - 1)
AsInt(j) == Narrow(j.n)

(* What an exception says: a kind, the object, and its member.             *)
Fault(kind, owner, key) == <<<<kind, owner, key>>>>

(* One member: present and of its type, or what is said about it.          *)
Need(owner, j, key, type) ==
  IF At(j, key).type = type THEN << >>
  ELSE Fault(IF At(j, key) = Absent THEN "missing" ELSE "invalid",
             owner, key)

(* Variant: zero is let through.                                           *)
InRangeFromZero(n, most) == n >= 0 /\ n <= most

InRange(n, most) == n > 0 /\ n <= most

MaxInt == 2 ^ (IntBits - 1) - 1

Positive(owner, j, key, most) ==
  IF InRange(AsInt(At(j, key)), most) THEN << >>
  ELSE Fault("invalid", owner, key)

ServerFaults(j) ==
  Need("server", j, "ip", "string")
  \o Need("server", j, "port", "int")
  \o Need("server", j, "server_threads", "int")
  \o Need("server", j, "client_threads", "int")
  \o Positive("server", j, "port", MaxPort)
  \o Positive("server", j, "server_threads", MaxInt)
  \o Positive("server", j, "client_threads", MaxInt)

BackendFaults(j) ==
  (IF j.type = "object" THEN << >> ELSE Fault("invalid", "backend", None))
  \o Need("backend", j, "ip", "string")
  \o Need("backend", j, "port", "int")
  \o Positive("backend", j, "port", MaxPort)

(* The loop over the backends: the first that is at fault throws.          *)
BackendsFaults(list) ==
  LET bad == {i \in DOMAIN list : BackendFaults(list[i]) # << >>}
  IN  IF bad = {} THEN << >> ELSE BackendFaults(list[Min(bad)])

BalancerFaults(j) ==
  LET list == At(j, "backends").array
  IN  Need("load_balancer", j, "ip", "string")
      \o Need("load_balancer", j, "port", "int")
      \o Need("load_balancer", j, "health_interval_ms", "int")
      \o Need("load_balancer", j, "backends", "array")
      \o (IF Len(list) = 4 THEN << >>
          ELSE Fault("invalid", "load_balancer", "backends"))
      \o BackendsFaults(list)
      \o Positive("load_balancer", j, "port", MaxPort)
      \o Positive("load_balancer", j, "health_interval_ms", MaxInt)

(* Both programs leave require_load_balancer false. *)
Faults(root) ==
  Need("root", root, "server", "object")
  \o ServerFaults(At(root, "server"))
  \o (IF At(root, "load_balancer") = Absent THEN << >>
      ELSE Need("root", root, "load_balancer", "object")
           \o BalancerFaults(At(root, "load_balancer")))

(* The checks run in this order, and the first that fails throws.          *)
LoadConfig ==
  LET server == At(json.value, "server")
      faults == Faults(json.value)
  IN  /\ json.pc = "parsed"
      /\ json' = [json EXCEPT !.pc = "loaded"]
      /\ IF faults # << >>
           THEN blamed' = Head(faults) /\ UNCHANGED config
           ELSE /\ config' = [ip |-> At(server, "ip").s,
                     port |-> AsInt(At(server, "port")),
                     server_threads |-> AsInt(At(server, "server_threads")),
                     client_threads |-> AsInt(At(server, "client_threads"))]
                /\ UNCHANGED blamed
      /\ UNCHANGED text

ConfigInit ==
  /\ json = Reading
  /\ config = None
  /\ blamed = None
-----------------------------------------------------------------------------
(* What the README asks of each object's members, in the value that was    *)
(* read; ConfigMeaning's ParserExact says that it is what the text means.  *)
Members == [root |-> {"server"},
            server |-> {"ip", "port", "server_threads", "client_threads"},
            load_balancer |-> {"ip", "port", "health_interval_ms",
                               "backends"},
            backend |-> {"ip", "port"}]
Objects(root) ==
  LET lb == At(root, "load_balancer")
  IN  [root |-> {root}, server |-> {At(root, "server")},
       load_balancer |-> {lb} \ {Absent},
       backend |-> Range(At(lb, "backends").array)]
Right(j, key) ==
  LET value == At(j, key)
  IN  CASE key = "ip" -> value.type = "string"
        [] key \in {"server", "load_balancer"} -> value.type = "object"
        [] key = "backends" -> Len(value.array) = 4
        [] OTHER -> /\ value.type = "int" /\ AsInt(value) > 0
                    /\ key = "port" => AsInt(value) <= MaxPort

Deserved(kind, j, key) ==
  IF key = None THEN j.type # "object"
  ELSE IF kind = "missing" THEN At(j, key) = Absent
  ELSE At(j, key) # Absent /\ ~Right(j, key)

(* load_config accepts a file only when every member the README requires   *)
(* is there with its type and every number, once narrowed, is in its       *)
(* range, the unused load balancer's too; and what it complains about is   *)
(* what is wrong: "missing" is said of a member that is not there,         *)
(* "invalid" of one with a wrong type or value (config.cpp:357-549).       *)
VerdictDeserved ==
  /\ config # None =>
       \A owner \in DOMAIN Members : \A j \in Objects(json.value)[owner] :
         \A key \in Members[owner] : Right(j, key)
  /\ blamed # None =>
       \E j \in Objects(json.value)[blamed[2]] :
         Deserved(blamed[1], j, blamed[3])
=============================================================================
