----------------------------- MODULE MCStartup ------------------------------
(* Command lines and files for Startup.  An int has 5 bits here, a long    *)
(* long 7 and a size_t 5; the largest port is 11.                          *)
EXTENDS Startup, ConfigMeaning

(* A file's text from a tree: an object is a sequence of members.          *)
RECURSIVE Joined(_)
Joined(parts) ==
  IF Len(parts) < 2 THEN FlattenSeq(parts)
  ELSE Head(parts) \o <<Sign(",")>> \o Joined(Tail(parts))
Obj(members) == <<Sign("{")>> \o Joined(members) \o <<Sign("}")>>
Arr(elements) == <<Sign("[")>> \o Joined(elements) \o <<Sign("]")>>
Mem(key, value) == <<Str(key), Sign(":")>> \o value
N(n) == <<Num(n)>>
S(s) == <<Str(s)>>

Addr == Mem("ip", S("address"))
Fields(port, workers, clients) ==
  <<Addr, Mem("port", port), Mem("server_threads", workers),
    Mem("client_threads", clients)>>
File(fields) == Obj(<<Mem("server", Obj(fields))>>)
Good == File(Fields(N(4), N(2), N(9)))

(* Every field dropped, doubled with a bad value before or after it, or    *)
(* mistyped; numbers at their limits, and beyond those of an int.          *)
Values == {N(n) : n \in {-1, 0, 1, 11, 12, 15, 16, 20, 36, 63, 64}}
          \cup {S("address"), <<Sign("real")>>, <<Sign("word")>>, Obj(<<>>)}
Servers ==
  LET f == Fields(N(4), N(2), N(9))
  IN  {File(RemoveAt(f, i)) : i \in 1 .. 4}
      \cup {File(f \o <<Mem("port", N(0))>>), File(<<Mem("port", N(0))>> \o f)}
      \cup {File([f EXCEPT ![i] = <<@[1], @[2]>> \o v]) :
              i \in 1 .. 4, v \in Values}
      \cup {File(<<Mem("\\u", S("name"))>> \o f),
            File([f EXCEPT ![1] = Mem("ip", S("name"))]),
            Obj(<<>>), Arr(<<N(1)>>), S("server"),
            Obj(<<Mem("server", N(1))>>)}

Backend(ip, port) == Obj(<<Mem("ip", ip), Mem("port", port)>>)
Balancer(port, ms, list) ==
  Obj(<<Mem("server", Obj(Fields(N(4), N(2), N(1)))),
        Mem("load_balancer", Obj(<<Addr, Mem("port", port),
          Mem("health_interval_ms", ms), Mem("backends", list)>>))>>)
Four(b) == Arr(<<b, b, b, b>>)
B == Backend(S("a"), N(1))
Balancers ==
  {Balancer(N(1), N(5), l) :
     l \in {Four(B), Arr(<<B, B, B>>), Arr(<<B, B, B, B, B>>), N(4),
            Arr(<<B, B, B, N(1)>>), Arr(<<B, B, B, Backend(N(1), N(1))>>),
            Arr(<<B, B, B, Backend(S("a"), N(12))>>),
            Four(Obj(<<Mem("ip", S("a"))>>)),
            Four(Obj(<<Mem("port", N(2))>>))}}
  \cup {Balancer(v, N(5), Four(B)) : v \in Values}
  \cup {Balancer(N(1), v, Four(B)) : v \in Values}
  \cup {Obj(<<Mem("server", Obj(Fields(N(4), N(2), N(1)))),
              Mem("load_balancer", lb)>>) :
          lb \in {N(1), Obj(<<>>), Obj(<<Addr>>), Obj(<<Addr, Mem("port",
                    N(1))>>), Obj(<<Addr, Mem("port", N(1)),
                    Mem("health_interval_ms", N(1))>>)}}

(* Small texts with every token left out, replaced, or put in once more.   *)
Small ==
  {Arr(<<N(1), Arr(<<>>), Arr(<<N(1), N(2)>>)>>),
   Obj(<<Mem("a", N(1)), Mem("a", N(2)), Mem("b", Obj(<<>>))>>),
   Obj(<<Mem("a", Arr(<<Obj(<<Mem("b", N(1))>>)>>)), Mem("c", S("d"))>>)}
Tokens == {Sign(k) : k \in {"{", "}", "[", "]", ",", ":", "bad"}}
          \cup {Str("a"), Num(1)}
Near(t) ==
  {RemoveAt(t, i) : i \in DOMAIN t}
  \cup {ReplaceAt(t, i, k) : i \in DOMAIN t, k \in Tokens}
  \cup {InsertAt(t, i, k) : i \in 1 .. Len(t) + 1, k \in Tokens}

(* And one with two such changes.                                          *)
Tiny == Obj(<<Mem("a", Arr(<<N(1)>>))>>)

Documents ==
  UNION {Near(t) : t \in Near(Tiny) \cup Small} \cup Small
  \cup Servers \cup Balancers \cup {Good, << >>, None}

(* Command lines. *)
Arg(f, n) == [flag |-> f, num |-> n, word |-> None]
Word(f, w) == [flag |-> f, num |-> None, word |-> w]
Numbers ==
  {<<>>} \cup {<<Arg(f, None)>> : f \in {"--quantum", "--p", "unknown",
                                       "--metrics-out"}}
  \cup {<<Arg("--quantum", n)>> : n \in {-40, -32, -31, -1, 0, 3, 32}}
  \cup {<<Arg("--p", n)>> : n \in {-1, 0, 2, 16}}
Lines ==
  {a \o b \o q \o r :
     a \in {<<>>} \cup {<<Word("--sched", p)>> :
                          p \in {None, "FCFS", "SJF", "RR", "DRR", "other"}},
     b \in {<<>>, <<Word("--file", "dir")>>}, q \in Numbers,
     r \in {<<>>, <<Arg("--quantum", 0)>>, <<Arg("--p", 1)>>,
            <<Word("--sched", "SJF")>>}}
Plain == <<Word("--sched", "FCFS"), Word("--file", "dir"),
           Word("--config", "file")>>

MCCases ==
  {[argv |-> Plain, text |-> t] : t \in Documents}
  \cup {[argv |-> l, text |-> Good] : l \in Lines}
=============================================================================
