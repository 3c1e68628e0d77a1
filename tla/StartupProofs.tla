--------------------------- MODULE StartupProofs ----------------------------
(***************************************************************************)
(* Proofs about Startup, for any command lines and any configuration file, *)
(* well formed or not.                                                     *)
(***************************************************************************)
EXTENDS Startup, SequenceLemmas, TLAPS

Word == STRING \cup {None}
Options == [sched : Word, file : Word, quantum : Nat, p : Int,
            quantum_set : BOOLEAN]

Types ==
  /\ argv \in Seq(Argument) /\ argi \in Nat \ {0} /\ opt \in Options
  /\ threads \in [Kinds -> Nat]
  /\ pc \in {"flags", "config", "socket", "setsockopt", "inet_pton", "bind",
             "listen", "threads", "serving", "exited", "terminated"}

(* What the options are worth while they are read, and after the checks.   *)
Checked ==
  /\ opt.quantum < 2 ^ SizeBits
  /\ ~opt.quantum_set => opt.quantum = 0
  /\ pc \notin {"flags", "exited"} => FlagsOk

(* What a configuration that was returned is worth, and who has one.       *)
Accepted ==
  /\ config # None => config.server_threads > 0
  /\ pc \notin {"flags", "config", "exited"} => config # None

(* The socket is there from its creation to a failure, the threads only    *)
(* behind it, each kind after the one before.                              *)
Opened ==
  /\ sockets = IF pc \in {"flags", "config", "socket", "exited"} THEN 0 ELSE 1
  /\ pc \notin {"threads", "serving", "terminated"} =>
       \A k \in Kinds : threads[k] = 0
  /\ pc = "threads" => threads["acceptor"] = 0
  /\ pc = "serving" => /\ threads["acceptor"] = 1
                       /\ \A k \in Earlier("acceptor") :
                            threads[k] = Wanted(k)

StartInv == Types /\ Checked /\ Accepted /\ Opened

-----------------------------------------------------------------------------
(* Whatever the value, the checks yield a list of faults.                  *)
Owners == {"root", "server", "load_balancer", "backend"}
Names == Keys \cup {None}
FaultList == Seq({"missing", "invalid"} \X Owners \X Names)

(* One fault, or none. *)
LEMMA OneFault ==
  ASSUME NEW o \in Owners, NEW key \in Names, NEW j, NEW most, NEW type
  PROVE  /\ << >> \in FaultList
         /\ Fault("missing", o, key) \in FaultList
         /\ Fault("invalid", o, key) \in FaultList
         /\ Fault("invalid", o, key) # << >>
         /\ Need(o, j, key, type) \in FaultList
         /\ Positive(o, j, key, most) \in FaultList
<1>1. /\ << >> \in FaultList
      /\ Fault("missing", o, key) \in FaultList
      /\ Fault("invalid", o, key) \in FaultList
      /\ Fault("invalid", o, key) # << >>
  BY DEF Fault, FaultList
<1> QED BY <1>1 DEF Need, Positive

(* Lists put together, and a list that has nothing in it. *)
LEMMA Joined ==
  ASSUME NEW p \in FaultList, NEW q \in FaultList
  PROVE  /\ p \o q \in FaultList
         /\ p \o q = << >> => p = << >> /\ q = << >>
<1> DEFINE S == {"missing", "invalid"} \X Owners \X Names
<1>1. p \in Seq(S) /\ q \in Seq(S)
  BY DEF FaultList
<1> HIDE DEF S
<1>2. /\ p \o q \in Seq(S) /\ Len(p \o q) = Len(p) + Len(q)
      /\ Len(p) \in Nat /\ Len(q) \in Nat
  BY <1>1, ConcatProperties, LenProperties
<1>3. ASSUME p \o q = << >> PROVE p = << >> /\ q = << >>
  <2>1. Len(p) = 0 /\ Len(q) = 0
    BY <1>2, <1>3, EmptySeq
  <2> QED BY <1>1, <2>1, EmptySeq
<1> QED BY <1>2, <1>3 DEF FaultList, S

(* The checks of the server's members are a list, and an empty one only    *)
(* when there is at least one worker.                                      *)
LEMMA ServerChecked ==
  ASSUME NEW j
  PROVE  /\ ServerFaults(j) \in FaultList
         /\ ServerFaults(j) = << >> => AsInt(At(j, "server_threads")) > 0
<1> DEFINE a == Need("server", j, "ip", "string")
           b == Need("server", j, "port", "int")
           c == Need("server", j, "server_threads", "int")
           d == Need("server", j, "client_threads", "int")
           e == Positive("server", j, "port", MaxPort)
           f == Positive("server", j, "server_threads", MaxInt)
           g == Positive("server", j, "client_threads", MaxInt)
<1>1. /\ a \in FaultList /\ b \in FaultList /\ c \in FaultList
      /\ d \in FaultList /\ e \in FaultList /\ f \in FaultList
      /\ g \in FaultList
  BY OneFault DEF Owners, Names, Keys
<1>2. f = << >> => AsInt(At(j, "server_threads")) > 0
  BY OneFault DEF Positive, InRange, Owners, Names, Keys
<1>3. ServerFaults(j) = (((((a \o b) \o c) \o d) \o e) \o f) \o g
  BY DEF ServerFaults
<1> HIDE DEF a, b, c, d, e, f, g
<1> DEFINE h == (((a \o b) \o c) \o d) \o e
<1>4. a \o b \in FaultList
  BY <1>1, Joined
<1>5. (a \o b) \o c \in FaultList
  BY <1>1, <1>4, Joined
<1>6. ((a \o b) \o c) \o d \in FaultList
  BY <1>1, <1>5, Joined
<1>7. h \in FaultList
  BY <1>1, <1>6, Joined
<1>8. ServerFaults(j) = (h \o f) \o g
  BY <1>3
<1> HIDE DEF h
<1>9. h \o f \in FaultList /\ (h \o f = << >> => f = << >>)
  BY <1>1, <1>7, Joined
<1>10. /\ (h \o f) \o g \in FaultList
       /\ (h \o f) \o g = << >> => h \o f = << >>
  BY <1>1, <1>9, Joined
<1> QED BY <1>2, <1>8, <1>9, <1>10

(* So are the checks of the load balancer. *)
LEMMA BalancerChecked ==
  ASSUME NEW j PROVE BalancerFaults(j) \in FaultList
<1> DEFINE o == "load_balancer"
           list == At(j, "backends").array
           a == Need(o, j, "ip", "string")
           b == Need(o, j, "port", "int")
           c == Need(o, j, "health_interval_ms", "int")
           d == Need(o, j, "backends", "array")
           e == IF Len(list) = 4 THEN << >>
                ELSE Fault("invalid", o, "backends")
           f == BackendsFaults(list)
           g == Positive(o, j, "port", MaxPort)
           h == Positive(o, j, "health_interval_ms", MaxInt)
<1>1. /\ a \in FaultList /\ b \in FaultList /\ c \in FaultList
      /\ d \in FaultList /\ g \in FaultList /\ h \in FaultList
      /\ << >> \in FaultList /\ Fault("invalid", o, "backends") \in FaultList
  BY OneFault DEF Owners, Names, Keys
<1>2. e \in FaultList
  BY <1>1
<1>3. ASSUME NEW x PROVE BackendFaults(x) \in FaultList
  <2> DEFINE u == IF x.type = "object" THEN << >>
                  ELSE Fault("invalid", "backend", None)
             v == Need("backend", x, "ip", "string")
             w == Need("backend", x, "port", "int")
             y == Positive("backend", x, "port", MaxPort)
  <2>1. /\ Fault("invalid", "backend", None) \in FaultList
        /\ v \in FaultList /\ w \in FaultList /\ y \in FaultList
    BY OneFault DEF Owners, Names, Keys
  <2>2. u \in FaultList
    BY <1>1, <2>1
  <2>3. BackendFaults(x) = ((u \o v) \o w) \o y
    BY DEF BackendFaults
  <2> HIDE DEF u, v, w, y
  <2>4. u \o v \in FaultList
    BY <2>1, <2>2, Joined
  <2>5. (u \o v) \o w \in FaultList
    BY <2>1, <2>4, Joined
  <2> QED BY <2>1, <2>3, <2>5, Joined
<1>4. f \in FaultList
  BY <1>1, <1>3 DEF BackendsFaults
<1>5. BalancerFaults(j) = ((((((a \o b) \o c) \o d) \o e) \o f) \o g) \o h
  BY DEF BalancerFaults
<1> HIDE DEF a, b, c, d, e, f, g, h
<1>6. a \o b \in FaultList
  BY <1>1, Joined
<1>7. (a \o b) \o c \in FaultList
  BY <1>1, <1>6, Joined
<1>8. ((a \o b) \o c) \o d \in FaultList
  BY <1>1, <1>7, Joined
<1>9. (((a \o b) \o c) \o d) \o e \in FaultList
  BY <1>2, <1>8, Joined
<1>10. ((((a \o b) \o c) \o d) \o e) \o f \in FaultList
  BY <1>4, <1>9, Joined
<1>11. (((((a \o b) \o c) \o d) \o e) \o f) \o g \in FaultList
  BY <1>1, <1>10, Joined
<1> QED BY <1>1, <1>5, <1>11, Joined

(* A file without a fault asks for at least one worker. *)
LEMMA RootChecked ==
  ASSUME NEW root, Faults(root) = << >>
  PROVE  AsInt(At(At(root, "server"), "server_threads")) > 0
<1> DEFINE lb == At(root, "load_balancer")
           a == Need("root", root, "server", "object")
           b == ServerFaults(At(root, "server"))
           n == Need("root", root, "load_balancer", "object")
           c == IF lb = Absent THEN << >> ELSE n \o BalancerFaults(lb)
<1>1. /\ a \in FaultList /\ b \in FaultList /\ n \in FaultList
      /\ << >> \in FaultList /\ BalancerFaults(lb) \in FaultList
  BY OneFault, ServerChecked, BalancerChecked DEF Owners, Names, Keys
<1>2. c \in FaultList
  <2>1. n \o BalancerFaults(lb) \in FaultList
    BY <1>1, Joined
  <2> QED BY <1>1, <2>1
<1>3. Faults(root) = (a \o b) \o c
  BY DEF Faults
<1>4. b = << >> => AsInt(At(At(root, "server"), "server_threads")) > 0
  BY ServerChecked
<1> HIDE DEF a, b, c
<1>5. a \o b \in FaultList /\ (a \o b = << >> => b = << >>)
  BY <1>1, Joined
<1>6. (a \o b) \o c = << >> => a \o b = << >>
  BY <1>2, <1>5, Joined
<1> QED BY <1>3, <1>4, <1>5, <1>6

-----------------------------------------------------------------------------
(* std::stoull yields a size_t. *)
LEMMA InSizeT ==
  ASSUME NEW n \in Int
  PROVE  Stoull(n) \in Nat /\ Stoull(n) < 2 ^ SizeBits
<1> DEFINE w == 2 ^ SizeBits
<1>1. w \in Nat \ {0}
  BY StartupAssumption
<1> HIDE DEF w
<1>2. n % w \in Nat /\ n % w < w
  BY <1>1
<1> QED BY <1>2 DEF Stoull, w

(* Only LoadConfig returns a configuration. *)
LEMMA ConfigKept ==
  ASSUME Parse PROVE UNCHANGED config
BY DEF Parse, ParseScalar, ParseOpen, ParseKey, ParseMore, ParseEnd, Same

(* Each step keeps StartInv. *)
LEMMA StartStep ==
  ASSUME StartInv, [Next]_startup PROVE StartInv'
<1> USE DEF StartInv
<1>1. /\ argv \in Seq(Argument) /\ argi \in Nat \ {0} /\ opt \in Options
      /\ threads \in [Kinds -> Nat]
  BY DEF Types
(* The steps after the checks leave the options alone. *)
<1>2. ASSUME UNCHANGED opt, pc' \notin {"flags", "exited"} => pc # "flags",
             pc # "exited"
      PROVE  Checked'
  BY <1>2 DEF Checked, FlagsOk, QuantumOk
<1>3. CASE UNCHANGED startup \/ Over
  BY <1>3 DEF startup, main, line, cvars, Over, Types, Checked, Accepted,
     Opened, FlagsOk, QuantumOk, Wanted
<1>4. CASE Flag
  <2> DEFINE arg == argv[argi]
  <2>1. /\ arg \in Argument /\ argv' = argv /\ argi' = argi + 1
        /\ pc = "flags" /\ UNCHANGED <<config, sockets, threads>>
    BY <1>1, <1>4, ElementOfSeq DEF Flag, cvars
  <2>2. arg.num \in Int \cup {None} /\ arg.word \in Word
    BY <2>1 DEF Argument, Word
  <2>3. \/ UNCHANGED opt /\ pc' \in {"flags", "exited"}
        \/ /\ \/ opt' = [opt EXCEPT !.sched = arg.word]
              \/ opt' = [opt EXCEPT !.file = arg.word]
           /\ pc' = "flags"
        \/ /\ arg.num # None
           /\ opt' = [opt EXCEPT !.quantum = Stoull(arg.num),
                                 !.quantum_set = TRUE]
           /\ pc' = "flags"
        \/ /\ arg.num # None
           /\ opt' = [opt EXCEPT !.p = arg.num]
           /\ pc' = "flags"
    BY <1>4, <2>1 DEF Flag, Exit, StoullFits, StoiFits, Quantum
  <2>4. arg.num # None =>
          Stoull(arg.num) \in Nat /\ Stoull(arg.num) < 2 ^ SizeBits
    BY <2>2, InSizeT
  <2> HIDE DEF arg
  <2>5. opt' \in Options
    BY <1>1, <2>2, <2>3, <2>4 DEF Options
  <2>6. /\ opt'.quantum < 2 ^ SizeBits
        /\ ~opt'.quantum_set => opt'.quantum = 0
    BY <1>1, <2>3, <2>4 DEF Options, Checked
  <2>7. pc' \in {"flags", "exited"}
    BY <2>3
  <2> QED BY <1>1, <2>1, <2>5, <2>6, <2>7
          DEF Types, Checked, Accepted, Opened
<1>5. CASE CheckFlags
  <2>1. /\ pc = "flags"
        /\ UNCHANGED <<argv, argi, opt, config, sockets, threads>>
        /\ \/ FlagsOk /\ pc' = "config"
           \/ pc' = "exited"
    BY <1>5 DEF CheckFlags, Exit, cvars, line
  <2>2. FlagsOk' = FlagsOk
    BY <2>1 DEF FlagsOk, QuantumOk
  <2> QED BY <2>1, <2>2 DEF Types, Checked, Accepted, Opened
<1>6. CASE ReadConfig
  <2>1. pc = "config" /\ UNCHANGED <<argv, argi, opt, pc, sockets, threads>>
    BY <1>6 DEF ReadConfig, main, line
  <2>2. config' # None => config'.server_threads > 0
    <3>1. CASE Parse
      BY <3>1, ConfigKept DEF Accepted
    <3>2. CASE LoadConfig
      <4> DEFINE server == At(json.value, "server")
      <4>1. CASE Faults(json.value) # << >>
        BY <3>2, <4>1 DEF LoadConfig, Accepted
      <4>2. CASE Faults(json.value) = << >>
        <5>1. AsInt(At(server, "server_threads")) > 0
          BY <4>2, RootChecked
        <5>2. config'.server_threads = AsInt(At(server, "server_threads"))
          BY <3>2, <4>2 DEF LoadConfig
        <5> QED BY <5>1, <5>2
      <4> QED BY <4>1, <4>2
    <3> QED BY <1>6, <3>1, <3>2 DEF ReadConfig
  <2> QED BY <1>2, <2>1, <2>2 DEF Types, Accepted, Opened
<1>7. CASE Configured
  <2>1. /\ pc = "config"
        /\ UNCHANGED <<argv, argi, opt, config, sockets, threads>>
        /\ \/ config # None /\ pc' = "socket"
           \/ pc' = "exited"
    BY <1>7 DEF Configured, Exit, cvars, line
  <2> QED BY <1>2, <2>1 DEF Types, Accepted, Opened
<1>8. CASE OpenSocket
  <2>1. /\ pc = "socket" /\ UNCHANGED <<argv, argi, opt, config, threads>>
        /\ \/ sockets' = sockets + 1 /\ pc' = "setsockopt"
           \/ UNCHANGED sockets /\ pc' = "exited"
    BY <1>8 DEF OpenSocket, Exit, cvars, line
  <2> QED BY <1>2, <2>1 DEF Types, Accepted, Opened
(* Each of the calls that follow keeps the socket, or closes it and ends.  *)
<1>9. CASE SetReuseAddr \/ ParseAddress \/ Bind \/ Listen
  <2>1. /\ pc \in {"setsockopt", "inet_pton", "bind", "listen"}
        /\ UNCHANGED <<argv, argi, opt, config, threads>>
        /\ \/ /\ sockets' = sockets
              /\ pc' \in {"inet_pton", "bind", "listen", "threads"}
           \/ sockets' = sockets - 1 /\ pc' = "exited"
    BY <1>9 DEF SetReuseAddr, ParseAddress, Bind, Listen, GoOn,
       CloseAndReturn, Exit, cvars, line
  <2>2. sockets = 1 /\ \A k \in Kinds : threads[k] = 0
    BY <2>1 DEF Opened
  <2>3. "acceptor" \in Kinds
    BY DEF Kinds
  <2> QED BY <1>2, <2>1, <2>2, <2>3 DEF Types, Accepted, Opened
<1>10. CASE ThreadFails
  <2>1. /\ pc = "threads" /\ pc' = "terminated"
        /\ UNCHANGED <<argv, argi, opt, config, sockets, threads>>
    BY <1>10 DEF ThreadFails, cvars, line
  <2> QED BY <1>2, <2>1 DEF Types, Accepted, Opened
<1>11. ASSUME NEW k \in Kinds, StartThread(k) PROVE StartInv'
  <2>1. /\ pc = "threads" /\ UNCHANGED <<argv, argi, opt, config, sockets>>
        /\ \A e \in Earlier(k) : threads[e] = Wanted(e)
        /\ threads' = [threads EXCEPT ![k] = @ + 1]
        /\ pc' = IF k = "acceptor" THEN "serving" ELSE pc
    BY <1>11 DEF StartThread, cvars, line
  <2>2. /\ threads' \in [Kinds -> Nat] /\ threads'[k] = threads[k] + 1
        /\ \A e \in Kinds : e # k => threads'[e] = threads[e]
    BY <1>1, <2>1
  <2>3. /\ threads["acceptor"] = 0
        /\ {"acceptor"} \cup Earlier("acceptor") = Kinds
    BY <2>1 DEF Opened, Earlier, Kinds
  <2>4. \A e : Wanted(e)' = Wanted(e)
    BY <2>1 DEF Wanted
  <2>5. CASE k = "acceptor"
    <3>1. "acceptor" \notin Earlier("acceptor")
      BY DEF Earlier
    <3>2. \A e \in Earlier("acceptor") : threads'[e] = Wanted(e)'
      BY <2>1, <2>2, <2>3, <2>4, <2>5, <3>1
    <3>3. threads'["acceptor"] = 1
      BY <2>2, <2>3, <2>5
    <3> QED BY <1>2, <2>1, <2>2, <2>5, <3>2, <3>3
            DEF Types, Accepted, Opened
  <2>6. CASE k # "acceptor"
    <3>1. threads'["acceptor"] = 0
      BY <2>2, <2>3, <2>6
    <3> QED BY <1>2, <2>1, <2>2, <2>6, <3>1 DEF Types, Accepted, Opened
  <2> QED BY <2>5, <2>6
<1> QED BY <1>3, <1>4, <1>5, <1>6, <1>7, <1>8, <1>9, <1>10, <1>11
        DEF Next, Step

(* StartInv holds throughout. *)
THEOREM StartInvariant == Spec => []StartInv
<1>1. ASSUME Init PROVE StartInv
  <2>1. /\ argv \in Seq(Argument) /\ argi = 1 /\ pc = "flags" /\ sockets = 0
        /\ config = None /\ threads = [k \in Kinds |-> 0]
        /\ opt = [sched |-> None, file |-> None, quantum |-> 0, p |-> 1,
                  quantum_set |-> FALSE]
    BY <1>1, StartupAssumption DEF Init, ConfigInit
  <2>2. opt \in Options /\ opt.quantum = 0
    BY <2>1 DEF Options, Word
  <2>3. 0 < 2 ^ SizeBits
    <3> DEFINE w == 2 ^ SizeBits
    <3>1. w \in Nat \ {0}
      BY StartupAssumption
    <3> HIDE DEF w
    <3>2. 0 < w
      BY <3>1
    <3> QED BY <3>2 DEF w
  <2> QED BY <2>1, <2>2, <2>3
          DEF StartInv, Types, Checked, Accepted, Opened
<1> QED BY <1>1, StartStep, PTL DEF Spec

-----------------------------------------------------------------------------
(* Before the end of main, what was read was readable and the options are  *)
(* what it asked for; at an early end there is a cause.                    *)
Readable(n) == \A i \in 1 .. n : ~Unreadable(argv[i])
FlagInv ==
  /\ argi - 1 <= Len(argv)
  /\ pc # "exited" => Readable(argi - 1) /\ AskedFor(argi - 1)
  /\ pc \notin {"flags", "exited"} => argi - 1 = Len(argv)
  /\ pc = "exited" =>
       \/ ~Readable(Len(argv))
       \/ /\ AskedFor(Len(argv))
          /\ \/ ~FlagsOk \/ text = None
             \/ config # None \/ blamed # None \/ json.pc = "malformed"

(* One more argument, and the options as it changes them. *)
LEMMA OneMoreFlag ==
  ASSUME StartInv, FlagInv, Flag PROVE FlagInv'
<1> DEFINE arg == argv[argi]
           n == argi - 1
<1>1. /\ argv \in Seq(Argument) /\ argi \in Nat \ {0} /\ opt \in Options
      /\ Len(argv) \in Nat
  BY LenProperties DEF StartInv, Types
<1>2. /\ pc = "flags" /\ argi <= Len(argv) /\ argi' = argi + 1
      /\ argv' = argv
  BY DEF Flag
<1>3. CASE Unreadable(arg) /\ pc' = "exited"
  <2>1. ~Readable(Len(argv))
    BY <1>1, <1>2, <1>3 DEF Readable
  <2> QED BY <1>1, <1>2, <1>3, <2>1 DEF FlagInv, Readable, Unreadable
<1>4. CASE ~(Unreadable(arg) /\ pc' = "exited")
  <2>1. /\ ~Unreadable(arg) /\ pc' = "flags"
        /\ \/ arg.flag = "--sched" /\ opt' = [opt EXCEPT !.sched = arg.word]
           \/ arg.flag = "--file" /\ opt' = [opt EXCEPT !.file = arg.word]
           \/ arg.flag \in {"--config", "--metrics-out"} /\ opt' = opt
           \/ /\ arg.flag = "--quantum"
              /\ opt' = [opt EXCEPT !.quantum = Stoull(arg.num),
                                    !.quantum_set = TRUE]
           \/ arg.flag = "--p" /\ opt' = [opt EXCEPT !.p = arg.num]
    BY <1>2, <1>4 DEF Flag, Exit, Unreadable, Quantum
  <2>2. Readable(n) /\ AskedFor(n)
    BY <1>2 DEF FlagInv
  <2>3. n \in Nat /\ n + 1 = argi /\ argi' - 1 = n + 1
    BY <1>1, <1>2
  <2>4. \A i \in 1 .. n + 1 : i \in 1 .. n \/ i = n + 1
    BY <2>3
  <2>5. Readable(argi - 1)'
    BY <1>2, <2>1, <2>2, <2>3, <2>4 DEF Readable, Unreadable
  <2>6. ASSUME NEW f, NEW i \in 1 .. n + 1
        PROVE  LastIs(f, i, n + 1) <=>
                 IF i = n + 1 THEN arg.flag = f
                 ELSE LastIs(f, i, n) /\ arg.flag # f
    BY <2>3, <2>4 DEF LastIs
  <2>7. ASSUME NEW f
        PROVE  Without(f, n + 1) <=> Without(f, n) /\ arg.flag # f
    BY <2>3, <2>4 DEF Without
  <2>8. /\ opt'.sched = IF arg.flag = "--sched" THEN arg.word ELSE opt.sched
        /\ opt'.file = IF arg.flag = "--file" THEN arg.word ELSE opt.file
        /\ opt'.p = IF arg.flag = "--p" THEN arg.num ELSE opt.p
        /\ opt'.quantum = IF arg.flag = "--quantum" THEN Stoull(arg.num)
                                                    ELSE opt.quantum
        /\ opt'.quantum_set = (arg.flag = "--quantum" \/ opt.quantum_set)
    BY <1>1, <2>1 DEF Options
  <2>9. argv[n + 1] = arg
    BY <2>3
  <2>10. ASSUME NEW i \in 1 .. n + 1
         PROVE  /\ LastIs("--sched", i, n + 1) => opt'.sched = argv[i].word
                /\ LastIs("--file", i, n + 1) => opt'.file = argv[i].word
                /\ LastIs("--p", i, n + 1) => opt'.p = argv[i].num
                /\ LastIs("--quantum", i, n + 1) =>
                     /\ opt'.quantum_set
                     /\ opt'.quantum = Stoull(argv[i].num)
    <3> HIDE DEF arg, n
    <3>1. CASE i = n + 1
      BY <2>6, <2>8, <2>9, <3>1
    <3>2. CASE i \in 1 .. n /\ i # n + 1
      BY <2>2, <2>6, <2>8, <3>2 DEF AskedFor
    <3> QED BY <2>4, <3>1, <3>2
  <2>11. /\ Without("--sched", n + 1) => opt'.sched = None
         /\ Without("--file", n + 1) => opt'.file = None
         /\ Without("--p", n + 1) => opt'.p = 1
         /\ Without("--quantum", n + 1) => ~opt'.quantum_set
    <3> HIDE DEF arg, n
    <3> QED BY <2>2, <2>7, <2>8 DEF AskedFor
  <2>12. /\ \A f, i : LastIs(f, i, argi - 1)' <=> LastIs(f, i, n + 1)
         /\ \A f : Without(f, argi - 1)' <=> Without(f, n + 1)
    BY <1>2, <2>3 DEF LastIs, Without
  <2>13. AskedFor(argi - 1)'
    <3> HIDE DEF arg, n
    <3> QED BY <1>2, <2>3, <2>10, <2>11, <2>12 DEF AskedFor, Stoull
  <2> QED BY <1>1, <1>2, <2>1, <2>5, <2>13 DEF FlagInv
<1> QED BY <1>3, <1>4

(* Each step keeps FlagInv. *)
LEMMA FlagStep ==
  ASSUME StartInv, FlagInv, [Next]_startup PROVE FlagInv'
<1> USE DEF FlagInv, line
(* The other steps leave arguments and options alone. *)
<1>1. ASSUME UNCHANGED <<line, opt>>
      PROVE  /\ UNCHANGED <<argv, argi, opt>>
             /\ \A m : Readable(m)' <=> Readable(m)
             /\ \A m : AskedFor(m)' <=> AskedFor(m)
             /\ FlagsOk' <=> FlagsOk
  BY <1>1 DEF Readable, Unreadable, AskedFor, LastIs, Without, FlagsOk,
     QuantumOk
<1>2. ASSUME UNCHANGED <<line, opt>>, pc # "exited", pc' # "exited",
             pc = "flags" => pc' = "flags" \/ argi - 1 = Len(argv)
      PROVE  FlagInv'
  BY <1>1, <1>2
<1>3. ASSUME UNCHANGED <<line, opt>>, pc \notin {"flags", "exited"},
             \/ config' # None \/ blamed' # None
             \/ json'.pc = "malformed"
      PROVE  FlagInv'
  BY <1>1, <1>3
<1>4. CASE UNCHANGED startup \/ Over
  <2>1. UNCHANGED startup
    BY <1>4 DEF Over
  <2>2. UNCHANGED <<line, opt, pc, text, config, blamed, json>>
    BY <2>1 DEF startup, main, cvars
  <2> QED BY <1>1, <2>2
<1>5. CASE Flag
  BY <1>5, OneMoreFlag
<1>6. CASE CheckFlags
  <2>1. /\ UNCHANGED <<line, opt, text>> /\ pc = "flags" /\ argi > Len(argv)
        /\ \/ pc' = "config"
           \/ pc' = "exited" /\ (~FlagsOk \/ text = None)
    BY <1>6 DEF CheckFlags, Exit, cvars
  <2>2. argi - 1 = Len(argv)
    BY <2>1, LenProperties DEF StartInv, Types
  <2> QED BY <1>1, <2>1, <2>2
<1>7. CASE ReadConfig
  <2>1. UNCHANGED <<line, opt, pc>> /\ pc = "config"
    BY <1>7 DEF ReadConfig, main
  <2> QED BY <1>2, <2>1
<1>8. CASE Configured
  <2>1. /\ UNCHANGED <<line, opt, config, blamed, json>> /\ pc = "config"
        /\ \/ pc' = "socket"
           \/ pc' = "exited" /\ (json.pc = "malformed" \/ blamed # None)
    BY <1>8 DEF Configured, Exit, cvars
  <2> QED BY <1>2, <1>3, <2>1
<1>9. CASE OpenSocket \/ SetReuseAddr \/ ParseAddress \/ Bind \/ Listen
  <2>1. /\ UNCHANGED <<line, opt, config>>
        /\ pc \in {"socket", "setsockopt", "inet_pton", "bind", "listen"}
    BY <1>9 DEF OpenSocket, SetReuseAddr, ParseAddress, Bind, Listen, GoOn,
       CloseAndReturn, cvars
  <2>2. config' # None
    BY <2>1 DEF StartInv, Accepted
  <2> QED BY <1>3, <2>1, <2>2
<1>10. CASE ThreadFails \/ \E k \in Kinds : StartThread(k)
  <2>1. /\ UNCHANGED <<line, opt>> /\ pc = "threads"
        /\ pc' \in {"threads", "serving", "terminated"}
    BY <1>10 DEF ThreadFails, StartThread
  <2> QED BY <1>2, <2>1
<1> QED BY <1>4, <1>5, <1>6, <1>7, <1>8, <1>9, <1>10 DEF Next, Step

(* The server starts as its whole command line says, the last of each flag *)
(* deciding, or ends before the configuration with a cause, for every      *)
(* command line (main.cpp:262-339).                                        *)
THEOREM FlagsAreJudged == Spec => []FlagsJudged
<1>1. ASSUME Init PROVE FlagInv
  <2>1. /\ argi = 1 /\ pc = "flags" /\ argv \in Seq(Argument)
        /\ opt = [sched |-> None, file |-> None, quantum |-> 0, p |-> 1,
                  quantum_set |-> FALSE]
    BY <1>1, StartupAssumption DEF Init, ConfigInit
  <2>2. Len(argv) \in Nat
    BY <2>1, LenProperties
  <2> QED BY <2>1, <2>2 DEF FlagInv, Readable, AskedFor
<1>2. ASSUME StartInv, FlagInv PROVE FlagsJudged
  <2>1. DOMAIN argv = 1 .. Len(argv)
    BY <1>2, LenProperties DEF StartInv, Types
  <2>2. (\A i \in DOMAIN argv : ~Unreadable(argv[i])) <=> Readable(Len(argv))
    BY <2>1 DEF Readable
  <2> QED BY <1>2, <2>2 DEF FlagInv, FlagsJudged
<1> QED BY <1>1, <1>2, StartInvariant, FlagStep, PTL DEF Spec

(* A server that comes up has what the models of its threads assume of it, *)
(* for every command line and every file (main.cpp:331, 374-401).          *)
THEOREM ServesAsModelled == Spec => []ServesAsAssumed
<1>1. ASSUME StartInv, pc = "serving"
      PROVE  /\ Scheduled!QuantumAllowed(opt.sched, opt.quantum)
             /\ opt.quantum < 2 ^ SizeBits /\ opt.p > 0 /\ sockets = 1
             /\ threads["worker"] > 0 /\ threads["parser"] >= 8
             /\ threads["acceptor"] = 1
  <2>1. /\ opt \in Options /\ FlagsOk /\ opt.quantum < 2 ^ SizeBits
        /\ ~opt.quantum_set => opt.quantum = 0
    BY <1>1 DEF StartInv, Types, Checked
  <2>2. Scheduled!QuantumAllowed(opt.sched, opt.quantum) /\ opt.p > 0
    <3>1. opt.quantum \in Nat
      BY <2>1 DEF Options
    <3> QED BY <2>1, <3>1
            DEF FlagsOk, QuantumOk, Quantized, Scheduled!QuantumAllowed
  <2>3. /\ sockets = 1 /\ threads["acceptor"] = 1
        /\ threads["worker"] = Wanted("worker")
        /\ threads["parser"] = Wanted("parser")
    BY <1>1 DEF StartInv, Opened, Earlier
  <2>4. threads["worker"] > 0
    <3>1. config.server_threads > 0
      BY <1>1 DEF StartInv, Accepted
    <3> QED BY <2>3, <3>1 DEF Wanted
  <2>5. threads["parser"] >= 8
    <3>1. threads["parser"] \in Nat
      BY <1>1 DEF StartInv, Types, Kinds
    <3>2. threads["parser"] = IF 8 < config.client_threads
                                THEN config.client_threads ELSE 8
      BY <2>3 DEF Wanted
    <3>3. CASE 8 < config.client_threads
      <4>1. 8 < threads["parser"]
        BY <3>2, <3>3
      <4> QED BY <3>1, <4>1
    <3>4. CASE ~(8 < config.client_threads)
      BY <3>2, <3>4
    <3> QED BY <3>3, <3>4
  <2> QED BY <2>1, <2>2, <2>3, <2>4, <2>5
<1>2. StartInv => ServesAsAssumed
  BY <1>1 DEF ServesAsAssumed
<1> QED BY <1>2, StartInvariant, PTL

Fields == {"type", "n", "s", "members", "array"}

(* A value whose members and elements are all in U.                        *)
Made(v, U) ==
  /\ DOMAIN v = Fields
  /\ v.n \in Int
  /\ v.array \in Seq(U)
  /\ v.type # "array" => v.array = << >>
  /\ \A key \in DOMAIN v.members : v.members[key] \in U

Closed(U) == Absent \in U /\ \A v \in U : Made(v, U)
Frames(U) == {v \in U : v.type \in {"object", "array"}}

(* What the parser has built so far is of values in U.                     *)
Built(j, U) ==
  /\ Closed(U)
  /\ DOMAIN j = {"pc", "pos", "stack", "value"}
  /\ j.stack \in Seq(Frames(U))
  /\ j.pc \in {"key", "more"} => j.stack # << >>
  /\ j.pc \in {"end", "parsed", "loaded"} => j.value \in U

(* An invariant of the parser and of load_config. *)
ParseInv ==
  /\ \E U : Built(json, U)
  /\ text = None \/ text \in Seq(AnyToken)
  /\ pc = "config" => text # None
  /\ json.pc # "loaded" => config = None /\ blamed = None

-----------------------------------------------------------------------------
(* More values only add to what is known. *)
LEMMA Grown ==
  ASSUME NEW U, Closed(U), NEW v, Made(v, U)
  PROVE  /\ Closed(U \cup {v})
         /\ Frames(U) \subseteq Frames(U \cup {v})
<1> DEFINE W == U \cup {v}
<1>1. ASSUME NEW w, Made(w, U) PROVE Made(w, W)
  <2>1. w.array \in Seq(W)
    <3>1. w.array \in Seq(U) /\ U \subseteq W
      BY <1>1 DEF Made
    <3> HIDE DEF W
    <3> QED BY <3>1
  <2> QED BY <1>1, <2>1 DEF Made
<1> QED BY <1>1 DEF Closed, Frames

(* A value that has just been created. *)
LEMMA Created ==
  ASSUME NEW U, NEW type
  PROVE  Made(Json(type), U) /\ Json(type).type = type
<1>1. << >> \in Seq(U) /\ DOMAIN << >> = {}
  OBVIOUS
<1> QED BY <1>1 DEF Made, Json, Fields

(* A scalar. *)
LEMMA ScalarMade ==
  ASSUME NEW U, NEW t, t.n \in Int
  PROVE  Made(Scalar(t), U)
<1>1. << >> \in Seq(U) /\ DOMAIN << >> = {}
  OBVIOUS
<1> QED BY <1>1 DEF Made, Scalar, Json, Fields

(* A frame with a new key. *)
LEMMA Renamed ==
  ASSUME NEW U, NEW v, Made(v, U), NEW x
  PROVE  /\ Made([v EXCEPT !.s = x], U)
         /\ [v EXCEPT !.s = x].type = v.type
BY DEF Made, Fields

(* A frame with one value more. *)
LEMMA AbsorbedMade ==
  ASSUME NEW U, Closed(U), NEW frame \in Frames(U), NEW v \in U
  PROVE  /\ Made(Absorbed(frame, v), U)
         /\ Absorbed(frame, v).type = frame.type
<1>1. Made(frame, U) /\ frame.type \in {"object", "array"}
  BY DEF Closed, Frames
<1>2. CASE frame.type = "object"
  <2> DEFINE map == Emplace(frame.members, frame.s, v)
  <2>1. \A key \in DOMAIN map : map[key] \in U
    BY <1>1 DEF Emplace, Made
  <2> HIDE DEF map
  <2>2. Absorbed(frame, v) = [frame EXCEPT !.members = map]
    BY <1>2 DEF Absorbed, map
  <2> QED BY <1>1, <2>1, <2>2 DEF Made, Fields
<1>3. CASE frame.type = "array"
  <2> DEFINE list == Append(frame.array, v)
  <2>1. list \in Seq(U)
    BY <1>1 DEF Made
  <2> HIDE DEF list
  <2>2. Absorbed(frame, v) = [frame EXCEPT !.array = list]
    BY <1>3 DEF Absorbed, list
  <2> QED BY <1>1, <1>3, <2>1, <2>2 DEF Made, Fields
<1> QED BY <1>1, <1>2, <1>3

-----------------------------------------------------------------------------
(* What a finished value leaves. *)
LEMMA ReturnedBuilt ==
  ASSUME NEW U, Closed(U), NEW v, Made(v, U), NEW used,
         NEW stack \in Seq(Frames(U)), Returned(v, stack, used)
  PROVE  (\E W : Built(json', W)) /\ json'.pc # "loaded"
<1> DEFINE V == U \cup {v}
<1>1. Closed(V) /\ Frames(U) \subseteq Frames(V) /\ v \in V
  BY Grown
<1> HIDE DEF V
<1>2. stack \in Seq(Frames(V))
  BY <1>1
<1>3. CASE stack = << >>
  <2>1. json' = [pc |-> "end", pos |-> json.pos + used, stack |-> stack,
                 value |-> v]
    BY <1>3 DEF Returned
  <2>2. Built(json', V)
    BY <1>1, <1>2, <2>1 DEF Built
  <2> QED BY <2>1, <2>2
<1>4. CASE stack # << >>
  <2> DEFINE new == Absorbed(Last(stack), v)
             W == V \cup {new}
  <2>1. Last(stack) \in Frames(V) /\ Front(stack) \in Seq(Frames(V))
    BY <1>2, <1>4 DEF Last, Front
  <2>2. Made(new, V) /\ new.type = Last(stack).type
    BY <1>1, <2>1, AbsorbedMade
  <2> HIDE DEF new
  <2>3. Closed(W) /\ Frames(V) \subseteq Frames(W)
    BY <1>1, <2>2, Grown
  <2>4. new \in Frames(W)
    BY <2>1, <2>2 DEF Frames
  <2>5. json' = [pc |-> "more", pos |-> json.pos + used, value |-> None,
                 stack |-> Front(stack) \o <<new>>]
    BY <1>4 DEF Returned, new
  <2> HIDE DEF W
  <2>6. /\ Front(stack) \o <<new>> \in Seq(Frames(W))
        /\ Front(stack) \o <<new>> # << >>
    BY <2>1, <2>3, <2>4
  <2>7. Built(json', W)
    BY <2>3, <2>5, <2>6 DEF Built
  <2> QED BY <2>5, <2>7
<1> QED BY <1>3, <1>4

(* A token has a number, the end of the file too. *)
LEMMA TokenTyped ==
  ASSUME NEW i, text \in Seq(AnyToken) PROVE Token(i).n \in Int
<1>1. EndOfText.n \in Int
  BY DEF EndOfText, Sign
<1>2. i \in DOMAIN text => text[i] \in AnyToken
  OBVIOUS
<1> QED BY <1>1, <1>2 DEF Token, AnyToken

(* A step of the parser keeps what is built sound. *)
LEMMA ParseBuilt ==
  ASSUME NEW U, Built(json, U), text \in Seq(AnyToken), Parse
  PROVE  (\E W : Built(json', W)) /\ json'.pc # "loaded"
<1>1. /\ Closed(U) /\ json.stack \in Seq(Frames(U))
      /\ DOMAIN json = {"pc", "pos", "stack", "value"}
      /\ json.pc \in {"key", "more"} => json.stack # << >>
      /\ json.pc \in {"end", "parsed", "loaded"} => json.value \in U
  BY DEF Built
<1>2. Tok.n \in Int
  BY TokenTyped DEF Tok
<1>3. CASE Fail
  <2>1. json' = [json EXCEPT !.pc = "malformed"]
    BY <1>3 DEF Fail
  <2>2. Built(json', U)
    BY <1>1, <2>1 DEF Built
  <2> QED BY <1>1, <2>1, <2>2
<1>4. CASE ParseScalar
  <2>1. \/ Fail
        \/ Returned(Scalar(Tok), json.stack, 1)
    BY <1>4 DEF ParseScalar
  <2>2. Made(Scalar(Tok), U)
    BY <1>2, ScalarMade
  <2> QED BY <1>1, <1>3, <2>1, <2>2, ReturnedBuilt
<1>5. CASE ParseOpen
  <2> DEFINE new == Json(OpenType[Tok.k])
             W == U \cup {new}
  <2>1. OpenType[Tok.k] \in {"object", "array"}
    BY <1>5 DEF ParseOpen, Opening, OpenType
  <2>2. Made(new, U) /\ new.type \in {"object", "array"}
    BY <2>1, Created
  <2>3. \/ Returned(new, json.stack, 2)
        \/ json' = [json EXCEPT !.pos = @ + 1,
                      !.pc = IF Tok.k = "{" THEN "key" ELSE @,
                      !.stack = Append(@, new)]
    BY <1>5 DEF ParseOpen
  <2>4. json.pc = "value"
    BY <1>5 DEF ParseOpen
  <2> HIDE DEF new
  <2>5. ASSUME json' = [json EXCEPT !.pos = @ + 1,
                          !.pc = IF Tok.k = "{" THEN "key" ELSE @,
                          !.stack = Append(@, new)]
        PROVE  (\E X : Built(json', X)) /\ json'.pc # "loaded"
    <3>1. /\ Closed(W) /\ Frames(U) \subseteq Frames(W)
          /\ new \in Frames(W)
      BY <1>1, <2>2, Grown DEF Frames
    <3> HIDE DEF W
    <3>2. /\ Append(json.stack, new) \in Seq(Frames(W))
          /\ Append(json.stack, new) # << >>
      BY <1>1, <3>1
    <3>3. /\ json'.stack = Append(json.stack, new)
          /\ json'.pc \in {"key", "value"} /\ DOMAIN json' = DOMAIN json
      BY <1>1, <2>4, <2>5
    <3>4. Built(json', W)
      BY <1>1, <3>1, <3>2, <3>3 DEF Built
    <3> QED BY <3>3, <3>4
  <2> QED BY <1>1, <2>2, <2>3, <2>5, ReturnedBuilt
<1>6. CASE ParseKey
  <2>1. CASE Fail
    BY <1>3, <2>1
  <2>2. CASE ~Fail
    <3> DEFINE n == Len(json.stack)
               name == Unescaped(Tok.s)
               new == [json.stack[n] EXCEPT !.s = name]
               W == U \cup {new}
    <3>1. json' = [json EXCEPT !.pos = @ + 2, !.pc = "value",
                     !.stack[Len(json.stack)].s = Unescaped(Tok.s)]
      BY <1>6, <2>2 DEF ParseKey
    <3>2. json.stack # << >>
      BY <1>1, <1>6 DEF ParseKey
    <3>3. /\ json'.stack = [json.stack EXCEPT ![n] = new]
          /\ json'.pc = "value" /\ DOMAIN json' = DOMAIN json
      BY <1>1, <3>1
    <3>4. n \in 1 .. n /\ json.stack[n] \in Frames(U)
      BY <1>1, <3>2
    <3>5. Made(json.stack[n], U)
      BY <1>1, <3>4 DEF Closed, Frames
    <3> HIDE DEF name
    <3>6. Made(new, U) /\ new.type = json.stack[n].type
      BY <3>5, Renamed
    <3> HIDE DEF new
    <3>7. /\ Closed(W) /\ Frames(U) \subseteq Frames(W)
          /\ new \in Frames(W)
      BY <1>1, <3>4, <3>6, Grown DEF Frames
    <3> HIDE DEF W
    <3>8. [json.stack EXCEPT ![n] = new] \in Seq(Frames(W))
      BY <1>1, <3>4, <3>7
    <3>9. Built(json', W)
      BY <1>1, <3>3, <3>7, <3>8 DEF Built
    <3> QED BY <3>3, <3>9
  <2> QED BY <2>1, <2>2
<1>7. CASE ParseMore
  <2> DEFINE frame == Last(json.stack)
             done == [frame EXCEPT !.s = ""]
  <2>1. json.stack # << >> /\ json.pc = "more"
    BY <1>1, <1>7 DEF ParseMore
  <2>2. frame \in Frames(U) /\ Front(json.stack) \in Seq(Frames(U))
    BY <1>1, <2>1 DEF Last, Front
  <2>3. Made(frame, U)
    BY <1>1, <2>2 DEF Closed, Frames
  <2>4. \/ Returned(done, Front(json.stack), 1)
        \/ json' = Comma(frame)
        \/ Fail
    BY <1>7 DEF ParseMore
  <2> HIDE DEF frame
  <2>5. Made(done, U)
    BY <2>3, Renamed
  <2> HIDE DEF done
  <2>6. CASE json' = Comma(frame)
    <3>1. /\ json'.stack = json.stack /\ json'.pc \in {"key", "value"}
          /\ DOMAIN json' = DOMAIN json
      BY <1>1, <2>6 DEF Comma
    <3>2. Built(json', U)
      BY <1>1, <2>1, <3>1 DEF Built
    <3> QED BY <3>1, <3>2
  <2> QED BY <1>1, <1>3, <2>2, <2>4, <2>5, <2>6, ReturnedBuilt
<1>8. CASE ParseEnd
  <2>1. CASE Fail
    BY <1>3, <2>1
  <2>2. CASE ~Fail
    <3>1. json' = [json EXCEPT !.pc = "parsed"] /\ json.pc = "end"
      BY <1>8, <2>2 DEF ParseEnd
    <3>2. /\ json'.stack = json.stack /\ json'.pc = "parsed"
          /\ json'.value = json.value /\ DOMAIN json' = DOMAIN json
      BY <1>1, <3>1
    <3>3. Built(json', U)
      BY <1>1, <3>1, <3>2 DEF Built
    <3> QED BY <3>2, <3>3
  <2> QED BY <2>1, <2>2
<1> QED BY <1>4, <1>5, <1>6, <1>7, <1>8 DEF Parse

-----------------------------------------------------------------------------
(* The complaint is earned by the object it names.                         *)
Merited(root, x) == \E j \in Objects(root)[x[2]] : Deserved(x[1], j, x[3])
Sound(root, p) == p \in FaultList /\ (p # << >> => Merited(root, Head(p)))

IntKeys == {"port", "server_threads", "client_threads",
            "health_interval_ms"}

(* A member of a value in U is one. *)
LEMMA AtIn ==
  ASSUME NEW U, Closed(U), NEW j \in U, NEW key
  PROVE  At(j, key) \in U /\ Made(At(j, key), U)
BY DEF At, Closed, Made

(* A narrowed number is an int. *)
LEMMA Narrowed ==
  ASSUME NEW n \in Int
  PROVE  Narrow(n) \in Int /\ Narrow(n) <= MaxInt
<1> DEFINE b == 2 ^ (IntBits - 1)
           w == 2 ^ IntBits
<1>1. b \in Nat \ {0} /\ w = 2 * b
  BY ConfigAssumption
<1>2. Narrow(n) = ((n + b) % w) - b /\ MaxInt = b - 1
  BY DEF Narrow, MaxInt
<1> HIDE DEF b, w
<1>3. w \in Nat \ {0} /\ n + b \in Int
  BY <1>1
<1>4. (n + b) % w \in Int /\ (n + b) % w < w
  BY <1>3
<1> QED BY <1>1, <1>2, <1>4

(* What is right, key by key. *)
LEMMA RightMeans ==
  ASSUME NEW j
  PROVE  /\ Right(j, "ip") <=> At(j, "ip").type = "string"
         /\ \A key \in {"server", "load_balancer"} :
              Right(j, key) <=> At(j, key).type = "object"
         /\ Right(j, "backends") <=> Len(At(j, "backends").array) = 4
         /\ \A key \in IntKeys :
              Right(j, key) <=>
                /\ At(j, key).type = "int" /\ AsInt(At(j, key)) > 0
                /\ key = "port" => AsInt(At(j, key)) <= MaxPort
<1>1. \A key \in IntKeys :
        Right(j, key) <=>
          /\ At(j, key).type = "int" /\ AsInt(At(j, key)) > 0
          /\ key = "port" => AsInt(At(j, key)) <= MaxPort
  BY DEF Right, IntKeys
<1> QED BY <1>1 DEF Right

(* One list after another: the first complaint of the second counts only   *)
(* when the first has none.                                                *)
LEMMA SoundJoined ==
  ASSUME NEW root, NEW p, NEW q, Sound(root, p), q \in FaultList,
         p = << >> => Sound(root, q)
  PROVE  /\ Sound(root, p \o q)
         /\ p \o q = << >> => p = << >> /\ q = << >>
<1>1. p \in FaultList
  BY DEF Sound
<1>2. /\ p \o q \in FaultList
      /\ p \o q = << >> => p = << >> /\ q = << >>
  BY <1>1, Joined
<1> DEFINE S == {"missing", "invalid"} \X Owners \X Names
<1>3. p \in Seq(S) /\ q \in Seq(S)
  BY <1>1 DEF FaultList
<1> HIDE DEF S
<1>4. CASE p = << >>
  <2>1. p \o q = q
    BY <1>3, <1>4
  <2> QED BY <1>2, <1>4, <2>1
<1>5. CASE p # << >>
  <2>1. Head(p \o q) = Head(p)
    BY <1>3, <1>5
  <2> QED BY <1>2, <1>5, <2>1 DEF Sound
<1> QED BY <1>4, <1>5

(* One complaint. *)
LEMMA FaultSound ==
  ASSUME NEW root, NEW kind \in {"missing", "invalid"}, NEW o \in Owners,
         NEW key \in Names, NEW j \in Objects(root)[o],
         Deserved(kind, j, key)
  PROVE  Sound(root, Fault(kind, o, key))
<1>1. Fault(kind, o, key) \in FaultList
  BY OneFault
<1> DEFINE x == <<kind, o, key>>
<1>2. x[1] = kind /\ x[2] = o /\ x[3] = key
  OBVIOUS
<1> HIDE DEF x
<1>3. Head(<<x>>) = x
  OBVIOUS
<1>4. Merited(root, x)
  BY <1>2 DEF Merited
<1> QED BY <1>1, <1>3, <1>4 DEF Sound, Fault, x

(* No complaint. *)
LEMMA NoneSound ==
  ASSUME NEW root PROVE Sound(root, << >>)
BY OneFault DEF Sound, Owners, Names, Keys

Typed(key, type) ==
  \/ key = "ip" /\ type = "string"
  \/ key \in IntKeys /\ type = "int"
  \/ key \in {"server", "load_balancer"} /\ type = "object"
  \/ key = "backends" /\ type = "array"

(* A member that is missing or mistyped is complained about with reason.   *)
LEMMA NeedSound ==
  ASSUME NEW root, NEW U, Closed(U), NEW o \in Owners,
         NEW j \in Objects(root)[o], j \in U, NEW key, NEW type,
         Typed(key, type)
  PROVE  /\ Need(o, j, key, type) \in FaultList
         /\ Sound(root, Need(o, j, key, type))
         /\ Need(o, j, key, type) = << >> => At(j, key).type = type
<1>1. key \in Names /\ key # None
  BY ConfigAssumption DEF Typed, Names, Keys, IntKeys
<1>2. /\ Need(o, j, key, type) \in FaultList
      /\ Fault("missing", o, key) # << >> /\ Fault("invalid", o, key) # << >>
  <2>1. Fault("missing", o, key) # << >>
    BY DEF Fault
  <2> QED BY <1>1, <2>1, OneFault
<1>3. CASE At(j, key).type = type
  BY <1>2, <1>3, NoneSound DEF Need
<1>4. CASE At(j, key).type # type /\ At(j, key) = Absent
  <2>1. Need(o, j, key, type) = Fault("missing", o, key)
    BY <1>4 DEF Need
  <2>2. Deserved("missing", j, key)
    BY <1>1, <1>4 DEF Deserved
  <2> QED BY <1>1, <1>2, <2>1, <2>2, FaultSound
<1>5. CASE At(j, key).type # type /\ At(j, key) # Absent
  <2>1. Need(o, j, key, type) = Fault("invalid", o, key)
    BY <1>5 DEF Need
  <2>2. ~Right(j, key)
    <3>1. Made(At(j, key), U)
      BY AtIn
    <3>2. key = "backends" => Len(At(j, key).array) # 4
      <4>1. key = "backends" => type = "array"
        BY DEF Typed, IntKeys
      <4>2. key = "backends" => At(j, key).array = << >>
        BY <1>5, <3>1, <4>1 DEF Made
      <4> QED BY <4>2
    <3> QED BY <1>5, <3>2, RightMeans DEF Typed
  <2>3. Deserved("invalid", j, key)
    BY <1>1, <1>5, <2>2 DEF Deserved
  <2> QED BY <1>1, <1>2, <2>1, <2>3, FaultSound
<1> QED BY <1>3, <1>4, <1>5

Limit(key) == IF key = "port" THEN MaxPort ELSE MaxInt

(* So is a number out of its range. *)
LEMMA PositiveSound ==
  ASSUME NEW root, NEW U, Closed(U), NEW o \in Owners,
         NEW j \in Objects(root)[o], j \in U, NEW key \in IntKeys,
         At(j, key).type = "int"
  PROVE  /\ Sound(root, Positive(o, j, key, Limit(key)))
         /\ Positive(o, j, key, Limit(key)) = << >> => Right(j, key)
<1> DEFINE n == AsInt(At(j, key))
<1>1. key \in Names /\ key # None
  BY ConfigAssumption DEF Names, Keys, IntKeys
<1>2. At(j, key) # Absent
  <2>1. Absent.type = "absent"
    BY DEF Absent, Json
  <2> QED BY <2>1
<1>3. n \in Int /\ n <= MaxInt
  <2>1. At(j, key).n \in Int
    BY AtIn DEF Made
  <2> QED BY <2>1, Narrowed DEF AsInt
<1> HIDE DEF n
<1>4. Right(j, key) <=> n > 0 /\ (key = "port" => n <= MaxPort)
  BY RightMeans DEF n
<1>5. InRange(n, Limit(key)) <=> Right(j, key)
  BY <1>3, <1>4 DEF InRange, Limit
<1>6. CASE InRange(n, Limit(key))
  BY <1>5, <1>6, NoneSound DEF Positive, n
<1>7. CASE ~InRange(n, Limit(key))
  <2>1. Positive(o, j, key, Limit(key)) = Fault("invalid", o, key)
    BY <1>7 DEF Positive, n
  <2>2. Deserved("invalid", j, key)
    BY <1>1, <1>2, <1>5, <1>7 DEF Deserved
  <2>3. Fault("invalid", o, key) # << >>
    BY <1>1, OneFault
  <2> QED BY <1>1, <2>1, <2>2, <2>3, FaultSound
<1> QED BY <1>6, <1>7

-----------------------------------------------------------------------------
(* The server's members. *)
LEMMA ServerSound ==
  ASSUME NEW root, NEW U, Closed(U), NEW j \in U,
         j \in Objects(root)["server"]
  PROVE  /\ Sound(root, ServerFaults(j))
         /\ ServerFaults(j) = << >> =>
              \A key \in Members["server"] : Right(j, key)
<1> DEFINE o == "server"
           a == Need(o, j, "ip", "string")
           b == Need(o, j, "port", "int")
           c == Need(o, j, "server_threads", "int")
           d == Need(o, j, "client_threads", "int")
           e == Positive(o, j, "port", MaxPort)
           f == Positive(o, j, "server_threads", MaxInt)
           g == Positive(o, j, "client_threads", MaxInt)
<1>1. /\ a \in FaultList /\ b \in FaultList /\ c \in FaultList
      /\ d \in FaultList /\ e \in FaultList /\ f \in FaultList
      /\ g \in FaultList
  BY OneFault DEF Owners, Names, Keys
<1>2. o \in Owners /\ j \in Objects(root)[o]
  BY DEF Owners
<1>3. Sound(root, a) /\ (a = << >> => At(j, "ip").type = "string")
  BY <1>2, NeedSound DEF Typed
<1>4. Sound(root, b) /\ (b = << >> => At(j, "port").type = "int")
  BY <1>2, NeedSound DEF Typed, IntKeys
<1>5. Sound(root, c) /\ (c = << >> => At(j, "server_threads").type = "int")
  BY <1>2, NeedSound DEF Typed, IntKeys
<1>6. Sound(root, d) /\ (d = << >> => At(j, "client_threads").type = "int")
  BY <1>2, NeedSound DEF Typed, IntKeys
<1>7. b = << >> => Sound(root, e) /\ (e = << >> => Right(j, "port"))
  BY <1>2, <1>4, PositiveSound DEF Limit, IntKeys
<1>8. c = << >> =>
        Sound(root, f) /\ (f = << >> => Right(j, "server_threads"))
  BY <1>2, <1>5, PositiveSound DEF Limit, IntKeys
<1>9. d = << >> =>
        Sound(root, g) /\ (g = << >> => Right(j, "client_threads"))
  BY <1>2, <1>6, PositiveSound DEF Limit, IntKeys
<1>10. ServerFaults(j) = (((((a \o b) \o c) \o d) \o e) \o f) \o g
  BY DEF ServerFaults
<1>11. a = << >> => Right(j, "ip")
  BY <1>3, RightMeans
<1> HIDE DEF a, b, c, d, e, f, g
<1> DEFINE ab == a \o b
           abc == ab \o c
           abcd == abc \o d
           toe == abcd \o e
           tof == toe \o f
<1>12. Sound(root, ab) /\ (ab = << >> => a = << >> /\ b = << >>)
  BY <1>1, <1>3, <1>4, SoundJoined
<1> HIDE DEF ab
<1>13. Sound(root, abc) /\ (abc = << >> => ab = << >> /\ c = << >>)
  BY <1>1, <1>5, <1>12, SoundJoined
<1> HIDE DEF abc
<1>14. Sound(root, abcd) /\ (abcd = << >> => abc = << >> /\ d = << >>)
  BY <1>1, <1>6, <1>13, SoundJoined
<1> HIDE DEF abcd
<1>15. Sound(root, toe) /\ (toe = << >> => abcd = << >> /\ e = << >>)
  BY <1>1, <1>7, <1>12, <1>13, <1>14, SoundJoined
<1> HIDE DEF toe
<1>16. Sound(root, tof) /\ (tof = << >> => toe = << >> /\ f = << >>)
  BY <1>1, <1>8, <1>13, <1>14, <1>15, SoundJoined
<1> HIDE DEF tof
<1>17. /\ Sound(root, tof \o g)
       /\ tof \o g = << >> => tof = << >> /\ g = << >>
  BY <1>1, <1>9, <1>14, <1>15, <1>16, SoundJoined
<1>18. ServerFaults(j) = tof \o g
  BY <1>10 DEF tof, toe, abcd, abc, ab
<1>19. Members["server"] = {"ip", "port", "server_threads",
                            "client_threads"}
  BY DEF Members
<1>20. ServerFaults(j) = << >> => 
         \A key \in Members["server"] : Right(j, key)
  BY <1>7, <1>8, <1>9, <1>11, <1>12, <1>13, <1>14, <1>15, <1>16, <1>17,
     <1>18, <1>19
<1> QED BY <1>17, <1>18, <1>20

(* One backend. *)
LEMMA BackendSound ==
  ASSUME NEW root, NEW U, Closed(U), NEW j \in U,
         j \in Objects(root)["backend"]
  PROVE  /\ Sound(root, BackendFaults(j))
         /\ BackendFaults(j) = << >> =>
              \A key \in Members["backend"] : Right(j, key)
<1> DEFINE o == "backend"
           a == IF j.type = "object" THEN << >> ELSE Fault("invalid", o, None)
           b == Need(o, j, "ip", "string")
           c == Need(o, j, "port", "int")
           d == Positive(o, j, "port", MaxPort)
<1>1. /\ b \in FaultList /\ c \in FaultList /\ d \in FaultList
  BY OneFault DEF Owners, Names, Keys
<1>2. o \in Owners /\ j \in Objects(root)[o]
  BY DEF Owners
<1>3. Sound(root, a)
  <2>1. CASE j.type = "object"
    BY <2>1, NoneSound
  <2>2. CASE j.type # "object"
    <3>1. Deserved("invalid", j, None) /\ None \in Names
      BY <2>2 DEF Deserved, Names
    <3>2. Sound(root, Fault("invalid", o, None))
      BY <1>2, <3>1, FaultSound
    <3> QED BY <2>2, <3>2
  <2> QED BY <2>1, <2>2
<1>4. Sound(root, b) /\ (b = << >> => At(j, "ip").type = "string")
  BY <1>2, NeedSound DEF Typed
<1>5. Sound(root, c) /\ (c = << >> => At(j, "port").type = "int")
  BY <1>2, NeedSound DEF Typed, IntKeys
<1>6. c = << >> => Sound(root, d) /\ (d = << >> => Right(j, "port"))
  BY <1>2, <1>5, PositiveSound DEF Limit, IntKeys
<1>7. BackendFaults(j) = ((a \o b) \o c) \o d
  BY DEF BackendFaults
<1>8. b = << >> => Right(j, "ip")
  BY <1>4, RightMeans
<1> HIDE DEF a, b, c, d
<1> DEFINE ab == a \o b
           abc == ab \o c
<1>9. Sound(root, ab) /\ (ab = << >> => a = << >> /\ b = << >>)
  BY <1>1, <1>3, <1>4, SoundJoined
<1> HIDE DEF ab
<1>10. Sound(root, abc) /\ (abc = << >> => ab = << >> /\ c = << >>)
  BY <1>1, <1>5, <1>9, SoundJoined
<1> HIDE DEF abc
<1>11. /\ Sound(root, abc \o d)
       /\ abc \o d = << >> => abc = << >> /\ d = << >>
  BY <1>1, <1>6, <1>10, SoundJoined
<1>12. BackendFaults(j) = abc \o d
  BY <1>7 DEF abc, ab
<1>13. Members["backend"] = {"ip", "port"}
  BY DEF Members
<1> QED BY <1>6, <1>8, <1>9, <1>10, <1>11, <1>12, <1>13

(* The list of backends: the first that is at fault is complained about.   *)
LEMMA BackendsSound ==
  ASSUME NEW root, NEW U, Closed(U), NEW list \in Seq(U),
         Range(list) = Objects(root)["backend"]
  PROVE  /\ Sound(root, BackendsFaults(list))
         /\ BackendsFaults(list) = << >> =>
              \A j \in Objects(root)["backend"] :
                \A key \in Members["backend"] : Right(j, key)
<1> DEFINE bad == {i \in DOMAIN list : BackendFaults(list[i]) # << >>}
<1>1. \A i \in DOMAIN list :
        /\ list[i] \in U /\ list[i] \in Objects(root)["backend"]
  BY DEF Range
<1>2. CASE bad = {}
  <2>1. BackendsFaults(list) = << >>
    BY <1>2 DEF BackendsFaults
  <2>2. \A i \in DOMAIN list : BackendFaults(list[i]) = << >>
    BY <1>2
  <2>3. \A i \in DOMAIN list :
          \A key \in Members["backend"] : Right(list[i], key)
    BY <1>1, <2>2, BackendSound
  <2>4. \A j \in Objects(root)["backend"] : \E i \in DOMAIN list :
          j = list[i]
    BY DEF Range
  <2> QED BY <2>1, <2>3, <2>4, NoneSound
<1>3. CASE bad # {}
  <2>1. bad \subseteq Nat
    <3>1. DOMAIN list = 1 .. Len(list) /\ Len(list) \in Nat
      OBVIOUS
    <3> QED BY <3>1
  <2>2. Min(bad) \in bad
    <3> HIDE DEF bad
    <3> QED BY <1>3, <2>1, LeastNumber DEF Min
  <2>3. BackendsFaults(list) = BackendFaults(list[Min(bad)])
    BY <1>3 DEF BackendsFaults
  <2>4. /\ Min(bad) \in DOMAIN list
        /\ BackendFaults(list[Min(bad)]) # << >>
    BY <2>2
  <2>5. Sound(root, BackendFaults(list[Min(bad)]))
    BY <1>1, <2>4, BackendSound
  <2> QED BY <2>3, <2>4, <2>5
<1> QED BY <1>2, <1>3

(* The load balancer, its backends included. *)
LEMMA BalancerSound ==
  ASSUME NEW U, Closed(U), NEW root \in U, NEW j,
         j = At(root, "load_balancer"), j # Absent
  PROVE  /\ Sound(root, BalancerFaults(j))
         /\ BalancerFaults(j) = << >> =>
              /\ \A key \in Members["load_balancer"] : Right(j, key)
              /\ \A x \in Objects(root)["backend"] :
                   \A key \in Members["backend"] : Right(x, key)
<1> DEFINE o == "load_balancer"
           list == At(j, "backends").array
           a == Need(o, j, "ip", "string")
           b == Need(o, j, "port", "int")
           c == Need(o, j, "health_interval_ms", "int")
           d == Need(o, j, "backends", "array")
           e == IF Len(list) = 4 THEN << >>
                ELSE Fault("invalid", o, "backends")
           f == BackendsFaults(list)
           g == Positive(o, j, "port", MaxPort)
           h == Positive(o, j, "health_interval_ms", MaxInt)
<1>1. /\ a \in FaultList /\ b \in FaultList /\ c \in FaultList
      /\ d \in FaultList /\ g \in FaultList /\ h \in FaultList
      /\ << >> \in FaultList /\ Fault("invalid", o, "backends") \in FaultList
      /\ Fault("invalid", o, "backends") # << >>
  BY OneFault DEF Owners, Names, Keys
<1>2. /\ o \in Owners /\ j \in Objects(root)[o] /\ j \in U
      /\ Range(list) = Objects(root)["backend"]
  BY AtIn DEF Owners, Objects
<1>3. list \in Seq(U)
  BY <1>2, AtIn DEF Made
<1>4. Sound(root, a) /\ (a = << >> => At(j, "ip").type = "string")
  BY <1>2, NeedSound DEF Typed
<1>5. Sound(root, b) /\ (b = << >> => At(j, "port").type = "int")
  BY <1>2, NeedSound DEF Typed, IntKeys
<1>6. /\ Sound(root, c)
      /\ c = << >> => At(j, "health_interval_ms").type = "int"
  BY <1>2, NeedSound DEF Typed, IntKeys
<1>7. Sound(root, d) /\ (d = << >> => At(j, "backends").type = "array")
  BY <1>2, NeedSound DEF Typed
<1>8. /\ e \in FaultList
      /\ d = << >> => Sound(root, e) /\ (e = << >> => Right(j, "backends"))
  <2>1. CASE Len(list) = 4
    BY <1>1, <2>1, NoneSound, RightMeans
  <2>2. CASE Len(list) # 4
    <3>1. e = Fault("invalid", o, "backends")
      BY <2>2
    <3>2. ASSUME d = << >> PROVE Sound(root, e)
      <4>1. At(j, "backends") # Absent
        <5>1. Absent.type = "absent"
          BY DEF Absent, Json
        <5> QED BY <1>7, <3>2, <5>1
      <4>2. ~Right(j, "backends")
        BY <2>2, RightMeans
      <4>3. "backends" \in Names /\ "backends" # None
        BY ConfigAssumption DEF Names, Keys
      <4>4. Deserved("invalid", j, "backends")
        BY <4>1, <4>2, <4>3 DEF Deserved
      <4> QED BY <1>2, <3>1, <4>3, <4>4, FaultSound
    <3> QED BY <1>1, <3>1, <3>2
  <2> QED BY <2>1, <2>2
<1>9. /\ Sound(root, f) /\ f \in FaultList
      /\ f = << >> => \A x \in Objects(root)["backend"] :
                        \A key \in Members["backend"] : Right(x, key)
  <2> HIDE DEF list
  <2> QED BY <1>2, <1>3, BackendsSound DEF Sound
<1>10. b = << >> => Sound(root, g) /\ (g = << >> => Right(j, "port"))
  BY <1>2, <1>5, PositiveSound DEF Limit, IntKeys
<1>11. c = << >> =>
         Sound(root, h) /\ (h = << >> => Right(j, "health_interval_ms"))
  BY <1>2, <1>6, PositiveSound DEF Limit, IntKeys
<1>12. BalancerFaults(j) = ((((((a \o b) \o c) \o d) \o e) \o f) \o g) \o h
  BY DEF BalancerFaults
<1>13. a = << >> => Right(j, "ip")
  BY <1>4, RightMeans
<1> HIDE DEF a, b, c, d, e, f, g, h
<1> DEFINE ab == a \o b
           abc == ab \o c
           abcd == abc \o d
           toe == abcd \o e
           tof == toe \o f
           tog == tof \o g
<1>14. Sound(root, ab) /\ (ab = << >> => a = << >> /\ b = << >>)
  BY <1>1, <1>4, <1>5, SoundJoined
<1> HIDE DEF ab
<1>15. Sound(root, abc) /\ (abc = << >> => ab = << >> /\ c = << >>)
  BY <1>1, <1>6, <1>14, SoundJoined
<1> HIDE DEF abc
<1>16. Sound(root, abcd) /\ (abcd = << >> => abc = << >> /\ d = << >>)
  BY <1>1, <1>7, <1>15, SoundJoined
<1> HIDE DEF abcd
<1>17. Sound(root, toe) /\ (toe = << >> => abcd = << >> /\ e = << >>)
  BY <1>8, <1>16, SoundJoined
<1> HIDE DEF toe
<1>18. Sound(root, tof) /\ (tof = << >> => toe = << >> /\ f = << >>)
  BY <1>9, <1>17, SoundJoined
<1> HIDE DEF tof
<1>19. Sound(root, tog) /\ (tog = << >> => tof = << >> /\ g = << >>)
  BY <1>1, <1>10, <1>14, <1>15, <1>16, <1>17, <1>18, SoundJoined
<1> HIDE DEF tog
<1>20. /\ Sound(root, tog \o h)
       /\ tog \o h = << >> => tog = << >> /\ h = << >>
  BY <1>1, <1>11, <1>15, <1>16, <1>17, <1>18, <1>19, SoundJoined
<1>21. BalancerFaults(j) = tog \o h
  BY <1>12 DEF tog, tof, toe, abcd, abc, ab
<1>22. ASSUME BalancerFaults(j) = << >>
       PROVE  /\ a = << >> /\ b = << >> /\ c = << >> /\ d = << >>
              /\ e = << >> /\ f = << >> /\ g = << >> /\ h = << >>
  BY <1>14, <1>15, <1>16, <1>17, <1>18, <1>19, <1>20, <1>21, <1>22
<1>23. Members["load_balancer"] = {"ip", "port", "health_interval_ms",
                                   "backends"}
  BY DEF Members
<1> QED BY <1>8, <1>9, <1>10, <1>11, <1>13, <1>20, <1>21, <1>22, <1>23

(* The whole file. *)
LEMMA RootSound ==
  ASSUME NEW U, Closed(U), NEW root \in U
  PROVE  /\ Sound(root, Faults(root))
         /\ Faults(root) = << >> =>
              \A owner \in DOMAIN Members : \A j \in Objects(root)[owner] :
                \A key \in Members[owner] : Right(j, key)
<1> DEFINE lb == At(root, "load_balancer")
           server == At(root, "server")
           a == Need("root", root, "server", "object")
           b == ServerFaults(server)
           n == Need("root", root, "load_balancer", "object")
           m == BalancerFaults(lb)
           c == IF lb = Absent THEN << >> ELSE n \o m
<1>1. /\ "root" \in Owners /\ root \in Objects(root)["root"]
      /\ server \in Objects(root)["server"] /\ server \in U
  BY AtIn DEF Owners, Objects
<1>2. /\ a \in FaultList /\ Sound(root, a)
      /\ a = << >> => server.type = "object"
  BY <1>1, NeedSound DEF Typed
<1>3. /\ b \in FaultList /\ Sound(root, b)
      /\ b = << >> => \A key \in Members["server"] : Right(server, key)
  BY <1>1, ServerSound DEF Sound
<1>4. n \in FaultList /\ Sound(root, n)
  BY <1>1, NeedSound DEF Typed
<1>5. /\ c \in FaultList /\ Sound(root, c)
      /\ c = << >> =>
           /\ \A j \in Objects(root)["load_balancer"] :
                \A key \in Members["load_balancer"] : Right(j, key)
           /\ \A j \in Objects(root)["backend"] :
                \A key \in Members["backend"] : Right(j, key)
  <2>1. CASE lb = Absent
    <3>1. At(lb, "backends").array = << >>
      <4>1. Absent.type = "absent" /\ Absent.array = << >>
        BY DEF Absent, Json
      <4>2. At(Absent, "backends") = Absent
        BY <4>1 DEF At
      <4> QED BY <2>1, <4>1, <4>2
    <3>2. /\ Objects(root)["load_balancer"] = {lb} \ {Absent}
          /\ Objects(root)["backend"] = Range(At(lb, "backends").array)
      BY DEF Objects
    <3>3. Range(<< >>) = {} /\ {lb} \ {Absent} = {}
      BY <2>1 DEF Range
    <3> QED BY <2>1, <3>1, <3>2, <3>3, NoneSound DEF Sound
  <2>2. CASE lb # Absent
    <3>1. /\ Sound(root, m) /\ m \in FaultList
          /\ m = << >> =>
               /\ \A key \in Members["load_balancer"] : Right(lb, key)
               /\ \A x \in Objects(root)["backend"] :
                    \A key \in Members["backend"] : Right(x, key)
      BY <2>2, BalancerSound DEF Sound
    <3>2. Objects(root)["load_balancer"] = {lb}
      BY <2>2 DEF Objects
    <3>3. c = n \o m
      BY <2>2
    <3> HIDE DEF n, m, c, lb
    <3>4. Sound(root, n \o m) /\ (n \o m = << >> => m = << >>)
      BY <1>4, <3>1, SoundJoined
    <3> QED BY <3>1, <3>2, <3>3, <3>4 DEF Sound
  <2> QED BY <2>1, <2>2
<1>6. Faults(root) = (a \o b) \o c
  BY DEF Faults
<1>7. a = << >> => \A key \in Members["root"] : Right(root, key)
  BY <1>2, RightMeans DEF Members
<1>8. Objects(root)["root"] = {root} /\ Objects(root)["server"] = {server}
  BY DEF Objects
<1>9. DOMAIN Members = {"root", "server", "load_balancer", "backend"}
  BY DEF Members
<1> HIDE DEF a, b, c, server
<1> DEFINE ab == a \o b
<1>10. Sound(root, ab) /\ (ab = << >> => a = << >> /\ b = << >>)
  BY <1>2, <1>3, SoundJoined
<1> HIDE DEF ab
<1>11. /\ Sound(root, ab \o c)
       /\ ab \o c = << >> => ab = << >> /\ c = << >>
  BY <1>5, <1>10, SoundJoined
<1>12. Faults(root) = ab \o c
  BY <1>6 DEF ab
<1>13. ASSUME Faults(root) = << >>
       PROVE  \A owner \in DOMAIN Members : \A j \in Objects(root)[owner] :
                \A key \in Members[owner] : Right(j, key)
  <2>1. /\ \A j \in Objects(root)["root"] :
             \A key \in Members["root"] : Right(j, key)
        /\ \A j \in Objects(root)["server"] :
             \A key \in Members["server"] : Right(j, key)
    BY <1>3, <1>7, <1>8, <1>10, <1>11, <1>12, <1>13
  <2>2. c = << >>
    BY <1>11, <1>12, <1>13
  <2> QED BY <1>5, <1>9, <2>1, <2>2
<1> QED BY <1>11, <1>12, <1>13

-----------------------------------------------------------------------------
VerdictInv == ParseInv /\ VerdictDeserved

(* Each step keeps VerdictInv. *)
LEMMA VerdictStep ==
  ASSUME VerdictInv, [Next]_startup PROVE VerdictInv'
<1>1. /\ text = None \/ text \in Seq(AnyToken)
      /\ pc = "config" => text # None
      /\ json.pc # "loaded" => config = None /\ blamed = None
  BY DEF VerdictInv, ParseInv
<1>2. PICK U : Built(json, U)
  BY DEF VerdictInv, ParseInv
(* Nothing is read, and who comes to read has a file. *)
<1>3. ASSUME UNCHANGED cvars, pc' = "config" => pc = "config" \/ text # None
      PROVE  VerdictInv'
  <2>1. UNCHANGED <<text, json, config, blamed>>
    BY <1>3 DEF cvars
  <2>2. ParseInv'
    BY <1>1, <1>2, <1>3, <2>1 DEF ParseInv
  <2>3. VerdictDeserved'
    BY <2>1 DEF VerdictInv, VerdictDeserved
  <2> QED BY <2>2, <2>3 DEF VerdictInv
<1>4. CASE UNCHANGED startup \/ Over
  BY <1>3, <1>4 DEF startup, main, Over
<1>5. CASE Flag
  <2>1. UNCHANGED cvars /\ pc' # "config"
    BY <1>5 DEF Flag, Exit
  <2> QED BY <1>3, <2>1
<1>6. CASE CheckFlags
  <2>1. UNCHANGED cvars /\ (pc' = "config" => text # None)
    BY <1>6 DEF CheckFlags, Exit
  <2> QED BY <1>3, <2>1
<1>7. CASE \/ Configured \/ OpenSocket \/ SetReuseAddr \/ ParseAddress
           \/ Bind \/ Listen \/ ThreadFails
  <2>1. UNCHANGED cvars /\ pc' # "config"
    BY <1>7 DEF Configured, OpenSocket, SetReuseAddr, ParseAddress, Bind,
       Listen, GoOn, CloseAndReturn, ThreadFails, Exit
  <2> QED BY <1>3, <2>1
<1>8. ASSUME NEW k \in Kinds, StartThread(k) PROVE VerdictInv'
  <2>1. UNCHANGED cvars /\ pc' # "config"
    BY <1>8 DEF StartThread
  <2> QED BY <1>3, <2>1
<1>9. CASE ReadConfig
  <2>1. pc = "config" /\ UNCHANGED pc /\ (Parse \/ LoadConfig)
    BY <1>9 DEF ReadConfig, main
  <2>2. text \in Seq(AnyToken) /\ text # None
    BY <1>1, <2>1
  <2>3. CASE Parse
    <3>1. UNCHANGED <<text, config, blamed>>
      BY <2>3 DEF Parse, ParseScalar, ParseOpen, ParseKey, ParseMore,
         ParseEnd, Same
    <3>2. (\E W : Built(json', W)) /\ json'.pc # "loaded"
      BY <1>2, <2>2, <2>3, ParseBuilt
    <3>3. json.pc # "loaded"
      BY <2>3 DEF Parse, ParseScalar, ParseOpen, ParseKey, ParseMore,
         ParseEnd
    <3>4. config' = None /\ blamed' = None
      BY <1>1, <3>1, <3>3
    <3> QED BY <2>2, <3>1, <3>2, <3>4
            DEF VerdictInv, ParseInv, VerdictDeserved
  <2>4. CASE LoadConfig
    <3>1. /\ json.pc = "parsed" /\ json' = [json EXCEPT !.pc = "loaded"]
          /\ UNCHANGED text
      BY <2>4 DEF LoadConfig
    <3>2. /\ Closed(U) /\ json.value \in U
          /\ DOMAIN json = {"pc", "pos", "stack", "value"}
          /\ json.stack \in Seq(Frames(U))
      BY <1>2, <3>1 DEF Built
    <3>3. /\ json'.pc = "loaded" /\ json'.value = json.value
          /\ json'.stack = json.stack /\ DOMAIN json' = DOMAIN json
      BY <3>1, <3>2
    <3>4. Built(json', U)
      BY <3>2, <3>3 DEF Built
    <3>5. ParseInv'
      BY <1>1, <2>1, <3>1, <3>3, <3>4 DEF ParseInv
    <3> DEFINE root == json.value
    <3>6. /\ Sound(root, Faults(root))
          /\ Faults(root) = << >> =>
               \A owner \in DOMAIN Members :
                 \A j \in Objects(root)[owner] :
                   \A key \in Members[owner] : Right(j, key)
      BY <3>2, RootSound
    <3>7. /\ config = None /\ blamed = None
          /\ IF Faults(root) # << >>
               THEN blamed' = Head(Faults(root)) /\ UNCHANGED config
               ELSE UNCHANGED blamed
      BY <1>1, <2>4, <3>1 DEF LoadConfig
    <3>8. VerdictDeserved'
      <4>1. CASE Faults(root) = << >>
        BY <3>3, <3>6, <3>7, <4>1 DEF VerdictDeserved
      <4>2. CASE Faults(root) # << >>
        <5>1. Merited(root, blamed') /\ config' = None
          BY <3>6, <3>7, <4>2 DEF Sound
        <5> QED BY <3>3, <5>1 DEF VerdictDeserved, Merited
      <4> QED BY <4>1, <4>2
    <3> QED BY <3>5, <3>8 DEF VerdictInv
  <2> QED BY <2>1, <2>3, <2>4
<1> QED BY <1>4, <1>5, <1>6, <1>7, <1>8, <1>9 DEF Next, Step

(* VerdictInv holds throughout. *)
THEOREM VerdictInvariant == Spec => []VerdictInv
<1>1. ASSUME Init PROVE VerdictInv
  <2>1. /\ json = Reading /\ config = None /\ blamed = None
        /\ pc = "flags" /\ (text = None \/ text \in Seq(AnyToken))
    BY <1>1, StartupAssumption DEF Init, ConfigInit
  <2>2. Closed({Absent})
    BY Created DEF Closed, Absent
  <2>3. Built(json, {Absent})
    BY <2>1, <2>2 DEF Built, Reading
  <2> QED BY <2>1, <2>3
          DEF VerdictInv, ParseInv, VerdictDeserved, Reading
<1> QED BY <1>1, VerdictStep, PTL DEF Spec

(* A file that is accepted has every member the README requires, with its  *)
(* type and, once narrowed, in its range, and what load_config complains   *)
(* about is what is wrong, for every file, however it is nested            *)
(* (config.cpp:357-549).                                                   *)
THEOREM VerdictsAreDeserved == Spec => []VerdictDeserved
<1>1. VerdictInv => VerdictDeserved
  BY DEF VerdictInv
<1> QED BY <1>1, VerdictInvariant, PTL

-----------------------------------------------------------------------------
(* The grammar of the file, as rules for what stands between two tokens.   *)
(* A value is a scalar, an empty container, or a list that is closed; a    *)
(* list is an opened container with at least one element.                  *)
TokenAt(ts, i) == IF i \in DOMAIN ts THEN ts[i] ELSE EndOfText
Closing(type) == IF type = "object" THEN "}" ELSE "]"

Opens(ts, i, g) ==
  /\ TokenAt(ts, i).k \in DOMAIN Opening
  /\ g = Json(OpenType[TokenAt(ts, i).k])

(* An element may start at p: p follows the opening or a comma.            *)
Ready(ts, D, i, p, g) ==
  \/ p = i + 1 /\ Opens(ts, i, g)
  \/ TokenAt(ts, p - 1).k = "," /\ <<"list", i, p - 2, g>> \in D

(* The value of an element may start at p: in an object a key precedes it. *)
Keyed(ts, p, h) ==
  [h EXCEPT !.s = Unescaped(TokenAt(ts, p).s)]
IsKey(ts, p) == TokenAt(ts, p).k = "string" /\ TokenAt(ts, p + 1).k = ":"

Awaits(ts, D, i, p, g) ==
  \/ g.type = "array" /\ Ready(ts, D, i, p, g)
  \/ \E h : /\ h.type = "object" /\ Ready(ts, D, i, p - 2, h)
            /\ IsKey(ts, p - 2) /\ g = Keyed(ts, p - 2, h)

IsList(ts, D, i, j, f) ==
  \E p \in i + 1 .. j : \E g, v :
    /\ Awaits(ts, D, i, p, g)
    /\ <<"value", p, j, v>> \in D
    /\ f = Absorbed(g, v)

IsValue(ts, D, i, j, v) ==
  \/ j = i /\ IsScalar(TokenAt(ts, i)) /\ v = Scalar(TokenAt(ts, i))
  \/ /\ j = i + 1 /\ Opens(ts, i, v)
     /\ TokenAt(ts, j).k = Opening[TokenAt(ts, i).k]
  \/ \E f : /\ <<"list", i, j - 1, f>> \in D
            /\ TokenAt(ts, j).k = Closing(f.type)
            /\ v = [f EXCEPT !.s = ""]

(* A set of such statements of which each follows from others by a rule.   *)
Derivation(ts, D) ==
  \A d \in D : \E i, j \in Nat : \E v :
    \/ d = <<"value", i, j, v>> /\ IsValue(ts, D, i, j, v)
    \/ d = <<"list", i, j, v>> /\ IsList(ts, D, i, j, v)

(* A text has the value v. *)
Derives(ts, v) ==
  \E D : Derivation(ts, D) /\ <<"value", 1, Len(ts), v>> \in D

(* More statements allow more. *)
LEMMA RulesGrow ==
  ASSUME NEW ts, NEW D, NEW E, D \subseteq E, NEW i, NEW j, NEW p, NEW v
  PROVE  /\ Ready(ts, D, i, p, v) => Ready(ts, E, i, p, v)
         /\ Awaits(ts, D, i, p, v) => Awaits(ts, E, i, p, v)
         /\ IsList(ts, D, i, j, v) => IsList(ts, E, i, j, v)
         /\ IsValue(ts, D, i, j, v) => IsValue(ts, E, i, j, v)
<1>1. ASSUME NEW q, NEW h
      PROVE  Ready(ts, D, i, q, h) => Ready(ts, E, i, q, h)
  BY DEF Ready
<1>2. ASSUME NEW q, NEW g
      PROVE  Awaits(ts, D, i, q, g) => Awaits(ts, E, i, q, g)
  BY <1>1 DEF Awaits
<1>3. IsList(ts, D, i, j, v) => IsList(ts, E, i, j, v)
  BY <1>2 DEF IsList
<1>4. IsValue(ts, D, i, j, v) => IsValue(ts, E, i, j, v)
  BY DEF IsValue
<1> QED BY <1>1, <1>2, <1>3, <1>4

(* A statement that follows may be added. *)
LEMMA DerivationGrows ==
  ASSUME NEW ts, NEW D, Derivation(ts, D), NEW i \in Nat, NEW j \in Nat,
         NEW v, NEW d,
         \/ d = <<"value", i, j, v>> /\ IsValue(ts, D, i, j, v)
         \/ d = <<"list", i, j, v>> /\ IsList(ts, D, i, j, v)
  PROVE  Derivation(ts, D \cup {d})
<1> DEFINE E == D \cup {d}
<1>1. D \subseteq E
  OBVIOUS
<1>2. ASSUME NEW x, NEW a \in Nat, NEW b \in Nat, NEW w,
             \/ x = <<"value", a, b, w>> /\ IsValue(ts, D, a, b, w)
             \/ x = <<"list", a, b, w>> /\ IsList(ts, D, a, b, w)
      PROVE  \/ x = <<"value", a, b, w>> /\ IsValue(ts, E, a, b, w)
             \/ x = <<"list", a, b, w>> /\ IsList(ts, E, a, b, w)
  <2> HIDE DEF E
  <2>1. /\ IsList(ts, D, a, b, w) => IsList(ts, E, a, b, w)
        /\ IsValue(ts, D, a, b, w) => IsValue(ts, E, a, b, w)
    BY <1>1, RulesGrow
  <2> QED BY <1>2, <2>1
<1>3. ASSUME NEW x \in E
      PROVE  \E a, b \in Nat : \E w :
               \/ x = <<"value", a, b, w>> /\ IsValue(ts, E, a, b, w)
               \/ x = <<"list", a, b, w>> /\ IsList(ts, E, a, b, w)
  <2>1. \E a, b \in Nat : \E w :
          \/ x = <<"value", a, b, w>> /\ IsValue(ts, D, a, b, w)
          \/ x = <<"list", a, b, w>> /\ IsList(ts, D, a, b, w)
    <3>1. CASE x \in D
      BY <3>1 DEF Derivation
    <3>2. CASE x = d
      BY <3>2
    <3> QED BY <3>1, <3>2
  <2> HIDE DEF E
  <2> QED BY <1>2, <2>1
<1> QED BY <1>3 DEF Derivation

(* Each statement follows by its rule. *)
LEMMA DerivedBy ==
  ASSUME NEW ts, NEW D, Derivation(ts, D), NEW i, NEW j, NEW v
  PROVE  /\ <<"value", i, j, v>> \in D =>
              i \in Nat /\ j \in Nat /\ IsValue(ts, D, i, j, v)
         /\ <<"list", i, j, v>> \in D =>
              i \in Nat /\ j \in Nat /\ IsList(ts, D, i, j, v)
<1>1. ASSUME NEW kind, NEW d \in D, d = <<kind, i, j, v>>
      PROVE  /\ i \in Nat /\ j \in Nat
             /\ \/ kind = "value" /\ IsValue(ts, D, i, j, v)
                \/ kind = "list" /\ IsList(ts, D, i, j, v)
  <2>1. PICK a \in Nat, b \in Nat : \E w :
          \/ d = <<"value", a, b, w>> /\ IsValue(ts, D, a, b, w)
          \/ d = <<"list", a, b, w>> /\ IsList(ts, D, a, b, w)
    BY DEF Derivation
  <2>2. PICK w :
          \/ d = <<"value", a, b, w>> /\ IsValue(ts, D, a, b, w)
          \/ d = <<"list", a, b, w>> /\ IsList(ts, D, a, b, w)
    BY <2>1
  <2>3. a = i /\ b = j /\ w = v
    BY <1>1, <2>2
  <2>4. d[1] = kind
    BY <1>1
  <2>5. CASE d = <<"value", a, b, w>> /\ IsValue(ts, D, a, b, w)
    BY <2>3, <2>4, <2>5
  <2>6. CASE d = <<"list", a, b, w>> /\ IsList(ts, D, a, b, w)
    BY <2>3, <2>4, <2>6
  <2> QED BY <2>2, <2>3, <2>5, <2>6
<1>2. "value" # "list"
  OBVIOUS
<1> QED BY <1>1, <1>2

-----------------------------------------------------------------------------
(* What the parser j has read of ts follows by the rules: at[k] is where   *)
(* the k-th open container starts.                                         *)
Outer(ts, D, at, stack) ==
  /\ DOMAIN at = 1 .. Len(stack)
  /\ \A k \in 1 .. Len(stack) : at[k] \in Nat
  /\ Len(stack) > 0 => at[1] = 1
  /\ \A k \in 1 .. Len(stack) - 1 :
       at[k] < at[k + 1] /\ Awaits(ts, D, at[k], at[k + 1], stack[k])

Followed(ts, D, at, j) ==
  LET n == Len(j.stack)
  IN  /\ Derivation(ts, D)
      /\ Outer(ts, D, at, j.stack)
      /\ j.pos \in 1 .. Len(ts) + 1
      /\ n > 0 => at[n] < j.pos
      /\ j.pc = "value" /\ n = 0 => j.pos = 1
      /\ j.pc = "value" /\ n > 0 => Awaits(ts, D, at[n], j.pos, j.stack[n])
      /\ j.pc = "key" => /\ Ready(ts, D, at[n], j.pos, j.stack[n])
                         /\ j.stack[n].type = "object"
      /\ j.pc = "more" => <<"list", at[n], j.pos - 1, j.stack[n]>> \in D
      /\ j.pc = "end" => <<"value", 1, j.pos - 1, j.value>> \in D
      /\ j.pc \in {"parsed", "loaded"} =>
           <<"value", 1, Len(ts), j.value>> \in D

(* A sequence without its last element. *)
LEMMA FrontOf ==
  ASSUME NEW S, NEW s \in Seq(S), s # << >>
  PROVE  /\ Front(s) \in Seq(S) /\ Len(Front(s)) = Len(s) - 1
         /\ \A k \in 1 .. Len(s) - 1 : Front(s)[k] = s[k]
<1>1. /\ Len(s) \in Nat /\ Len(s) > 0
      /\ \A k \in 1 .. Len(s) : s[k] \in S
  OBVIOUS
<1>2. Front(s) = SubSeq(s, 1, Len(s) - 1)
  BY DEF Front
<1>3. Front(s) = [k \in 1 .. Len(s) - 1 |-> s[k]]
  BY <1>1, <1>2, SubSeqProperties
<1>4. Len(s) - 1 \in Nat
  BY <1>1
<1>5. ASSUME NEW k \in 1 .. Len(s) - 1 PROVE s[k] \in S
  BY <1>1
<1> QED BY <1>3, <1>4, <1>5

(* Only the text has tokens other than the end. *)
LEMMA WithinText ==
  ASSUME NEW ts \in Seq(AnyToken), NEW i
  PROVE  /\ TokenAt(ts, i).k # "end" => i \in 1 .. Len(ts)
         /\ TokenAt(ts, i) = EndOfText => i \notin 1 .. Len(ts)
<1>1. EndOfText.k = "end"
  BY DEF EndOfText, Sign
<1>2. DOMAIN ts = 1 .. Len(ts)
  OBVIOUS
<1>3. ASSUME i \in DOMAIN ts PROVE ts[i].k # "end"
  <2>1. ts[i] \in AnyToken
    BY <1>3
  <2> QED BY <2>1 DEF AnyToken
<1> QED BY <1>1, <1>2, <1>3 DEF TokenAt

(* The rules for outer containers with more statements. *)
LEMMA OuterGrows ==
  ASSUME NEW ts, NEW D, NEW E, D \subseteq E, NEW at, NEW stack,
         Outer(ts, D, at, stack)
  PROVE  Outer(ts, E, at, stack)
BY RulesGrow DEF Outer

(* A finished value follows, and what it is put into. *)
LEMMA ReturnedFollows ==
  ASSUME NEW ts, NEW D, Derivation(ts, D), NEW S, NEW stack \in Seq(S),
         NEW at, Outer(ts, D, at, stack), NEW v, NEW used,
         NEW p \in Nat, NEW q \in Nat, p <= q, q <= Len(ts),
         Len(ts) \in Nat, json.pos + used = q + 1,
         IsValue(ts, D, p, q, v),
         stack = << >> => p = 1,
         stack # << >> => /\ at[Len(stack)] < p
                          /\ Awaits(ts, D, at[Len(stack)], p, Last(stack)),
         Returned(v, stack, used)
  PROVE  \E E, b : Followed(ts, E, b, json')
<1> DEFINE d == <<"value", p, q, v>>
           E == D \cup {d}
<1>1. Derivation(ts, E)
  BY DerivationGrows
<1>2. D \subseteq E /\ d \in E
  OBVIOUS
<1> HIDE DEF E
<1>3. Outer(ts, E, at, stack)
  BY <1>2, OuterGrows
<1>4. CASE stack = << >>
  <2>1. json' = [pc |-> "end", pos |-> json.pos + used, stack |-> stack,
                 value |-> v]
    BY <1>4 DEF Returned
  <2>2. /\ json'.pc = "end" /\ json'.pos = q + 1 /\ json'.stack = stack
        /\ json'.value = v /\ Len(stack) = 0
    BY <1>4, <2>1
  <2>3. <<"value", 1, (q + 1) - 1, v>> \in E
    <3>1. (q + 1) - 1 = q /\ p = 1
      BY <1>4
    <3> QED BY <1>2, <3>1
  <2>4. Followed(ts, E, at, json')
    BY <1>1, <1>3, <2>2, <2>3 DEF Followed
  <2> QED BY <2>4
<1>5. CASE stack # << >>
  <2> DEFINE m == Len(stack)
             new == Absorbed(Last(stack), v)
             x == <<"list", at[m], q, new>>
             F == E \cup {x}
             after == Front(stack) \o <<new>>
  <2>1. m \in Nat /\ m > 0 /\ at[m] \in Nat
    BY <1>5 DEF Outer
  <2>2. Awaits(ts, E, at[m], p, Last(stack)) /\ p \in at[m] + 1 .. q
    <3>1. Awaits(ts, D, at[m], p, Last(stack)) /\ at[m] < p
      BY <1>5
    <3>2. Awaits(ts, E, at[m], p, Last(stack))
      <4> HIDE DEF m
      <4> QED BY <1>2, <3>1, RulesGrow
    <3>3. p \in at[m] + 1 .. q
      BY <2>1, <3>1
    <3> QED BY <3>2, <3>3
  <2>3. IsList(ts, E, at[m], q, new)
    BY <1>2, <2>2 DEF IsList
  <2>4. Derivation(ts, F)
    BY <1>1, <2>1, <2>3, DerivationGrows
  <2>5. E \subseteq F /\ x \in F
    OBVIOUS
  <2> HIDE DEF F
  <2>6. Outer(ts, F, at, stack)
    BY <1>3, <2>5, OuterGrows
  <2>7. json' = [pc |-> "more", pos |-> json.pos + used, value |-> None,
                 stack |-> after]
    BY <1>5 DEF Returned
  <2> HIDE DEF new
  <2>8. /\ Len(after) = m /\ after[m] = new
        /\ \A k \in 1 .. m - 1 : after[k] = stack[k]
    BY <1>5 DEF Front
  <2> HIDE DEF after
  <2>9. Outer(ts, F, at, after)
    BY <2>6, <2>8 DEF Outer
  <2>10. /\ json'.pc = "more" /\ json'.pos = q + 1 /\ json'.stack = after
    BY <2>7
  <2>11. <<"list", at[m], (q + 1) - 1, after[m]>> \in F
    <3>1. (q + 1) - 1 = q
      OBVIOUS
    <3> QED BY <2>5, <2>8, <3>1
  <2>12. at[m] < q + 1 /\ q + 1 \in 1 .. Len(ts) + 1
    BY <2>1, <2>2
  <2> HIDE DEF m
  <2>13. Followed(ts, F, at, json')
    BY <2>4, <2>8, <2>9, <2>10, <2>11, <2>12 DEF Followed
  <2> QED BY <2>13
<1> QED BY <1>4, <1>5

(* A step of the parser follows by the rules. *)
LEMMA ParseFollows ==
  ASSUME NEW U, Built(json, U), text \in Seq(AnyToken), Parse,
         NEW D, NEW at, Followed(text, D, at, json)
  PROVE  \E E, b : Followed(text, E, b, json')
<1> DEFINE n == Len(json.stack)
           pos == json.pos
<1>1. /\ DOMAIN json = {"pc", "pos", "stack", "value"}
      /\ json.stack \in Seq(Frames(U))
      /\ json.pc \in {"key", "more"} => json.stack # << >>
  BY DEF Built
<1>2. /\ Derivation(text, D) /\ Outer(text, D, at, json.stack)
      /\ pos \in 1 .. Len(text) + 1 /\ (n > 0 => at[n] < pos)
      /\ json.pc = "value" /\ n = 0 => pos = 1
      /\ json.pc = "value" /\ n > 0 =>
           Awaits(text, D, at[n], pos, json.stack[n])
  BY DEF Followed
<1>3. /\ n \in Nat /\ Len(text) \in Nat /\ pos \in Nat
      /\ json.stack = << >> <=> n = 0
      /\ \A k \in 1 .. n : at[k] \in Nat
  BY <1>1, <1>2 DEF Outer
<1>4. Tok = TokenAt(text, pos) /\ \A i : Token(i) = TokenAt(text, i)
  BY DEF Tok, Token, TokenAt
<1>5. CASE Fail
  <2>1. json' = [json EXCEPT !.pc = "malformed"]
    BY <1>5 DEF Fail
  <2>2. /\ json'.pc = "malformed" /\ json'.pos = pos
        /\ json'.stack = json.stack
    BY <1>1, <2>1
  <2>3. Followed(text, D, at, json')
    BY <1>2, <2>2 DEF Followed
  <2> QED BY <2>3
<1>6. CASE ParseScalar
  <2>1. CASE Fail
    BY <1>5, <2>1
  <2>2. CASE ~Fail
    <3>1. /\ json.pc = "value" /\ IsScalar(Tok)
          /\ Returned(Scalar(Tok), json.stack, 1)
      BY <1>6, <2>2 DEF ParseScalar
    <3>2. pos \in 1 .. Len(text)
      <4>1. Tok.k # "end"
        BY <3>1 DEF IsScalar
      <4> QED BY <1>4, <4>1, WithinText
    <3>3. IsValue(text, D, pos, pos, Scalar(Tok))
      BY <1>4, <3>1 DEF IsValue
    <3>4. json.stack # << >> =>
            /\ at[n] < pos
            /\ Awaits(text, D, at[n], pos, Last(json.stack))
      BY <1>2, <1>3, <3>1 DEF Last
    <3>5. json.stack = << >> => pos = 1
      BY <1>2, <1>3, <3>1
    <3>6. /\ pos \in Nat /\ pos <= pos /\ pos <= Len(text)
          /\ json.pos + 1 = pos + 1
      BY <3>2
    <3> HIDE DEF pos
    <3> QED BY <1>1, <1>2, <1>3, <3>1, <3>3, <3>4, <3>5, <3>6,
               ReturnedFollows
  <2> QED BY <2>1, <2>2
<1>7. CASE ParseOpen
  <2> DEFINE new == Json(OpenType[Tok.k])
  <2>1. json.pc = "value" /\ Tok.k \in DOMAIN Opening
    BY <1>7 DEF ParseOpen
  <2>2. Opens(text, pos, new)
    BY <1>4, <2>1 DEF Opens
  <2>3. pos \in 1 .. Len(text)
    <3>1. Tok.k # "end"
      BY <2>1 DEF Opening
    <3> QED BY <1>4, <3>1, WithinText
  <2>4. CASE Token(pos + 1).k = Opening[Tok.k]
    <3>1. Returned(new, json.stack, 2)
      BY <1>7, <2>4 DEF ParseOpen
    <3>2. pos + 1 \in 1 .. Len(text)
      <4>1. Token(pos + 1).k # "end"
        BY <2>1, <2>4 DEF Opening
      <4> QED BY <1>4, <4>1, WithinText
    <3>3. IsValue(text, D, pos, pos + 1, new)
      BY <1>4, <2>2, <2>4 DEF IsValue
    <3>4. json.stack # << >> =>
            /\ at[n] < pos
            /\ Awaits(text, D, at[n], pos, Last(json.stack))
      BY <1>2, <1>3, <2>1 DEF Last
    <3>5. json.stack = << >> => pos = 1
      BY <1>2, <1>3, <2>1
    <3>6. /\ pos \in Nat /\ pos + 1 \in Nat /\ pos <= pos + 1
          /\ pos + 1 <= Len(text) /\ json.pos + 2 = (pos + 1) + 1
      BY <3>2, <1>3
    <3> HIDE DEF pos, new
    <3> QED BY <1>1, <1>2, <1>3, <3>1, <3>3, <3>4, <3>5, <3>6,
               ReturnedFollows
  <2>5. CASE Token(pos + 1).k # Opening[Tok.k]
    <3> DEFINE b == [k \in 1 .. n + 1 |-> IF k = n + 1 THEN pos ELSE at[k]]
               after == Append(json.stack, new)
    <3>1. json' = [json EXCEPT !.pos = @ + 1,
                     !.pc = IF Tok.k = "{" THEN "key" ELSE @,
                     !.stack = Append(@, new)]
      BY <1>7, <2>5 DEF ParseOpen
    <3>2. /\ json'.pos = pos + 1 /\ json'.stack = after
          /\ json'.pc = IF Tok.k = "{" THEN "key" ELSE "value"
      BY <1>1, <2>1, <3>1
    <3>3. new.type = IF Tok.k = "{" THEN "object" ELSE "array"
      BY <2>1 DEF Json, OpenType, Opening
    <3>4. Ready(text, D, pos, pos + 1, new)
      BY <2>2 DEF Ready
    <3>5. Tok.k # "{" => Awaits(text, D, pos, pos + 1, new)
      BY <3>3, <3>4 DEF Awaits
    <3> HIDE DEF new
    <3>6. /\ Len(after) = n + 1 /\ after[n + 1] = new
          /\ \A k \in 1 .. n : after[k] = json.stack[k]
      BY <1>1
    <3> HIDE DEF after
    <3>7. /\ DOMAIN b = 1 .. n + 1 /\ b[n + 1] = pos
          /\ \A k \in 1 .. n : b[k] = at[k]
      BY <1>3
    <3> HIDE DEF b
    <3>8. Outer(text, D, b, after)
      <4>1. \A k \in 1 .. n + 1 : b[k] \in Nat
        BY <1>3, <3>7
      <4>2. b[1] = 1
        <5>1. CASE n = 0
          BY <1>2, <2>1, <3>7, <5>1
        <5>2. CASE n # 0
          BY <1>2, <1>3, <3>7, <5>2 DEF Outer
        <5> QED BY <5>1, <5>2
      <4>3. ASSUME NEW k \in 1 .. (n + 1) - 1
            PROVE  /\ b[k] < b[k + 1]
                   /\ Awaits(text, D, b[k], b[k + 1], after[k])
        <5>1. CASE k = n
          BY <1>2, <1>3, <2>1, <3>6, <3>7, <5>1
        <5>2. CASE k # n
          <6>1. k \in 1 .. n - 1 /\ k + 1 \in 1 .. n /\ k \in 1 .. n
            BY <1>3, <5>2
          <6> QED BY <1>2, <3>6, <3>7, <6>1 DEF Outer
        <5> QED BY <5>1, <5>2
      <4> QED BY <3>6, <3>7, <4>1, <4>2, <4>3 DEF Outer
    <3>9. pos + 1 \in 1 .. Len(text) + 1 /\ pos < pos + 1
      BY <2>3
    <3>10. /\ Len(after) # 0 /\ b[Len(after)] = pos
           /\ after[Len(after)] = new
      BY <1>3, <3>6, <3>7
    <3>11. Outer(text, D, b, json'.stack)
      BY <3>2, <3>8
    <3> HIDE DEF n, pos
    <3>12. Followed(text, D, b, json')
      BY <1>2, <3>2, <3>3, <3>4, <3>5, <3>9, <3>10, <3>11 DEF Followed
    <3> QED BY <3>12
  <2> QED BY <2>4, <2>5
<1>8. CASE ParseKey
  <2>1. CASE Fail
    BY <1>5, <2>1
  <2>2. CASE ~Fail
    <3> DEFINE frame == json.stack[n]
               new == Keyed(text, pos, frame)
               after == [json.stack EXCEPT ![n] = new]
    <3>1. /\ json.pc = "key" /\ Tok.k = "string" /\ Token(pos + 1).k = ":"
          /\ json' = [json EXCEPT !.pos = @ + 2, !.pc = "value",
                        !.stack[Len(json.stack)].s = Unescaped(Tok.s)]
      BY <1>8, <2>2 DEF ParseKey
    <3>2. n > 0 /\ at[n] \in Nat
      BY <1>1, <1>3, <3>1
    <3>3. /\ json'.pos = pos + 2 /\ json'.pc = "value"
          /\ json'.stack = after
      BY <1>1, <1>4, <3>1 DEF Keyed
    <3>4. Ready(text, D, at[n], pos, frame) /\ frame.type = "object"
      BY <3>1 DEF Followed
    <3>5. IsKey(text, pos)
      BY <1>4, <3>1 DEF IsKey
    <3>6. Awaits(text, D, at[n], pos + 2, new)
      <4>1. (pos + 2) - 2 = pos
        BY <1>3
      <4> HIDE DEF frame, pos
      <4> QED BY <3>4, <3>5, <4>1 DEF Awaits
    <3>7. pos + 1 \in 1 .. Len(text)
      BY <1>4, <3>1, WithinText
    <3> HIDE DEF new
    <3>8. /\ Len(after) = n /\ after[n] = new
          /\ \A k \in 1 .. n - 1 : after[k] = json.stack[k]
      BY <1>1, <3>2
    <3> HIDE DEF after
    <3>9. Outer(text, D, at, after)
      BY <1>2, <3>8 DEF Outer
    <3>10. pos + 2 \in 1 .. Len(text) + 1 /\ at[n] < pos + 2
      BY <1>2, <1>3, <3>2, <3>7
    <3> HIDE DEF n, pos
    <3>11. Followed(text, D, at, json')
      BY <1>2, <3>2, <3>3, <3>6, <3>8, <3>9, <3>10 DEF Followed
    <3> QED BY <3>11
  <2> QED BY <2>1, <2>2
<1>9. CASE ParseMore
  <2> DEFINE frame == Last(json.stack)
  <2>1. json.pc = "more" /\ json.stack # << >>
    BY <1>1, <1>9 DEF ParseMore
  <2>2. /\ n > 0 /\ at[n] \in Nat /\ frame = json.stack[n]
        /\ frame \in Frames(U)
    BY <1>1, <1>3, <2>1 DEF Last
  <2>3. <<"list", at[n], pos - 1, frame>> \in D
    BY <2>1, <2>2 DEF Followed
  <2>4. CASE MayClose(frame)
    <3> DEFINE v == [frame EXCEPT !.s = ""]
               rest == Front(json.stack)
               b == [k \in 1 .. n - 1 |-> at[k]]
    <3>1. Returned(v, rest, 1)
      BY <1>9, <2>4 DEF ParseMore, MayClose
    <3>2. TokenAt(text, pos).k = Closing(frame.type)
      BY <1>4, <2>4 DEF MayClose, Closing
    <3>3. pos \in 1 .. Len(text)
      <4>1. TokenAt(text, pos).k # "end"
        BY <3>2 DEF Closing
      <4> QED BY <4>1, WithinText
    <3>4. IsValue(text, D, at[n], pos, v)
      <4> HIDE DEF frame
      <4> QED BY <2>3, <3>2 DEF IsValue
    <3> HIDE DEF v, frame
    <3>5. /\ rest \in Seq(Frames(U)) /\ Len(rest) = n - 1
          /\ \A k \in 1 .. n - 1 : rest[k] = json.stack[k]
      BY <1>1, <2>1, FrontOf
    <3> HIDE DEF rest
    <3>6. DOMAIN b = 1 .. n - 1 /\ \A k \in 1 .. n - 1 : b[k] = at[k]
      OBVIOUS
    <3> HIDE DEF b
    <3>7. Outer(text, D, b, rest)
      <4>1. ASSUME NEW k \in 1 .. n - 1 PROVE b[k] \in Nat
        <5>1. k \in 1 .. n /\ b[k] = at[k]
          BY <1>3, <3>6
        <5> HIDE DEF n
        <5> QED BY <1>3, <5>1
      <4>2. n - 1 > 0 => b[1] = 1
        BY <1>2, <1>3, <3>6 DEF Outer
      <4>3. ASSUME NEW k \in 1 .. (n - 1) - 1
            PROVE  /\ b[k] < b[k + 1]
                   /\ Awaits(text, D, b[k], b[k + 1], rest[k])
        <5>1. k \in 1 .. n - 1 /\ k + 1 \in 1 .. n - 1
          BY <1>3
        <5> QED BY <1>2, <3>5, <3>6, <5>1 DEF Outer
      <4> QED BY <3>5, <3>6, <4>1, <4>2, <4>3 DEF Outer
    <3>8. rest = << >> => at[n] = 1
      <4>1. ASSUME rest = << >> PROVE n = 1
        BY <1>3, <3>5, <4>1
      <4>2. at[1] = 1
        BY <1>2, <2>2 DEF Outer
      <4> QED BY <4>1, <4>2
    <3>9. rest # << >> =>
            /\ b[Len(rest)] < at[n]
            /\ Awaits(text, D, b[Len(rest)], at[n], Last(rest))
      <4>1. ASSUME rest # << >> PROVE n - 1 \in 1 .. n - 1
        BY <1>3, <3>5, <4>1
      <4>2. ASSUME rest # << >>
            PROVE  /\ at[n - 1] < at[(n - 1) + 1]
                   /\ Awaits(text, D, at[n - 1], at[(n - 1) + 1],
                             json.stack[n - 1])
        BY <1>2, <4>1, <4>2 DEF Outer
      <4>3. (n - 1) + 1 = n
        BY <1>3
      <4> QED BY <3>5, <3>6, <4>1, <4>2, <4>3 DEF Last
    <3>10. /\ at[n] <= pos /\ pos <= Len(text) /\ json.pos + 1 = pos + 1
      BY <1>2, <1>3, <2>2, <3>3
    <3> HIDE DEF n, pos
    <3> QED BY <1>2, <1>3, <2>2, <3>1, <3>4, <3>5, <3>7, <3>8, <3>9,
               <3>10, ReturnedFollows
  <2>5. CASE ~MayClose(frame) /\ Tok.k = ","
    <3>1. json' = Comma(frame)
      BY <1>9, <2>5 DEF ParseMore, MayClose
    <3>2. /\ json'.pos = pos + 1 /\ json'.stack = json.stack
          /\ json'.pc = IF frame.type = "object" THEN "key" ELSE "value"
      BY <1>1, <3>1 DEF Comma
    <3>3. frame.type \in {"object", "array"}
      BY <2>2 DEF Frames
    <3>4. Ready(text, D, at[n], pos + 1, frame)
      <4>1. (pos + 1) - 1 = pos /\ (pos + 1) - 2 = pos - 1
        BY <1>3
      <4> HIDE DEF frame, pos
      <4> QED BY <1>4, <2>3, <2>5, <4>1 DEF Ready
    <3>5. pos \in 1 .. Len(text)
      BY <1>4, <2>5, WithinText
    <3>6. pos + 1 \in 1 .. Len(text) + 1 /\ at[n] < pos + 1
      BY <1>2, <1>3, <2>2, <3>5
    <3>7. frame.type = "array" => Awaits(text, D, at[n], pos + 1, frame)
      <4> HIDE DEF frame, pos
      <4> QED BY <3>4 DEF Awaits
    <3> HIDE DEF frame, n, pos
    <3>8. Followed(text, D, at, json')
      BY <1>2, <2>2, <3>2, <3>3, <3>4, <3>6, <3>7 DEF Followed, n
    <3> QED BY <3>8
  <2>6. CASE ~MayClose(frame) /\ Tok.k # ","
    <3>1. Fail
      BY <1>9, <2>6 DEF ParseMore, MayClose
    <3> QED BY <1>5, <3>1
  <2> QED BY <2>4, <2>5, <2>6
<1>10. CASE ParseEnd
  <2>1. CASE Fail
    BY <1>5, <2>1
  <2>2. CASE ~Fail
    <3>1. /\ json' = [json EXCEPT !.pc = "parsed"] /\ json.pc = "end"
          /\ Tok = EndOfText
      BY <1>10, <2>2 DEF ParseEnd, AtEnd
    <3>2. pos = Len(text) + 1
      <4>1. pos \notin 1 .. Len(text)
        BY <1>4, <3>1, WithinText
      <4>2. pos \in 1 .. Len(text) + 1 /\ Len(text) \in Nat
        BY <1>2, <1>3
      <4> HIDE DEF pos
      <4> QED BY <4>1, <4>2
    <3>3. pos - 1 = Len(text)
      BY <1>3, <3>2
    <3>4. <<"value", 1, Len(text), json.value>> \in D
      BY <3>1, <3>3 DEF Followed
    <3>5. /\ json'.pc = "parsed" /\ json'.pos = pos
          /\ json'.stack = json.stack /\ json'.value = json.value
      BY <1>1, <3>1
    <3>6. Followed(text, D, at, json')
      BY <1>2, <3>4, <3>5 DEF Followed
    <3> QED BY <3>6
  <2> QED BY <2>1, <2>2
<1> QED BY <1>6, <1>7, <1>8, <1>9, <1>10 DEF Parse

-----------------------------------------------------------------------------
(* The other way round: how a derivation D of the text leads the parser.   *)
(* A goal is where an open container is closed and which value it has      *)
(* then.  S has the positions, each with the container as it is there,     *)
(* from which D reads the next value and goes on to the goal.              *)
Enter(ts, S, p, f) ==
  IF f.type = "object"
    THEN IsKey(ts, p) /\ <<p + 2, Keyed(ts, p, f)>> \in S
    ELSE <<p, f>> \in S

(* The container is f after the element that ends at q. *)
After(ts, S, goal, q, f) ==
  \/ /\ goal = <<q + 1, [f EXCEPT !.s = ""]>>
     /\ TokenAt(ts, q + 1).k = Closing(f.type)
  \/ TokenAt(ts, q + 1).k = "," /\ Enter(ts, S, q + 2, f)

Leading(ts, D, S, goal) ==
  \A x \in S : \E q, u :
    /\ <<"value", x[1], q, u>> \in D
    /\ After(ts, S, goal, q, Absorbed(x[2], u))

Entered(ts, D, goal, p, f) ==
  \E S : Leading(ts, D, S, goal) /\ Enter(ts, S, p, f)
Leads(ts, D, goal, p, g) ==
  \E S : Leading(ts, D, S, goal) /\ <<p, g>> \in S
Goes(ts, D, goal, q, f) ==
  \E S : Leading(ts, D, S, goal) /\ After(ts, S, goal, q, f)

(* More positions lead no less far. *)
LEMMA AfterGrows ==
  ASSUME NEW ts, NEW S, NEW T, S \subseteq T, NEW goal, NEW q, NEW f,
         After(ts, S, goal, q, f)
  PROVE  After(ts, T, goal, q, f)
BY DEF After, Enter

(* A position before an element from which D goes on is one more. *)
LEMMA LeadingGrows ==
  ASSUME NEW ts, NEW D, NEW S, NEW goal, Leading(ts, D, S, goal),
         NEW p, NEW g, NEW q, NEW u, <<"value", p, q, u>> \in D,
         After(ts, S, goal, q, Absorbed(g, u))
  PROVE  Leading(ts, D, S \cup {<<p, g>>}, goal)
<1> DEFINE T == S \cup {<<p, g>>}
<1>1. S \subseteq T
  OBVIOUS
<1>2. ASSUME NEW x \in T
      PROVE  \E r, w : /\ <<"value", x[1], r, w>> \in D
                       /\ After(ts, S, goal, r, Absorbed(x[2], w))
  <2>1. CASE x \in S
    BY <2>1 DEF Leading
  <2>2. CASE x = <<p, g>>
    <3>1. x[1] = p /\ x[2] = g
      BY <2>2
    <3> QED BY <3>1
  <2> QED BY <2>1, <2>2
<1> HIDE DEF T
<1>3. ASSUME NEW x \in T
      PROVE  \E r, w : /\ <<"value", x[1], r, w>> \in D
                       /\ After(ts, T, goal, r, Absorbed(x[2], w))
  <2>1. PICK r, w : /\ <<"value", x[1], r, w>> \in D
                    /\ After(ts, S, goal, r, Absorbed(x[2], w))
    BY <1>2
  <2> QED BY <1>1, <2>1, AfterGrows
<1> QED BY <1>3 DEF Leading, T

(* What leads from a position. *)
LEMMA NextElement ==
  ASSUME NEW ts, NEW D, NEW goal, NEW p, NEW g, Leads(ts, D, goal, p, g)
  PROVE  \E q, u : /\ <<"value", p, q, u>> \in D
                   /\ Goes(ts, D, goal, q, Absorbed(g, u))
<1>1. PICK S : Leading(ts, D, S, goal) /\ <<p, g>> \in S
  BY DEF Leads
<1>2. <<p, g>>[1] = p /\ <<p, g>>[2] = g
  OBVIOUS
<1>3. PICK q, u : /\ <<"value", p, q, u>> \in D
                  /\ After(ts, S, goal, q, Absorbed(g, u))
  BY <1>1, <1>2 DEF Leading
<1> QED BY <1>1, <1>3 DEF Goes

(* How it goes on after an element. *)
LEMMA NextStep ==
  ASSUME NEW ts, NEW D, NEW goal, NEW q, NEW f, Goes(ts, D, goal, q, f)
  PROVE  \/ /\ goal = <<q + 1, [f EXCEPT !.s = ""]>>
            /\ TokenAt(ts, q + 1).k = Closing(f.type)
         \/ TokenAt(ts, q + 1).k = "," /\ Entered(ts, D, goal, q + 2, f)
BY DEF Goes, After, Entered

(* An element starts with a key or with a value. *)
LEMMA EnteredBy ==
  ASSUME NEW ts, NEW D, NEW goal, NEW p, NEW f, Entered(ts, D, goal, p, f)
  PROVE  IF f.type = "object"
           THEN /\ IsKey(ts, p)
                /\ Leads(ts, D, goal, p + 2, Keyed(ts, p, f))
           ELSE Leads(ts, D, goal, p, f)
BY DEF Entered, Enter, Leads

(* A list that leads to the goal is entered behind its opening.            *)
LEMMA EnteredAtStart ==
  ASSUME NEW ts, NEW D, Derivation(ts, D), NEW i, NEW j, NEW f, NEW goal,
         <<"list", i, j, f>> \in D, Goes(ts, D, goal, j, f)
  PROVE  \E g : Opens(ts, i, g) /\ Entered(ts, D, goal, i + 1, g)
<1> DEFINE K == {k \in Nat : \E h : /\ <<"list", i, k, h>> \in D
                                    /\ Goes(ts, D, goal, k, h)}
<1>1. j \in K /\ K \subseteq Nat /\ i \in Nat
  BY DerivedBy
<1>2. PICK k \in K : \A y \in K : k <= y
  <2> HIDE DEF K
  <2> QED BY <1>1, LeastNumber
<1>3. PICK h : <<"list", i, k, h>> \in D /\ Goes(ts, D, goal, k, h)
  BY <1>2
<1>4. k \in Nat /\ IsList(ts, D, i, k, h)
  BY <1>3, DerivedBy
<1>p. PICK p \in i + 1 .. k : \E g, v :
        /\ Awaits(ts, D, i, p, g) /\ <<"value", p, k, v>> \in D
        /\ h = Absorbed(g, v)
  BY <1>4 DEF IsList
<1>5. PICK g, v :
        /\ Awaits(ts, D, i, p, g) /\ <<"value", p, k, v>> \in D
        /\ h = Absorbed(g, v)
  BY <1>p
<1>6. PICK S : Leading(ts, D, S, goal) /\ After(ts, S, goal, k, h)
  BY <1>3 DEF Goes
<1> DEFINE T == S \cup {<<p, g>>}
<1>7. Leading(ts, D, T, goal) /\ <<p, g>> \in T
  BY <1>5, <1>6, LeadingGrows
<1> HIDE DEF T
(* Nothing shorter than k goes on. *)
<1>8. ASSUME NEW m, NEW w, <<"list", i, m, w>> \in D,
             Goes(ts, D, goal, m, w), m < k
      PROVE  FALSE
  <2>1. m \in Nat
    BY <1>8, DerivedBy
  <2>2. m \in K
    BY <1>8, <2>1
  <2> QED BY <1>2, <1>4, <1>8, <2>1, <2>2
(* So the element is the first. *)
<1>9. ASSUME NEW q \in Int, NEW w, q < k + 2, Ready(ts, D, i, q, w),
             Enter(ts, T, q, w)
      PROVE  \E x : Opens(ts, i, x) /\ Entered(ts, D, goal, i + 1, x)
  <2>1. CASE q = i + 1 /\ Opens(ts, i, w)
    BY <1>7, <1>9, <2>1 DEF Entered
  <2>2. CASE TokenAt(ts, q - 1).k = "," /\ <<"list", i, q - 2, w>> \in D
    <3>1. (q - 2) + 1 = q - 1 /\ (q - 2) + 2 = q /\ q - 2 < k
      BY <1>4, <1>9
    <3>2. After(ts, T, goal, q - 2, w)
      BY <1>9, <2>2, <3>1 DEF After
    <3>3. Goes(ts, D, goal, q - 2, w)
      BY <1>7, <3>2 DEF Goes
    <3> QED BY <1>8, <2>2, <3>1, <3>3
  <2> QED BY <1>9, <2>1, <2>2 DEF Ready
<1>10. p \in Int /\ p <= k
  BY <1>1, <1>4, <1>5
<1>11. CASE g.type = "array" /\ Ready(ts, D, i, p, g)
  <2>1. Enter(ts, T, p, g)
    BY <1>7, <1>11 DEF Enter
  <2>2. p < k + 2
    BY <1>4, <1>10
  <2> QED BY <1>9, <1>10, <1>11, <2>1, <2>2
<1>12. ASSUME NEW x, x.type = "object", Ready(ts, D, i, p - 2, x),
              IsKey(ts, p - 2), g = Keyed(ts, p - 2, x)
       PROVE  \E y : Opens(ts, i, y) /\ Entered(ts, D, goal, i + 1, y)
  <2>1. (p - 2) + 2 = p /\ p - 2 \in Int /\ p - 2 < k + 2
    BY <1>4, <1>10
  <2>2. Enter(ts, T, p - 2, x)
    BY <1>7, <1>12, <2>1 DEF Enter
  <2> QED BY <1>9, <1>12, <2>1, <2>2
<1> QED BY <1>5, <1>11, <1>12 DEF Awaits

(* What stands at a position where D reads a value, by its first token.    *)
LEMMA ValueStarts ==
  ASSUME NEW ts, NEW D, Derivation(ts, D), NEW p, NEW q, NEW u,
         <<"value", p, q, u>> \in D
  PROVE  \/ /\ IsScalar(TokenAt(ts, p)) /\ q = p
            /\ u = Scalar(TokenAt(ts, p))
         \/ /\ Opens(ts, p, u) /\ q = p + 1
            /\ TokenAt(ts, q).k = Opening[TokenAt(ts, p).k]
         \/ \E g : Opens(ts, p, g) /\ Entered(ts, D, <<q, u>>, p + 1, g)
<1>1. p \in Nat /\ q \in Nat /\ IsValue(ts, D, p, q, u)
  BY DerivedBy
<1>2. ASSUME NEW f, <<"list", p, q - 1, f>> \in D,
             TokenAt(ts, q).k = Closing(f.type), u = [f EXCEPT !.s = ""]
      PROVE  \E g : Opens(ts, p, g) /\ Entered(ts, D, <<q, u>>, p + 1, g)
  <2>1. (q - 1) + 1 = q
    BY <1>1
  <2>2. After(ts, {}, <<q, u>>, q - 1, f)
    BY <1>2, <2>1 DEF After
  <2>3. Leading(ts, D, {}, <<q, u>>)
    BY DEF Leading
  <2>4. Goes(ts, D, <<q, u>>, q - 1, f)
    BY <2>2, <2>3 DEF Goes
  <2> QED BY <1>2, <2>4, EnteredAtStart
<1> QED BY <1>1, <1>2 DEF IsValue

(* The parser j is on the way that D leads to v: c[k] is the goal of the   *)
(* k-th open container, which is an element of the one before.             *)
Goals(ts, D, v, c, stack) ==
  /\ DOMAIN c = 1 .. Len(stack)
  /\ Len(stack) > 0 => c[1] = <<Len(ts), v>>
  /\ \A k \in 1 .. Len(stack) - 1 :
       Goes(ts, D, c[k], c[k + 1][1], Absorbed(stack[k], c[k + 1][2]))

Led(ts, D, v, c, j) ==
  LET n == Len(j.stack)
  IN  /\ Goals(ts, D, v, c, j.stack)
      /\ j.pos \in Int
      /\ j.pc # "malformed"
      /\ j.pc = "value" /\ n = 0 => j.pos = 1
      /\ j.pc = "value" /\ n > 0 => Leads(ts, D, c[n], j.pos, j.stack[n])
      /\ j.pc = "key" =>
           /\ IsKey(ts, j.pos)
           /\ Leads(ts, D, c[n], j.pos + 2, Keyed(ts, j.pos, j.stack[n]))
      /\ j.pc = "more" => Goes(ts, D, c[n], j.pos - 1, j.stack[n])
      /\ j.pc = "end" => j.pos = Len(ts) + 1
      /\ j.pc \in {"end", "parsed", "loaded"} => j.value = v

(* A value that D has too leaves the parser on its way. *)
LEMMA ReturnedLed ==
  ASSUME NEW ts, Len(ts) \in Nat, NEW D, NEW v, NEW c, NEW S,
         NEW stack \in Seq(S), Goals(ts, D, v, c, stack), NEW used, NEW u,
         NEW q \in Int, json.pos + used = q + 1,
         stack = << >> => q = Len(ts) /\ u = v,
         stack # << >> =>
           Goes(ts, D, c[Len(stack)], q, Absorbed(Last(stack), u)),
         Returned(u, stack, used)
  PROVE  Led(ts, D, v, c, json')
<1>1. CASE stack = << >>
  <2>1. json' = [pc |-> "end", pos |-> json.pos + used, stack |-> stack,
                 value |-> u]
    BY <1>1 DEF Returned
  <2>2. /\ json'.pc = "end" /\ json'.pos = q + 1 /\ json'.stack = stack
        /\ json'.value = u /\ Len(stack) = 0 /\ q + 1 \in Int
    BY <1>1, <2>1
  <2> QED BY <1>1, <2>2 DEF Led
<1>2. CASE stack # << >>
  <2> DEFINE m == Len(stack)
             new == Absorbed(Last(stack), u)
             after == Front(stack) \o <<new>>
  <2>1. json' = [pc |-> "more", pos |-> json.pos + used, value |-> None,
                 stack |-> after]
    BY <1>2 DEF Returned
  <2>2. Goes(ts, D, c[m], q, new)
    BY <1>2
  <2> HIDE DEF new
  <2>3. /\ Len(after) = m /\ after[m] = new
        /\ \A k \in 1 .. m - 1 : after[k] = stack[k]
    BY <1>2 DEF Front
  <2> HIDE DEF after
  <2>4. Goals(ts, D, v, c, after)
    BY <2>3 DEF Goals
  <2>5. /\ json'.pc = "more" /\ json'.pos = q + 1 /\ json'.stack = after
        /\ q + 1 \in Int
    BY <2>1
  <2>6. Goes(ts, D, c[m], (q + 1) - 1, after[m])
    <3>1. (q + 1) - 1 = q
      OBVIOUS
    <3> QED BY <2>2, <2>3, <3>1
  <2> HIDE DEF m
  <2> QED BY <2>3, <2>4, <2>5, <2>6 DEF Led
<1> QED BY <1>1, <1>2

(* A value does not start with a closing bracket. *)
LEMMA NotClosing ==
  ASSUME NEW ts, NEW D, Derivation(ts, D), NEW p, NEW goal, NEW i, NEW g,
         Opens(ts, i, g), Entered(ts, D, goal, p, g)
  PROVE  TokenAt(ts, p).k # Opening[TokenAt(ts, i).k]
<1>1. /\ Opening[TokenAt(ts, i).k] \in {"}", "]"}
  BY DEF Opens, Opening
<1>2. CASE g.type = "object"
  <2>1. TokenAt(ts, p).k = "string"
    BY <1>2, EnteredBy DEF IsKey
  <2> QED BY <1>1, <2>1
<1>3. CASE g.type # "object"
  <2>1. Leads(ts, D, goal, p, g)
    BY <1>3, EnteredBy
  <2>2. PICK q, u : <<"value", p, q, u>> \in D
    BY <2>1, NextElement
  <2>3. IsScalar(TokenAt(ts, p)) \/ TokenAt(ts, p).k \in DOMAIN Opening
    BY <2>2, ValueStarts DEF Opens
  <2>4. TokenAt(ts, p).k \notin {"}", "]"}
    BY <2>3 DEF IsScalar, Opening
  <2> QED BY <1>1, <2>4
<1> QED BY <1>2, <1>3

(* A step of the parser stays on the way. *)
LEMMA ParseLed ==
  ASSUME NEW U, Built(json, U), text \in Seq(AnyToken), Parse,
         NEW D, Derivation(text, D), NEW v,
         <<"value", 1, Len(text), v>> \in D,
         NEW c, Led(text, D, v, c, json)
  PROVE  \E b : Led(text, D, v, b, json')
<1> DEFINE n == Len(json.stack)
           pos == json.pos
<1>1. /\ DOMAIN json = {"pc", "pos", "stack", "value"}
      /\ json.stack \in Seq(Frames(U))
      /\ json.pc \in {"key", "more"} => json.stack # << >>
  BY DEF Built
<1>2. /\ Goals(text, D, v, c, json.stack) /\ pos \in Int
      /\ json.pc = "value" /\ n = 0 => pos = 1
      /\ json.pc = "value" /\ n > 0 =>
           Leads(text, D, c[n], pos, json.stack[n])
  BY DEF Led
<1>3. /\ n \in Nat /\ Len(text) \in Nat
      /\ json.stack = << >> <=> n = 0
  BY <1>1
<1>4. Tok = TokenAt(text, pos) /\ \A i : Token(i) = TokenAt(text, i)
  BY DEF Tok, Token, TokenAt
(* Where a value starts, D reads one too, and goes on behind it. *)
<1>5. ASSUME json.pc = "value"
      PROVE  \E q, u :
               /\ <<"value", pos, q, u>> \in D
               /\ json.stack = << >> => q = Len(text) /\ u = v
               /\ json.stack # << >> =>
                    Goes(text, D, c[n], q, Absorbed(Last(json.stack), u))
  <2>1. CASE n = 0
    BY <1>2, <1>3, <1>5, <2>1
  <2>2. CASE n # 0
    <3>1. Leads(text, D, c[n], pos, Last(json.stack))
      BY <1>2, <1>3, <1>5, <2>2 DEF Last
    <3> HIDE DEF n, pos
    <3>2. PICK q, u : /\ <<"value", pos, q, u>> \in D
                      /\ Goes(text, D, c[n], q, Absorbed(Last(json.stack), u))
      BY <3>1, NextElement
    <3> QED BY <1>3, <2>2, <3>2
  <2> QED BY <2>1, <2>2
<1>6. CASE ParseScalar
  <2>1. json.pc = "value" /\ Tok.k \notin DOMAIN Opening
    BY <1>6 DEF ParseScalar
  <2>2. PICK q, u :
          /\ <<"value", pos, q, u>> \in D
          /\ json.stack = << >> => q = Len(text) /\ u = v
          /\ json.stack # << >> =>
               Goes(text, D, c[n], q, Absorbed(Last(json.stack), u))
    BY <1>5, <2>1
  <2>3. IsScalar(Tok) /\ q = pos /\ u = Scalar(Tok)
    BY <1>4, <2>1, <2>2, ValueStarts DEF Opens
  <2>4. Returned(u, json.stack, 1)
    BY <1>6, <2>3 DEF ParseScalar
  <2>5. q \in Int /\ json.pos + 1 = q + 1
    BY <1>2, <2>3
  <2>6. Led(text, D, v, c, json')
    BY <1>1, <1>2, <1>3, <2>2, <2>4, <2>5, ReturnedLed
  <2> QED BY <2>6
<1>7. CASE ParseOpen
  <2> DEFINE new == Json(OpenType[Tok.k])
  <2>1. json.pc = "value" /\ Tok.k \in DOMAIN Opening
    BY <1>7 DEF ParseOpen
  <2>2. PICK q, u :
          /\ <<"value", pos, q, u>> \in D
          /\ json.stack = << >> => q = Len(text) /\ u = v
          /\ json.stack # << >> =>
               Goes(text, D, c[n], q, Absorbed(Last(json.stack), u))
    BY <1>5, <2>1
  <2>3. ~IsScalar(Tok)
    BY <2>1 DEF IsScalar, Opening
  <2>4. \A g : Opens(text, pos, g) <=> g = new
    BY <1>4, <2>1 DEF Opens
  <2> HIDE DEF new
  <2>5. \/ /\ u = new /\ q = pos + 1
           /\ Token(pos + 1).k = Opening[Tok.k]
        \/ Entered(text, D, <<q, u>>, pos + 1, new)
    BY <1>4, <2>2, <2>3, <2>4, ValueStarts
  <2>6. CASE u = new /\ q = pos + 1 /\ Token(pos + 1).k = Opening[Tok.k]
    <3>1. Returned(u, json.stack, 2)
      BY <1>7, <2>6 DEF ParseOpen, new
    <3>2. q \in Int /\ json.pos + 2 = q + 1
      BY <1>2, <2>6
    <3>3. Led(text, D, v, c, json')
      BY <1>1, <1>2, <1>3, <2>2, <3>1, <3>2, ReturnedLed
    <3> QED BY <3>3
  <2>7. CASE Entered(text, D, <<q, u>>, pos + 1, new)
    <3> DEFINE b == [k \in 1 .. n + 1 |->
                       IF k = n + 1 THEN <<q, u>> ELSE c[k]]
               after == Append(json.stack, new)
    <3>1. Token(pos + 1).k # Opening[Tok.k]
      <4>1. Opens(text, pos, new)
        BY <2>4
      <4> QED BY <1>4, <2>7, <4>1, NotClosing
    <3>2. json' = [json EXCEPT !.pos = @ + 1,
                     !.pc = IF Tok.k = "{" THEN "key" ELSE @,
                     !.stack = Append(@, new)]
      BY <1>7, <3>1 DEF ParseOpen, new
    <3>3. /\ json'.pos = pos + 1 /\ json'.stack = after /\ pos + 1 \in Int
          /\ json'.pc = IF Tok.k = "{" THEN "key" ELSE "value"
      BY <1>1, <1>2, <2>1, <3>2
    <3>4. new.type = IF Tok.k = "{" THEN "object" ELSE "array"
      BY <2>1 DEF Json, OpenType, Opening, new
    <3>5. IF new.type = "object"
            THEN /\ IsKey(text, pos + 1)
                 /\ Leads(text, D, <<q, u>>, (pos + 1) + 2,
                          Keyed(text, pos + 1, new))
            ELSE Leads(text, D, <<q, u>>, pos + 1, new)
      BY <2>7, EnteredBy
    <3>6. /\ Len(after) = n + 1 /\ after[n + 1] = new
          /\ \A k \in 1 .. n : after[k] = json.stack[k]
      BY <1>1
    <3> HIDE DEF after
    <3>7. /\ DOMAIN b = 1 .. n + 1 /\ b[n + 1] = <<q, u>>
          /\ \A k \in 1 .. n : b[k] = c[k]
      BY <1>3
    <3> HIDE DEF b
    <3>8. Goals(text, D, v, b, after)
      <4>1. b[1] = <<Len(text), v>>
        <5>1. CASE n = 0
          BY <1>3, <2>2, <3>7, <5>1
        <5>2. CASE n # 0
          BY <1>2, <1>3, <3>7, <5>2 DEF Goals
        <5> QED BY <5>1, <5>2
      <4>2. ASSUME NEW k \in 1 .. (n + 1) - 1
            PROVE  Goes(text, D, b[k], b[k + 1][1],
                        Absorbed(after[k], b[k + 1][2]))
        <5>1. CASE k = n
          <6>1. /\ b[k] = c[n] /\ b[k + 1][1] = q /\ b[k + 1][2] = u
                /\ after[k] = Last(json.stack) /\ n # 0
            BY <1>3, <3>6, <3>7, <5>1 DEF Last
          <6> QED BY <1>3, <2>2, <6>1
        <5>2. CASE k # n
          <6>1. k \in 1 .. n - 1 /\ k + 1 \in 1 .. n /\ k \in 1 .. n
            BY <1>3, <5>2
          <6> QED BY <1>2, <3>6, <3>7, <6>1 DEF Goals
        <5> QED BY <5>1, <5>2
      <4> QED BY <3>6, <3>7, <4>1, <4>2 DEF Goals
    <3>9. /\ Len(after) # 0 /\ b[Len(after)] = <<q, u>>
          /\ after[Len(after)] = new
      BY <1>3, <3>6, <3>7
    <3>10. Goals(text, D, v, b, json'.stack)
      BY <3>3, <3>8
    <3> HIDE DEF n, pos
    <3>11. Led(text, D, v, b, json')
      BY <3>3, <3>4, <3>5, <3>9, <3>10 DEF Led
    <3> QED BY <3>11
  <2> QED BY <2>5, <2>6, <2>7
<1>8. CASE ParseKey
  <2> DEFINE frame == json.stack[n]
             new == Keyed(text, pos, frame)
             after == [json.stack EXCEPT ![n] = new]
  <2>1. json.pc = "key"
    BY <1>8 DEF ParseKey
  <2>2. IsKey(text, pos) /\ Leads(text, D, c[n], pos + 2, new)
    BY <2>1 DEF Led
  <2>3. json' = [json EXCEPT !.pos = @ + 2, !.pc = "value",
                   !.stack[Len(json.stack)].s = Unescaped(Tok.s)]
    BY <1>4, <1>8, <2>2 DEF ParseKey, IsKey
  <2>4. n > 0
    BY <1>1, <1>3, <2>1
  <2>5. /\ json'.pos = pos + 2 /\ json'.pc = "value" /\ pos + 2 \in Int
        /\ json'.stack = after
    BY <1>1, <1>2, <1>4, <2>3 DEF Keyed
  <2> HIDE DEF new
  <2>6. /\ Len(after) = n /\ after[n] = new
        /\ \A k \in 1 .. n - 1 : after[k] = json.stack[k]
    BY <1>1, <2>4
  <2> HIDE DEF after
  <2>7. Goals(text, D, v, c, after)
    BY <1>2, <2>6 DEF Goals
  <2> HIDE DEF n, pos
  <2>8. Led(text, D, v, c, json')
    BY <2>2, <2>4, <2>5, <2>6, <2>7 DEF Led
  <2> QED BY <2>8
<1>9. CASE ParseMore
  <2> DEFINE frame == Last(json.stack)
             done == [frame EXCEPT !.s = ""]
  <2>1. json.pc = "more" /\ json.stack # << >>
    BY <1>1, <1>9 DEF ParseMore
  <2>2. n > 0 /\ frame = json.stack[n] /\ frame \in Frames(U)
    BY <1>1, <1>3, <2>1 DEF Last
  <2>3. Goes(text, D, c[n], pos - 1, frame)
    BY <2>1, <2>2 DEF Led
  <2>4. (pos - 1) + 1 = pos /\ (pos - 1) + 2 = pos + 1
    BY <1>2
  <2>5. \/ c[n] = <<pos, done>> /\ Tok.k = Closing(frame.type)
        \/ Tok.k = "," /\ Entered(text, D, c[n], pos + 1, frame)
    <3> HIDE DEF n, pos, frame
    <3> QED BY <1>4, <2>3, <2>4, NextStep
  <2>6. MayClose(frame) <=> Tok.k = Closing(frame.type)
    BY DEF MayClose, Closing
  <2>7. CASE c[n] = <<pos, done>> /\ Tok.k = Closing(frame.type)
    <3> DEFINE rest == Front(json.stack)
               b == [k \in 1 .. n - 1 |-> c[k]]
    <3>1. Returned(done, rest, 1)
      BY <1>9, <2>6, <2>7 DEF ParseMore
    <3>2. /\ rest \in Seq(Frames(U)) /\ Len(rest) = n - 1
          /\ \A k \in 1 .. n - 1 : rest[k] = json.stack[k]
      BY <1>1, <2>1, FrontOf
    <3>3. DOMAIN b = 1 .. n - 1 /\ \A k \in 1 .. n - 1 : b[k] = c[k]
      OBVIOUS
    <3> HIDE DEF done, rest, b
    <3>4. Goals(text, D, v, b, rest)
      <4>1. n - 1 > 0 => b[1] = <<Len(text), v>>
        BY <1>2, <1>3, <3>3 DEF Goals
      <4>2. ASSUME NEW k \in 1 .. (n - 1) - 1
            PROVE  Goes(text, D, b[k], b[k + 1][1],
                        Absorbed(rest[k], b[k + 1][2]))
        <5>1. k \in 1 .. n - 1 /\ k + 1 \in 1 .. n - 1
          BY <1>3
        <5> QED BY <1>2, <3>2, <3>3, <5>1 DEF Goals
      <4> QED BY <3>2, <3>3, <4>1, <4>2 DEF Goals
    <3>5. rest = << >> => pos = Len(text) /\ done = v
      <4>1. ASSUME rest = << >> PROVE n = 1
        BY <1>3, <3>2, <4>1
      <4>2. c[1] = <<Len(text), v>>
        BY <1>2, <2>2 DEF Goals
      <4>3. ASSUME rest = << >>
            PROVE  <<pos, done>> = <<Len(text), v>>
        BY <2>7, <4>1, <4>2, <4>3
      <4> HIDE DEF pos
      <4> QED BY <4>3
    <3>6. rest # << >> =>
            Goes(text, D, b[Len(rest)], pos, Absorbed(Last(rest), done))
      <4>1. ASSUME rest # << >> PROVE n - 1 \in 1 .. n - 1
        BY <1>3, <3>2, <4>1
      <4>2. ASSUME rest # << >>
            PROVE  Goes(text, D, c[n - 1], c[(n - 1) + 1][1],
                        Absorbed(json.stack[n - 1], c[(n - 1) + 1][2]))
        BY <1>2, <4>1, <4>2 DEF Goals
      <4>3. (n - 1) + 1 = n /\ c[n][1] = pos /\ c[n][2] = done
        BY <1>3, <2>7
      <4> QED BY <3>2, <3>3, <4>1, <4>2, <4>3 DEF Last
    <3>7. pos \in Int /\ json.pos + 1 = pos + 1
      BY <1>2
    <3> HIDE DEF n, pos
    <3>8. Led(text, D, v, b, json')
      BY <1>3, <3>1, <3>2, <3>4, <3>5, <3>6, <3>7, ReturnedLed
    <3> QED BY <3>8
  <2>8. CASE Tok.k = "," /\ Entered(text, D, c[n], pos + 1, frame)
    <3>1. ~MayClose(frame)
      BY <2>6, <2>8 DEF Closing
    <3>2. json' = Comma(frame)
      BY <1>9, <2>8, <3>1 DEF ParseMore
    <3>3. /\ json'.pos = pos + 1 /\ json'.stack = json.stack
          /\ json'.pc = IF frame.type = "object" THEN "key" ELSE "value"
          /\ pos + 1 \in Int
      BY <1>1, <1>2, <3>2 DEF Comma
    <3> HIDE DEF frame, pos
    <3>4. IF frame.type = "object"
            THEN /\ IsKey(text, pos + 1)
                 /\ Leads(text, D, c[n], (pos + 1) + 2,
                          Keyed(text, pos + 1, frame))
            ELSE Leads(text, D, c[n], pos + 1, frame)
      <4> HIDE DEF n
      <4> QED BY <2>8, EnteredBy
    <3>5. Led(text, D, v, c, json')
      BY <1>2, <2>2, <3>3, <3>4 DEF Led
    <3> QED BY <3>5
  <2> QED BY <2>5, <2>7, <2>8
<1>10. CASE ParseEnd
  <2>1. json.pc = "end" /\ pos = Len(text) + 1 /\ json.value = v
    BY <1>10 DEF ParseEnd, Led
  <2>2. AtEnd
    <3>1. pos \notin DOMAIN text
      BY <1>3, <2>1
    <3> QED BY <3>1 DEF AtEnd, Tok, Token
  <2>3. json' = [json EXCEPT !.pc = "parsed"]
    BY <1>10, <2>2 DEF ParseEnd
  <2>4. /\ json'.pc = "parsed" /\ json'.pos = pos
        /\ json'.stack = json.stack /\ json'.value = v
    BY <1>1, <2>1, <2>3
  <2>5. Led(text, D, v, c, json')
    BY <1>2, <2>4 DEF Led
  <2> QED BY <2>5
<1> QED BY <1>6, <1>7, <1>8, <1>9, <1>10 DEF Parse

-----------------------------------------------------------------------------
(* What was read follows by the rules, and every derivation leads there.   *)
GrammarInv ==
  text # None =>
    /\ \E D, at : Followed(text, D, at, json)
    /\ \A D, v : Derivation(text, D) /\ <<"value", 1, Len(text), v>> \in D
                 => \E c : Led(text, D, v, c, json)

(* The parser reads exactly the texts that the grammar gives a value, and  *)
(* returns the only one it gives (config.cpp:46-177).                      *)
ParserByGrammar ==
  text # None =>
    /\ json.pc \in {"parsed", "loaded"} =>
         \A v : Derives(text, v) <=> v = json.value
    /\ json.pc = "malformed" => \A v : ~Derives(text, v)

(* Each step keeps GrammarInv. *)
LEMMA GrammarStep ==
  ASSUME GrammarInv, ParseInv, [Next]_startup PROVE GrammarInv'
<1>1. CASE UNCHANGED cvars
  <2>1. UNCHANGED <<text, json>>
    BY <1>1 DEF cvars
  <2> QED BY <2>1 DEF GrammarInv
<1>2. CASE ReadConfig
  <2>1. PICK U : Built(json, U)
    BY DEF ParseInv
  <2>2. pc = "config" /\ (Parse \/ LoadConfig)
    BY <1>2 DEF ReadConfig
  <2>3. text \in Seq(AnyToken) /\ text # None
    BY <2>2 DEF ParseInv
  <2>4. PICK D, at : Followed(text, D, at, json)
    BY <2>3 DEF GrammarInv
  <2>5. ASSUME NEW E, NEW v, Derivation(text, E),
               <<"value", 1, Len(text), v>> \in E
        PROVE  \E c : Led(text, E, v, c, json)
    BY <2>3, <2>5 DEF GrammarInv
  <2>6. CASE Parse
    <3>1. UNCHANGED text
      BY <2>6 DEF Parse, ParseScalar, ParseOpen, ParseKey, ParseMore,
         ParseEnd, Same
    <3>2. \E E, b : Followed(text, E, b, json')
      BY <2>1, <2>3, <2>4, <2>6, ParseFollows
    <3>3. ASSUME NEW E, NEW v, Derivation(text, E),
                 <<"value", 1, Len(text), v>> \in E
          PROVE  \E c : Led(text, E, v, c, json')
      <4>1. PICK c : Led(text, E, v, c, json)
        BY <2>5, <3>3
      <4> QED BY <2>1, <2>3, <2>6, <3>3, <4>1, ParseLed
    <3> QED BY <3>1, <3>2, <3>3 DEF GrammarInv
  <2>7. CASE LoadConfig
    <3>1. /\ json.pc = "parsed" /\ json' = [json EXCEPT !.pc = "loaded"]
          /\ UNCHANGED text
      BY <2>7 DEF LoadConfig
    <3>2. DOMAIN json = {"pc", "pos", "stack", "value"}
      BY <2>1 DEF Built
    <3>3. /\ json'.pc = "loaded" /\ json'.pos = json.pos
          /\ json'.stack = json.stack /\ json'.value = json.value
      BY <3>1, <3>2
    <3>4. Followed(text, D, at, json')
      BY <2>4, <3>1, <3>3 DEF Followed
    <3>5. ASSUME NEW E, NEW v, NEW c, Led(text, E, v, c, json)
          PROVE  Led(text, E, v, c, json')
      BY <3>1, <3>3, <3>5 DEF Led
    <3> QED BY <2>5, <3>1, <3>4, <3>5 DEF GrammarInv
  <2> QED BY <2>2, <2>6, <2>7
<1>3. Next /\ ~ReadConfig => UNCHANGED cvars
  BY DEF Next, Step, Over, startup, Flag, CheckFlags, Configured,
     OpenSocket, SetReuseAddr, ParseAddress, Bind, Listen, GoOn,
     CloseAndReturn, StartThread, ThreadFails
<1>4. UNCHANGED startup => UNCHANGED cvars
  BY DEF startup
<1> QED BY <1>1, <1>2, <1>3, <1>4

(* GrammarInv holds throughout. *)
THEOREM GrammarInvariant == Spec => []GrammarInv
<1>1. ASSUME Init PROVE GrammarInv
  <2>1. json = Reading /\ (text = None \/ text \in Seq(AnyToken))
    BY <1>1, StartupAssumption DEF Init, ConfigInit
  <2>2. /\ json.pc = "value" /\ json.pos = 1 /\ json.stack = << >>
        /\ Len(<< >>) = 0
    BY <2>1 DEF Reading
  <2> DEFINE c == [k \in 1 .. 0 |-> 0]
  <2>3. DOMAIN c = 1 .. 0 /\ 1 .. 0 = {} /\ 1 .. 0 - 1 = {}
    OBVIOUS
  <2> HIDE DEF c
  <2>4. ASSUME NEW D PROVE Outer(text, D, c, << >>)
    BY <2>2, <2>3 DEF Outer
  <2>5. ASSUME text # None PROVE Followed(text, {}, c, json)
    <3>1. Derivation(text, {})
      BY DEF Derivation
    <3>2. 1 \in 1 .. Len(text) + 1
      BY <2>1, <2>5
    <3> QED BY <2>2, <2>4, <3>1, <3>2 DEF Followed
  <2>6. ASSUME NEW D, NEW v PROVE Led(text, D, v, c, json)
    <3>1. Goals(text, D, v, c, << >>)
      BY <2>2, <2>3 DEF Goals
    <3> QED BY <2>2, <3>1 DEF Led
  <2> QED BY <2>5, <2>6 DEF GrammarInv
<1>2. VerdictInv => ParseInv
  BY DEF VerdictInv
<1> QED BY <1>1, <1>2, GrammarStep, VerdictInvariant, PTL DEF Spec

(* The parser accepts exactly what the grammar derives, at any depth and   *)
(* for every text, and its value is the only one (config.cpp:46-177): no   *)
(* trailing comma, nothing behind the value, no bracket left open or       *)
(* closed by the other kind, and of two equal keys the first counts.       *)
THEOREM ParserMatchesGrammar == Spec => []ParserByGrammar
<1>1. ASSUME GrammarInv PROVE ParserByGrammar
  <2> SUFFICES ASSUME text # None
               PROVE  /\ json.pc \in {"parsed", "loaded"} =>
                           \A v : Derives(text, v) <=> v = json.value
                      /\ json.pc = "malformed" => \A v : ~Derives(text, v)
    BY DEF ParserByGrammar
  <2>1. ASSUME NEW v, Derives(text, v)
        PROVE  \E D, c : Led(text, D, v, c, json)
    BY <1>1, <2>1 DEF GrammarInv, Derives
  <2>2. ASSUME NEW v, Derives(text, v)
        PROVE  /\ json.pc # "malformed"
               /\ json.pc \in {"parsed", "loaded"} => v = json.value
    BY <2>1, <2>2 DEF Led
  <2>3. ASSUME json.pc \in {"parsed", "loaded"}
        PROVE  Derives(text, json.value)
    <3>1. PICK D, at : Followed(text, D, at, json)
      BY <1>1 DEF GrammarInv
    <3> QED BY <2>3, <3>1 DEF Followed, Derives
  <2> QED BY <2>2, <2>3
<1> QED BY <1>1, GrammarInvariant, PTL
=============================================================================
