------------------------------ MODULE Startup -------------------------------
(***************************************************************************)
(* main of the server up to its first join: the flags, the configuration,  *)
(* the listening socket and the threads, in this order.                    *)
(***************************************************************************)
EXTENDS ConfigFile

CONSTANTS Cases,    (* command lines, each with the file --config names,   *)
                    (* or None for a file that cannot be opened            *)
          SizeBits  (* of size_t                                           *)

(* An argument: a flag, and the number and the word that follow it.        *)
Argument == [flag : STRING, num : Int \cup {None}, word : STRING \cup {None}]

ASSUME StartupAssumption ==
  /\ 2 ^ SizeBits \in Nat \ {0}
  /\ \A case \in Cases :
       /\ case.argv \in Seq(Argument)
       /\ case.text = None \/ case.text \in Seq(AnyToken)

VARIABLES argv,     (* the arguments: a flag with its word or number       *)
          argi,     (* the one that is read next                           *)
          opt,      (* the options read so far                             *)
          pc,       (* where main is                                       *)
          status,   (* exit code                                           *)
          sockets,  (* how many sockets are open                           *)
          threads   (* the threads started, by kind                        *)

line == <<argv, argi>>
main == <<line, opt, pc, status, sockets, threads>>
startup == <<cvars, main>>

Kinds == {"worker", "parser", "acceptor"}
Scheduled == INSTANCE Scheduler WITH Wrap <- 2 ^ SizeBits

(* A numeric flag comes with the number its text begins with, or None when *)
(* there is none; std::stoull takes a sign and negates.                    *)
Stoull(n) == n % (2 ^ SizeBits)
StoullFits(n) ==
  n # None /\ n > -(2 ^ SizeBits) /\ n < 2 ^ SizeBits
StoiFits(n) == n # None /\ n \in Signed(IntBits)

(* The end of main on an argument it does not know or cannot read.         *)
Unreadable(arg) ==
  \/ arg.flag = "--quantum" /\ ~StoullFits(arg.num)
  \/ arg.flag = "--p" /\ ~StoiFits(arg.num)
  \/ arg.flag = "unknown"

Init ==
  /\ ConfigInit
  /\ \E case \in Cases : argv = case.argv /\ text = case.text
  /\ argi = 1
  /\ opt = [sched |-> None, file |-> None, quantum |-> 0, p |-> 1,
            quantum_set |-> FALSE]
  /\ pc = "flags"
  /\ status = None
  /\ sockets = 0
  /\ threads = [k \in Kinds |-> 0]

Exit(code) == pc' = "exited" /\ status' = code

-----------------------------------------------------------------------------
(* Variant: the first --quantum stands.                                    *)
QuantumOnce(n) == IF opt.quantum_set THEN opt.quantum ELSE Stoull(n)

Quantum(n) == Stoull(n)

(* The loop over the arguments.  A later flag overrides an earlier one; a  *)
(* flag without a value counts as unknown, and --config and --metrics-out  *)
(* only name files.                                                        *)
Flag ==
  LET arg == argv[argi]
  IN  /\ pc = "flags" /\ argi <= Len(argv)
      /\ argi' = argi + 1
      /\ \/ /\ arg.flag \in {"--sched", "--file"}
            /\ opt' = IF arg.flag = "--sched"
                        THEN [opt EXCEPT !.sched = arg.word]
                        ELSE [opt EXCEPT !.file = arg.word]
            /\ UNCHANGED <<pc, status>>
         \/ /\ arg.flag \in {"--config", "--metrics-out"}
            /\ UNCHANGED <<opt, pc, status>>
         \/ /\ arg.flag = "--quantum" /\ StoullFits(arg.num)
            /\ opt' = [opt EXCEPT !.quantum = Quantum(arg.num),
                                  !.quantum_set = TRUE]
            /\ UNCHANGED <<pc, status>>
         \/ /\ arg.flag = "--p" /\ StoiFits(arg.num)
            /\ opt' = [opt EXCEPT !.p = arg.num]
            /\ UNCHANGED <<pc, status>>
         \/ Unreadable(arg) /\ Exit(1) /\ UNCHANGED opt
      /\ UNCHANGED <<cvars, argv, sockets, threads>>

Quantized == {"RR", "DRR"}

(* Variant: the flag is there, whatever its value.                         *)
QuantumOkIfSet == (opt.sched \in Quantized) = opt.quantum_set

QuantumOk ==
  IF opt.sched \in Quantized THEN opt.quantum_set /\ opt.quantum # 0
                             ELSE ~opt.quantum_set

(* The checks that follow, each of which returns 1. *)
FlagsOk ==
  /\ opt.sched \in Scheduled!Policies
  /\ opt.file # None
  /\ opt.p > 0
  /\ QuantumOk

CheckFlags ==
  /\ pc = "flags" /\ argi > Len(argv)
  /\ IF FlagsOk /\ text # None THEN pc' = "config" /\ UNCHANGED status
                               ELSE Exit(1)
  /\ UNCHANGED <<cvars, line, opt, sockets, threads>>

ReadConfig ==
  /\ pc = "config"
  /\ Parse \/ LoadConfig
  /\ UNCHANGED main

Configured ==
  /\ pc = "config"
  /\ \/ config # None /\ pc' = "socket" /\ UNCHANGED status
     \/ (json.pc = "malformed" \/ blamed # None) /\ Exit(1)
  /\ UNCHANGED <<cvars, line, opt, sockets, threads>>

-----------------------------------------------------------------------------
(* create_listening_socket: after the socket is made every call goes on to *)
(* the next or closes it and returns -1, which ends main.                  *)
OpenSocket ==
  /\ pc = "socket"
  /\ \/ sockets' = sockets + 1 /\ pc' = "setsockopt" /\ UNCHANGED status
     \/ UNCHANGED sockets /\ Exit(1)
  /\ UNCHANGED <<cvars, line, opt, threads>>

GoOn(from, to) ==
  /\ pc = from /\ pc' = to
  /\ UNCHANGED <<cvars, line, opt, status, sockets, threads>>

CloseAndReturn(from) ==
  /\ pc = from
  /\ sockets' = sockets - 1
  /\ Exit(1)
  /\ UNCHANGED <<cvars, line, opt, threads>>

SetReuseAddr ==
  GoOn("setsockopt", "inet_pton") \/ CloseAndReturn("setsockopt")

(* inet_pton accepts the address or does not.                              *)
ParseAddress ==
  \/ GoOn("inet_pton", "bind") /\ config.ip = "address"
  \/ CloseAndReturn("inet_pton") /\ config.ip # "address"

Bind == GoOn("bind", "listen") \/ CloseAndReturn("bind")

Listen == GoOn("listen", "threads") \/ CloseAndReturn("listen")

(* Workers, then parsers, then the acceptor.                               *)
Wanted(k) ==
  CASE k = "worker"   -> config.server_threads
    [] k = "parser"   -> IF 8 < config.client_threads
                           THEN config.client_threads ELSE 8
    [] k = "acceptor" -> 1
Earlier(k) ==
  CASE k = "worker"   -> {}
    [] k = "parser"   -> {"worker"}
    [] k = "acceptor" -> {"worker", "parser"}

StartThread(k) ==
  /\ pc = "threads"
  /\ \A e \in Earlier(k) : threads[e] = Wanted(e)
  /\ threads[k] < Wanted(k)
  /\ threads' = [threads EXCEPT ![k] = @ + 1]
  /\ pc' = IF k = "acceptor" THEN "serving" ELSE pc
  /\ UNCHANGED <<cvars, line, opt, status, sockets>>

(* std::thread's constructor throws, nobody catches: std::terminate. *)
ThreadFails ==
  /\ pc = "threads"
  /\ pc' = "terminated"
  /\ UNCHANGED <<cvars, line, opt, status, sockets, threads>>

Over == pc \in {"serving", "exited", "terminated"} /\ UNCHANGED startup

Step ==
  \/ Flag \/ CheckFlags \/ ReadConfig \/ Configured
  \/ OpenSocket \/ SetReuseAddr \/ ParseAddress \/ Bind \/ Listen
  \/ \E k \in Kinds : StartThread(k)
  \/ ThreadFails

Next == Step \/ Over

Spec == Init /\ [][Next]_startup

-----------------------------------------------------------------------------
(* What the first n arguments ask for: the last of each flag decides, and  *)
(* what no flag sets has its default.                                      *)
Without(f, n) == \A i \in 1 .. n : argv[i].flag # f
LastIs(f, i, n) ==
  argv[i].flag = f /\ \A j \in 1 .. n : j > i => argv[j].flag # f
AskedFor(n) ==
  /\ \A i \in 1 .. n :
       /\ LastIs("--sched", i, n) => opt.sched = argv[i].word
       /\ LastIs("--file", i, n) => opt.file = argv[i].word
       /\ LastIs("--p", i, n) => opt.p = argv[i].num
       /\ LastIs("--quantum", i, n) => /\ opt.quantum_set
                                       /\ opt.quantum = Stoull(argv[i].num)
  /\ Without("--sched", n) => opt.sched = None
  /\ Without("--file", n) => opt.file = None
  /\ Without("--p", n) => opt.p = 1
  /\ Without("--quantum", n) => ~opt.quantum_set

(* The server is started as its whole command line says, or not at all     *)
(* (main.cpp:262-339): past the checks every argument was readable and the *)
(* last of each flag counts, and it is sent away before the configuration  *)
(* only for an argument it cannot read or for what those last flags ask.   *)
FlagsJudged ==
  LET readable == \A i \in DOMAIN argv : ~Unreadable(argv[i])
  IN  /\ pc \notin {"flags", "exited"} => readable /\ AskedFor(Len(argv))
      /\ /\ pc = "exited" /\ readable /\ text # None
         /\ config = None /\ blamed = None /\ json.pc # "malformed"
         => AskedFor(Len(argv)) /\ ~FlagsOk

(* A server that comes up meets what the models of its threads assume: at  *)
(* least one worker, eight parsers and one acceptor, a socket, a quantum   *)
(* exactly where the policy uses one, packets of at least a line, whatever *)
(* flags were repeated, negative or out of range.                          *)
ServesAsAssumed ==
  pc = "serving" =>
    /\ Scheduled!QuantumAllowed(opt.sched, opt.quantum)
    /\ opt.quantum < 2 ^ SizeBits
    /\ opt.p > 0
    /\ sockets = 1
    /\ threads["worker"] > 0 /\ threads["parser"] >= 8
    /\ threads["acceptor"] = 1
=============================================================================
