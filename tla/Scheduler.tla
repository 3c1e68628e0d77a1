----------------------------- MODULE Scheduler ------------------------------
(***************************************************************************)
(* The arithmetic of scheduling.cpp: the byte budget of a round, and what  *)
(* a round does to a request's offset and deficit.  Counters are uint64_t; *)
(* Wrap stands for 2^64.                                                   *)
(***************************************************************************)
EXTENDS Naturals

CONSTANT Wrap

ASSUME WrapAssumption == Wrap \in Nat \ {0}

Policies == {"FCFS", "SJF", "RR", "DRR"}

(* The command line gives a quantum exactly to the policies that use one.  *)
QuantumAllowed(policy, quantum) ==
  IF policy \in {"RR", "DRR"} THEN quantum > 0 ELSE quantum = 0

Least(a, b) == IF a <= b THEN a ELSE b

AddU64(a, b) == IF a + b >= Wrap THEN a + b - Wrap ELSE a + b

Remaining(total, offset) == IF total > offset THEN total - offset ELSE 0

(* Variant: the deficit is set, not raised.                                *)
RaisedDeficitReset(policy, quantum, total, offset, deficit) ==
  IF policy = "DRR" /\ Remaining(total, offset) > 0 THEN quantum ELSE deficit

(* get_budget, first effect: a DRR round adds the quantum to the deficit.  *)
RaisedDeficit(policy, quantum, total, offset, deficit) ==
  IF policy = "DRR" /\ Remaining(total, offset) > 0
    THEN AddU64(deficit, quantum)
    ELSE deficit

(* get_budget, result; deficit is the raised one.                          *)
Budget(policy, quantum, total, offset, deficit) ==
  LET remaining == Remaining(total, offset)
  IN  CASE policy = "RR"  -> Least(remaining, quantum)
        [] policy = "DRR" -> Least(remaining, deficit)
        [] OTHER          -> remaining

(* account: bytes beyond the declared size are not counted.                *)
Counted(total, offset, bytes) == Least(bytes, Remaining(total, offset))

(* Variant: the deficit is never spent.                                    *)
SpentDeficitKept(policy, deficit, bytes) == deficit

(* Variant: unused deficit is dropped.                                     *)
SpentDeficitCleared(policy, deficit, bytes) == 0

SpentDeficit(policy, deficit, bytes) ==
  IF policy # "DRR" THEN deficit
  ELSE IF bytes >= deficit THEN 0 ELSE deficit - bytes

(* Variant: one remaining byte is overlooked.                              *)
ShouldRequeueOffByOne(total, offset) == Remaining(total, offset) > 1

ShouldRequeue(total, offset) == Remaining(total, offset) > 0

(* Variant: nothing is forfeited.                                          *)
ForfeitNothing(policy, op, requeue, budget, bytes) == 0

(* worker_thread: what an unfinished RR GET round leaves of its allowance. *)
Forfeit(policy, op, requeue, budget, bytes) ==
  IF requeue /\ policy = "RR" /\ op = "GET" /\ bytes < budget
    THEN budget - bytes
    ELSE 0
=============================================================================
