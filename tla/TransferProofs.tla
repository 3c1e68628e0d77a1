--------------------------- MODULE TransferProofs ---------------------------
(***************************************************************************)
(* Proofs about Transfer for files of any length and any lines, any        *)
(* declared upload size, any quantum and any width of the counters.        *)
(***************************************************************************)
EXTENDS Transfer, Integers, TLAPS

(***************************************************************************)
(* What never changes: the flags, and that a GET's total is the size of    *)
(* its file.                                                               *)
(***************************************************************************)
Fixed ==
  /\ policy \in Policies /\ quantum \in Quanta
  /\ QuantumAllowed(policy, quantum)
  /\ total \in 0 .. (Wrap - 1)
  /\ leftover \in Nat
  /\ lines \in Files \cup {{}}
  /\ \/ op = "GET" /\ lines \in Files /\ IsSize(lines, total)
     \/ op = "PUT" /\ lines = {}

Queued == phase = "queued" => offset < total \/ total = 0

Base == Fixed /\ TypeOK /\ Queued /\ WholeLines

(* The constants, as the arithmetic below needs them. *)
LEMMA Constants ==
  /\ Wrap \in Nat /\ Wrap > 0
  /\ \A q \in Quanta : q \in Nat /\ q < Wrap
  /\ \A f \in Files : f \subseteq Nat \ {0}
  /\ \A f \in Files : \A e \in f : e + e < Wrap
BY WrapAssumption, TransferAssumption DEF IsFile

(* Every line of a GET's file ends at or before its total, and the last    *)
(* one there.                                                              *)
LEMMA LinesBounded ==
  ASSUME Fixed
  PROVE  /\ total \in Nat /\ quantum \in Nat /\ quantum < Wrap
         /\ lines \subseteq Nat \ {0}
         /\ \A e \in lines : e <= total
         /\ op = "GET" => total = 0 \/ total \in lines
         /\ op = "GET" => total + total < Wrap
<1>1. total \in Nat /\ quantum \in Nat /\ quantum < Wrap
  BY Constants DEF Fixed
<1>2. lines \subseteq Nat \ {0}
  BY Constants DEF Fixed
<1>3. /\ \A e \in lines : e <= total
      /\ op = "GET" => total = 0 \/ total \in lines
  BY DEF Fixed, IsSize
<1>4. op = "GET" => total + total < Wrap
  BY <1>1, <1>3, Constants DEF Fixed
<1> QED BY <1>1, <1>2, <1>3, <1>4

(* The deficit and the budget of a round are counters.                     *)
LEMMA RoundTypes ==
  ASSUME Base
  PROVE  RoundDeficit \in Nat /\ RoundBudget \in Nat
<1>1. /\ total \in Nat /\ offset \in Nat /\ deficit \in Nat
      /\ quantum \in Nat /\ Wrap \in Nat
  BY Constants, LinesBounded DEF Base, TypeOK
<1>2. Remaining(total, offset) \in Nat
  BY <1>1 DEF Remaining
<1>3. RoundDeficit \in Nat
  BY <1>1, <1>2 DEF RoundDeficit, RaisedDeficit, AddU64
<1> QED BY <1>1, <1>2, <1>3 DEF RoundBudget, Budget, Least

(* A GET round ends on a line end, and never beyond the file.              *)
LEMMA GetShape ==
  ASSUME Base, op = "GET", NEW bytes \in 0 .. total, GetBytes(bytes)
  PROVE  /\ offset + bytes \in lines \cup {0}
         /\ offset + bytes <= total
         /\ Counted(total, offset, bytes) = bytes
<1>1. /\ total \in Nat /\ offset \in Nat /\ bytes \in Nat /\ offset <= total
      /\ offset \in lines \cup {0}
      /\ lines \subseteq Nat
      /\ \A e \in lines : e <= total
      /\ total = 0 \/ total \in lines
  BY LinesBounded DEF Base, TypeOK, WholeLines
<1>2. RoundBudget \in Nat
  BY RoundTypes
<1>3. offset + bytes \in lines \cup {0}
  <2>1. CASE offset >= total \/ RoundBudget = 0
    BY <1>1, <2>1 DEF GetBytes
  <2>2. CASE ~(offset >= total \/ RoundBudget = 0)
                /\ RoundBudget >= total - offset
    BY <1>1, <1>2, <2>2 DEF GetBytes
  <2>3. CASE ~(offset >= total \/ RoundBudget = 0)
                /\ ~(RoundBudget >= total - offset)
    <3>1. LinesSelected(lines, offset, RoundBudget, policy = "RR", bytes)
      BY <2>3 DEF GetBytes
    <3> QED BY <1>1, <3>1 DEF LinesSelected, Fitting, Ahead, IsSize
  <2> QED BY <2>1, <2>2, <2>3
<1>4. offset + bytes <= total
  BY <1>1, <1>3
<1> QED BY <1>1, <1>3, <1>4 DEF Counted, Least, Remaining

(* The bytes of a PUT round never exceed what remains.                     *)
LEMMA PutShape ==
  ASSUME Base
  PROVE  /\ ToReceive \in Nat /\ FromLeftover \in Nat
         /\ offset + ToReceive <= total
         /\ FromLeftover <= ToReceive
         /\ pended + FromLeftover <= leftover
         /\ Counted(total, offset, ToReceive) = ToReceive
<1>1. /\ total \in Nat /\ offset \in Nat /\ offset <= total
      /\ leftover \in Nat /\ pended \in Nat /\ pended <= leftover
  BY LinesBounded DEF Base, TypeOK
<1>2. RoundBudget \in Nat
  BY RoundTypes
<1>3. /\ ToReceive \in Nat /\ offset + ToReceive <= total
      /\ Counted(total, offset, ToReceive) = ToReceive
  BY <1>1, <1>2 DEF ToReceive, Least, Remaining, Counted
<1> QED BY <1>1, <1>3 DEF FromLeftover, Least, Remaining

(* What booking a round does, once no byte of it is clamped.               *)
LEMMA BookShape ==
  ASSUME Base, NEW bytes \in Nat, offset + bytes <= total,
         Counted(total, offset, bytes) = bytes, Book(bytes)
  PROVE  /\ rounds' = rounds + 1 /\ rounds' \in Nat
         /\ offset' = offset + bytes
         /\ offset' \in 0 .. total
         /\ deficit' = SpentDeficit(policy, RoundDeficit, bytes)
         /\ deficit' \in Nat
         /\ forfeited' \in Nat
         /\ phase' = IF offset' < total THEN "queued" ELSE "done"
<1>1. /\ total \in Nat /\ offset \in Nat /\ rounds \in Nat
      /\ forfeited \in Nat /\ RoundDeficit \in Nat /\ RoundBudget \in Nat
  BY LinesBounded, RoundTypes DEF Base, TypeOK
<1>2. /\ rounds' = rounds + 1
      /\ offset' = offset + bytes
      /\ deficit' = SpentDeficit(policy, RoundDeficit, bytes)
  BY DEF Book
<1>3. SpentDeficit(policy, RoundDeficit, bytes) \in Nat
  BY <1>1 DEF SpentDeficit
<1>4. forfeited' \in Nat
  <2>1. \A b \in BOOLEAN :
          Forfeit(policy, op, b, RoundBudget, bytes) \in Nat
    BY <1>1 DEF Forfeit
  <2>2. ShouldRequeue(total, offset + bytes) \in BOOLEAN
    BY DEF ShouldRequeue
  <2> QED BY <1>1, <2>1, <2>2 DEF Book
<1>5. phase' = IF offset' < total THEN "queued" ELSE "done"
  BY <1>1, <1>2 DEF Book, ShouldRequeue, Remaining
<1> QED BY <1>1, <1>2, <1>3, <1>4, <1>5

(* Every round keeps the types, and leaves a GET at the start of a line.   *)
LEMMA BaseStep == Base /\ [Next]_tvars => Base'
<1> SUFFICES ASSUME Base, [Next]_tvars PROVE Base'
  OBVIOUS
<1>0. total \in Nat
  BY LinesBounded DEF Base
<1>1. CASE GetRound
  <2>1. PICK bytes \in 0 .. total :
          /\ GetBytes(bytes) /\ Book(bytes)
          /\ a14' = IF bytes > RoundBudget THEN a14 + 1 ELSE a14
    BY <1>1 DEF GetRound
  <2>2. op = "GET" /\ headed' = TRUE /\ UNCHANGED <<flags, pended, wire>>
    BY <1>1 DEF GetRound, flags
  <2>3. /\ offset + bytes \in lines \cup {0}
        /\ offset + bytes <= total
        /\ Counted(total, offset, bytes) = bytes
    BY <2>1, <2>2, GetShape
  <2>4. bytes \in Nat
    BY <1>0
  <2>5. /\ rounds' \in Nat /\ offset' = offset + bytes
        /\ offset' \in 0 .. total /\ deficit' \in Nat /\ forfeited' \in Nat
        /\ phase' = IF offset' < total THEN "queued" ELSE "done"
    BY <2>1, <2>3, <2>4, BookShape
  <2>6. a14' \in Nat /\ oks' \in Nat
    BY <1>1, <2>1 DEF GetRound, Base, TypeOK
  <2>7. Fixed'
    BY <2>2 DEF Base, Fixed, flags
  <2>8. TypeOK'
    BY <2>2, <2>5, <2>6 DEF Base, TypeOK, flags
  <2>9. Queued' /\ WholeLines'
    BY <2>2, <2>3, <2>5, <1>0 DEF Queued, WholeLines, flags
  <2> QED BY <2>7, <2>8, <2>9 DEF Base
<1>2. CASE PutRound
  <2>1. /\ op = "PUT" /\ Book(ToReceive)
        /\ pended' = pended + FromLeftover
        /\ wire' = wire + (ToReceive - FromLeftover)
        /\ UNCHANGED <<flags, a14, headed>>
    BY <1>2 DEF PutRound, flags
  <2>2. /\ ToReceive \in Nat /\ FromLeftover \in Nat
        /\ offset + ToReceive <= total
        /\ FromLeftover <= ToReceive
        /\ pended + FromLeftover <= leftover
        /\ Counted(total, offset, ToReceive) = ToReceive
    BY PutShape
  <2>3. /\ rounds' \in Nat
        /\ offset' \in 0 .. total /\ deficit' \in Nat /\ forfeited' \in Nat
        /\ phase' = IF offset' < total THEN "queued" ELSE "done"
    BY <2>1, <2>2, BookShape
  <2>4. pended' \in 0 .. leftover /\ wire' \in Nat
    BY <2>1, <2>2 DEF Base, TypeOK
  <2>5. oks' \in Nat
    BY <1>2 DEF PutRound, Base, TypeOK
  <2>6. Fixed'
    BY <2>1 DEF Base, Fixed, flags
  <2>7. TypeOK'
    BY <2>1, <2>3, <2>4, <2>5 DEF Base, TypeOK, flags
  <2>8. Queued' /\ WholeLines'
    BY <2>1, <2>3, <1>0 DEF Queued, WholeLines, flags
  <2> QED BY <2>6, <2>7, <2>8 DEF Base
<1>3. CASE RoundFails
  <2>1. /\ phase' = "failed"
        /\ UNCHANGED <<flags, offset, rounds, forfeited, deficit, a14,
                       headed, pended, wire>>
    BY <1>3 DEF RoundFails, flags
  <2>2. oks' \in Nat
    BY <1>3 DEF RoundFails, Base, TypeOK
  <2> QED BY <2>1, <2>2 DEF Base, Fixed, TypeOK, Queued, WholeLines, flags
<1>4. CASE Ended \/ UNCHANGED tvars
  BY <1>4 DEF Ended, tvars, Base, Fixed, TypeOK, Queued, WholeLines
<1> QED BY <1>1, <1>2, <1>3, <1>4 DEF Next

(* A request starts in its types, at the start of its first line.          *)
LEMMA BaseInit == Init => Base
<1> SUFFICES ASSUME Init PROVE Base
  OBVIOUS
<1>1. Fixed
  <2>1. CASE op = "GET"
    <3>1. /\ lines \in Files /\ total \in lines \cup {0}
          /\ IsSize(lines, total) /\ leftover = 0
      BY <2>1 DEF Init
    <3>2. total \in 0 .. (Wrap - 1)
      BY <3>1, Constants
    <3> QED BY <2>1, <3>1, <3>2 DEF Init, Fixed
  <2>2. CASE op = "PUT"
    <3>1. total \in 0 .. (Wrap - 1) /\ leftover \in Nat
      BY <2>2, TransferAssumption DEF Init
    <3> QED BY <2>2, <3>1 DEF Init, Fixed
  <2> QED BY <2>1, <2>2 DEF Init
<1>2. total \in Nat /\ leftover \in Nat
  BY <1>1, LinesBounded DEF Fixed
<1>3. TypeOK
  <2>1. op \in {"GET", "PUT"}
    BY DEF Init
  <2>2. wire \in Nat
    BY <1>2 DEF Init
  <2>3. /\ policy \in Policies /\ quantum \in Quanta
        /\ lines \in Files \cup {{}} /\ total \in 0 .. (Wrap - 1)
    BY <1>1 DEF Fixed
  <2>4. /\ offset = 0 /\ rounds = 0 /\ forfeited = 0 /\ deficit = 0
        /\ a14 = 0 /\ pended = 0 /\ oks = 0
    BY DEF Init
  <2>5. /\ headed \in BOOLEAN
        /\ phase \in {"queued", "done", "failed"}
    BY DEF Init
  <2>6. offset \in 0 .. total /\ pended \in 0 .. leftover
    BY <1>2, <2>4
  <2> QED BY <1>2, <2>1, <2>2, <2>3, <2>4, <2>5, <2>6 DEF TypeOK
<1>4. Queued /\ WholeLines
  BY <1>2 DEF Init, Queued, WholeLines
<1> QED BY <1>1, <1>3, <1>4 DEF Base

(* Counters keep their types; in particular a request's offset never       *)
(* passes its total, so the subtractions of serve_get and serve_put cannot *)
(* underflow.                                                              *)
THEOREM TransferTypes == Spec => []TypeOK
<1>1. Base => TypeOK
  BY DEF Base
<1> QED BY <1>1, BaseInit, BaseStep, PTL DEF Spec

(* No GET line is ever split between rounds, under any policy, for any     *)
(* file and any quantum.                                                   *)
THEOREM LinesStayWhole == Spec => []WholeLines
<1>1. Base => WholeLines
  BY DEF Base
<1> QED BY <1>1, BaseInit, BaseStep, PTL DEF Spec

-----------------------------------------------------------------------------
(***************************************************************************)
(* Deficit round robin.  The ledger: what a download was allowed so far    *)
(* (rounds * quantum) is what it has been sent plus its deficit; and the   *)
(* deficit is tight: it does not reach the end of the next line.  An       *)
(* upload spends all of its deficit in every round.                        *)
(***************************************************************************)
Small == total + total < Wrap /\ quantum < total /\ deficit < total - offset

GetLedger ==
  /\ rounds * quantum = offset + deficit
  /\ \A e \in lines : offset < e => offset + deficit < e
  /\ rounds = 0 \/ Small

Ledger ==
  policy = "DRR" =>
    /\ rounds = 0 => deficit = 0
    /\ phase # "done" /\ op = "PUT" => deficit = 0
    /\ phase # "done" /\ op = "GET" => GetLedger
    /\ phase = "done" /\ op = "GET" => offset = total /\
          (total = 0 \/ total <= rounds * quantum)

(* One more round allows one more quantum. *)
LEMMA OneMore ==
  ASSUME NEW k \in Nat, NEW q \in Nat
  PROVE  (k + 1) * q = k * q + q
OBVIOUS

(* Before a round the deficit leaves room for the quantum.                 *)
LEMMA NoWrap ==
  ASSUME Base, Ledger, policy = "DRR", phase = "queued"
  PROVE  deficit + quantum < Wrap
<1>1. /\ total \in Nat /\ offset \in Nat /\ deficit \in Nat
      /\ quantum \in Nat /\ Wrap \in Nat /\ quantum < Wrap
      /\ offset <= total
  BY Constants, LinesBounded DEF Base, TypeOK
<1>2. CASE deficit = 0
  BY <1>1, <1>2
<1>3. CASE deficit # 0
  <2>1. op = "GET" /\ rounds # 0
    BY <1>3 DEF Ledger, Base, TypeOK
  <2>2. Small
    BY <2>1 DEF Ledger, GetLedger
  <2> QED BY <1>1, <2>2 DEF Small
<1> QED BY <1>2, <1>3

(* The books balance after every download round. *)
LEMMA LedgerGet ==
  ASSUME Base, Ledger, GetRound, policy = "DRR"
  PROVE  Ledger'
<1>1. /\ total \in Nat /\ offset \in Nat /\ deficit \in Nat
      /\ quantum \in Nat /\ rounds \in Nat /\ offset <= total
      /\ lines \subseteq Nat /\ \A e \in lines : e <= total
      /\ quantum > 0
  BY LinesBounded DEF Base, TypeOK, Fixed, QuantumAllowed
<1>2. /\ phase = "queued" /\ op = "GET" /\ GetLedger
      /\ UNCHANGED <<policy, quantum, op, lines, total>>
  BY DEF GetRound, Ledger, flags
<1>3. PICK bytes \in 0 .. total : GetBytes(bytes) /\ Book(bytes)
  BY DEF GetRound
<1>4. bytes \in Nat
  BY <1>1
<1>5. /\ offset + bytes <= total
      /\ Counted(total, offset, bytes) = bytes
  BY <1>2, <1>3, GetShape
<1>6. /\ rounds' = rounds + 1
      /\ offset' = offset + bytes
      /\ deficit' = SpentDeficit(policy, RoundDeficit, bytes)
      /\ phase' = IF offset' < total THEN "queued" ELSE "done"
  BY <1>3, <1>4, <1>5, BookShape
<1>7. rounds' * quantum' = offset + deficit + quantum
  BY <1>1, <1>2, <1>6, OneMore DEF GetLedger
<1>8. CASE total = 0
  BY <1>1, <1>2, <1>5, <1>6, <1>8 DEF Ledger
<1>9. CASE total # 0
  <2>1. offset < total
    BY <1>2, <1>9 DEF Base, Queued
  <2>2. RoundDeficit = deficit + quantum
    BY <1>1, <1>2, <2>1, NoWrap, Constants
       DEF RoundDeficit, RaisedDeficit, Remaining, AddU64
  <2>3. RoundBudget = Least(total - offset, deficit + quantum)
    BY <1>1, <2>1, <2>2 DEF RoundBudget, Budget, Remaining
  <2>4. CASE deficit + quantum >= total - offset
    <3>1. RoundBudget = total - offset
      BY <1>1, <2>1, <2>3, <2>4 DEF Least
    <3>2. bytes = total - offset
      BY <1>1, <1>3, <2>1, <3>1 DEF GetBytes
    <3>3. offset' = total /\ phase' = "done"
      BY <1>1, <1>6, <3>2
    <3> QED BY <1>1, <1>2, <1>6, <1>7, <2>4, <3>3 DEF Ledger
  <2>5. CASE ~(deficit + quantum >= total - offset)
    <3>1. RoundBudget = deficit + quantum
      BY <1>1, <2>1, <2>3, <2>5 DEF Least
    <3>2. LinesSelected(lines, offset, deficit + quantum, policy = "RR",
                        bytes)
      BY <1>1, <1>3, <2>1, <2>5, <3>1 DEF GetBytes
    <3>3. /\ bytes <= deficit + quantum
          /\ \A e \in lines : offset + bytes < e
                              => offset + deficit + quantum < e
      BY <1>1, <1>4, <3>2, policy # "RR" DEF LinesSelected, Fitting, IsSize
    <3>4. deficit' = deficit + quantum - bytes
      BY <1>1, <1>4, <1>6, <2>2, <3>3 DEF SpentDeficit
    <3>5. offset' < total' /\ phase' = "queued"
      BY <1>1, <1>2, <1>4, <1>6, <2>5, <3>3
    <3>6. offset' + deficit' = offset + deficit + quantum
      BY <1>1, <1>4, <1>6, <3>4
    <3>7. Small'
      <4>1. total + total < Wrap
        BY <1>2, LinesBounded DEF Base
      <4>2. quantum < total /\ deficit' < total - offset'
        BY <1>1, <1>4, <1>6, <2>5, <3>4
      <4> QED BY <1>2, <4>1, <4>2 DEF Small
    <3>8. GetLedger'
      BY <1>2, <1>6, <1>7, <3>3, <3>6, <3>7 DEF GetLedger
    <3> QED BY <1>1, <1>2, <1>6, <3>5, <3>8 DEF Ledger
  <2> QED BY <2>4, <2>5
<1> QED BY <1>8, <1>9

(* An unfinished upload round spends the whole deficit.                    *)
LEMMA LedgerPut ==
  ASSUME Base, Ledger, PutRound, policy = "DRR"
  PROVE  Ledger'
<1>1. /\ total \in Nat /\ offset \in Nat /\ offset <= total
      /\ rounds \in Nat
      /\ RoundDeficit \in Nat /\ RoundBudget \in Nat
  BY LinesBounded, RoundTypes DEF Base, TypeOK
<1>2. /\ op = "PUT" /\ op' = "PUT" /\ Book(ToReceive)
      /\ total' = total
  BY DEF PutRound, flags
<1>3. /\ rounds' = rounds + 1
      /\ offset' = offset + ToReceive
      /\ deficit' = SpentDeficit(policy, RoundDeficit, ToReceive)
      /\ phase' = IF offset' < total THEN "queued" ELSE "done"
  BY <1>2, PutShape, BookShape
<1>4. ASSUME phase' # "done" PROVE deficit' = 0
  <2>1. offset + ToReceive < total
    BY <1>3, <1>4
  <2>2. ToReceive = RoundDeficit
    BY <1>1, <2>1 DEF ToReceive, RoundBudget, Budget, Least, Remaining
  <2> QED BY <1>1, <1>3, <2>2 DEF SpentDeficit
<1> QED BY <1>1, <1>2, <1>3, <1>4 DEF Ledger

(* The ledger is kept by every step. *)
LEMMA LedgerStep == Base /\ Ledger /\ [Next]_tvars => Ledger'
<1> SUFFICES ASSUME Base, Ledger, [Next]_tvars PROVE Ledger'
  OBVIOUS
<1>1. CASE UNCHANGED <<policy, quantum, op, lines, total, offset, rounds,
                       deficit>> /\ (phase' = "done" <=> phase = "done")
  BY <1>1 DEF Ledger, GetLedger, Small
<1>2. CASE policy # "DRR"
  BY <1>2 DEF Next, GetRound, PutRound, RoundFails, Ended, tvars, flags,
              Ledger
<1>3. CASE policy = "DRR" /\ (GetRound \/ PutRound)
  BY <1>3, LedgerGet, LedgerPut
<1>4. CASE RoundFails
  BY <1>1, <1>4 DEF RoundFails, flags
<1>5. CASE Ended \/ UNCHANGED tvars
  BY <1>1, <1>5 DEF Ended, tvars
<1> QED BY <1>2, <1>3, <1>4, <1>5 DEF Next

(* The ledger starts balanced. *)
LEMMA LedgerInit == Init => Ledger
<1> SUFFICES ASSUME Init PROVE Ledger
  OBVIOUS
<1>1. rounds = 0 /\ offset = 0 /\ deficit = 0 /\ phase = "queued"
  BY DEF Init
<1>2. quantum \in Nat /\ lines \subseteq Nat
  BY BaseInit, LinesBounded DEF Base
<1>3. rounds * quantum = offset + deficit
  BY <1>1, <1>2
<1> QED BY <1>1, <1>2, <1>3 DEF Ledger, GetLedger

(* The ledger makes DRR exact. *)
LEMMA LedgerExact == Base /\ Ledger => DrrExact /\ DeficitNeverWraps
<1> SUFFICES ASSUME Base, Ledger PROVE DrrExact /\ DeficitNeverWraps
  OBVIOUS
<1>1. DeficitNeverWraps
  BY NoWrap DEF DeficitNeverWraps
<1>2. ASSUME policy = "DRR", op = "GET", NEW e \in lines
      PROVE  e <= offset <=> e <= rounds * quantum
  <2>1. /\ total \in Nat /\ offset \in Nat /\ deficit \in Nat
        /\ quantum \in Nat /\ rounds \in Nat
        /\ e \in Nat /\ e # 0 /\ e <= total
    BY LinesBounded DEF Base, TypeOK
  <2>2. CASE phase = "done"
    <3>1. offset = total /\ (total = 0 \/ total <= rounds * quantum)
      BY <1>2, <2>2 DEF Ledger
    <3>2. rounds * quantum \in Nat
      BY <2>1
    <3> QED BY <2>1, <3>1, <3>2
  <2>3. CASE phase # "done"
    <3>1. GetLedger
      BY <1>2, <2>3 DEF Ledger
    <3>2. /\ rounds * quantum = offset + deficit
          /\ offset < e => offset + deficit < e
      BY <3>1 DEF GetLedger
    <3> QED BY <2>1, <3>2
  <2> QED BY <2>2, <2>3
<1> QED BY <1>1, <1>2 DEF DrrExact

(* Deficit round robin is exact: after k rounds a download has been sent   *)
(* the lines that end within its first k * Q bytes, for any file and any   *)
(* quantum.                                                                *)
THEOREM DrrIsExact == Spec => []DrrExact
<1>1. Base /\ Ledger => DrrExact
  BY LedgerExact
<1> QED BY <1>1, BaseInit, BaseStep, LedgerInit, LedgerStep, PTL DEF Spec

(* The deficit counter never overflows its 64 bits, although the addition  *)
(* of get_budget is unchecked and a PUT may declare any size.              *)
THEOREM DeficitFits == Spec => []DeficitNeverWraps
<1>1. Base /\ Ledger => DeficitNeverWraps
  BY LedgerExact
<1> QED BY <1>1, BaseInit, BaseStep, LedgerInit, LedgerStep, PTL DEF Spec

-----------------------------------------------------------------------------
(***************************************************************************)
(* Round robin.  RrLedger needs no strengthening: an unfinished round has  *)
(* the whole quantum as its budget, and either sends or forfeits all of it *)
(* or, as an A14 overrun, sends more.                                      *)
(***************************************************************************)

(* What an unfinished RR download round sends: at least one byte, and more *)
(* than its quantum only as a line that did not fit.                       *)
LEMMA RrRound ==
  ASSUME Base, op = "GET", policy = "RR", offset < total,
         NEW bytes \in 0 .. total, GetBytes(bytes), offset + bytes < total
  PROVE  RoundBudget = quantum /\ bytes > 0
<1>1. /\ total \in Nat /\ offset \in Nat /\ bytes \in Nat
      /\ quantum \in Nat /\ quantum > 0
      /\ lines \subseteq Nat /\ total \in lines
  BY LinesBounded DEF Base, TypeOK, Fixed, QuantumAllowed
<1>2. RoundBudget = Least(total - offset, quantum)
  BY <1>1 DEF RoundBudget, Budget, Remaining
<1>3. RoundBudget < total - offset
  <2>1. SUFFICES ASSUME RoundBudget >= total - offset PROVE FALSE
    BY <1>1, <1>2 DEF Least
  <2>2. RoundBudget # 0
    BY <1>1, <1>2 DEF Least
  <2>3. bytes = total - offset
    BY <1>1, <2>1, <2>2 DEF GetBytes
  <2> QED BY <1>1, <2>3
<1>4. RoundBudget = quantum
  BY <1>1, <1>2, <1>3 DEF Least
<1>5. LinesSelected(lines, offset, quantum, policy = "RR", bytes)
  BY <1>1, <1>3, <1>4 DEF GetBytes
<1>6. total \in Ahead(lines, offset)
  BY <1>1 DEF Ahead
<1>7. bytes > 0
  BY <1>1, <1>5, <1>6 DEF LinesSelected, Fitting, Ahead, IsSize
<1> QED BY <1>4, <1>7

(* The RR ledger is kept by every download round. *)
LEMMA RrGet ==
  ASSUME Base, RrLedger, GetRound, policy = "RR"
  PROVE  RrLedger'
<1>1. /\ total \in Nat /\ offset \in Nat /\ rounds \in Nat
      /\ quantum \in Nat /\ forfeited \in Nat /\ a14 \in Nat
  BY LinesBounded DEF Base, TypeOK
<1>2. /\ phase = "queued" /\ op = "GET"
      /\ UNCHANGED <<policy, quantum, op, lines, total>>
  BY DEF GetRound, flags
<1>3. PICK bytes \in 0 .. total :
        /\ GetBytes(bytes) /\ Book(bytes)
        /\ a14' = IF bytes > RoundBudget THEN a14 + 1 ELSE a14
  BY DEF GetRound
<1>4. bytes \in Nat
  BY <1>1
<1>5. /\ offset + bytes <= total
      /\ Counted(total, offset, bytes) = bytes
  BY <1>2, <1>3, GetShape
<1>6. /\ rounds' = rounds + 1
      /\ offset' = offset + bytes
      /\ phase' = IF offset' < total THEN "queued" ELSE "done"
  BY <1>3, <1>4, <1>5, BookShape
<1>7. SUFFICES ASSUME phase' = "queued"
               PROVE  /\ rounds' * quantum' <= offset' + forfeited'
                      /\ a14' = 0 <=> rounds' * quantum'
                                        = offset' + forfeited'
  BY DEF RrLedger
<1>8. offset + bytes < total /\ offset < total
  BY <1>1, <1>4, <1>6, <1>7
<1>9. RoundBudget = quantum
  BY <1>2, <1>3, <1>8, RrRound
<1>10. ShouldRequeue(total, offset + bytes)
  BY <1>1, <1>4, <1>8 DEF ShouldRequeue, Remaining
<1>11. forfeited' = forfeited + (IF bytes < quantum THEN quantum - bytes
                                 ELSE 0)
  BY <1>2, <1>3, <1>5, <1>9, <1>10 DEF Book, Forfeit
<1>12. rounds' * quantum' = rounds * quantum + quantum
  BY <1>1, <1>2, <1>6, OneMore
<1>13. /\ rounds * quantum <= offset + forfeited
       /\ a14 = 0 <=> rounds * quantum = offset + forfeited
  BY <1>2 DEF RrLedger
<1>14. rounds * quantum \in Nat
  BY <1>1
<1> QED
  BY <1>1, <1>3, <1>4, <1>6, <1>9, <1>11, <1>12, <1>13, <1>14

(* No step unbalances the RR ledger. *)
LEMMA RrStep == Base /\ RrLedger /\ [Next]_tvars => RrLedger'
<1> SUFFICES ASSUME Base, RrLedger, [Next]_tvars PROVE RrLedger'
  OBVIOUS
<1>1. CASE GetRound
  <2>1. CASE policy = "RR"
    BY <1>1, <2>1, RrGet
  <2>2. CASE policy # "RR"
    BY <1>1, <2>2 DEF GetRound, flags, RrLedger
  <2> QED BY <2>1, <2>2
<1>2. CASE PutRound
  BY <1>2 DEF PutRound, flags, RrLedger
<1>3. CASE RoundFails
  BY <1>3 DEF RoundFails, RrLedger
<1>4. CASE Ended \/ UNCHANGED tvars
  BY <1>4 DEF Ended, tvars, RrLedger
<1> QED BY <1>1, <1>2, <1>3, <1>4 DEF Next

(* Round robin is charged to the byte: after k unfinished rounds a         *)
(* download was sent or forfeited k quanta, and more only through A14      *)
(* overruns, for any file and any quantum.                                 *)
THEOREM RrLedgerBalances == Spec => []RrLedger
<1>1. Init => RrLedger
  <2>1. Init => quantum \in Nat
    BY BaseInit, LinesBounded DEF Base
  <2> QED BY <2>1 DEF Init, RrLedger
<1> QED BY <1>1, BaseInit, BaseStep, RrStep, PTL DEF Spec

-----------------------------------------------------------------------------
(***************************************************************************)
(* Uploads.  The body of a PUT comes out of two places: what arrived with  *)
(* the header is used up first (pended), then the socket (wire).  While    *)
(* the upload has not failed, both stand where the offset says.            *)
(***************************************************************************)
Body ==
  op = "PUT" /\ phase # "failed" =>
    /\ staged = [i \in 1 .. offset |-> i]
    /\ pended = Least(leftover, offset)
    /\ wire = IF offset <= leftover THEN leftover ELSE offset

Allowed ==
  op = "PUT" /\ policy \in {"RR", "DRR"} =>
    offset = Least(total, rounds * quantum)

(* The bytes of an upload round: a quantum, or what is left of the body.   *)
LEMMA PutRoundBytes ==
  ASSUME Base, Ledger, op = "PUT", phase = "queued"
  PROVE  ToReceive = IF policy \in {"RR", "DRR"}
                       THEN Least(quantum, total - offset)
                       ELSE total - offset
<1>1. /\ total \in Nat /\ offset \in Nat /\ offset <= total
      /\ quantum \in Nat /\ quantum < Wrap /\ Wrap \in Nat
      /\ deficit \in Nat /\ policy \in Policies
  BY Constants, LinesBounded DEF Base, TypeOK
<1>2. Remaining(total, offset) = total - offset
  BY <1>1 DEF Remaining
<1>3. CASE policy = "DRR"
  <2>1. deficit = 0
    BY <1>3 DEF Ledger
  <2>2. offset < total => RoundDeficit = quantum
    BY <1>1, <1>2, <1>3, <2>1 DEF RoundDeficit, RaisedDeficit, AddU64
  <2>3. RoundBudget = Least(total - offset, RoundDeficit)
    BY <1>2, <1>3 DEF RoundBudget, Budget
  <2>4. RoundDeficit \in Nat
    BY RoundTypes
  <2> QED BY <1>1, <1>2, <1>3, <2>2, <2>3, <2>4 DEF ToReceive, Least
<1>4. CASE policy = "RR"
  <2>1. RoundBudget = Least(total - offset, quantum)
    BY <1>2, <1>4 DEF RoundBudget, Budget
  <2> QED BY <1>1, <1>2, <1>4, <2>1 DEF ToReceive, Least
<1>5. CASE policy \notin {"RR", "DRR"}
  <2>1. RoundBudget = total - offset
    BY <1>2, <1>5 DEF RoundBudget, Budget
  <2> QED BY <1>1, <1>2, <1>5, <2>1 DEF ToReceive, Least
<1> QED BY <1>3, <1>4, <1>5

(* An upload round appends the next bytes of the body, in order.           *)
LEMMA BodyPut ==
  ASSUME Base, Body, PutRound
  PROVE  Body'
<1>1. /\ total \in Nat /\ offset \in Nat /\ leftover \in Nat
      /\ pended \in Nat /\ pended <= leftover /\ wire \in Nat
  BY LinesBounded DEF Base, TypeOK
<1>2. /\ phase = "queued" /\ op = "PUT" /\ Staging /\ Book(ToReceive)
      /\ pended' = pended + FromLeftover
      /\ wire' = wire + (ToReceive - FromLeftover)
      /\ leftover' = leftover
  BY DEF PutRound, flags
<1>3. /\ staged = [i \in 1 .. offset |-> i]
      /\ pended = Least(leftover, offset)
      /\ wire = IF offset <= leftover THEN leftover ELSE offset
  BY <1>2 DEF Body
<1>4. ToReceive \in Nat /\ FromLeftover \in Nat
  BY PutShape
<1>5. FromLeftover = Least(ToReceive, leftover - pended)
  BY <1>1 DEF FromLeftover, Remaining
<1>6. offset' = offset + ToReceive
  BY <1>2, <1>4, PutShape, BookShape
<1>7. ASSUME NEW i \in 1 .. (offset + ToReceive)
      PROVE  Written(i) = i
  <2>1. CASE i <= offset
    <3>1. i \in 1 .. offset
      BY <1>1, <1>4, <2>1
    <3> QED BY <1>3, <2>1, <3>1 DEF Written
  <2>2. CASE i > offset /\ i <= offset + FromLeftover
    <3>1. Written(i) = pended + (i - offset)
      BY <1>1, <1>4, <2>2 DEF Written
    <3>2. pended = offset
      BY <1>1, <1>3, <1>4, <1>5, <2>2 DEF Least
    <3> QED BY <1>1, <1>4, <3>1, <3>2
  <2>3. CASE i > offset + FromLeftover
    <3>1. Written(i) = wire + (i - offset - FromLeftover)
      BY <1>1, <1>4, <2>3 DEF Written
    <3>2. FromLeftover = leftover - pended
      BY <1>1, <1>4, <1>5, <2>3 DEF Least
    <3>3. wire = offset + FromLeftover
      BY <1>1, <1>3, <3>2 DEF Least
    <3> QED BY <1>1, <1>4, <3>1, <3>3
  <2> QED BY <1>1, <1>4, <2>1, <2>2, <2>3
<1>8. staged' = [i \in 1 .. offset' |-> i]
  BY <1>2, <1>6, <1>7 DEF Staging
<1>9. /\ pended' = Least(leftover', offset')
      /\ wire' = IF offset' <= leftover' THEN leftover' ELSE offset'
  BY <1>1, <1>2, <1>3, <1>4, <1>5, <1>6 DEF Least
<1> QED BY <1>8, <1>9 DEF Body

(* An upload round moves the offset by one quantum, or to the end.         *)
LEMMA AllowedPut ==
  ASSUME Base, Ledger, Allowed, PutRound
  PROVE  Allowed'
<1>1. /\ total \in Nat /\ offset \in Nat /\ offset <= total
      /\ quantum \in Nat /\ rounds \in Nat
  BY LinesBounded DEF Base, TypeOK
<1>2. /\ phase = "queued" /\ op = "PUT" /\ Book(ToReceive)
      /\ UNCHANGED <<policy, quantum, op, total>>
  BY DEF PutRound, flags
<1>3. /\ rounds' = rounds + 1
      /\ offset' = offset + ToReceive
  BY <1>2, PutShape, BookShape
<1>4. SUFFICES ASSUME policy \in {"RR", "DRR"}
               PROVE  offset' = Least(total, rounds' * quantum)
  BY <1>2 DEF Allowed
<1>5. ToReceive = Least(quantum, total - offset)
  BY <1>2, <1>4, PutRoundBytes
<1>6. offset = Least(total, rounds * quantum)
  BY <1>2, <1>4 DEF Allowed
<1>7. rounds' * quantum = rounds * quantum + quantum
  BY <1>1, <1>3, OneMore
<1>8. rounds * quantum \in Nat
  BY <1>1
<1>9. offset < total \/ total = 0
  BY <1>2 DEF Base, Queued
<1> QED BY <1>1, <1>3, <1>5, <1>6, <1>7, <1>8, <1>9 DEF Least

(* No step disturbs the body or the allowance of an upload. *)
LEMMA PutStep ==
  Base /\ Ledger /\ Body /\ Allowed /\ [Next]_tvars => Body' /\ Allowed'
<1> SUFFICES ASSUME Base, Ledger, Body, Allowed, [Next]_tvars
             PROVE  Body' /\ Allowed'
  OBVIOUS
<1>1. CASE GetRound
  BY <1>1 DEF GetRound, flags, Body, Allowed
<1>2. CASE PutRound
  BY <1>2, BodyPut, AllowedPut
<1>3. CASE RoundFails
  BY <1>3 DEF RoundFails, flags, Body, Allowed
<1>4. CASE Ended \/ UNCHANGED tvars
  BY <1>4 DEF Ended, tvars, Body, Allowed
<1> QED BY <1>1, <1>2, <1>3, <1>4 DEF Next

(* An upload starts with an empty staging file.                            *)
LEMMA PutInit == Init => Body /\ Allowed
<1> SUFFICES ASSUME Init PROVE Body /\ Allowed
  OBVIOUS
<1>1. /\ total \in Nat /\ quantum \in Nat /\ leftover \in Nat
      /\ offset = 0 /\ rounds = 0 /\ pended = 0 /\ wire = leftover
      /\ staged = [i \in 1 .. 0 |-> 0]
  BY BaseInit, LinesBounded DEF Base, TypeOK, Init
<1>2. staged = [i \in 1 .. offset |-> i]
  BY <1>1
<1>3. rounds * quantum = 0
  BY <1>1
<1> QED BY <1>1, <1>2, <1>3 DEF Body, Allowed, Least

(* Uploads are exact: every round but the last receives one quantum, and   *)
(* the staging file is the body in order, for any split between the        *)
(* header's packet, the socket and the rounds.                             *)
THEOREM UploadsAreExact == Spec => []PutExact
<1>1. Body /\ Allowed => PutExact
  BY DEF Body, Allowed, PutExact
<1> QED BY <1>1, BaseInit, BaseStep, LedgerInit, LedgerStep, PutInit,
           PutStep, PTL DEF Spec

-----------------------------------------------------------------------------
(***************************************************************************)
(* Replies and progress.  What a queued request has behind it: before its  *)
(* first round nothing; after it one OK, and for a PUT at least one byte,  *)
(* so that "offset = 0" identifies the first round.                        *)
(***************************************************************************)
Fresh == offset = 0 /\ oks = 0 /\ ~headed

Underway ==
  /\ oks = 1 /\ offset < total
  /\ policy \in {"RR", "DRR"}
  /\ policy = "RR" => rounds <= offset
  /\ IF op = "GET" THEN headed ELSE offset > 0

Progress ==
  /\ phase = "queued" => IF rounds = 0 THEN Fresh ELSE Underway
  /\ phase = "done" => oks = IF op = "GET" THEN 1 ELSE 2

(* A download round: the header goes out once, and an RR round that comes  *)
(* back has sent at least one byte.                                        *)
LEMMA ProgressGet ==
  ASSUME Base, Progress, GetRound
  PROVE  Progress'
<1>1. /\ total \in Nat /\ offset \in Nat /\ rounds \in Nat
      /\ offset <= total /\ policy \in Policies /\ oks \in Nat
      /\ headed \in BOOLEAN
  BY LinesBounded DEF Base, TypeOK
<1>2. /\ phase = "queued" /\ op = "GET" /\ headed' = TRUE
      /\ oks' = IF headed THEN oks ELSE oks + 1
      /\ UNCHANGED <<policy, quantum, op, lines, total>>
  BY DEF GetRound, flags
<1>3. PICK bytes \in 0 .. total : GetBytes(bytes) /\ Book(bytes)
  BY DEF GetRound
<1>4. bytes \in Nat
  BY <1>1
<1>5. /\ offset + bytes <= total
      /\ Counted(total, offset, bytes) = bytes
  BY <1>2, <1>3, GetShape
<1>6. /\ rounds' = rounds + 1
      /\ offset' = offset + bytes
      /\ phase' = IF offset' < total THEN "queued" ELSE "done"
  BY <1>3, <1>4, <1>5, BookShape
<1>7. IF rounds = 0 THEN Fresh ELSE Underway
  BY <1>2 DEF Progress
<1>8. oks' = 1
  BY <1>2, <1>7 DEF Fresh, Underway
<1>9. ASSUME offset' < total PROVE Underway'
  <2>1. offset + bytes < total /\ offset < total
    BY <1>1, <1>4, <1>6, <1>9
  <2>2. policy \in {"RR", "DRR"}
    <3>1. SUFFICES ASSUME policy \notin {"RR", "DRR"} PROVE FALSE
      OBVIOUS
    <3>2. RoundBudget = total - offset
      BY <1>1, <2>1, <3>1 DEF RoundBudget, Budget, Remaining
    <3>3. bytes = total - offset
      BY <1>1, <1>3, <2>1, <3>2 DEF GetBytes
    <3> QED BY <1>1, <2>1, <3>3
  <2>3. policy = "RR" => bytes > 0
    BY <1>2, <1>3, <2>1, RrRound
  <2>4. policy = "RR" => rounds <= offset
    BY <1>1, <1>7 DEF Underway
  <2>5. policy = "RR" => rounds' <= offset'
    BY <1>1, <1>4, <1>6, <2>3, <2>4
  <2> QED BY <1>2, <1>8, <1>9, <2>2, <2>5 DEF Underway
<1>10. rounds' # 0
  BY <1>1, <1>6
<1> QED BY <1>1, <1>2, <1>6, <1>8, <1>9, <1>10 DEF Progress

(* An upload round: the first OK goes out on the first round only, and a   *)
(* round that comes back has received at least one byte.                   *)
LEMMA ProgressPut ==
  ASSUME Base, Ledger, Progress, PutRound
  PROVE  Progress'
<1>1. /\ total \in Nat /\ offset \in Nat /\ rounds \in Nat
      /\ offset <= total /\ policy \in Policies /\ oks \in Nat
      /\ quantum \in Nat
  BY LinesBounded DEF Base, TypeOK
<1>2. /\ phase = "queued" /\ op = "PUT" /\ Book(ToReceive)
      /\ oks' = oks + (IF offset = 0 THEN 1 ELSE 0)
                    + (IF phase' = "done" THEN 1 ELSE 0)
      /\ UNCHANGED <<policy, quantum, op, total>>
  BY DEF PutRound, flags
<1>3. /\ rounds' = rounds + 1
      /\ offset' = offset + ToReceive
      /\ phase' = IF offset' < total THEN "queued" ELSE "done"
  BY <1>2, PutShape, BookShape
<1>4. ToReceive \in Nat
  BY PutShape
<1>5. ToReceive = IF policy \in {"RR", "DRR"}
                    THEN Least(quantum, total - offset)
                    ELSE total - offset
  BY <1>2, PutRoundBytes
<1>6. IF rounds = 0 THEN Fresh ELSE Underway
  BY <1>2 DEF Progress
<1>7. oks' = IF phase' = "done" THEN 2 ELSE 1
  BY <1>1, <1>2, <1>6 DEF Fresh, Underway
<1>8. ASSUME offset' < total PROVE Underway'
  <2>1. offset + ToReceive < total
    BY <1>3, <1>8
  <2>2. policy \in {"RR", "DRR"}
    BY <1>1, <1>5, <2>1
  <2>3. quantum > 0
    BY <2>2 DEF Base, Fixed, QuantumAllowed
  <2>4. ToReceive > 0
    BY <1>1, <1>5, <2>1, <2>2, <2>3 DEF Least
  <2>5. policy = "RR" => rounds <= offset
    BY <1>1, <1>6 DEF Underway
  <2>6. offset' > 0 /\ (policy = "RR" => rounds' <= offset')
    BY <1>1, <1>3, <1>4, <2>4, <2>5
  <2>7. oks' = 1
    BY <1>3, <1>7, <1>8
  <2> QED BY <1>2, <1>8, <2>2, <2>6, <2>7 DEF Underway
<1>9. rounds' # 0
  BY <1>1, <1>3
<1>10. op' = "PUT"
  BY <1>2
<1> QED BY <1>3, <1>7, <1>8, <1>9, <1>10, <1>2 DEF Progress

(* Every step keeps the account of what a request has behind it. *)
LEMMA ProgressStep == Base /\ Ledger /\ Progress /\ [Next]_tvars => Progress'
<1> SUFFICES ASSUME Base, Ledger, Progress, [Next]_tvars PROVE Progress'
  OBVIOUS
<1>1. CASE GetRound
  BY <1>1, ProgressGet
<1>2. CASE PutRound
  BY <1>2, ProgressPut
<1>3. CASE RoundFails
  BY <1>3 DEF RoundFails, Progress
<1>4. CASE Ended \/ UNCHANGED tvars
  BY <1>4 DEF Ended, tvars, Progress, Fresh, Underway
<1> QED BY <1>1, <1>2, <1>3, <1>4 DEF Next

(* A request starts with nothing behind it. *)
LEMMA ProgressInit == Init => Progress
BY DEF Init, Progress, Fresh

(* What a request has behind it bounds its rounds: under RR by its bytes,  *)
(* under DRR by the quanta that make up its size.                          *)
LEMMA ProgressBounds ==
  ASSUME Base, Ledger, Allowed, Progress
  PROVE  RoundsBounded
<1>1. /\ total \in Nat /\ offset \in Nat /\ rounds \in Nat
      /\ offset <= total /\ quantum \in Nat /\ deficit \in Nat
      /\ op \in {"GET", "PUT"}
  BY LinesBounded DEF Base, TypeOK
<1>2. SUFFICES ASSUME phase = "queued", rounds > 0
               PROVE  CASE policy = "RR"  -> rounds <= offset
                        [] policy = "DRR" -> rounds * quantum < total
                        [] OTHER          -> FALSE
  BY DEF RoundsBounded
<1>3. Underway
  BY <1>1, <1>2 DEF Progress
<1>4. CASE policy = "RR"
  BY <1>3, <1>4 DEF Underway
<1>5. CASE policy = "DRR"
  <2>0. rounds * quantum \in Nat
    BY <1>1
  <2>1. CASE op = "GET"
    <3>1. /\ rounds * quantum = offset + deficit
          /\ deficit < total - offset
      BY <1>1, <1>2, <1>5, <2>1 DEF Ledger, GetLedger, Small
    <3>2. rounds * quantum < total
      BY <1>1, <3>1
    <3> QED BY <1>5, <3>2
  <2>2. CASE op = "PUT"
    <3>1. offset = Least(total, rounds * quantum)
      BY <1>5, <2>2 DEF Allowed
    <3>2. rounds * quantum < total
      BY <1>1, <1>3, <2>0, <3>1 DEF Least, Underway
    <3> QED BY <1>5, <3>2
  <2> QED BY <1>1, <2>1, <2>2
<1> QED BY <1>3, <1>4, <1>5 DEF Underway

(* The client gets its OK lines once each: one for a download, two for an  *)
(* upload, under every policy, for any size and any quantum.               *)
THEOREM RepliesAreExact == Spec => []RepliesExact
<1>1. Progress => RepliesExact
  BY DEF Progress, Fresh, Underway, RepliesExact
<1> QED BY <1>1, BaseInit, BaseStep, LedgerInit, LedgerStep, ProgressInit,
           ProgressStep, PTL DEF Spec

(* No request is requeued for ever: an RR request comes back at most once  *)
(* per byte, a DRR request only while its quanta do not make up its size,  *)
(* an FCFS or SJF request never.                                           *)
THEOREM RoundsAreBounded == Spec => []RoundsBounded
<1>1. Base /\ Ledger /\ Allowed /\ Progress => RoundsBounded
  BY ProgressBounds
<1> QED BY <1>1, BaseInit, BaseStep, LedgerInit, LedgerStep, PutInit,
           PutStep, ProgressInit, ProgressStep, PTL DEF Spec
=============================================================================
