------------------------------ MODULE Metrics -------------------------------
(***************************************************************************)
(* metrics.cpp: the rows of the CSV and the summary of a list of records.  *)
(* A record is a request's number and its three times.  The products of    *)
(* percentile and count are exact in a double for the two percentiles and  *)
(* any count that occurs.                                                  *)
(***************************************************************************)
EXTENDS Integers, SequencesExt

(* std::sort of s by key: each element goes where its key comes.           *)
Place(key) ==
  [i \in DOMAIN key |->
     Cardinality({j \in DOMAIN key :
                    key[j] < key[i] \/ (key[j] = key[i] /\ j <= i)})]
Sorted(s, key) ==
  LET place == Place(key)
  IN  [i \in DOMAIN s |-> s[CHOOSE j \in DOMAIN s : place[j] = i]]

(* Variant: the rows are left as recorded.                                 *)
CsvUnsorted(records) == records

(* write_csv: by request number. *)
Csv(records) == Sorted(records, [i \in DOMAIN records |-> records[i].id])

CeilDiv(a, b) == (a + b - 1) \div b

(* Variant: the index is not taken down by one.                            *)
RankIndexUnshifted(n, percentile) == CeilDiv(percentile * n, 100)

RankIndex(n, percentile) == CeilDiv(percentile * n, 100) - 1

(* nearest_rank; values are counted from zero there. *)
NearestRank(values, percentile) ==
  LET n == Len(values)
  IN  IF n = 0 THEN 0
      ELSE Sorted(values, values)[Min({RankIndex(n, percentile), n - 1}) + 1]

Elapsed(from, to) == IF to >= from THEN to - from ELSE 0
Waiting(rows) ==
  [i \in DOMAIN rows |-> Elapsed(rows[i].arrival, rows[i].start)]
Response(rows) ==
  [i \in DOMAIN rows |-> Elapsed(rows[i].arrival, rows[i].finish)]

(* print_summary; throughput is completed divided by window. *)
Summary(rows) ==
  [completed |-> Len(rows),
   waiting |-> [p \in {50, 99} |-> NearestRank(Waiting(rows), p)],
   response |-> [p \in {50, 99} |-> NearestRank(Response(rows), p)],
   window |-> IF rows = << >> THEN 0
              ELSE Max({rows[i].finish : i \in DOMAIN rows})
                   - Min({rows[i].arrival : i \in DOMAIN rows})]

(* What a percentile is: the least value that so many per cent of the      *)
(* values do not exceed.                                                   *)
IsPercentile(v, values, percentile) ==
  LET Upto(x) == 100 * Cardinality({i \in DOMAIN values : values[i] <= x})
  IN  /\ v \in Range(values)
      /\ Upto(v) >= percentile * Len(values)
      /\ \A x \in Range(values) :
           x < v => Upto(x) < percentile * Len(values)
=============================================================================
