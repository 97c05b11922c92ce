------------------------------ MODULE Workload ------------------------------
(***************************************************************************)
(* The two programs around the indexes, one after the other.  generate.cc  *)
(* divides a data set into items to bulk-load and items to insert, lays    *)
(* out inserts, lookups and range queries, and computes the answer that    *)
(* each query has to get at its place.  benchmark.h cuts the operations    *)
(* into segments, builds an index, executes the segments and compares the  *)
(* answers.                                                                *)
(*                                                                         *)
(* An item is its value, which is its position in the data set, from 0.    *)
(* The index is one that answers correctly: what is checked here is the    *)
(* generator and the driver.  Both run one thread, as no index of the      *)
(* repository runs more.                                                   *)
(***************************************************************************)
EXTENDS Integers, Sequences, FiniteSets, FiniteSetsExt, SequencesExt, Ascending

CONSTANTS DataSets,    \* sorted sequences of keys
          Settings,    \* records of the command line's choices, see SettingOK
          RangeMin,    \* min_num: fewest items of a range query (95)
          RangeMax,    \* max_num: most items of a range query (100)
          MaxRetries,  \* max_num_retries
          Repeats      \* --repeats, for throughput

INSERT == "INSERT"
LOOKUP == "LOOKUP"
RANGE_QUERY == "RANGE_QUERY"
NOT_FOUND == -1

\* insert_cnt is 0 exactly if insert_ratio is.  bulkload_cnt is -1 if it is not given.
\* The driver accepts blocks only of inserts with other operations, in that order.
\* Inserts are drawn from positions lo to hi - 1: all (equality), the last insert_cnt
\* (delta), or from three tenths on (hotspot).  Lookups, those of places that no insert
\* is left for included, and range queries are drawn from a bulk load that is not empty.
SettingOK(s, n) ==
  /\ s.insert_cnt \in 0..n /\ s.lookup_cnt \in Nat /\ s.range_cnt \in Nat
  /\ s.pat \in {"equality", "delta", "hotspot"}
  /\ s.lo \in 0..n /\ s.hi \in s.lo..n
  /\ s.pat = "equality" => s.lo = 0 /\ s.hi = n
  /\ s.pat = "delta" => s.hi = n /\ s.lo = n - s.insert_cnt
  /\ s.mix \in BOOLEAN /\ s.block_num \in Nat \ {0}
  /\ s.block_num > 1 => ~s.mix /\ s.insert_cnt > 0 /\ s.lookup_cnt + s.range_cnt > 0
  /\ s.bulkload_cnt \in -1..(n - s.insert_cnt)
  /\ LET bulk == IF s.bulkload_cnt = -1 THEN n - s.insert_cnt ELSE s.bulkload_cnt
     IN  /\ s.lookup_cnt > 0 \/ s.hi - s.lo < s.insert_cnt => bulk > 0
         /\ s.range_cnt > 0 => bulk > RangeMax

ASSUME WorkloadAssumption ==
  /\ \A d \in DataSets : d \in Seq(Nat) /\ \A i \in 1..(Len(d) - 1) : d[i] <= d[i + 1]
  /\ \A d \in DataSets : \A s \in Settings : SettingOK(s, Len(d))
  /\ RangeMin \in Nat /\ RangeMax \in Nat /\ RangeMin <= RangeMax
  /\ MaxRetries \in Nat /\ Repeats \in Nat \ {0}

VARIABLES keys, set,      \* the data set and the setting
          pc,             \* what is done next
          op_id,          \* places of the operations: inserts, lookups, range queries
          bulk_loads,     \* sequence of items
          ops,            \* the operations, from 0
          present,        \* data_map and data_vec: the items so far
          num_retries,
          through,        \* --through: throughput, not verified latencies
          index,          \* the items of the index
          segment, idx,   \* the loop variables of DoOps and DoOpsCoreLoop
          repetition, run_failed,
          executed        \* history: the operations of this repetition, in order

generated == <<keys, set, op_id, bulk_loads, ops, present, num_retries>>
run  == <<through, index, segment, idx, repetition, run_failed, executed>>
vars == <<generated, pc, run>>

n       == Len(keys)
Items   == 0..(n - 1)
Key(v)  == keys[v + 1]
op_cnt  == set.insert_cnt + set.lookup_cnt + set.range_cnt
is_insert == set.insert_cnt > 0

\* Definitions of the form Op_Fault are faulty variants of Op.  No action uses
\* them; each shows that a property notices the fault.

-----------------------------------------------------------------------------
(* generate.cc: layout and partition. *)

\* How many of cnt operations the first i blocks have: the last block takes the rest.
Through(cnt, i) ==
  IF i = set.block_num THEN cnt ELSE i * (cnt \div set.block_num)

\* The block of operation j of cnt.
BlockOf(cnt, j) == Min({i \in 1..set.block_num : j <= Through(cnt, i)})

\* generate_permute_blockwise: in each block inserts, then lookups, then ranges.  The
\* place of an operation is the number of operations before it.
Blockwise ==
  LET InsertPlace(j) ==
        LET i == BlockOf(set.insert_cnt, j)
        IN  j - 1 + Through(set.lookup_cnt, i - 1) + Through(set.range_cnt, i - 1)
      LookupPlace(j) ==
        LET i == BlockOf(set.lookup_cnt, j)
        IN  j - 1 + Through(set.insert_cnt, i) + Through(set.range_cnt, i - 1)
      RangePlace(j) ==
        LET i == BlockOf(set.range_cnt, j)
        IN  j - 1 + Through(set.insert_cnt, i) + Through(set.lookup_cnt, i)
  IN  [j \in 1..op_cnt |->
         IF j <= set.insert_cnt THEN InsertPlace(j)
         ELSE IF j <= set.insert_cnt + set.lookup_cnt THEN LookupPlace(j - set.insert_cnt)
         ELSE RangePlace(j - set.insert_cnt - set.lookup_cnt)]

Shuffles(S) == {p \in [1..Cardinality(S) -> S] : Range(p) = S}

\* The places of the inserts of a mixed workload are sorted.
InOrder(p) == Ascending(Range(SubSeq(p, 1, set.insert_cnt)))
                \o SubSeq(p, set.insert_cnt + 1, Len(p))

Layout ==
  /\ pc = "layout"
  /\ op_id' \in IF set.block_num > 1 THEN {Blockwise}
                ELSE IF set.mix THEN {InOrder(p) : p \in Shuffles(0..(op_cnt - 1))}
                ELSE {[j \in 1..op_cnt |-> j - 1]}
  /\ pc' = "partition"
  /\ UNCHANGED <<keys, set, bulk_loads, ops, present, num_retries, run>>

Sorted_AsShuffled(S) == Shuffles(S)
\* std::sort by key, in which items with equal keys may end up in any order.
Sorted(S) ==
  {p \in Shuffles(S) : \A i \in 1..(Len(p) - 1) : Key(p[i]) <= Key(p[i + 1])}

\* generate_inserts; kv_id is the order of the items lo to hi - 1.  If they are fewer
\* than insert_cnt, the last places keep the kind 0, LOOKUP.  The items that are not
\* inserted are sorted by key.
GenerateInserts ==
  /\ pc = "partition" /\ is_insert
  /\ \E kv_id \in IF set.pat = "delta" THEN {Ascending(set.lo..(set.hi - 1))}
                  ELSE Shuffles(set.lo..(set.hi - 1)) :
       LET inserted == 1..Min({set.insert_cnt, set.hi - set.lo}) IN
       /\ ops' = [j \in 0..(op_cnt - 1) |->
                    IF \E i \in inserted : op_id[i] = j
                    THEN LET v == kv_id[CHOOSE i \in inserted : op_id[i] = j]
                         IN  [op |-> INSERT, lo_key |-> Key(v), hi_key |-> 0, result |-> v]
                    ELSE ops[j]]
       /\ \E rest \in Sorted({kv_id[i] : i \in (set.insert_cnt + 1)..(set.hi - set.lo)}) :
            bulk_loads' = Ascending(0..(set.lo - 1)) \o rest \o Ascending(set.hi..(n - 1))
  /\ pc' = "sample"
  /\ UNCHANGED <<keys, set, op_id, present, num_retries, run>>

\* No inserts: all items are bulk-loaded.
LoadAll ==
  /\ pc = "partition" /\ ~is_insert
  /\ bulk_loads' = Ascending(Items)
  /\ pc' = "sample"
  /\ UNCHANGED <<keys, set, op_id, ops, present, num_retries, run>>

\* The elements of s at the given positions.
At(s, positions) == [i \in 1..Len(positions) |-> s[positions[i]]]

\* std::sample keeps the order.  Then the other operations get their kinds.  op_id is
\* not used after that.
SampleBulkLoads ==
  /\ pc = "sample"
  /\ bulk_loads' \in IF set.bulkload_cnt = -1 THEN {bulk_loads}
                     ELSE {At(bulk_loads, Ascending(S)) :
                             S \in kSubset(set.bulkload_cnt, 1..Len(bulk_loads))}
  /\ ops' = [j \in 0..(op_cnt - 1) |->
               IF \E i \in (set.insert_cnt + set.lookup_cnt + 1)..op_cnt : op_id[i] = j
               THEN [ops[j] EXCEPT !.op = RANGE_QUERY] ELSE ops[j]]
  /\ present' = Range(bulk_loads')
  /\ op_id' = <<>>
  /\ idx' = 0
  /\ pc' = "fill"
  /\ UNCHANGED <<keys, set, num_retries, through, index, segment, repetition, run_failed, executed>>

-----------------------------------------------------------------------------
(* generate_equality_lookups, one operation after the other. *)

\* The items in the order of their keys, and how many have keys in a range.
ByKey == SortSeq(Ascending(present), LAMBDA v, w : Key(v) < Key(w))
Within(S, lo, hi) == {v \in S : lo <= Key(v) /\ Key(v) <= hi}

\* The range of the keys.  (For one data set, fb_200M, the code lowers the upper end to
\* leave out its few largest keys.)
MinKey == Key(ByKey[1])
MaxKey == Key(Last(ByKey))

Filled(record) ==
  /\ ops' = [ops EXCEPT ![idx] = record]
  /\ idx' = idx + 1 /\ num_retries' = 0
  /\ UNCHANGED <<keys, set, op_id, bulk_loads, pc,
                 through, index, segment, repetition, run_failed, executed>>

Filling(op) == pc = "fill" /\ idx < op_cnt /\ ops[idx].op = op

AfterInsert_NotSeen(v) == present
\* What later queries find.
AfterInsert(v) == present \cup {v}

FillInsert ==
  /\ Filling(INSERT)
  /\ present' = AfterInsert(ops[idx].result)
  /\ Filled(ops[idx])

\* A key that is not there, from the range of the keys; drawn again until it is one.
FillNegative ==
  /\ Filling(LOOKUP)
  /\ \E k \in MinKey..MaxKey :
       /\ \A v \in present : Key(v) # k
       /\ Filled([ops[idx] EXCEPT !.lo_key = k, !.result = NOT_FOUND])
  /\ UNCHANGED present

\* Positive lookups have the result 0, whatever the value is.
FillPositive ==
  /\ Filling(LOOKUP)
  /\ \E v \in present : Filled([ops[idx] EXCEPT !.lo_key = Key(v), !.result = 0])
  /\ UNCHANGED present

\* The greatest low key of a range query: enough items come after it.
LastStart == ByKey[Len(ByKey) - RangeMax]

\* The high key: of the item some steps after the first with a key that is not less.
HighKey(lo, steps) ==
  LET first == Cardinality({v \in present : Key(v) < lo})
  IN  Key(ByKey[first + steps + 1])

Qualifying(lo, steps) == Cardinality(Within(present, lo, HighKey(lo, steps)))

FillRange ==
  /\ Filling(RANGE_QUERY)
  /\ \E lo \in MinKey..Key(LastStart), steps \in RangeMin..RangeMax :
       /\ Qualifying(lo, steps) \in RangeMin..RangeMax
       /\ Filled([ops[idx] EXCEPT !.lo_key = lo, !.hi_key = HighKey(lo, steps),
                    !.result = SumSet(Within(present, lo, HighKey(lo, steps)))])
  /\ UNCHANGED present

GivesUp(retries) == retries > MaxRetries

\* Too many or too few items: another try, or util::fail.
RetryRange ==
  /\ Filling(RANGE_QUERY)
  /\ \E lo \in MinKey..Key(LastStart), steps \in RangeMin..RangeMax :
       Qualifying(lo, steps) \notin RangeMin..RangeMax
  /\ num_retries' = num_retries + 1
  /\ pc' = IF GivesUp(num_retries') THEN "failed" ELSE "fill"
  /\ UNCHANGED <<keys, set, op_id, bulk_loads, ops, present, run>>

-----------------------------------------------------------------------------
(* benchmark.h: the segments. *)

\* flag_: one segment (mixed, or one kind of operation), otherwise two in each block.
\* The driver takes the insert ratio from the file's name, where the generator put it.
flag_NotForInserts == IF set.mix \/ set.insert_cnt = 0 THEN 1 ELSE 0
flag == IF set.mix \/ set.insert_cnt \in {0, op_cnt} THEN 1 ELSE 0

First(from, wanted) ==
  Min({c \in from..op_cnt : c = op_cnt \/ (ops[c].op = INSERT) = wanted})

\* bound_points.  With blocks, the next operation of the other kind; a boundary stays
\* at the end once it is there.
BlockBounds[j \in 0..(2 * set.block_num)] ==
  IF j = 0 THEN 0 ELSE First(BlockBounds[j - 1], j % 2 = 0)

BoundPoints ==
  IF set.block_num > 1 THEN BlockBounds
  ELSE [j \in 0..2 |-> IF j = 2 THEN op_cnt
                       ELSE IF j = 1 /\ flag = 0 THEN First(0, FALSE) ELSE 0]

Start(i) == BoundPoints[i]
Limit(i) == IF set.block_num > 1 THEN BoundPoints[i + 1] ELSE BoundPoints[i + 1 + flag]
SegmentCount_OneBlock == 2 - flag
SegmentCount == (2 - flag) * set.block_num

\* The length of individual_ns.
TimingSlots ==
  IF set.block_num > 1
  THEN Max({BoundPoints[j] - BoundPoints[j - 1] : j \in 1..(2 * set.block_num)})
  ELSE LET insert_cnt == BoundPoints[1] IN Max({insert_cnt, op_cnt - insert_cnt})

-----------------------------------------------------------------------------
(* Run, DoOps, DoOpsCoreLoop. *)

\* A repetition begins: a new index is built.
BuildIndex ==
  /\ \/ pc = "fill" /\ idx = op_cnt /\ through' \in BOOLEAN /\ repetition' = 1
     \/ pc = "next" /\ repetition < Repeats /\ through' = through /\ repetition' = repetition + 1
  /\ index' = Range(bulk_loads)
  /\ segment' = 0 /\ idx' = Start(0) /\ executed' = <<>>
  /\ pc' = "run"
  /\ UNCHANGED <<generated, run_failed>>

Running(op) == pc = "run" /\ idx < Limit(segment) /\ ops[idx].op = op

\* The loop goes on unless the verification has failed.
Executed(failed) ==
  /\ run_failed' = (run_failed \/ failed)
  /\ pc' = IF run_failed' THEN "failed" ELSE "run"
  /\ idx' = idx + 1 /\ executed' = Append(executed, idx)
  /\ UNCHANGED <<generated, through, segment, repetition>>

DoInsert ==
  /\ Running(INSERT)
  /\ index' = index \cup {ops[idx].result}
  /\ Executed(FALSE)

\* A negative answer is OVERFLOW, a positive one is the position of some item with the
\* key.
WrongLookup(answer, key, expected) ==
  \/ expected = NOT_FOUND /\ answer # NOT_FOUND
  \/ expected = 0 /\ (answer = NOT_FOUND \/ Key(answer) # key)

DoLookup ==
  /\ Running(LOOKUP)
  /\ LET key == ops[idx].lo_key
         there == {v \in index : Key(v) = key}
     IN  \E answer \in IF there = {} THEN {NOT_FOUND} ELSE there :
           Executed(~through /\ WrongLookup(answer, key, ops[idx].result))
  /\ UNCHANGED index

DoRangeQuery ==
  /\ Running(RANGE_QUERY)
  /\ LET actual == SumSet(Within(index, ops[idx].lo_key, ops[idx].hi_key))
     IN  Executed(~through /\ actual # ops[idx].result)
  /\ UNCHANGED index

\* The next segment, or the end of the repetition.  Latencies are not repeated.
EndSegment ==
  /\ pc = "run" /\ idx = Limit(segment)
  /\ segment' = segment + 1
  /\ IF segment' < SegmentCount THEN idx' = Start(segment') /\ pc' = "run"
     ELSE idx' = idx /\ pc' = IF through /\ repetition < Repeats THEN "next" ELSE "done"
  /\ UNCHANGED <<generated, through, index, repetition, run_failed, executed>>

-----------------------------------------------------------------------------
NoOp == [op |-> LOOKUP, lo_key |-> 0, hi_key |-> 0, result |-> 0]

Init ==
  /\ keys \in DataSets /\ set \in Settings
  /\ pc = "layout" /\ op_id = <<>> /\ bulk_loads = <<>>
  /\ ops = [j \in 0..(op_cnt - 1) |-> NoOp]
  /\ present = {} /\ num_retries = 0
  /\ through = FALSE /\ index = {} /\ segment = 0 /\ idx = 0
  /\ repetition = 0 /\ run_failed = FALSE /\ executed = <<>>

Next ==
  \/ Layout \/ GenerateInserts \/ LoadAll \/ SampleBulkLoads
  \/ FillInsert \/ FillNegative \/ FillPositive \/ FillRange \/ RetryRange
  \/ BuildIndex \/ DoInsert \/ DoLookup \/ DoRangeQuery \/ EndSegment

Spec == Init /\ [][Next]_vars

-----------------------------------------------------------------------------
(* Properties. *)

\* What the indexes rely on: the bulk load is sorted by key, and an item is
\* bulk-loaded or inserted, never both and never twice.  Without sampling none is left
\* out.  There are as many inserts as asked for, or, in a smaller hot spot, as it has
\* items: the places of the others stay lookups, and nothing says so.
PartitionExact ==
  pc \notin {"layout", "partition", "sample"} =>
    LET inserts == {j \in 0..(op_cnt - 1) : ops[j].op = INSERT}
        inserted == {ops[j].result : j \in inserts}
    IN  /\ Cardinality(inserts) = Min({set.insert_cnt, set.hi - set.lo})
        /\ \A i \in 1..(Len(bulk_loads) - 1) : Key(bulk_loads[i]) <= Key(bulk_loads[i + 1])
        /\ IsInjective(bulk_loads) /\ Cardinality(inserted) = Cardinality(inserts)
        /\ Range(bulk_loads) \cap inserted = {}
        /\ set.bulkload_cnt = -1 => Range(bulk_loads) \cup inserted = Items

\* The verification never blames an index that answers correctly: the answers were
\* computed from what is in the index when the driver gets to the operation, through
\* any layout, partition and cutting into segments.
NoFalseAlarm == ~run_failed

\* A repetition executes every operation once, in the order of the file: the segments
\* neither overlap nor leave a gap.
EveryOperationOnce ==
  pc \in {"next", "done"} => executed = [j \in 1..op_cnt |-> j - 1]

\* When inserts are reported apart from queries, a segment has only the one or only the
\* other, and no segment is empty (its percentiles are elements of individual_ns) or
\* longer than individual_ns.
SegmentsFit ==
  pc = "run" =>
    /\ Limit(segment) - Start(segment) \in 1..TimingSlots
    /\ flag = 0 => \A j \in Start(segment)..(Limit(segment) - 1) :
                     (ops[j].op = INSERT) = (segment % 2 = 0)
=============================================================================
