# A verification project for the learned-index benchmark

The repository compares index structures for sorted keys: a B+ tree, PGM, dynamic
PGM, LIPP, and its own contribution, a *hybrid* index that takes inserts in a
dynamic PGM index and moves them to LIPP in the background. This directory holds
TLA+ models of the parts where correctness is not obvious from the code, TLC
configurations that check them on small instances, and TLAPS proofs that carry
the main results to every size.

## 1. Inventory

| Component | State | Operations | Interacts with |
|---|---|---|---|
| Hybrid index, `competitors/hybrid_pgm_lipp.h` | `pgm`, `lipp`, `buffer`, `pgm_size`, `total_size`, two mutexes, a condition variable, `should_stop`, one thread | constructor, `Build`, `Insert`, `EqualityLookup`, `RangeQuery`, `size`, `flush_buffer`, `flush_worker`, destructor | calls dynamic PGM and LIPP; called by the benchmark driver; its two threads share everything |
| Dynamic PGM, `PGM-index/include/pgm_index_dynamic.hpp`, wrapper `dynamic_pgm_index.h` | levels of sorted items (`data`), `used_levels`, one static index for each large level (`pgm`) | constructors, `insert`, `erase`, `pairwise_logarithmic_merge`, `find`, `lower_bound`, iterator | builds static PGM indexes, uses a search class |
| LIPP, `lipp/src/core/lipp.h`, wrapper `lipp.h` | tree of nodes with slots (none, data, child), counters for rebuilds, a pool of two-key nodes | `bulk_load`, `insert`, rebuild (`scan_and_destory_tree`, `build_tree_bulk`), `find`, `lower_bound`, iterator, destructor | used alone and by the hybrid index |
| Static PGM, `pgm_index.hpp`, `piecewise_linear_model.hpp` | segments in levels | build, `find_approximate_position` | used by dynamic PGM |
| Searches, `searches/*.h` | none (statistics) | `lower_bound`, `upper_bound` from a guess: binary, exponential, interpolation, linear, AVX | used by PGM, dynamic PGM, B+ tree |
| B+ tree, `stx_btree.h`, `stx/btree.h` | tree of nodes, leaf chain | bulk load, insert, find, lower bound | search class |
| Benchmark driver, `benchmark.h`, `benchmark.cc` | operations, results, `util::running` | `Run`, `DoOps`, `DoOpsCoreLoop`, verification | makes, builds, uses and deletes one index for each repetition |
| Workload generator, `generate.cc` | key sets | splits a data set into bulk load and inserts, draws lookups and ranges with their expected answers | writes the files the driver reads |
| Variants, `hybrid_pgm_lipp(1).h`, `back_up_hybrid_pgm_lipp`, `backup/*` | see there | | not built |

What is hard, and so what the models are for:

* **concurrency**: the hybrid index's worker shares `buffer`, `pgm_size` and LIPP
  with the benchmark's thread under two different mutexes or none; wake-ups can be
  lost, batches are in flight between two critical sections, the destructor races
  the last flush;
* **long sequences of calls**: the merges of the dynamic PGM index, where several
  versions of a key, tombstones, levels of different fill and two alternating
  arrays meet;
* **trees under rebuilds and splits**: LIPP's counters, bitmaps and recycled nodes; the
  B+ tree's separators and leaf chain with equal keys on both sides of a split;
* **approximation**: the error bound of the PGM index after rounding, repeated keys and
  several levels; searches that start from a wrong guess;
* **boundaries**: full levels and buffers, an unsigned counter that is decreased, empty
  ranges, the largest key, empty groups of operations.

What makes each component correct: the hybrid index loses, duplicates and reorders
nothing, answers lookups and ranges like one sorted map, flushes when it should,
and its calls return. The dynamic PGM index answers like a sorted map, its levels
never outgrow their slots and its indexes are those of their data. LIPP answers like a
map, its sizes are those of its subtrees, every node is in one place, and builds end.
The static PGM index predicts within its error, and every lookup is where it looks. A
search reads inside its range, ends, and answers as a scan would. The B+ tree passes its
own `verify()` and answers like a multimap. The generator's files partition the data and
their expected answers are true at their place; the driver executes each operation once.
`PROJECT.json` lists the hazards one by
one with the line where each bites.

## 2. Modules

| Module | What it is |
|---|---|
| `HybridPGMLipp` | the hybrid index, two threads |
| `WriteBehind` | what its flush path promises: a queue whose head moves to the target |
| `HybridPGMLipp_proofs` | inductive invariant, theorems, refinement proof |
| `MCHybrid` | instances for TLC |
| `DynamicPGM` | the dynamic PGM index |
| `DynamicPGM_proofs` | its inductive invariants and theorems on finds, targets, sizes and range queries |
| `Lipp` | LIPP's tree |
| `Lipp_proofs` | its inductive invariant and theorems on lookups, iteration, sizes and nodes |
| `PGMIndex` | the static PGM index: construction and lookup |
| `PGMIndex_proofs` | inductive invariant and theorem on its construction |
| `Searches` | the five search classes |
| `Searches_proofs` | inductive invariant and theorems |
| `OrderTheorems` | lemmas on least elements, on how many numbers an interval has, on ranks and on recursion along them, for the proofs of the others |
| `BTree` | the B+ tree |
| `BTree_proofs` | inductive invariant and theorem on the shape of the tree |
| `Workload` | the generator and the benchmark driver, one after the other |
| `Workload_proofs` | inductive invariant and theorems |
| `Ascending` | a set of numbers as a sorted sequence, used by several of them |
| `MCDynamicPGM`, `MCLipp`, `MCPGMIndex`, `MCSearches`, `MCBTree`, `MCWorkload` | instances for TLC |

Definitions named `Op_Fault` are faulty variants of `Op` that no action uses; they
are the plausible mistakes that the properties are shown to notice.

### HybridPGMLipp

`pc["main"]` is the benchmark's thread, `pc["worker"]` the one that runs
`flush_worker`. One action is one piece of code whose inside the other thread
cannot observe: a lock, what is done under it, a notification, one half of a LIPP
insert.

| Code | Actions |
|---|---|
| constructor, `Build` | `Init`, `Build` |
| `Insert` | `InsertPgm`, `InsertLock`, `InsertPush`, `InsertNotify`, `InsertUnlock` |
| `flush_buffer` | `FlushLock`, `FlushTake`, then `LippInsertBegin`, `LippInsertEnd` for each item |
| `flush_worker` | `WorkerLock`, `WorkerPred`, `WorkerBlock`, `WorkerSpuriousWakeup`, `WorkerCheck` |
| `EqualityLookup` | `LookupBegin`, `LookupLipp`, `LookupPgm` |
| `RangeQuery`, `size` | `RangeQuery`, `SizeBegin`, `SizeEnd` |
| destructor | `DtorBegin`, `DtorLock`, `DtorStop`, `DtorNotify`, `DtorJoin` |

Abstractions. A key stands for its item. The PGM index and LIPP are sets of keys:
what the first does is the subject of `DynamicPGM`. `Build` is one step, because
the worker does nothing before the first insert. No lock guards LIPP, so its insert
and its reads are two steps each and a read that overlapped an insert has the
outcomes of `FindOutcomes`, taken from the order in which `insert_tree` writes a
slot (mark it, write the key, write the value; or mark it as a child, build the
child, store the pointer; or free and rebuild a whole subtree): it may be right, a
miss, a value not yet written, or a crash. `pgm_size` is a plain word that is read
without its mutex; the read gives its current value. `buffer_ratio` is read by no
code. Inputs: keys are inserted at most once and not if bulk-loaded, as
`generate.cc` makes them from data without equal keys; the destructor runs after the last call, or at once if
the index is not applicable.

### DynamicPGM

`data[i]` is level `i`, a sequence of items; the buffer is level `MinLevel`, and
`Slots[i]` is `1ull << i`. `pc`, `level`, `tmp`, `out` and the others are the locals of
the `insert` that is running.

| Code | Actions |
|---|---|
| constructors | `Init` (`Empty`, `BulkLoad`) |
| `insert(key, value)`, `erase` | `Insert`, `Erase`, each with one of `InsertDropped` (early return), `InsertIntoBuffer`, `BeginMerge` |
| loop for the target level | `NoRoom`, `TargetFound` |
| `pairwise_logarithmic_merge` | `PassDone` for each level, `Store` for the swap with the target and the new index |
| `merge<SkipDeleted>` | `MergeStep` for each iteration |
| `find`, `lower_bound`, iterator, `RangeQuery` | the operators `Find`, `Start`, `Visited`, `RangeQuery` |

The two arrays of the merge are `tmp["a"]` and `tmp["b"]`; which of them a pass reads
and writes depends on the parity of its level (`Reads`, `Writes`). Nothing can be asked
while an insert runs (the class has no threads). `pgm[i]` is the data the index of level
`i` was built on; an index answers exactly for that data (`PGMIndex`
shows so), and a level whose index is of other data is not searched.
`clobbered` and `contents` are history: the first merge into a target with items in
it, where the model ends (the real one may then write past `tmp_a`), and what a map
would hold. The constructor's `reserve` calls change no contents and are left out.

### Lipp

`heap` is the allocated nodes by address, `pending_two` the pool. A node has the fields of
`Node`; its bitmaps are sets of bit numbers, whole bytes of them, so that bits without a
slot exist as they do in the code. An item keeps key, value and child pointer the way the
union in `Item` overlays them: a new child leaves the old value behind. One turn of a loop
over a stack of nodes is one step, so `pc` says which loop runs.

| Code | Actions |
|---|---|
| constructor, destructor | `Init`; `Close`, `DestroyStep`, `DestroyPending` |
| `bulk_load` | `BulkLoad`, `DestroyStep`, then `LoadFew`, `LoadTwo` or `LoadMany` |
| `insert_tree` | `Insert`, then `InsertIntoFreeSlot` or `InsertIntoData` (with `BuildTwo`) |
| rebuild | `RebuildIfNeeded`, `ScanStep`, `ScanDone`, `BuildPair`, `BuildSegment`, `BuildDone` |
| `find`, `lower_bound`, iterator | the operators `Find`, `LowerBound`, `Visited` |

The slope of a node is a fraction; `Fmcd` is the search for the smallest conflict degree
and `FallbackModel` what is done when it finds none. The thresholds 64, 4 and 10^6 are
constants, small in the instance, so that rebuilds happen and some nodes are exempt.
`RT_ASSERT`s are recorded in `failed`, those of the builders (`BuildTwoAsserts`,
`SegmentAsserts`) included. Segments of 10^5 and 10^6 items, which get fewer gaps
(`GapCount`), are in the theorems and past any run. The races with the hybrid index's reader are in
`HybridPGMLipp`.

### PGMIndex

`SkipPoint`, `AddPoint` and `EndSegment` are the iterations of `make_segmentation`,
`EndLevel` what the constructor does after each; `opt` is the state of
`OptimalPiecewiseLinearModel` (rectangle and hulls; `FirstPoint`, `SecondPoint`,
`InnerPoint` are the three parts of `add_point`). `SegmentForKey`,
`FindApproximatePosition`, `EqualityLookup` and `RangeStart` are the queries. Slopes and
intercepts are exact fractions up to the places where the code makes integers of them
(`Round`, `Truncated`); the rounding of `long double`, `double` and `float` is left out, and
so is the `overflow_error` for an intercept outside its type (`pgm_index.hpp:237`).

### Searches

A search has a range, a key, a guess and a side; `l` and `r` are the iterators of its loop,
one turn of which is one step. `reads` is what a step reads. Statistics are left out. The
vector search is modelled by what a block comparison counts.

### BTree

`nodes` is the nodes by address. `BulkLeaves` and `BulkLevel` are `bulk_load`; an insert is
`InsertFirst`, `InsertIntoLeaf` or `SplitLeaf`, and then, as `insert_descend` returns from
level to level, `InsertIntoInner`, `SplitInner` (with its special case of a split exactly
between the two parts) and `NewRoot`. `find`, `lower_bound`, `upper_bound` and `++` are
operators. Erasure, which no caller uses, is left out, so nodes are never freed; so is the
assignment of the new key to a `splitkey` that no one reads, where a leaf did not split
(`btree.h:2312`).

### Workload

The generator: `Layout` (which places of the file are inserts, lookups, range queries),
`GenerateInserts` or `LoadAll`, `SampleBulkLoads`, then one `Fill...` or `RetryRange` for
each operation with its expected answer, every random draw being a choice. The driver:
`BuildIndex`, then `DoInsert`, `DoLookup`, `DoRangeQuery` for each operation of a segment
and `EndSegment`, for each repetition. The index is one that answers correctly: if
`run_failed` is ever set, the harness blames a correct index. Left out:
the range of negative lookups stops earlier for one data set (`generate.cc:79`), and the driver
reads the insert ratio from the name of the file (`benchmark.h:240`), where `flag` takes the
number of inserts.

## 3. Runs

| Run | Instance | Shows |
|---|---|---|
| `hybrid` | 5 keys, 1 bulk-loaded, `min_flush_size` = `max_flush_size` = 2, asynchronous, `FairSpec` | `TypeOK`, `Accounted`, `SizesAgree`, `UnlockedReadSafe`, `DrainedAtJoin`, `InsertedNeverMissed`; `FlushesInOrder`, the refinement of `WriteBehind`; `DestructorReturns`, `InsertReturns`, `AwakeWorkerFlushes` |
| `pgm_unique` | 9 keys, each inserted once as from data without equal keys, empty or after a bulk load of 3 or 5, levels 0 to 3, indexes from level 2 | `TypeOK`, `FindCorrect`, `RangeCorrect`, `TargetsEmpty`, `LevelsFit` |
| `pgm_versions` | 2 keys inserted, erased and inserted again without limit, levels 0 to 3 | `FindCorrectUnlessClobbered` |
| `lipp_tree` | 7 keys in two clusters and one between, bulk loads of 0 to 7 of them, then the others in any order; rebuild from 4 items with growth 2, nodes above 6 exempt | `TypeOK`, `AssertsHold`, `SizesAgree`, `FindCorrect`, `IterationCorrectOnceBuilt`, `NodesAccounted`, `SegmentsShrink` |
| `pgm_index` | every sorted sequence over 7 keys, the largest value among them, with up to 3 copies; 19 keys that need three levels, less up to two; both errors 1 | `PointsIncrease`, `SegmentsPrecise`, `RightSegment`, `RangeStartCorrect`, `LookupCorrect` |
| `searches` | every sorted range of up to 8 elements of 3 values, every guess, keys between and outside, blocks of 3, `FairSpec` | `ReadsInside`, `Bracketed`, `ResultCorrect`, `Terminates` |
| `btree` | 3 keys, nodes of 4 slots, every bulk load of 0, 1, 5, 20, 22 items and a full tree of 100, then 4 inserts | `TypeOK`, `Verified`, `ItemsKept`, `QueriesCorrect` |
| `workload` | 2 data sets of 5 items, one with equal keys, 11 settings, 2 repetitions | `PartitionExact`, `NoFalseAlarm`, `EveryOperationOnce`, `SegmentsFit` |

Bounds. Four inserts make two full batches, or one and a rest that only the
destructor flushes; every stage of a flush meets every stage of each call, and a buffer
that has filled up to four needs two rounds for one trigger.
Four levels are one buffer, two that fill and one new level, so that a merge
cascades over two full levels and one starts a level; nine keys overfill them.
Two keys with repeated updates and erasures reach every combination of versions in
the four levels. The levels of the source start at 6 with an index from 18; only
their order matters to the code. LIPP's clusters make collisions inside collisions (three
levels), rebuilds of the root and of inner nodes, and pooled nodes that are used again, in
one history. Three levels of the PGM index have a level with both neighbours. Eight
elements and blocks of three give the searches two whole blocks and a rest, in both
directions, and a doubling of three steps. The full B+ tree splits on all three levels; 20
and 22 items make a last inner node of few children. Five items are enough for two blocks,
a sample, and a hot spot inside the data. `CHECK_DEADLOCK FALSE` is said where the
workload or the call ends.

Fairness. `FairSpec` asks that a thread that can run is run: main once it has begun
a call, the worker always. Nobody has to make another call. Spurious wake-ups end at
some point: a thread that is woken over and over could hold `flush_mutex` whenever
the destructor asks for it, which only a fair mutex would exclude, and `std::mutex`
does not promise to be one.

A search is a loop of the thread that called it; `Searches` asks that it goes on.

Four runs show behaviour that contradicts the code's own comments or the benchmark's
verification:

| Run | Property | What happens |
|---|---|---|
| `hybrid_lost_wakeup` | `FlushTriggered` | `Insert` notifies without `flush_mutex`; the worker has found the predicate false and is not yet waiting; the notification is lost, and without another insert the full buffer is not flushed. `AwakeWorkerFlushes` is what remains true |
| `hybrid_lookup_race` | `LookupCorrect` | a lookup overlaps an insert into LIPP. `InsertedNeverMissed` is what remains true |
| `hybrid_range` | `RangeQueryComplete` | a range query asks only the PGM index and misses the bulk-loaded keys |
| `pgm_lost_update` | `FindCorrect` | updates shrink a merge; a later merge finds its target with items in it, makes one pass more and keeps the wrong array: keys vanish. `FindCorrectUnlessClobbered` is what remains true |

Others have no run of their own, and the benchmark's workloads do not reach them. Each is
seen by giving the named run other constants, or is the exception its property states:

* with `async_flush` off (`Async = FALSE` in `hybrid`) `flush_buffer` locks the
  `buffer_mutex` its caller holds, and `InsertReturns` fails;
* a tombstone of the dynamic PGM index has value 0 and is taken for a repetition of a
  buffered item with value 0 (`Values = {0, 1}` in `pgm_versions`);
* after an update a range query of the dynamic PGM index counts both versions (`RangeCorrect`
  in `pgm_versions`);
* LIPP's root, as long as it is the one-slot node of `build_tree_none` (`lipp.h:374`), has
  seven bits in `none_bitmap` that are 0 and belong to no slot: iteration visits memory
  past its items. Line 318 says "1 means None, 0 means Data or Child".
  `IterationCorrectOnceBuilt` excepts such a root; `IterationCorrect` does not and fails;
* the largest value of the key type is left out of the PGM index's segments
  (`pgm_index.hpp:133`) and may be missed when the key before it is repeated, as in 0, 7, 7,
  7, 8 with `MaxKey = 8` and error 1: `NotIndexed` in `LookupCorrect`. For absent keys the
  window may end one position early, which is harmless: a lookup then compares another key,
  and a range query goes up;
* a hot spot with fewer items than the inserts asked for gives a workload with fewer
  inserts than its file name says (`generate.cc:246`): `PartitionExact` says how many;
* a hot-spot ratio above 0.7, which `generate.cc:515` accepts, puts the end of the hot spot
  past the data (line 224); `SettingOK` excludes it, and an empty bulk load for lookups, where
  `data_vec.size() - 1` wraps around (line 113);
* the loop that draws a negative lookup (`generate.cc:91`) does not end on data without
  gaps; the instances have gaps;
* the default constructor of `DynamicPGMIndex` reserves level 15 while only levels 6 to 14
  exist.

## 4. Proofs

`HybridPGMLipp_proofs` proves, for any set of keys (numbers), any finite bulk load,
any positive flush sizes and both flush modes:

| Theorem | Statement |
|---|---|
| `Invariance` | `Spec => []IInv` |
| `TypeCorrect` | `Spec => []TypeOK` |
| `EveryItemAccounted` | `Spec => []Accounted` |
| `SizesAlwaysAgree` | `Spec => []SizesAgree` |
| `UnlockedReadIsSafe` | `Spec => []UnlockedReadSafe` |
| `DestructorDrains` | `Spec => []DrainedAtJoin` |
| `NeverMissesAnInsert` | `Spec => []InsertedNeverMissed` |
| `ImplementsWriteBehind` | `Spec => FlushesInOrder`, that is, `WriteBehind`'s specification under the mapping `pending <- items_to_flush["worker"] \o buffer`, `target <- lipp` |

Assumptions: `KeysAssumption`, `FlushAssumption`, `AsyncAssumption`, all three in the
module that declares the constants.

The argument. None of the safety properties is inductive. That taking a batch or
ending a LIPP insert keeps `Accounted` needs to know that no one else changes the
buffer or the batch, and that the batch is not empty; so `IInv` adds to `TypeOK` and
`Accounted` a control part, `ControlInv`, which is three facts: `LockInv` (a mutex is
held exactly by the thread whose statement is in its scope), `PhaseInv` (what
`should_stop`, the mode and the end of the worker say about the place of main), and
`BatchInv` (a thread has a batch exactly while it is writing one, and main never,
because in synchronous mode it stops at the mutex it holds). `ControlInv` is
inductive by itself with the types (`ControlNext`, one step for each action), and with
it each action that touches the queue is a `WriteBehind` step or leaves the queue
alone (`QueueStep`), from which both `Accounted` and the refinement follow. The
counters come last, by `CountInv`, because their proof needs cardinalities and
`Accounted`; lookups need only that the PGM index holds exactly the inserted keys
(in `BatchInv`) and which steps give an answer (`ReplyStep`). Facts about sequences (what `SubSeq` leaves of a queue, what `Append` and
`Tail` do to its elements) are lemmas.

`Searches_proofs` proves, for ranges of every length and content, every key, guess and
block size (`SearchesAssumption`):

| Theorem | Statement |
|---|---|
| `SearchesReadInside` | `Spec => []ReadsInside` |
| `SearchesBracketed` | `Spec => []Bracketed` |
| `SearchesCorrect` | `Spec => []ResultCorrect` |

The argument. `Ahead` is the set of positions before the answer; since the range is
sorted, it is an initial segment (`AheadInitial`), and one comparison puts a position
below or above the answer (`Compare`). `IInv` says for every loop which end of what it
still searches is known: both ends while halving (`HalveInv`) and interpolating, one end
while doubling (`GallopInv`, with the exact distance from the guess) and scanning. A
search that is done has both ends at its result, which with `InitialSegment` is the
number of positions before the answer. Where the interpolation looks is only used to be
between the ends, which the code's clamping gives.

`DynamicPGM_proofs` proves, for any keys and values (numbers), any `min_level`, any
number of levels and any bulk loads (`LevelAssumption`, `SlotsAssumption`,
`DataAssumption`):

| Theorem | Workload | Statement |
|---|---|---|
| `PGMInvariant` | any | `Spec => []IInv` |
| `PGMTypeOK` | any | `Spec => []TypeOK` |
| `PGMFindCorrectUnlessClobbered` | any, `ZeroFree` | `Spec => []FindCorrectUnlessClobbered` |
| `PGMUniqueInvariant` | each key once | `Spec => [](IInv /\ UInv)` |
| `PGMTargetsEmpty` | each key once | `Spec => []TargetsEmpty` |
| `PGMFindCorrect` | each key once | `Spec => []FindCorrect` |
| `PGMLevelsFit` | each key once | `Spec => []LevelsFit` |
| `PGMRangeCorrect` | each key once | `Spec => []RangeCorrect` |

"Each key once" is `~Updates /\ ~Erasures`, what `generate.cc` produces from data without equal
keys. `ZeroFree` says
that 0 is not a value or no key is erased: without it the theorem is false, because
`insert(k, 0)` is dropped when the buffer has a tombstone of `k` (`Dropped`).

The argument. That `find` is right after a merge says nothing about the middle of it, so
`VersionInv` says at each step where the newest version of a key is. A pass has written
`out` and has come to position `first1` of the newer items and to `first2` of the level;
`PassShows` reads these three from the left, then the levels above (`LevelsShow`), and
the first item of the key that it meets is the one a map would hold. With everything
sorted, and `out` not above what is still to be merged (`OrderInv`), each iteration of
the merge only moves an item from one of the parts to another or drops one that an
earlier part hides; a tombstone goes for good only where no older level is left.
`CallInv` and `LevelInv` say where the call is and which levels have items. All of
it holds up to the first merge whose target has items, after which only types remain.

That such a merge does not happen when each key is inserted once needs sizes: `UInv`
says that no two sequences that will be merged share a key (`DisjointInv`), so no merge
is shorter than its parts, and that every level but the last is empty or full
(`SizeInv`). While the loop looks for the target, the room needed is then exactly
`Slots[level]`, twice what the levels passed so far could hold: a level with an item in it
has no room, and the level that is chosen is empty.

For range queries `DistinctInv` adds that no key is twice in a sequence and that no key a
pass has written is met again. Then each inserted key is at exactly one position
(`StoredOnce`), and the key of a position is a one-to-one map from the positions that
`Visited` orders to the inserted keys between the bounds, which keeps the order. Such a
map keeps ranks (`SameRank`), and each rank belongs to exactly one key (`RankOnto`), so
the n-th position has the n-th key. After an update the statement is false: see the list
in section 3.

`Lipp_proofs` proves, for any finite set of keys (numbers), any sizes of bulk loads and any
thresholds (`LippAssumption`):

| Theorem | Statement |
|---|---|
| `LippInvariant` | `Spec => []IInv` |
| `LippTypeOK` | `Spec => []TypeOK` |
| `LippFindCorrect` | `Spec => []FindCorrect` |
| `LippIterationCorrect` | `Spec => []IterationCorrectOnceBuilt` |
| `LippSizesAgree` | `Spec => []SizesAgree` |
| `LippNodesAccounted` | `Spec => []NodesAccounted` |
| `LippOnlyDepthFails` | `Spec => [][OnlyDepthFails]_vars`: a step that fails an `RT_ASSERT` fails that of `MAX_DEPTH` |

The argument. Between two turns of a loop the nodes are not one tree: a rebuild has cut a
subtree off, `destroy_tree` has a stack of pieces, `build_tree_bulk` has linked nodes that
are not filled yet. So `IInv` says that the heap is a `Forest` for some description `f` of
it: which nodes are in use, which of them are roots, which are still raw, which slot points
to each of the others, which keys `own` to each, and a `rank` that gets smaller from a
node to its children. `Forest` speaks of one node at a time (`NodeOK`): its slots split its
own keys by its model, a slot without keys is empty, one with an item has one key, one with
a child has the keys of the child, and the size is the number of the keys. `Stage` says what the loop
that is running does with the forest: what is on its stack are the roots (destroying and
scanning) or the raw nodes (building), each once; the scan gives the n-th key below a node
the n-th place from where its part of the array begins (`Scanned`), and the items of a
segment that is to be built are those of its node, in order. One slot, `gap`, may point to
a node that is gone: the one that waits for the rebuilt subtree.

Each step is then a change of a few nodes. A key is added to the nodes of its path and to
no others (`KeyAdded`, `PathGrows`); a root is taken away and its children become roots
(`RootRemoved`); a new one is put in (`RootAdded`), filled (`NodeBuilt`) and linked
(`GapFilled`). Order comes in by one fact, that `Predict` is monotone (`PredictMonotone`):
so the keys of a slot come after those of earlier slots, the sizes of the subtrees to the left
of a slot say how many keys are before its own (`SlotRank`, `SumOfParts`, `RoomBefore`), and
the items of a sorted segment that go to one slot are one run of it (`RunLists`). All the proof
needs of the models is that their slopes are not negative (`SegmentModelIs`); a segment may
even send all its items to one slot: builds are right whatever their depth, and that they end is
for `SegmentsShrink`.

The theorems on whole trees follow from `Forest` in the state between calls, by going up the
ranks: `LowerBound` and `TreeNodes` are recursive functions on addresses, which have
values because a child has a smaller rank (`RankRecursion`), and what they give at a node is
the list of its own keys (`VisitLists`, `BoundLists`) and the list of the nodes below it
(`TreeNodesAre`), each once. That the latter are all nodes in use (`TreeIsAll`) is that the
only root is `root`.

`PGMIndex_proofs` proves, for any sorted data with any repetitions (`PGMAssumption`) and
any errors:

| Theorem | Statement |
|---|---|
| `PGMIndexInvariant` | `Spec => []IInv` |
| `PGMIndexPointsIncrease` | `Spec => []PointsIncrease` |

The argument. The points of the first level are sorted because `in_fun` moves a key by
one and not past the next key (`InFunBetween`). Those of an upper level are the keys of
the segments below, so each finished level has to be sorted, the extra segment of
`back_check` included (`LevelsInv`): its key, one more than the last key of the data, is not
less than any point of any level (`EndKey`). That needs the level under construction to
be sorted and to end before the current segment (`LevelInv`), and the current segment to
have the previous point as its last one (`OptInv`). None of it depends on what `add_point`
does to rectangle and hulls, which the lemmas on its fields leave open.

`Workload_proofs` proves, for any sorted data sets, with or without equal keys, any
settings that generator and driver accept (`SettingOK`), any number of blocks, retries and
repetitions (`WorkloadAssumption`):

| Theorem | Statement |
|---|---|
| `WorkloadInvariant` | `Spec => []IInv` |
| `WorkloadPartitionExact` | `Spec => []PartitionExact` |
| `WorkloadNoFalseAlarm` | `Spec => []NoFalseAlarm` |
| `WorkloadEveryOperationOnce` | `Spec => []EveryOperationOnce` |

The argument follows an item and an operation from the layout to the last repetition.
Each of the three layouts gives every operation a place of its own (`Places`); for the
blockwise one this is arithmetic on how many operations of each kind a block has
(`BlockwisePlaces`). The inserts get the places of the first operations, as many as the
hot spot has items (`InsertPlaces`), so in every block they come first (`InsertsFirst`),
also when they are too few. `Partition` says that the bulk load is a `Listing`, each item
once and sorted by key, which appending, sorting and sampling keep, and that the inserts
have the other items. `Answers` says that a filled operation has the answer of `Before(j)`,
the bulk load and the items of the inserts before it, and `Progress` that the index
holds `Before(idx)` when the driver comes to `idx` and that it has executed all operations
before `idx`. The rest is that the driver's segments meet: it looks for its boundaries
in the operations, not in the layout, and because the inserts come first in every block
the boundary after block i is not before the end of block i (`BoundsReachEnd`), also
when blocks without inserts make it run ahead.

`BTree_proofs` proves, for any keys, any number of slots of a leaf from 2 and of an inner
node from 3, and any sorted bulk loads (`BTreeAssumption`):

| Theorem | Statement |
|---|---|
| `BTreeInvariant` | `Spec => []IInv` |
| `BTreeTypeOK` | `Spec => []TypeOK` |

`TypeOK` says between calls that no node but the root has fewer than half of its slots in
use. An insert takes several steps, and in between a node has no parent and the root may
have been split, so `IInv` adds what the levels above will find: `Shape`, that children are
one level down; `Unwind`, that the stack goes from the root level by level to the parent of
`newchild`, with slots its nodes have; and `HalfFull`, that every node is half full except
the root, which stops being an exception when the stack is empty, since it is then the one
that was split. The levels tell the nodes of the stack apart, so that a split of one leaves
the slots of the others valid. Four arguments carry it: the descent from the root is a path
of one node on each level (`DescentPath`); `InnerMid` leaves both parts half full once one
of them has the new child, for odd and even `innerslotmax` and wherever the child goes
(`InnerMidFair`, `AfterSplitParts`); what `bulk_load` shares among as few nodes as will do
gives each at least half and at most all of its slots (`NodesNeeded`, `ShareParts`); and
what is appended to `nodes` or replaced keeps its level, so that the parents stay parents
(`ShapeKept`).

The prover cannot use the induction theorems of the library. The facts that need
induction over numbers (the recursive `BlockBounds` has a solution and reaches the end,
adjacent order is order, the rounds of `Share` and the levels of `Descent`) are proved from
a least counterexample instead
(`LeastElement` in `OrderTheorems`). For trees, `RankInduction` and `RankRecursion` are proved from it:
a set that has every node whose children it has is everything, and a function defined by
recursion from parent to child has a solution. `OrderTheorems` also has the facts on ranks and least
elements that the proofs of the other modules share.

Only model-checked:

* the liveness properties (fairness is out of the prover's reach);
* of `Lipp`, `AssertsHold`, since `MAX_DEPTH` is not kept to for every value of the constants
  (`LippOnlyDepthFails` is what is), and `SegmentsShrink`, which depends on how small `1 / EpsInverse`
  is against the differences of keys;
* of `BTree`, `Verified`, `ItemsKept` and `QueriesCorrect`, which are about separators, the leaf
  chain and walks of a tree defined by recursion on its depth;
* `SegmentsFit` of `Workload`, which is not true of every setting: a hot spot with too few
  items for the inserts of all blocks leaves blocks without inserts, whose segments are
  empty. It holds of the settings of the run;
* the errors and lookups of `PGMIndex`, where the errors of segments are facts of plane geometry with products of
  differences of coordinates, and its descent recurs over the levels.

## 5. Not modelled, and the plan

`PROJECT.json` lists every component. Left out for good:

* vendored libraries (alglib, sdsl-lite, catch, dtl) and the competitors that no target of
  the build includes (FINEdex, XIndex), which are nearly all of the repository's lines;
* the PGM tuner and the compressed PGM index, which the benchmark does not use;
* `hybrid_pgm_lipp(1).h` and `dynamic_pgm_index(1).h`, which no target includes and which
  do not compile when used: the flush iterates over a `DynamicPGMIndex`, whose `begin()` is
  ill-formed; the earlier hybrid versions under `backup/`, not built either;
* erasure, copying, dump and restore of the B+ tree, which no caller uses;
* runs of the driver with several threads: every index here answers `applicable` with
  `!multithread`; string keys; statistics, clocks, file input and output, scripts;
* rounding of floating-point numbers in models and slopes. The models' fractions show that
  the algorithms are right up to it; that a `double` is precise enough for 64-bit keys is
  not shown.

Theorems to add next: `Verified` and `ItemsKept` of `BTree`, by the same kind of invariant as
`Lipp`'s, with the interval of keys of each node between calls and along the stack.
