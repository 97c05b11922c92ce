----------------------------- MODULE MCWorkload -----------------------------
\* Instances of Workload for TLC.
EXTENDS Workload

\* Five items: all different, and with equal keys.
FiveItems == {<<1, 3, 4, 6, 9>>, <<1, 3, 3, 6, 8>>}

\* Numbers of inserts, lookups, ranges; pattern with its bounds; mix, blocks, sampling.
Setting(i, l, r, pat, lo, hi, mix, blocks, bulk) ==
  [insert_cnt |-> i, lookup_cnt |-> l, range_cnt |-> r, pat |-> pat, lo |-> lo,
   hi |-> hi, mix |-> mix, block_num |-> blocks, bulkload_cnt |-> bulk]

AllSettings ==
  { Setting(0, 1, 1, "equality", 0, 5, FALSE, 1, -1),   \* queries only
    Setting(0, 2, 0, "equality", 0, 5, TRUE, 1, 3),     \* of a sample
    Setting(2, 0, 0, "equality", 0, 5, FALSE, 1, -1),   \* inserts only
    Setting(2, 1, 1, "equality", 0, 5, FALSE, 1, -1),   \* inserts, then queries
    Setting(2, 1, 1, "equality", 0, 5, TRUE, 1, -1),    \* mixed
    Setting(2, 1, 1, "delta", 3, 5, TRUE, 1, -1),
    Setting(2, 2, 0, "hotspot", 1, 4, TRUE, 1, 2),
    Setting(2, 2, 0, "equality", 0, 5, FALSE, 2, -1),   \* blocks
    Setting(3, 3, 0, "delta", 2, 5, FALSE, 2, -1),
    Setting(2, 2, 1, "hotspot", 1, 4, FALSE, 2, 3),
    Setting(3, 1, 0, "hotspot", 1, 3, FALSE, 1, -1) }   \* fewer items than inserts
=============================================================================
