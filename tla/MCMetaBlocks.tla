---------------------------- MODULE MCMetaBlocks ----------------------------
(* MetaBlocks with two predefined properties of each kind, two collectors  *)
(* and one other meta block.                                               *)
EXTENDS MetaBlocks

\* Every name, in bytewise order.
MCNameOrder ==
  <<"my.count", "rocksdb.comparator", "rocksdb.compression_dict",
    "rocksdb.data.size", "rocksdb.filter.policy", "rocksdb.num.entries",
    "rocksdb.properties", "rocksdb.range_del", "rocksdb.stats">>

\* data size and entry count 0 or 200 (a two-byte varint); a comparator
\* name "a" or none; no filter policy.
MCTablePropsChoices ==
  [uint : [{"rocksdb.data.size", "rocksdb.num.entries"} -> {0, 200}],
   str : {("rocksdb.comparator" :> c) @@ ("rocksdb.filter.policy" :> <<>>)
            : c \in {<<>>, <<97>>}}]

\* A count; another count and a filter policy name "b"; a truncated
\* varint under a predefined uint64 name.
MCCollectorChoices ==
  { "my.count" :> <<2>>,
    ("my.count" :> <<3>>) @@ ("rocksdb.filter.policy" :> <<98>>),
    "rocksdb.num.entries" :> <<200>> }
\* BlockBasedTableOptions: one record per branch of the constructor and of
\* SanitizeOptions.  Base leaves every option to the constructor, with
\* index and filter blocks in the block cache.
BaseOptions ==
  [flush_block_policy_factory |-> "none", no_block_cache |-> FALSE,
   block_cache |-> "none", cache_index_and_filter_blocks |-> TRUE,
   pin_l0_filter_and_index_blocks_in_cache |-> FALSE,
   block_size_deviation |-> -1, block_restart_interval |-> 0,
   index_block_restart_interval |-> 0, index_type |-> "kBinarySearch",
   format_version |-> 2]
MCTableOptionsChoices ==
  { BaseOptions,
    \* the user's policy and cache, but no block cache; values in range
    [BaseOptions EXCEPT !.flush_block_policy_factory = "user",
       !.no_block_cache = TRUE, !.block_cache = "user",
       !.cache_index_and_filter_blocks = FALSE, !.block_size_deviation = 101,
       !.block_restart_interval = 16, !.index_block_restart_interval = 1],
    [BaseOptions EXCEPT !.no_block_cache = TRUE],
    [BaseOptions EXCEPT !.no_block_cache = TRUE,
       !.cache_index_and_filter_blocks = FALSE,
       !.pin_l0_filter_and_index_blocks_in_cache = TRUE],
    [BaseOptions EXCEPT !.index_type = "kHashSearch"],
    [BaseOptions EXCEPT !.format_version = 3] }
====
