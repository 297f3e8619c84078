---------------------------- MODULE TableFactory ----------------------------
(***************************************************************************)
(* BlockBasedTableFactory (table/block_based_table_factory.cc): the       *)
(* constructor fills in and clamps the BlockBasedTableOptions it is given, *)
(* and SanitizeOptions, called when a DB or column family is opened with  *)
(* the factory, refuses combinations the table builder and reader cannot  *)
(* work with.  Only the options these two functions read or write are     *)
(* modelled; a pointer option is "none" or a model of what it points to.  *)
(* BlockBasedTableSupportedVersion (table/format.h) is not under src/: it  *)
(* is modelled as the versions up to MaxFormatVersion.                    *)
(***************************************************************************)
EXTENDS Integers

CONSTANTS
  TableOptionsChoices,  \* the BlockBasedTableOptions a user may pass
  MaxFormatVersion      \* the newest format_version this release reads

\* table/format.h: BlockBasedTableSupportedVersion.
BlockBasedTableSupportedVersion(v) == v \in 0..MaxFormatVersion

\* Mutant: no LRU cache put in when the user gave none.
NewBlockBasedTableFactoryNoDefaultCache(o) ==
  [o EXCEPT !.flush_block_policy_factory =
              IF @ = "none" THEN "FlushBlockBySizePolicyFactory" ELSE @,
            !.block_cache = IF o.no_block_cache THEN "none" ELSE @,
            !.block_size_deviation =
              IF @ < 0 \/ @ > 100 THEN 0 ELSE @,
            !.block_restart_interval = IF @ < 1 THEN 1 ELSE @,
            !.index_block_restart_interval = IF @ < 1 THEN 1 ELSE @]

(***************************************************************************)
(* NewBlockBasedTableFactory and the constructor: the default flush-block  *)
(* policy, the block cache dropped with no_block_cache or an 8 MB LRU     *)
(* cache when none is given, block_size_deviation outside 0..100 reset to *)
(* 0, and both restart intervals raised to at least 1.                    *)
(***************************************************************************)
NewBlockBasedTableFactory(o) ==
  [o EXCEPT !.flush_block_policy_factory =
              IF @ = "none" THEN "FlushBlockBySizePolicyFactory" ELSE @,
            !.block_cache = IF o.no_block_cache THEN "none"
                            ELSE IF @ = "none" THEN "LRUCache(8 << 20)" ELSE @,
            !.block_size_deviation =
              IF @ < 0 \/ @ > 100 THEN 0 ELSE @,
            !.block_restart_interval = IF @ < 1 THEN 1 ELSE @,
            !.index_block_restart_interval = IF @ < 1 THEN 1 ELSE @]

\* SanitizeOptions: the first refused combination, in the code's order.
SanitizeOptions(t, prefixExtractor) ==
  CASE t.index_type = "kHashSearch" /\ ~prefixExtractor -> "InvalidArgument"
    [] t.cache_index_and_filter_blocks /\ t.no_block_cache -> "InvalidArgument"
    [] t.pin_l0_filter_and_index_blocks_in_cache /\ t.no_block_cache
         -> "InvalidArgument"
    [] ~BlockBasedTableSupportedVersion(t.format_version) -> "InvalidArgument"
    [] OTHER -> "OK"

\* What BlockBasedTableBuilder and BlockBasedTable::Open rely on: a flush
\* policy, a block cache wherever index and filter blocks are to be cached
\* or pinned in it, a hash index only with a prefix extractor, positive
\* restart intervals, a deviation percentage, a readable format.
UsableOptions(t, prefixExtractor) ==
  /\ t.flush_block_policy_factory # "none"
  /\ (t.cache_index_and_filter_blocks \/ t.pin_l0_filter_and_index_blocks_in_cache)
       => t.block_cache # "none"
  /\ t.index_type = "kHashSearch" => prefixExtractor
  /\ t.block_restart_interval >= 1 /\ t.index_block_restart_interval >= 1
  /\ t.block_size_deviation \in 0..100
  /\ BlockBasedTableSupportedVersion(t.format_version)
=============================================================================
