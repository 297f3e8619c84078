# TLA+ models of the RocksDB write-batch core

This directory holds TLA+ models of `src/rocksdb/db/write_batch.cc`, together
with the TLC configurations that check them. The file serialises a group of
mutations into one byte string (`rep_`). It lets the owner grow, roll back,
copy and append that byte string, and it replays the string into memtables.

## The system and its parts

`write_batch.cc` contains these parts, listed from the leaves up:

| Part | Code | What it does |
|---|---|---|
| Codec | `ReadRecordFromWriteBatch` (313-396), `ReadKeyFromWriteBatchEntry` (275-291), tag cases of `Iterate` | Decodes one tagged record: a tag byte, a varint column-family id for CF tags, then length-prefixed fields |
| Storage and appends | `WriteBatchInternal::Put/Delete/SingleDelete/DeleteRange/Merge` (528-852), `PutLogData`, `InsertNoop`, `MarkEndPrepare/MarkCommit/MarkRollback`, `Clear` | Each counted append bumps the header count, writes the record and ORs in a content flag. `LocalSavePoint` captures size, count and flags on entry, and `commit()` restores all three when the batch passes `max_bytes_` |
| Save points | `SetSavePoint`, `RollbackToSavePoint`, `PopSavePoint` (862-911) | A stack of (size, count, flags) behind the raw pointer `save_points_`. Rollback truncates `rep_` and restores count and flags |
| Classifier and lazy flags | `BatchContentClassifier` (72-128), `ComputeContentFlags` (226-241) | `content_flags_` is either `DEFERRED` (contents unknown) or the set of record kinds present. A `Has*` query replaces `DEFERRED` by the classified set |
| Batch-level operations | copy and move constructors and assignment (152-188), `Append` (1517-1544), `SetContents`, `MarkWalTerminationPoint`, `AppendedByteSize` | `Append` copies the source payload, or only its WAL-terminated prefix, onto the destination |
| MemTableInserter | 913-1434, `InsertInto` (1441-1506) | Replays a batch into memtables. It threads sequence numbers, applies column-family cutoffs, and rebuilds prepared transactions during recovery |

These parts interact in three ways:

* Every append goes through the codec's encoding.
* `Iterate` drives both the classifier and the inserter.
* `Append` and the save points work on byte offsets that the codec must still decode, with the right count.

One other file under `src/` takes part in the write path:
`monitoring/instrumented_mutex.cc` wraps the DB mutex, timing each
`Lock` for the `DB_MUTEX_WAIT_MICROS` ticker
of `include/rocksdb/statistics.h` when the stats level is `kAll`. Recovery
holds that mutex while it replays the WAL through the inserter, and a merge
fold calls `db_->Get`, which takes it too. `table/meta_blocks.cc` is the other side of a flush: the table builder
writes the table's properties (and what the property collectors add) into a
properties block and indexes it in a meta-index block, and readers find and
parse those blocks again. `table/block_based_table_factory.cc` makes that
builder: its constructor fills in and clamps the table options, and
`SanitizeOptions` refuses, when a column family opens, the combinations the
builder and reader cannot use. The remaining files (JNI glue, other
headers) are outside the write-batch core and listed as not
modelled in `PROJECT.json`.

## Modules

* **`WriteBatchCodec`** holds pure operators with no variables. Records are
  `[type, cf, a, b]`. `EncodeRecord` is what an append writes.
  `ReadRecordFromWriteBatch` and `Iterate` decode a payload and check its
  count, and they fail exactly where the C++ returns Corruption.
  `Classify` is the classifier. The varint and length-prefixed helpers of
  `util/coding` are not under `src/`, so they are written from the spec.
  Their decoders use `Strict`, an operator that evaluates a value once.
  TLC would otherwise re-evaluate a LET at every use when it checks a step
  of the refinement, and those re-evaluations grow exponentially.
* **`WriteBatch`** models the class for a fixed set of batch objects.
  * **Variables.** `rep` holds the payload bytes after the 12-byte header,
    and `count` is the header count. `flags` is `content_flags_` as a set.
    `sp` is the `save_points_` pointer, and `heap` and `allocated` are the
    SavePoints objects it may point to. `walterm` and `maxBytes` are the
    fields of the same name, and `movedFrom` marks a moved-from object.
  * **Actions.** Every public or internal operation that changes a batch is
    one action. Each action has the guards of the code's early returns and
    assertions. The trailing `LocalSavePoint::commit` is part of every
    counted append. `AppendBatch` reads past the end of `rep_` when the
    WAL mark is stale; it then takes bytes from `GarbageBytes`.
  * **Caller disciplines.** Four code paths rely on a discipline that the
    code does not enforce, or enforces only with `assert`. Each discipline
    is a boolean constant, so a run can drop it: `WalTermRespected`,
    `CopiesWithoutSavePoints`, `SetContentsOnFresh` and `EndPrepareOnNoop`.
* **`WriteBatchAbstract`** states what a batch promises once bytes are
  abstracted away. A batch is a sequence of records, and a save point
  remembers the whole sequence. Rollback restores that sequence, and
  `MarkEndPrepare` forgets the save points. Append concatenates, a copy is
  independent, and a move empties the source.
* **`WriteBatch` refines `WriteBatchAbstract`.** The mapping decodes each
  batch with `Iterate`. A batch that fails to decode, or whose count is
  wrong, maps to a `Corrupt` record, which no abstract state contains.
  Each save point and the WAL mark map to the records decoded from the
  prefix they delimit. The mapping is in `WriteBatch.tla` and is checked as
  the property `Refinement`.
* **`MemTableInserter`** models the handler that `Iterate` drives into the
  memtables, and the `InsertInto` loops around it (913-1506).
  * **Inputs.** A batch is a sequence of decoded records. The constant
    `Logs` is the set of inputs: a write group (writers with their
    `log_ref`) when `Recovering` is FALSE, or a WAL (records with their
    log number and header sequence) when it is TRUE.
  * **Variables.** `sequence`, `rebuilding`, `logRef` and `hasValid` are
    `sequence_`, `rebuilding_trx_`, `log_number_ref_` and
    `*has_valid_writes_`. `recovered` is the DB's recovered-transaction
    table. `mem` is the set of writes (family, sequence, type, key) made to
    the memtables. `prepRefs` records the `RefLogContainingPrepSection`
    calls, and `flushMarked`/`flushQueue` record `MarkFlushScheduled` and
    `ScheduleFlush`. `stack` holds `Iterate`'s frames: the outer batch and,
    during a commit in recovery, the recovered batch. `results` holds
    `InsertInto`'s statuses. `failed` is a ghost that notes every error a
    callback returned.
  * **Actions.** `Dispatch` is one turn of `Iterate`'s loop, and it runs the
    whole callback of the record: `PutCF`, `DeleteCF`, `DeleteRangeCF`,
    `MergeCF`, the four markers, and `LogData`/Noop. `MarkCommit` in
    recovery pushes the nested frame. `CommitReturn` is the code of
    `MarkCommit` after the nested `Iterate` returns. `BatchDone` is the end
    of one batch: a write group goes on with the same inserter and the next
    `log_ref`; recovery starts a fresh inserter at the next record's header
    sequence. Both stop at the first error.
  * **Abstractions.** Memtable `Add` and `Update` are both a write at
    `sequence_`. The in-place callback's verdict and a merge operator's
    failure are nondeterministic. `ShouldScheduleFlush` holds from
    `FlushThreshold` writes on.
* **`ConcurrentInserters`** models `InsertInto(writer)` with
  `concurrent_memtable_writes` (1467-1486): each writer of a parallel group
  runs its own inserter on its own thread, and all of them add to the same
  memtables.
  * **Variables.** Per writer: its batch, a program counter, `Iterate`'s
    position and status, its `sequence_`, the family last sought,
    `post_info_created_` and its post-process map. Shared: the memtable
    writes, each memtable's entry/delete counters, its flush state
    (none, requested, scheduled) and the `ScheduleFlush` calls.
  * **Actions.** `DataCallback` is one data record (seek, refused
    DeleteRange, or `Add` then `sequence_++`). `CheckMemtableFull` and
    `MarkFlushScheduled` are the two halves of the code's
    `ShouldScheduleFlush() && MarkFlushScheduled()`: another writer can
    step between the read and the compare-and-swap. `IterateEnd` and
    `PostProcess` end the call; `PostProcess` applies the map only if it
    was created.
  * **From the spec.** `MemTable::Add` (counters, and a flush request at
    `FlushThreshold` writes) and the leader's sequence ranges (`Start`)
    live outside `src/`.
* **`InstrumentedMutex`** holds the mutex as action fragments of a thread
  `t`: `Lock` (with `LockInternal`) and `Unlock`. A returning `Lock` adds a
  tick when `ShouldReportToStats` holds; `statsLevel`
  (`stats_->stats_level_`) is chosen in `Init` among `StatsLevelChoices`,
  and the history variable `acquired` counts the `Lock` calls that have
  returned, so the ticks can be compared with them. The mutex is not
  recursive: `Lock` by its owner is never enabled, which is the hang (or
  the abort of an error-checking mutex) the code would meet. The port
  mutex and the header's `Unlock` are modelled from pthread semantics.
* **`DBMutexRecovery`** composes two threads over that mutex. The
  recovery thread locks it, replays a WAL of Puts and Merges of one key
  with `recovering_log_number_ > 0` and unlocks. The first writer after
  Open runs a batch with log number 0. `InsertRecord` is
  `PutCF`/`MergeCF`; when `PerformMerge` (the guard at 1229-1249) holds,
  `GetLock` and `GetReturn` are `db_->Get` taking and releasing the mutex,
  and the merge operator's success or failure is a choice. The DB side
  (Open holding the mutex, the write after it) is modelled from the code's
  comment at 1232-1235.
* **`TableFactory`** holds the options as a record and two operators:
  `NewBlockBasedTableFactory` (the constructor: the default flush-block
  policy, the block cache dropped with `no_block_cache` or an 8 MB LRU
  cache put in, `block_size_deviation` outside 0..100 reset to 0, both
  restart intervals raised to 1) and `SanitizeOptions` (its four refusals
  in the code's order). `BlockBasedTableSupportedVersion` (in `format.h`,
  not under `src/`) is `0..MaxFormatVersion`.
* **`MetaBlocks`** models `meta_blocks.cc` as one builder followed by one
  reader. It starts with `OpenTable`: the column family's options go
  through the factory's constructor and `SanitizeOptions`, and a refusal
  ends the behaviour with InvalidArgument before any table is built.
  * **Inputs** (fixed in `Init`): the `TableProperties` given to the builder,
    each collector's `Finish` output, the name the table indexes its
    properties block under (current, the old `rocksdb.stats`, or none), the
    other meta blocks, and the block the reader asks for and through which
    function (`api`).
  * **Writer.** `AddTableProperty` (every uint64 property as a varint, a
    string property only when non-empty), `NotifyCollectTableCollectorsOnFinish`
    (each `Finish` may fail; a failed collector's properties are skipped and
    the loop goes on), `PropertyBlockFinish` and `MetaIndexFinish`. `props_`
    and the meta-index map are `std::map`s: `insert` keeps the first value
    (`AddProps` is `m @@ ucp`) and `Finish` emits them in bytewise key order
    (`Entries`).
  * **Reader.** `ReadFooter`, `ReadMetaIndexBlock`, `SeekMetaBlock`
    (`SeekToPropertiesBlock` with its fallback to the old name, or
    `FindMetaBlock` with its Seek and key check), then, by `AfterLookup`,
    the return of the file-level `FindMetaBlock` with the handle,
    `ReadMetaBlockContents` for `ReadMetaBlock`, or `ReadPropertiesBlock`, `IterEntry` (one loop turn,
    `ApplyEntry` dispatching on the name) and `IterEnd` for
    `ReadProperties`.
  * **Faults.** Every file read may fail (`IOFaults`); a handle may not
    decode (`CorruptHandles`); an entry of the properties block may be one
    `BlockIter` cannot parse (`CorruptEntries`). Checksums are not verified
    on these reads (`verify_checksums = false`), so such entries reach the
    iterator.
  * **From RocksDB semantics.** `BlockIter` (Seek, Valid, and a parse
    failure making it invalid with Corruption), `SeekToPropertiesBlock`,
    the footer and block reads, `BlockHandle` and the bytewise comparator
    are not under `src/`. Names are strings ranked by `NameOrder`, a handle
    is the name of the block it points to, and `properties_offsets` and
    logging are left out.
* **`MCWriteBatch`** is the model-checking instance. It fixes one key "k",
  one value "v" and one xid "x". Its from-bytes payloads are a Put on CF 0
  and a Delete on CF 1. It also defines the bounds `MaxPayload` and
  `MaxSavePoints` and the symmetry over batch objects and heap addresses.
* **`MCMemTableInserter`** is the model-checking instance of the inserter.
  It has families 0 and 1 (family 2 is missing), one key and one xid. It
  defines the write groups (every one or two writers drawn from five
  batches) and eight WALs built from records in logs 5 and 6. Family 1 has
  log number 6, so its records in log 5 are cut off.
* **`MCConcurrentInserters`** gives each of two writers one of four
  batches: writes to family 0, a missing family first, a refused
  DeleteRange, and Noop/LogData around a SingleDelete.
* **`MCMetaBlocks`** gives the factory six option records: one that leaves
  every option to the constructor and caches index and filter blocks, one
  with the user's own policy and cache but `no_block_cache` and
  out-of-range values, and one for each refusal of `SanitizeOptions`.
  The column family has a prefix extractor or not. It has two uint64 properties (0 or 200, a two-byte
  varint), two string properties (a comparator name or none, no filter
  policy), two collectors each emitting one of: a user count, a count and a
  filter-policy name, or a truncated varint under a uint64 name; one other
  meta block `rocksdb.range_del`, and a lookup of `rocksdb.compression_dict`,
  which no table holds: its Seek lands on the next name in the meta-index.
* **`MCDBMutexRecovery`** gives recovery a WAL of a Put and three merges and
  the writer one merge, with `max_successive_merges` 2.

## Runs

| Run | cfg | Checks | Shows |
|---|---|---|---|
| core | `MCWriteBatch.cfg` | TypeOK, FlagsExact, PrepareSectionsClosed, WalTermWithinBatch, SavePointAssertions | On one batch (CFs 0 and 1, payload of at most 7 bytes, 2 save points, `max_bytes_` 19), the flag cache is exact. Prepare sections are closed, the WAL mark stays inside the batch, and RollbackToSavePoint's assertions hold. This covers self-Append and SetContents. |
| refinement | `MCRefinement.cfg` | Refinement | On one batch (CF 0, payload of at most 6 bytes, `max_bytes_` 17), every step is an abstract step on decoded records. |
| two_batches | `MCTwoBatches.cfg` | Refinement | With two batches (payload of at most 3 bytes, no save points), copy, move and cross-batch Append implement the abstract copy, move and concatenation. |
| stale_wal_term | `MCStaleWalTerm.cfg` | WalTermWithinBatch (violated) | Without `WalTermRespected`, on a batch built from a serialized Delete, the sequence SetSavePoint, Delete, MarkWalTerminationPoint, RollbackToSavePoint leaves `wal_term_point_` past the end of `rep_` (finding 1). |
| shared_save_points | `MCSharedSavePoints.cfg` | SavePointAssertions (violated) | Without `CopiesWithoutSavePoints`, the sequence SetSavePoint(b1), b2 = b1, b1 = b2 leaves both batches pointing at a deleted SavePoints object (finding 2). |
| inserter_group | `MCInserterGroup.cfg` | TypeOK, SeqLinearity, ErrorsPropagate | In every write group of one or two writers, the i-th counted record gets sequence seq0 + i. This holds for records skipped by a missing family, merges folded into Values and Puts through the in-place callback, and it holds across writers. A refused DeleteRange stops the group with NotSupported. |
| inserter_recovery | `MCInserterRecovery.cfg` | TypeOK, PreparedRebuilt, ErrorsPropagate, CommitApplied | Replaying prepare, commit and rollback records across two logs puts in the recovered table exactly the latest prepare section of each xid, with its log. A commit writes the section's records at the sequence numbers after the commit's position, to memtables that reference the prepare log, and then drops the transaction. |
| swallowed_prepare_error | `MCInserterSwallowed.cfg` | ErrorsPropagate (violated) | On a DB without 2PC, MarkBeginPrepare returns NotSupported, `Iterate` drops it, and the prepared records go straight into the memtables. `InsertInto` returns OK (finding 3). |
| concurrent_inserters | `MCConcurrentInserters.cfg` | TypeOK, DistinctSequences, CountersExact, FlushScheduledOnce, FlushEventuallyScheduled | Two parallel writers, interleaved at every step, never share a sequence number and stay inside their ranges. Counters plus pending maps always equal the writes. When both writers see a flush request, exactly one wins the compare-and-swap, and a requested flush is eventually scheduled. |
| db_mutex_recovery | `MCDBMutexRecovery.cfg` | TypeOK, MutexWaitsRecorded, AllThreadsFinish | Recovery never folds a merge while it holds the DB mutex, so it never waits on a mutex it holds; Open and the first write both finish, the write's folds taking and releasing the mutex. At every stats level each `Lock` that has returned has recorded one mutex-wait tick at `kAll` and none below it. |
| meta_blocks | `MCMetaBlocks.cfg` | TypeOK, FactoryOptionsUsable, PropertiesRoundTrip, NotFoundOnlyWithoutBlock, MetaBlockLookupExact | A column family opens only with options its tables can use: a flush policy, a block cache wherever index and filter blocks go into it, a hash index only with a prefix extractor, and clamped sizes. Whenever a reader gets properties back, they are exactly what the builder was given, merged with the collectors that succeeded, the first one winning; a collector property under a predefined name never overrides it. NotFound comes only from a table without a properties block, old name included, and ReadMetaBlock and FindMetaBlock return OK only with the block, or the handle, asked for. Read errors and undecodable handles are returned, never hidden. |
| corrupt_properties | `MCCorruptProperties.cfg` | PropertiesRoundTrip (violated) | With an entry of the properties block that `BlockIter` cannot parse, ReadProperties returns OK and a TableProperties holding only the entries before it (finding 6). |

Each property of a passing run has a mutant in `PROJECT.json`. A mutant is a
faulty variant of one modelled operator, defined next to it, such as:

* a rollback forgetting the flags, or restoring one less than the saved count;
* Clear forgetting the WAL mark;
* MarkEndPrepare keeping the save points;
* MarkEndPrepare as a release build compiles it, without the assertion that
  rep_[12] is a Noop (hazard at `:591`);
* SetContents on a batch that still has save points or a WAL mark taken on
  its old contents (hazard at `:1511`);
* an off-by-one count restore;
* a copy that drops `wal_term_point_`;
* a filtered record that is still written, or that does not consume a sequence number;
* `Iterate` keeping `s` whatever the callback returned;
* a rollback marker that keeps the transaction;
* a commit that replays without binding `log_number_ref_`;
* a parallel write at `sequence_ + 1`, a write that skips the post-process
  map, a write path without `CheckMemtableFull`, and `MarkFlushScheduled`
  as a plain store instead of a compare-and-swap;
* a fold guard without `recovering_log_number_ == 0`, a level test with
  `>=`, and a record tag stored as the memtable entry type;
* a failed collector's properties added anyway, no fallback to the old
  properties block name, a meta-index lookup without the key comparison,
  and an iterator that tests the end of the block one entry late;
* a factory constructor that does not put in the default LRU cache.

TLC finds the property violated when the variant replaces the operator.

**Bounds.**

* **Core run.** The payload bound admits:
  * a Put followed by a rejected Delete, which exercises the `max_bytes_` undo;
  * a Noop, a Delete and an EndPrepare, which exercises MarkEndPrepare behind a save point;
  * rollbacks across a WAL mark and self-appends.
* **Refinement and two-batch runs.** These use smaller bounds, because the
  check decodes every state at every step. The two-batch run still reaches
  copy and move of batches holding records, Clear, Append both ways, and a
  rejected append.

* **Inserter runs.** The inputs are enumerated rather than bounded. The
  write groups reach every callback path of normal mode: a filtered
  record, the flush threshold, merge folding after two successive merges,
  both verdicts of the in-place callback, and a refused DeleteRange. The
  WALs reach a commit and a rollback of a section from an earlier log, a
  section that replaces an earlier one, a commit of an absent xid, the
  recovery cutoff, and a missing family.
* **Concurrent run.** Two writers and a flush threshold of 2 are enough
  for both writers to see the same request and race on it, and for one
  writer to make a request that only the other can act on. Three writers
  add more orders of the same two-party race, nothing new.
* **Mutex run.** Four merges in the WAL reach the threshold of 2 twice
  during recovery, and four merges from the writer reach it after Open,
  each fold ending in a Value or, when the merge operator fails, in one
  more operand, so later folds see both head shapes. Every stats level is
  an initial state.
* **Meta-block run.** Two collectors are the fewest for "the first
  success wins" and for one failing beside one succeeding. The collector
  outputs collide with a user name, with an empty string property and with
  a written uint64 property. The three index names and three lookups reach
  every branch of the two seeks, and the lookup of an absent name that
  sorts before an existing one is what makes the key check matter. The
  six option records take every branch of the constructor and every
  refusal of `SanitizeOptions`. The full product of the options would
  multiply the meta-block states by more than a thousand with nothing new
  to the properties.

Batch objects and heap addresses are model values under symmetry. Nothing
in the code compares batch identities except for `&src != this` and
`dst != src`, which are symmetric.

**Fairness.** Every WriteBatch operation is a synchronous call that
returns, and a single inserter is one thread running a finite loop, so
those modules assume no fairness. `ConcurrentInserters` assumes weak
fairness of each writer's steps: each writer is a thread that runs until
its `InsertInto` returns, never waiting on another. Under it,
`FlushEventuallyScheduled` is checked. `DBMutexRecovery` assumes weak
fairness of each thread's steps. pthread mutexes are not fair, but each
thread holds the mutex for finitely many steps, so a thread waiting for
the mutex is eventually continuously able to take it. Under this,
`AllThreadsFinish` is checked. `MetaBlocks` is a sequential read after a sequential write and
assumes no fairness; its runs set `CHECK_DEADLOCK FALSE` because the read
returns. The inserter runs set
`CHECK_DEADLOCK FALSE` because `InsertInto` returns: a state with an empty
`stack` is the end of the call. In the violation run, a commit of a null
transaction is a crash and has no successor.

## Findings

1. **Stale WAL term (code bug, `write_batch.cc:892`).** `RollbackToSavePoint`
   can truncate `rep_` below `wal_term_point_.size` without clearing it.
   `Append(wal_only)` then copies bytes from past the end of the source.
2. **Shared save points (code bug, `write_batch.cc:153` and `:160`).** The
   copy and move constructors copy the raw `save_points_` pointer, so two
   batches share one stack. Assigning or destroying one of them deletes the
   stack that the other batch still uses.

3. **Dropped marker errors (spec/code divergence, `write_batch.cc:467`).**
   `Iterate` calls the marker callbacks without assigning `s`. NotSupported
   from `MarkBeginPrepare`, on a recovery without 2PC, is lost, and so is
   any error of `MarkCommit`'s nested `Iterate`. Spec section 7 allows only
   the missing-family and cutoff cases to be swallowed. This is the
   release-build behaviour: a debug build aborts instead, at the asserts
   of `MemTableInserter::MarkEndPrepare` that `rebuilding_trx_` is set in
   recovery (`:1346-1347`) and that 2PC is allowed (`:1350`).
4. **Buffered records consume no sequence (spec/code divergence, `:1050`;
   reproduced by `MCInserterSeqRule.cfg`, not among the checked runs).**
   Every data callback returns before `++sequence_` while `rebuilding_trx_`
   is attached. Spec section 4.5 says every counted record advances the
   sequence, including a buffered one. The code agrees with how a prepared
   batch was written: its records did not take sequence numbers then either.

5. **Second prepare section (code bug in release builds, `:591`;
   reproduced by `MCEndPrepareTwice.cfg`, not among the checked runs).**
   `MarkEndPrepare` checks only with `assert` that `rep_[12]` is still a
   Noop. In a release build a second call rewrites the begin marker again
   and appends a second `EndPrepareXID`. The comment at `:590` and spec
   section 3 say a batch holds one prepare section. Replayed in recovery,
   the second end marker hands a null `rebuilding_trx_` to
   `InsertRecoveredTransaction` (`:1351`). Within the checked runs, the
   core run's mutant `MarkEndPrepareNoAssert` (the release-build
   `MarkEndPrepare`) is found to violate `PrepareSectionsClosed`.

   The project is limited to twelve runs. These two reproductions make way
   for the meta-block runs. Running `tlc -config MCInserterSeqRule.cfg
   MCMemTableInserter` or `tlc -config MCEndPrepareTwice.cfg MCWriteBatch`
   still shows each violation.

6. **Corrupt properties block reported as OK (code bug,
   `table/meta_blocks.cc:231`).** `ReadProperties` reads `iter.status()`
   only inside `for (...; iter.Valid(); iter.Next())`. A `BlockIter` that
   meets an entry it cannot parse becomes not `Valid()` and keeps the
   Corruption in its status. The loop exits with `s` still OK, so the
   caller gets OK and a `TableProperties` with only the entries before the
   corrupt one; the rest are zeros and empty names. The block is read with
   `verify_checksums = false` (`:188`), so nothing earlier catches it. The
   check at `:231-234` and the `delete` at `:291-292` show that an
   iteration error was meant to be returned.

## Not modelled, and the plan

* **Concurrent merges.** In concurrent mode the code asserts that no
  merge and no in-place update happens, so `ConcurrentInserters` leaves
  them out; they are modelled in the single-inserter `MemTableInserter`.
* **Skipped writers.** `InsertInto` skips writers for which
  `ShouldWriteToMemtable()` is false. The model has no such writers; that
  predicate is in the write thread, outside `src/`.
* **Not modelled at all.** Header sequence bytes (`Sequence`/`SetSequence`),
  `GetFirstOffset` and reservation sizes are not modelled; no behaviour in
  the model reads them. Batches built from a string shorter than the header
  are not modelled either: `Count()` on such a batch reads out of bounds.
* **JNI comparator glue and the headers.** `java/rocksjni/comparator.cc`
  only allocates a callback object for a Java handle and deletes it on
  `disposeInternal`; the ownership rule is in Java code that is not in the
  repository. `table_properties_collectors.h` is one declaration.
  `optimistic_transaction_db_impl.h`'s ownership flag depends on its base
  class, which is not in the repository either. `meta_blocks.cc`'s
  `NotifyCollectTableCollectorsOnAdd` changes only the collectors' own
  state and its result is not kept, so it has no action.
* **`InstrumentedCondVar`.** `Wait`, `TimedWait` and their statistics
  ticks are not modelled. Nothing in this repository waits on the
  condition variable, and `spec.md` does not either, so a model of its use
  would have to invent the caller and the condition it waits for.
* **Statistics.** Of `statistics.h` only the `StatsLevel` order, a
  configurable `stats_level_` and the mutex ticker are modelled; the rest
  is the ticker and histogram enums with their name tables, and an
  abstract interface whose implementation is not in the repository.
  Whether a name table matches its enum (the TODO at line 390) is a
  comparison of two constant tables, with no state for a model to explore. Perf-context timers in `instrumented_mutex.cc` are timing
  only and are left out.
