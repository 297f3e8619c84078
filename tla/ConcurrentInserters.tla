------------------------- MODULE ConcurrentInserters -------------------------
(***************************************************************************)
(* Parallel memtable writes: the writers of a parallel write group each    *)
(* call WriteBatchInternal::InsertInto(writer, sequence, ...,              *)
(* concurrent_memtable_writes = true) (db/write_batch.cc 1467-1486) on     *)
(* their own thread.  Each runs its own MemTableInserter over its own      *)
(* sequence range; all of them add to the same memtables, whose flush      *)
(* state and entry counters they share.                                    *)
(*                                                                         *)
(* In this mode MergeCF and the in-place update paths are excluded by      *)
(* assertion and recovery does not arise, so a writer's batch holds Puts,  *)
(* deletions, DeleteRanges, LogData and Noops.  Memtable::Add keeps        *)
(* per-inserter counters in the map that get_post_process_info creates     *)
(* lazily; PostProcess applies them to the memtable at the end.  The       *)
(* memtable's side (memtable.cc, not under src/) is modelled from the      *)
(* spec: Add requests a flush once the memtable is full, and               *)
(* MarkFlushScheduled is a compare-and-swap from requested to scheduled.   *)
(***************************************************************************)
EXTENDS Integers, Sequences, FiniteSets, WriteBatchCodec

CONSTANTS
  Writers,             \* the writers of the group, in group order (1..n)
  BatchChoices,        \* record sequences a writer's batch may hold
  FirstSeq,            \* the group's first sequence number
  CFs,                 \* column families that exist
  IgnoreMissing,       \* ignore_missing_column_families_
  RangeDelUnsupported, \* families whose table factory refuses DeleteRange
  FlushThreshold       \* writes after which a memtable asks to be flushed

VARIABLES
  batch,       \* batch[w]: the records of writer w's batch
  pc,          \* pc[w]: "iterate", "check", "mark", "post" or "done"
  pos,         \* pos[w]: Iterate's next record
  st,          \* st[w]: Iterate's status s
  seq,         \* seq[w]: that inserter's sequence_
  cur,         \* cur[w]: the family its cf_mems_ last sought
  created,     \* created[w]: post_info_created_
  postInfo,    \* postInfo[w][cf]: [entries, deletes] of its map
  mem,         \* memtable writes: set of [cf, seq, type, key, by]
  counters,    \* counters[cf]: the memtable's [entries, deletes]
  flushState,  \* flushState[cf]: "none", "requested" or "scheduled"
  flushQueue   \* flush_scheduler_->ScheduleFlush calls, in order

vars == <<batch, pc, pos, st, seq, cur, created, postInfo, mem, counters,
          flushState, flushQueue>>

Zero == [entries |-> 0, deletes |-> 0]

\* The sequence the write-group leader gives writer w: the first sequence
\* plus the counts of the batches before it (the write thread, not under
\* src/).
Start(w) == FirstSeq + MapThenSumSet(LAMBDA v : CountOf(batch[v]), {v \in Writers : v < w})

Init ==
  /\ batch \in [Writers -> BatchChoices]
  /\ pc = [w \in Writers |-> "iterate"]
  /\ pos = [w \in Writers |-> 1]
  /\ st = [w \in Writers |-> "OK"]
  /\ seq = [w \in Writers |-> Start(w)]
  /\ cur = [w \in Writers |-> 0]
  /\ created = [w \in Writers |-> FALSE]
  /\ postInfo = [w \in Writers |-> [c \in CFs |-> Zero]]
  /\ mem = {}
  /\ counters = [c \in CFs |-> Zero]
  /\ flushState = [c \in CFs |-> "none"]
  /\ flushQueue = <<>>

Running(w) == pc[w] = "iterate" /\ st[w] = "OK" /\ pos[w] <= Len(batch[w])
NextRec(w) == batch[w][pos[w]]

(***************************************************************************)
(* Memtable::Add with post-process info (memtable.cc): the write, the      *)
(* inserter's counters (a deletion counts as a delete), and the flush      *)
(* request when the memtable is full.                                      *)
(***************************************************************************)
AddCounted(info, type) ==
  [entries |-> info.entries + 1,
   deletes |-> info.deletes + IF type = "Deletion" THEN 1 ELSE 0]

MemAdd(w, r, s) ==
  LET after == mem \cup {[cf |-> r.cf, seq |-> s, type |-> r.type, key |-> r.a, by |-> w]}
  IN /\ mem' = after
     /\ flushState' = IF Cardinality({e \in after : e.cf = r.cf}) >= FlushThreshold
                         /\ flushState[r.cf] = "none"
                      THEN [flushState EXCEPT ![r.cf] = "requested"]
                      ELSE flushState

\* get_post_process_info: the inserter's map, created on first use.
PostInfoAdd(w, r) ==
  /\ created' = [created EXCEPT ![w] = TRUE]
  /\ postInfo' = [postInfo EXCEPT ![w][r.cf] = AddCounted(@, r.type)]

\* Mutant: a write at sequence_ + 1, as if sequence_ were bumped first.
WriteAfterBump(w, r) ==
  /\ MemAdd(w, r, seq[w] + 1)
  /\ PostInfoAdd(w, r)
  /\ seq' = [seq EXCEPT ![w] = @ + 1]

\* Mutant: get_post_process_info returning nullptr in concurrent mode.
WriteNoPostInfo(w, r) ==
  /\ MemAdd(w, r, seq[w])
  /\ seq' = [seq EXCEPT ![w] = @ + 1]
  /\ UNCHANGED <<created, postInfo>>

\* mem->Add(sequence_, ...) then sequence_++ (PutCF 1061-1064 and
\* 1121, DeleteImpl 1129-1133).
Write(w, r) ==
  /\ MemAdd(w, r, seq[w])
  /\ PostInfoAdd(w, r)
  /\ seq' = [seq EXCEPT ![w] = @ + 1]

\* Mutant: the seek result ignored, so a record of a missing family is
\* written as if the family existed.
DataCallbackNoFilter(w) ==
  /\ Running(w)
  /\ LET r == NextRec(w) IN
       /\ r.type \in CountedTypes \ {"Merge"}
       /\ pos' = [pos EXCEPT ![w] = @ + 1]
       /\ Write(w, r)
       /\ cur' = [cur EXCEPT ![w] = r.cf]
       /\ pc' = [pc EXCEPT ![w] = "check"]
       /\ UNCHANGED st
  /\ UNCHANGED <<batch, counters, flushQueue>>

\* Mutant: a write path without CheckMemtableFull.
DataCallbackNoCheck(w) ==
  /\ Running(w)
  /\ LET r == NextRec(w) IN
       /\ r.type \in CountedTypes \ {"Merge"}
       /\ pos' = [pos EXCEPT ![w] = @ + 1]
       /\ IF r.cf \notin CFs
          THEN /\ seq' = [seq EXCEPT ![w] = @ + 1]
               /\ st' = [st EXCEPT ![w] = IF IgnoreMissing THEN "OK" ELSE "InvalidArgument"]
               /\ UNCHANGED <<cur, created, postInfo, mem, flushState>>
          ELSE IF r.type = "RangeDeletion" /\ r.cf \in RangeDelUnsupported
          THEN /\ st' = [st EXCEPT ![w] = "NotSupported"]
               /\ cur' = [cur EXCEPT ![w] = r.cf]
               /\ UNCHANGED <<seq, created, postInfo, mem, flushState>>
          ELSE /\ Write(w, r)
               /\ cur' = [cur EXCEPT ![w] = r.cf]
               /\ UNCHANGED st
  /\ UNCHANGED <<batch, pc, counters, flushQueue>>

(***************************************************************************)
(* One turn of writer w's Iterate loop on a counted record: PutCF,         *)
(* DeleteCF, SingleDeleteCF or DeleteRangeCF with no rebuilding_trx_ and   *)
(* recovering_log_number_ = 0.  A family that is not found consumes a      *)
(* sequence number and returns the seek status; a DeleteRange the family   *)
(* cannot store returns NotSupported; otherwise the write is made and      *)
(* CheckMemtableFull follows.                                              *)
(***************************************************************************)
DataCallback(w) ==
  /\ Running(w)
  /\ LET r == NextRec(w) IN
       /\ r.type \in CountedTypes \ {"Merge"}
       /\ pos' = [pos EXCEPT ![w] = @ + 1]
       /\ IF r.cf \notin CFs
          THEN /\ seq' = [seq EXCEPT ![w] = @ + 1]
               /\ st' = [st EXCEPT ![w] = IF IgnoreMissing THEN "OK" ELSE "InvalidArgument"]
               /\ UNCHANGED <<pc, cur, created, postInfo, mem, flushState>>
          ELSE IF r.type = "RangeDeletion" /\ r.cf \in RangeDelUnsupported
          THEN /\ st' = [st EXCEPT ![w] = "NotSupported"]
               /\ cur' = [cur EXCEPT ![w] = r.cf]
               /\ UNCHANGED <<seq, pc, created, postInfo, mem, flushState>>
          ELSE /\ Write(w, r)
               /\ cur' = [cur EXCEPT ![w] = r.cf]
               /\ pc' = [pc EXCEPT ![w] = "check"]
               /\ UNCHANGED st
  /\ UNCHANGED <<batch, counters, flushQueue>>

\* Handler::LogData and a Noop: nothing but the next record.
Skip(w) ==
  /\ Running(w)
  /\ NextRec(w).type \in {"LogData", "Noop"}
  /\ pos' = [pos EXCEPT ![w] = @ + 1]
  /\ UNCHANGED <<batch, pc, st, seq, cur, created, postInfo, mem, counters,
                 flushState, flushQueue>>

\* CheckMemtableFull, first half: ShouldScheduleFlush() reads the flush
\* state of the memtable of cf_mems_->current().
CheckMemtableFull(w) ==
  /\ pc[w] = "check"
  /\ pc' = [pc EXCEPT ![w] = IF flushState[cur[w]] = "requested" THEN "mark" ELSE "iterate"]
  /\ UNCHANGED <<batch, pos, st, seq, cur, created, postInfo, mem, counters,
                 flushState, flushQueue>>

\* Mutant: MarkFlushScheduled as a plain store that always succeeds.
MarkFlushScheduledStore(w) ==
  /\ pc[w] = "mark"
  /\ flushState' = [flushState EXCEPT ![cur[w]] = "scheduled"]
  /\ flushQueue' = Append(flushQueue, cur[w])
  /\ pc' = [pc EXCEPT ![w] = "iterate"]
  /\ UNCHANGED <<batch, pos, st, seq, cur, created, postInfo, mem, counters>>

\* CheckMemtableFull, second half: MarkFlushScheduled() succeeds for the one
\* thread whose compare-and-swap moves requested to scheduled, and that
\* thread calls ScheduleFlush.
MarkFlushScheduled(w) ==
  /\ pc[w] = "mark"
  /\ IF flushState[cur[w]] = "requested"
     THEN /\ flushState' = [flushState EXCEPT ![cur[w]] = "scheduled"]
          /\ flushQueue' = Append(flushQueue, cur[w])
     ELSE UNCHANGED <<flushState, flushQueue>>
  /\ pc' = [pc EXCEPT ![w] = "iterate"]
  /\ UNCHANGED <<batch, pos, st, seq, cur, created, postInfo, mem, counters>>

\* Iterate returns (the count check holds for batches built by
\* WriteBatchInternal), and InsertInto goes on to PostProcess.
IterateEnd(w) ==
  /\ pc[w] = "iterate"
  /\ ~Running(w)
  /\ pc' = [pc EXCEPT ![w] = "post"]
  /\ UNCHANGED <<batch, pos, st, seq, cur, created, postInfo, mem, counters,
                 flushState, flushQueue>>

\* PostProcess: when the map was created, BatchPostProcess adds each
\* memtable's counters to it; InsertInto then returns.
PostProcess(w) ==
  /\ pc[w] = "post"
  /\ counters' = IF created[w]
                 THEN [c \in CFs |-> [entries |-> counters[c].entries + postInfo[w][c].entries,
                                      deletes |-> counters[c].deletes + postInfo[w][c].deletes]]
                 ELSE counters
  /\ pc' = [pc EXCEPT ![w] = "done"]
  /\ UNCHANGED <<batch, pos, st, seq, cur, created, postInfo, mem, flushState, flushQueue>>

Step(w) ==
  \/ DataCallback(w)
  \/ Skip(w)
  \/ CheckMemtableFull(w)
  \/ MarkFlushScheduled(w)
  \/ IterateEnd(w)
  \/ PostProcess(w)

Next == \E w \in Writers : Step(w)

\* Each writer runs on its own thread until InsertInto returns: no thread
\* stops for ever while it can take a step.
Fairness == \A w \in Writers : WF_vars(Step(w))

Spec == Init /\ [][Next]_vars /\ Fairness

-----------------------------------------------------------------------------
(***************************************************************************)
(* Properties                                                              *)
(***************************************************************************)
TypeOK ==
  /\ \A w \in Writers :
       /\ pc[w] \in {"iterate", "check", "mark", "post", "done"}
       /\ pos[w] \in 1..Len(batch[w]) + 1
       /\ st[w] \in {"OK", "InvalidArgument", "NotSupported"}
       /\ seq[w] \in Nat
       /\ created[w] \in BOOLEAN
       /\ postInfo[w] \in [CFs -> [entries : Nat, deletes : Nat]]
  /\ mem \subseteq [cf : CFs, seq : Nat, type : CountedTypes, key : Seq(Nat), by : Writers]
  /\ counters \in [CFs -> [entries : Nat, deletes : Nat]]
  /\ flushState \in [CFs -> {"none", "requested", "scheduled"}]

\* Sequence ranges of parallel writers (spec section 5, "the inserter
\* guarantees the contiguous seq range"): no two memtable writes, by the
\* same writer or by two writers running at once, share a sequence number,
\* and each writer writes only inside the range the leader gave it.
DistinctSequences ==
  /\ \A e1, e2 \in mem : e1.seq = e2.seq => e1 = e2
  /\ \A e \in mem : e.seq >= Start(e.by) /\ e.seq < Start(e.by) + CountOf(batch[e.by])

\* Post-process counters: a memtable's entry and delete counters plus what
\* the writers that have not yet post-processed hold in their maps always
\* equal the entries and deletions written to it; once every writer is
\* done the counters are exact.
CountersExact ==
  \A c \in CFs :
    LET ws == {e \in mem : e.cf = c}
        pending(f(_)) == MapThenSumSet(LAMBDA w : IF pc[w] = "done" THEN 0 ELSE f(postInfo[w][c]),
                                    Writers)
    IN /\ counters[c].entries + pending(LAMBDA i : i.entries) = Cardinality(ws)
       /\ counters[c].deletes + pending(LAMBDA i : i.deletes)
            = Cardinality({e \in ws : e.type = "Deletion"})

\* Flush scheduling (spec section 4.5.6, "exactly one schedule per
\* memtable"): however the writers' CheckMemtableFull calls interleave, a
\* family's memtable is handed to the flush scheduler at most once.
FlushScheduledOnce ==
  \A i, j \in DOMAIN flushQueue : flushQueue[i] = flushQueue[j] => i = j

\* A memtable that asked to be flushed is eventually handed to the flush
\* scheduler by one of the writers that wrote to it.
FlushEventuallyScheduled ==
  \A c \in CFs : flushState[c] = "requested" ~> flushState[c] = "scheduled"
=============================================================================
