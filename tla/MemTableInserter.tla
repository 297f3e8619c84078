-------------------------- MODULE MemTableInserter --------------------------
(***************************************************************************)
(* MemTableInserter and WriteBatchInternal::InsertInto (db/write_batch.cc  *)
(* 913-1506): the handler that WriteBatch::Iterate drives to replay        *)
(* batches into memtables.                                                 *)
(*                                                                         *)
(* Two callers are modelled, chosen by the constant Recovering:            *)
(*  - a write group (Recovering = FALSE): one inserter with                *)
(*    recovering_log_number_ = 0 runs over the writers' batches in turn,   *)
(*    carrying sequence_ from one to the next and binding each writer's    *)
(*    log_ref to log_number_ref_;                                          *)
(*  - WAL recovery (Recovering = TRUE): each WAL record is replayed by a   *)
(*    fresh inserter that starts at the record's header sequence and has   *)
(*    recovering_log_number_ = the number of the log holding it; the DB's  *)
(*    recovered-transaction table outlives the inserters.                  *)
(*                                                                         *)
(* Batches are given as decoded records (WriteBatchCodec); decoding and    *)
(* the count check are modelled there.  One step of this module is one     *)
(* turn of Iterate's loop: a record is dispatched to its callback and the  *)
(* callback runs to completion, except MarkCommit in recovery, whose       *)
(* nested Iterate over the recovered batch is a frame pushed on `stack`,   *)
(* each record of it a step of its own, and whose code after the nested    *)
(* Iterate is the step CommitReturn.  Memtable contents are the set of     *)
(* writes made to them; keys and values are abstracted to the record's     *)
(* key field.                                                              *)
(***************************************************************************)
EXTENDS Integers, Sequences, FiniteSets, WriteBatchCodec

CONSTANTS
  Logs,              \* the inputs: each a sequence of [log, seq, logRef, recs]
  Recovering,        \* TRUE: WAL recovery; FALSE: a write group
  CFs,               \* column families that exist (cf_mems_->Seek succeeds)
  CFLogNumber,       \* [CFs -> Nat]: cf_mems_->GetLogNumber() per family
  IgnoreMissing,     \* ignore_missing_column_families_
  AllowTwoPC,        \* db_->allow_2pc()
  RangeDelUnsupported, \* families whose table factory refuses DeleteRange
  InplaceCallback,   \* families with inplace_update_support and an inplace_callback
  MaxSuccessiveMerges, \* moptions->max_successive_merges
  FlushThreshold,    \* writes after which ShouldScheduleFlush() holds
  Xids               \* transaction names

VARIABLES
  log,          \* the input being replayed (fixed once chosen)
  k,            \* index of the batch (writer or WAL record) being iterated
  stack,        \* Iterate frames: outer batch, then a nested commit's batch
  sequence,     \* sequence_
  rebuilding,   \* rebuilding_trx_: [on, recs]
  logRef,       \* log_number_ref_
  hasValid,     \* *has_valid_writes_ (recovery InsertInto only)
  recovered,    \* db_ recovered transactions: xid -> [present, log, recs, null]
  mem,          \* memtable writes: set of [cf, seq, type, key]
  prepRefs,     \* RefLogContainingPrepSection calls: set of [cf, log]
  flushMarked,  \* memtables whose MarkFlushScheduled() succeeded
  flushQueue,   \* flush_scheduler_->ScheduleFlush calls, in order
  results,      \* status returned by InsertInto per batch, in order
  failed        \* ghost: some callback of the current batch returned an error

vars == <<log, k, stack, sequence, rebuilding, logRef, hasValid, recovered,
          mem, prepRefs, flushMarked, flushQueue, results, failed>>

Statuses == {"OK", "InvalidArgument", "NotSupported", "Corruption"}
NoTrx == [on |-> FALSE, recs |-> <<>>]
\* A recovered transaction; `null` when its batch pointer is nullptr.
Absent == [present |-> FALSE, log |-> 0, recs |-> <<>>, null |-> FALSE]

\* An Iterate frame: the records, the next position, the status s, and for
\* a nested commit the xid being committed ("" for an outer batch).
Frame(recs, xid) == [recs |-> recs, pos |-> 1, st |-> "OK", xid |-> xid]

Top == stack[Len(stack)]
Nested == Len(stack) > 1
RecoveringLogNumber == IF Recovering THEN log[k].log ELSE 0

\* The loop condition of Iterate: s.ok() && !input.empty().
Running(f) == f.st = "OK" /\ f.pos <= Len(f.recs)

\* Iterate's result once the loop has stopped; the count check never fails
\* on batches built by WriteBatchInternal (see WriteBatchCodec.Iterate).
IterateResult(f) == f.st

Init ==
  /\ log \in Logs
  /\ k = 1
  /\ stack = <<Frame(log[1].recs, "")>>
  /\ sequence = log[1].seq
  /\ rebuilding = NoTrx
  /\ logRef = IF Recovering THEN 0 ELSE log[1].logRef
  /\ hasValid = FALSE
  /\ recovered = [x \in Xids |-> Absent]
  /\ mem = {}
  /\ prepRefs = {}
  /\ flushMarked = {}
  /\ flushQueue = <<>>
  /\ results = <<>>
  /\ failed = FALSE

(***************************************************************************)
(* One turn of Iterate's loop: the top frame moves past its record; a      *)
(* counted record's callback status becomes s, a marker's is dropped.      *)
(***************************************************************************)
\* Mutant: the loop keeps s whatever the callback returned.
AdvanceKeepStatus(st) ==
  stack' = [stack EXCEPT ![Len(stack)] = [@ EXCEPT !.pos = @ + 1]]

Advance(st) ==
  stack' = [stack EXCEPT ![Len(stack)] =
              [@ EXCEPT !.pos = @ + 1,
                        !.st = IF Top.recs[Top.pos].type \in CountedTypes THEN st ELSE @]]

\* A callback's status; the ghost `failed` notes every error it returns.
Returns(st) == /\ Advance(st)
               /\ failed' = (failed \/ st # "OK")

(***************************************************************************)
(* SeekToColumnFamily: the outcome for column family cf.                   *)
(***************************************************************************)
SeekFound(cf) ==
  /\ cf \in CFs
  /\ ~(RecoveringLogNumber # 0 /\ RecoveringLogNumber < CFLogNumber[cf])

SeekStatus(cf) == IF cf \notin CFs /\ ~IgnoreMissing THEN "InvalidArgument" ELSE "OK"

\* The side effects of a successful seek.
SeekEffects(cf) ==
  /\ hasValid' = (hasValid \/ Recovering)
  /\ prepRefs' = IF logRef > 0 THEN prepRefs \cup {[cf |-> cf, log |-> logRef]}
                 ELSE prepRefs

\* The memtable write of record r at sequence_.
W(r, type) == {[cf |-> r.cf, seq |-> sequence, type |-> type, key |-> r.a]}

\* Mutants: a filtered record that is still written (no early return),
\* and one that does not consume a sequence number.
FilteredWrites(r) ==
  /\ ~SeekFound(r.cf)
  /\ mem' = mem \cup W(r, r.type)
  /\ sequence' = sequence + 1
  /\ Returns(SeekStatus(r.cf))
  /\ UNCHANGED <<prepRefs, hasValid, flushMarked, flushQueue>>

FilteredNoBump(r) ==
  /\ ~SeekFound(r.cf)
  /\ Returns(SeekStatus(r.cf))
  /\ UNCHANGED <<sequence, mem, prepRefs, hasValid, flushMarked, flushQueue>>

\* A record whose family was not found or is cut off: ++sequence_ and
\* return the seek status.
Filtered(r) ==
  /\ ~SeekFound(r.cf)
  /\ sequence' = sequence + 1
  /\ Returns(SeekStatus(r.cf))
  /\ UNCHANGED <<mem, prepRefs, hasValid, flushMarked, flushQueue>>

\* A record appended to rebuilding_trx_ (WriteBatchInternal::Put etc. on a
\* batch without max_bytes_), with no memtable write and no ++sequence_.
Rebuild(r) ==
  /\ rebuilding.on
  /\ rebuilding' = [rebuilding EXCEPT !.recs = Append(@, r)]
  /\ Returns("OK")
  /\ UNCHANGED <<sequence, mem, prepRefs, hasValid, flushMarked, flushQueue>>

(***************************************************************************)
(* CheckMemtableFull after a write to cf, with the memtable's writes after *)
(* the step being `after`: MarkFlushScheduled succeeds once per memtable.  *)
(***************************************************************************)
Writes(m, cf) == {w \in m : w.cf = cf}

CheckMemtableFull(cf, after) ==
  IF Cardinality(Writes(after, cf)) >= FlushThreshold /\ cf \notin flushMarked
  THEN /\ flushMarked' = flushMarked \cup {cf}
       /\ flushQueue' = Append(flushQueue, cf)
  ELSE UNCHANGED <<flushMarked, flushQueue>>

\* A memtable write at sequence_ of `ws` (zero or one writes), then
\* sequence_++ and CheckMemtableFull.
WriteThenBump(r, ws) ==
  /\ mem' = mem \cup ws
  /\ sequence' = sequence + 1
  /\ CheckMemtableFull(r.cf, mem \cup ws)


(***************************************************************************)
(* The data callbacks.  Each is: append to rebuilding_trx_ when one is     *)
(* attached; otherwise seek, and on a filtered record ++sequence_ and      *)
(* return the seek status; otherwise write, ++sequence_, check for flush.  *)
(* Memtable::Add and Memtable::Update both write at sequence_; the two     *)
(* differ only inside the memtable, which is not modelled.                 *)
(***************************************************************************)
Unbuffered(r) ==
  /\ ~rebuilding.on
  /\ Filtered(r)
  /\ UNCHANGED rebuilding

\* The write made by the in-place callback path when UpdateCallback finds
\* no key: UPDATED_INPLACE and UPDATED add a Value, UPDATE_FAILED nothing.
PutWrites(r) ==
  IF r.cf \in InplaceCallback THEN {W(r, "Value"), {}} ELSE {W(r, "Value")}

PutCF(r) ==
  \/ Rebuild(r)
  \/ Unbuffered(r)
  \/ /\ ~rebuilding.on
     /\ SeekFound(r.cf)
     /\ SeekEffects(r.cf)
     /\ \E ws \in PutWrites(r) : WriteThenBump(r, ws)
     /\ Returns("OK")
     /\ UNCHANGED rebuilding

\* DeleteCF and SingleDeleteCF through DeleteImpl.
DeleteImpl(r, type) ==
  /\ WriteThenBump(r, W(r, type))
  /\ Returns("OK")
  /\ UNCHANGED rebuilding

DeleteCF(r) ==
  \/ Rebuild(r)
  \/ Unbuffered(r)
  \/ /\ ~rebuilding.on
     /\ SeekFound(r.cf)
     /\ SeekEffects(r.cf)
     /\ DeleteImpl(r, r.type)

\* A family that cannot store range tombstones refuses the record after
\* the seek has taken effect, and sequence_ is not bumped.
DeleteRangeCF(r) ==
  \/ Rebuild(r)
  \/ Unbuffered(r)
  \/ /\ ~rebuilding.on
     /\ SeekFound(r.cf)
     /\ SeekEffects(r.cf)
     /\ IF r.cf \in RangeDelUnsupported
        THEN /\ Returns("NotSupported")
             /\ UNCHANGED <<sequence, mem, rebuilding, flushMarked, flushQueue>>
        ELSE DeleteImpl(r, "RangeDeletion")

\* CountSuccessiveMergeEntries: the Merge writes of the key newer than its
\* newest non-Merge write.
SuccessiveMerges(cf, key) ==
  LET ws == {w \in Writes(mem, cf) : w.key = key}
      base == {w.seq : w \in {v \in ws : v.type # "Merge"}}
  IN Cardinality({w \in ws : w.type = "Merge" /\ \A s \in base : w.seq > s})

\* Folding reads the value and runs the merge operator; a failed merge
\* falls back to adding the operand.  Folding is off in recovery.
MergeCF(r) ==
  \/ Rebuild(r)
  \/ Unbuffered(r)
  \/ /\ ~rebuilding.on
     /\ SeekFound(r.cf)
     /\ SeekEffects(r.cf)
     /\ LET perform == /\ MaxSuccessiveMerges > 0
                       /\ RecoveringLogNumber = 0
                       /\ SuccessiveMerges(r.cf, r.a) >= MaxSuccessiveMerges
        IN \E type \in IF perform THEN {"Value", "Merge"} ELSE {"Merge"} :
             WriteThenBump(r, W(r, type))
     /\ Returns("OK")
     /\ UNCHANGED rebuilding

(***************************************************************************)
(* The marker callbacks.  Iterate drops the Status they return; the ghost  *)
(* `failed` still records an error.                                        *)
(***************************************************************************)
\* Handler::LogData does nothing, and a Noop is skipped by Iterate.
Skip ==
  /\ Returns("OK")
  /\ UNCHANGED <<sequence, rebuilding, mem, prepRefs, hasValid, flushMarked, flushQueue>>

\* In recovery, a prepare section needs 2PC; a fresh rebuilding_trx_ then
\* collects the section.  In a write group the marker is ignored.
MarkBeginPrepare ==
  /\ IF RecoveringLogNumber # 0
     THEN IF ~AllowTwoPC
          THEN /\ Returns("NotSupported")
               /\ UNCHANGED <<rebuilding, hasValid>>
          ELSE /\ rebuilding' = [on |-> TRUE, recs |-> <<>>]
               /\ hasValid' = TRUE
               /\ Returns("OK")
     ELSE /\ Returns("OK")
          /\ UNCHANGED <<rebuilding, hasValid>>
  /\ UNCHANGED <<sequence, mem, prepRefs, flushMarked, flushQueue>>

\* In recovery, InsertRecoveredTransaction(recovering_log_number_, name,
\* rebuilding_trx_) replaces any entry of that name, and rebuilding_trx_ is
\* detached.  With assertions off, a section whose begin was refused hands
\* over a null batch.
MarkEndPrepare(x) ==
  /\ IF RecoveringLogNumber # 0
     THEN /\ recovered' = [recovered EXCEPT ![x] =
                             [present |-> TRUE, log |-> RecoveringLogNumber,
                              recs |-> rebuilding.recs, null |-> ~rebuilding.on]]
          /\ rebuilding' = NoTrx
     ELSE UNCHANGED <<recovered, rebuilding>>
  /\ Returns("OK")
  /\ UNCHANGED <<sequence, mem, prepRefs, hasValid, flushMarked, flushQueue>>

\* Mutant: the nested Iterate runs without binding log_number_ref_.
MarkCommitNoLogRef(x) ==
  /\ IF RecoveringLogNumber # 0 /\ recovered[x].present
     THEN /\ ~recovered[x].null
          /\ stack' = Append([stack EXCEPT ![Len(stack)].pos = @ + 1],
                             Frame(recovered[x].recs, x))
          /\ UNCHANGED failed
     ELSE Returns("OK")
  /\ UNCHANGED <<logRef, sequence, rebuilding, recovered, mem, prepRefs, hasValid,
                 flushMarked, flushQueue>>

\* In recovery, a commit of a recovered transaction binds log_number_ref_
\* to its log and iterates its batch through this inserter (a new frame).
\* A null batch is dereferenced: the process crashes, and no step follows.
MarkCommit(x) ==
  /\ IF RecoveringLogNumber # 0 /\ recovered[x].present
     THEN /\ ~recovered[x].null
          /\ logRef' = recovered[x].log
          /\ stack' = Append([stack EXCEPT ![Len(stack)].pos = @ + 1],
                             Frame(recovered[x].recs, x))
          /\ UNCHANGED failed
     ELSE /\ Returns("OK")
          /\ UNCHANGED logRef
  /\ UNCHANGED <<sequence, rebuilding, recovered, mem, prepRefs, hasValid,
                 flushMarked, flushQueue>>

\* The rest of MarkCommit once the nested Iterate has returned s:
\* log_number_ref_ = 0, the transaction is deleted when s is ok, and s is
\* returned to the outer Iterate, which drops it.
CommitReturn ==
  /\ Nested
  /\ ~Running(Top)
  /\ LET s == IterateResult(Top) IN
       /\ stack' = Front(stack)
       /\ logRef' = 0
       /\ recovered' = IF s = "OK" THEN [recovered EXCEPT ![Top.xid] = Absent]
                       ELSE recovered
       /\ hasValid' = TRUE
       /\ failed' = (failed \/ s # "OK")
  /\ UNCHANGED <<log, k, sequence, rebuilding, mem, prepRefs, flushMarked,
                 flushQueue, results>>

\* Mutant: a rollback that leaves the transaction in the table.
MarkRollbackNoop(x) ==
  /\ Returns("OK")
  /\ UNCHANGED <<recovered, sequence, rebuilding, mem, prepRefs, hasValid, flushMarked, flushQueue>>

\* In recovery, a rollback drops the recovered transaction if present.
MarkRollback(x) ==
  /\ IF RecoveringLogNumber # 0
     THEN recovered' = [recovered EXCEPT ![x] = Absent]
     ELSE UNCHANGED recovered
  /\ Returns("OK")
  /\ UNCHANGED <<sequence, rebuilding, mem, prepRefs, hasValid, flushMarked, flushQueue>>

\* Iterate's switch: the callback for the record at the top frame.
Dispatch ==
  /\ stack # <<>>
  /\ Running(Top)
  /\ LET r == Top.recs[Top.pos] IN
       \/ /\ r.type = "Value"
          /\ PutCF(r) /\ UNCHANGED <<logRef, recovered>>
       \/ /\ r.type \in {"Deletion", "SingleDeletion"}
          /\ DeleteCF(r) /\ UNCHANGED <<logRef, recovered>>
       \/ /\ r.type = "RangeDeletion"
          /\ DeleteRangeCF(r) /\ UNCHANGED <<logRef, recovered>>
       \/ /\ r.type = "Merge"
          /\ MergeCF(r) /\ UNCHANGED <<logRef, recovered>>
       \/ /\ r.type \in {"LogData", "Noop"}
          /\ Skip /\ UNCHANGED <<logRef, recovered>>
       \/ /\ r.type = "BeginPrepareXID"
          /\ MarkBeginPrepare /\ UNCHANGED <<logRef, recovered>>
       \/ /\ r.type = "EndPrepareXID"
          /\ MarkEndPrepare(r.a) /\ UNCHANGED logRef
       \/ /\ r.type = "CommitXID"
          /\ MarkCommit(r.a)
       \/ /\ r.type = "RollbackXID"
          /\ MarkRollback(r.a) /\ UNCHANGED logRef
  /\ UNCHANGED <<log, k, results>>

(***************************************************************************)
(* The end of one batch's Iterate, and InsertInto's loop.  A write group   *)
(* stops at the first writer whose status is not ok; otherwise the same    *)
(* inserter goes on with the next writer's log_ref.  In recovery each WAL  *)
(* record gets a fresh inserter at its header sequence, and replay stops   *)
(* at the first error; a rebuilding_trx_ left open by a record is dropped  *)
(* with its inserter.                                                      *)
(***************************************************************************)
BatchDone ==
  /\ Len(stack) = 1
  /\ ~Running(Top)
  /\ LET s == IterateResult(Top) IN
       /\ results' = Append(results, [st |-> s, failed |-> failed])
       /\ k' = k + 1
       /\ IF s = "OK" /\ k < Len(log)
          THEN /\ stack' = <<Frame(log[k + 1].recs, "")>>
               /\ failed' = FALSE
               /\ IF Recovering
                  THEN /\ sequence' = log[k + 1].seq
                       /\ rebuilding' = NoTrx
                       /\ logRef' = 0
                       /\ hasValid' = FALSE
                  ELSE /\ logRef' = log[k + 1].logRef
                       /\ UNCHANGED <<sequence, rebuilding, hasValid>>
          ELSE /\ stack' = <<>>
               /\ UNCHANGED <<sequence, rebuilding, logRef, hasValid, failed>>
  /\ UNCHANGED <<log, recovered, mem, prepRefs, flushMarked, flushQueue>>

Next == Dispatch \/ CommitReturn \/ BatchDone

Spec == Init /\ [][Next]_vars

-----------------------------------------------------------------------------
(***************************************************************************)
(* Properties                                                              *)
(***************************************************************************)
Records == [type : RecordTypes, cf : Nat, a : Seq(Nat), b : Seq(Nat)]

TypeOK ==
  /\ k \in 1..Len(log) + 1
  /\ \A i \in DOMAIN stack :
       /\ stack[i].pos \in 1..Len(stack[i].recs) + 1
       /\ stack[i].st \in Statuses
  /\ sequence \in Nat
  /\ rebuilding.on \in BOOLEAN /\ rebuilding.recs \in Seq(Records)
  /\ logRef \in Nat
  /\ hasValid \in BOOLEAN
  /\ \A x \in Xids : recovered[x].present \in BOOLEAN /\ recovered[x].recs \in Seq(Records)
  /\ mem \subseteq [cf : CFs, seq : Nat, type : CountedTypes, key : Seq(Nat)]
  /\ prepRefs \subseteq [cf : CFs, log : Nat]
  /\ flushMarked \subseteq CFs
  /\ \A i \in DOMAIN results : results[i].st \in Statuses
  /\ failed \in BOOLEAN

\* A memtable write made for a record of type t: the same type, or a Value
\* when a Merge was folded or a Put went through the in-place callback.
Folded(t, wt) == wt = t \/ (t = "Merge" /\ wt = "Value")

\* The records of the input, in order, and those Iterate has dispatched so
\* far from the outer frames.
GroupRecs == FlattenSeq([i \in 1..Len(log) |-> log[i].recs])
CountedRecs == SelectSeq(GroupRecs, LAMBDA r : r.type \in CountedTypes)
Dispatched ==
  FlattenSeq([i \in 1..k - 1 |-> log[i].recs])
  \o IF stack = <<>> THEN <<>> ELSE SubSeq(stack[1].recs, 1, stack[1].pos - 1)

\* Sequence linearity (spec section 8, law 7, with filtering): in a write
\* group the inserter's sequence_ is the group's first sequence plus the
\* counted records dispatched so far, while no callback has failed; and a
\* memtable write at sequence seq0 + i is the write of the group's i-th
\* counted record (its family, key and type), across writers and whatever
\* records before it were filtered out by a missing column family.
SeqLinearity ==
  ~Recovering =>
    /\ (stack # <<>> /\ Top.st = "OK") => sequence = log[1].seq + CountOf(Dispatched)
    /\ \A w \in mem :
         LET i == w.seq - log[1].seq + 1 IN
           /\ i \in 1..Len(CountedRecs)
           /\ CountedRecs[i].cf = w.cf
           /\ CountedRecs[i].a = w.key
           /\ Folded(CountedRecs[i].type, w.type)

\* Error propagation (spec section 7): InsertInto returns an error for every
\* batch in which a MemTableInserter callback returned one.
ErrorsPropagate == \A i \in DOMAIN results : results[i].failed => results[i].st # "OK"

\* The records of batch i that Iterate has dispatched so far.
Seen(i) ==
  IF i < k THEN log[i].recs
  ELSE IF i = k /\ stack # <<>> THEN SubSeq(stack[1].recs, 1, stack[1].pos - 1)
  ELSE <<>>

\* Positions [i, e] of the dispatched markers of transaction x, of the given
\* types, and the latest of them.
Marks(x, types) ==
  {p \in UNION {{[i |-> i, e |-> e] : e \in DOMAIN Seen(i)} : i \in DOMAIN log} :
     Seen(p.i)[p.e].type \in types /\ Seen(p.i)[p.e].a = x}
Before(p, q) == p.i < q.i \/ (p.i = q.i /\ p.e < q.e)
LatestOf(ps) == CHOOSE p \in ps : \A q \in ps : ~Before(p, q)

\* The counted records of the prepare section that ends at [i, e]: those
\* after the nearest begin marker before it in the same batch.
SectionRecs(p) ==
  LET recs == Seen(p.i)
      b == LatestOf({[i |-> p.i, e |-> j] : j \in {j \in 1..p.e : recs[j].type = "BeginPrepareXID"}}).e
  IN SelectSeq(SubSeq(recs, b + 1, p.e - 1), LAMBDA r : r.type \in CountedTypes)

\* Prepare reconstruction (spec section 8, law 8, first half): during
\* recovery the recovered-transaction table holds x exactly when the last
\* marker of x replayed is its end-prepare, or a commit whose replay of the
\* transaction failed; and what it holds is the counted records of x's
\* latest prepare section, with the number of the log that section is in.
PreparedRebuilt ==
  Recovering =>
    \A x \in Xids :
      LET ends == Marks(x, {"EndPrepareXID"})
          all == Marks(x, {"EndPrepareXID", "CommitXID", "RollbackXID"})
      IN /\ recovered[x].present =>
              /\ ends # {}
              /\ recovered[x].recs = SectionRecs(LatestOf(ends))
              /\ recovered[x].log = log[LatestOf(ends).i].log
              /\ Seen(LatestOf(all).i)[LatestOf(all).e].type # "RollbackXID"
         /\ (all # {} /\ Seen(LatestOf(all).i)[LatestOf(all).e].type = "EndPrepareXID")
              => recovered[x].present

\* Commit replay (law 8, second half): when MarkCommit's nested Iterate
\* over a recovered transaction returns ok, each of its records whose
\* family is not cut off has been written, at the sequence number its
\* position in the transaction gives after the commit's own position, to
\* a memtable that references the log of the prepare section; and the
\* transaction has left the table.
CommitApplied ==
  [][CommitReturn /\ IterateResult(Top) = "OK" =>
       /\ recovered'[Top.xid] = Absent
       /\ \A i \in DOMAIN Top.recs :
            LET r == Top.recs[i] IN
              SeekFound(r.cf) =>
                /\ \E w \in mem :
                     /\ w.seq = sequence - CountOf(Top.recs) + CountOf(SubSeq(Top.recs, 1, i - 1))
                     /\ w.cf = r.cf /\ w.key = r.a /\ w.type = r.type
                /\ [cf |-> r.cf, log |-> recovered[Top.xid].log] \in prepRefs]_vars

\* The per-record rule of spec section 4.5: dispatching a counted record
\* that succeeds advances the inserter's sequence by exactly one, whether
\* the record was written, filtered or buffered into a rebuilt transaction.
SeqPerCountedRecord ==
  [][(Dispatch /\ Top.recs[Top.pos].type \in CountedTypes /\ stack'[Len(stack)].st = "OK")
       => sequence' = sequence + 1]_vars

=============================================================================
