--------------------------- MODULE DBMutexRecovery ---------------------------
(***************************************************************************)
(* The DB mutex (an InstrumentedMutex) around WAL recovery, composed with  *)
(* the merge folding of MemTableInserter::MergeCF.                         *)
(*                                                                         *)
(* DB::Open locks the DB mutex and recovers the WAL with InsertInto(...,   *)
(* log_number, db, ...) while holding it, then unlocks.  A merge fold     *)
(* calls db_->Get, which takes the DB mutex; the mutex is not recursive,   *)
(* so a fold during recovery would wait on its own thread (write_batch.cc  *)
(* 1232-1238).  The first write after Open returns folds merges with the   *)
(* mutex free.  The DB side (Open holding the mutex, Get taking it) is not *)
(* under src/ and is modelled from that comment of the code.              *)
(*                                                                         *)
(* The memtable is reduced to the entries of one key, oldest first: the    *)
(* fold decision depends only on the merges at its head.                  *)
(***************************************************************************)
EXTENDS Integers, Sequences, InstrumentedMutex

CONSTANTS
  Recoverer,            \* the thread in DB::Open
  Writer,               \* the first writer after Open returns
  WalRecords,           \* record types of the recovered WAL: "Put", "Merge"
  WriterRecords,        \* record types of the writer's batch
  RecoveryLogNumber,    \* the log number recovery gives InsertInto (> 0)
  MaxSuccessiveMerges   \* moptions->max_successive_merges

VARIABLES
  pc,       \* pc[t]: where thread t is in its program
  idx,      \* idx[t]: the next record of t's batch
  head      \* the key's memtable entries, "Value" or "Merge", oldest first

vars == <<pc, idx, head, mutexVars>>

Records(t) == IF t = Recoverer THEN WalRecords ELSE WriterRecords

\* recovering_log_number_ of the inserter thread t runs.
LogOf(t) == IF t = Recoverer THEN RecoveryLogNumber ELSE 0

\* mem->CountSuccessiveMergeEntries(lkey): the merges at the key's head.
SuccessiveMerges ==
  CHOOSE k \in 0..Len(head) :
    /\ \A i \in Len(head) - k + 1..Len(head) : head[i] = "Merge"
    /\ k < Len(head) => head[Len(head) - k] # "Merge"

\* Mutant: the fold guard without recovering_log_number_ == 0.
PerformMergeInRecovery(t) ==
  MaxSuccessiveMerges > 0 /\ SuccessiveMerges >= MaxSuccessiveMerges

\* MergeCF's perform_merge (db_ is the DB in both callers).
PerformMerge(t) ==
  /\ MaxSuccessiveMerges > 0
  /\ LogOf(t) = 0
  /\ SuccessiveMerges >= MaxSuccessiveMerges

Init ==
  /\ MutexInit
  /\ pc = [t \in Threads |-> IF t = Writer THEN "start" ELSE "lock"]
  /\ idx = [t \in Threads |-> 1]
  /\ head = <<>>

\* Mutant: the record's tag stored as the memtable entry's type.
InsertRecordRawType(t) ==
  /\ pc[t] = "insert"
  /\ idx[t] <= Len(Records(t))
  /\ IF Records(t)[idx[t]] = "Merge" /\ PerformMerge(t)
     THEN /\ pc' = [pc EXCEPT ![t] = "get"]
          /\ UNCHANGED <<idx, head>>
     ELSE /\ head' = Append(head, Records(t)[idx[t]])
          /\ idx' = [idx EXCEPT ![t] = @ + 1]
          /\ UNCHANGED pc
  /\ UNCHANGED mutexVars

(***************************************************************************)
(* The inserter: one record of thread t's batch.  PutCF adds a Value;     *)
(* MergeCF adds the operand, or, when it folds, first calls db_->Get.     *)
(***************************************************************************)
InsertRecord(t) ==
  /\ pc[t] = "insert"
  /\ idx[t] <= Len(Records(t))
  /\ IF Records(t)[idx[t]] = "Merge" /\ PerformMerge(t)
     THEN /\ pc' = [pc EXCEPT ![t] = "get"]
          /\ UNCHANGED <<idx, head>>
     ELSE /\ head' = Append(head, IF Records(t)[idx[t]] = "Put" THEN "Value" ELSE "Merge")
          /\ idx' = [idx EXCEPT ![t] = @ + 1]
          /\ UNCHANGED pc
  /\ UNCHANGED mutexVars

\* db_->Get takes the DB mutex.
GetLock(t) ==
  /\ pc[t] = "get"
  /\ Lock(t)
  /\ pc' = [pc EXCEPT ![t] = "got"]
  /\ UNCHANGED <<idx, head>>

\* Get releases the mutex and returns; TimedFullMerge either succeeds and
\* the folded Value is added, or fails and the operand is added.
GetReturn(t) ==
  /\ pc[t] = "got"
  /\ Unlock(t)
  /\ \E added \in {"Value", "Merge"} : head' = Append(head, added)
  /\ idx' = [idx EXCEPT ![t] = @ + 1]
  /\ pc' = [pc EXCEPT ![t] = "insert"]

\* DB::Open locks the DB mutex before recovering.
Acquire(t) ==
  /\ pc[t] = "lock"
  /\ Lock(t)
  /\ pc' = [pc EXCEPT ![t] = "insert"]
  /\ UNCHANGED <<idx, head>>

\* The WAL is replayed; Open goes on to release the mutex.
FinishRecovery ==
  /\ pc[Recoverer] = "insert"
  /\ idx[Recoverer] > Len(WalRecords)
  /\ pc' = [pc EXCEPT ![Recoverer] = "unlock"]
  /\ UNCHANGED <<idx, head, mutexVars>>

Release(t) ==
  /\ pc[t] = "unlock"
  /\ Unlock(t)
  /\ pc' = [pc EXCEPT ![t] = "done"]
  /\ UNCHANGED <<idx, head>>

\* The first write starts once Open has returned; it holds no mutex while
\* it inserts, and returns when its batch is done.
WriterStart ==
  /\ pc[Writer] = "start"
  /\ pc[Recoverer] = "done"
  /\ pc' = [pc EXCEPT ![Writer] = "insert"]
  /\ UNCHANGED <<idx, head, mutexVars>>

WriterDone ==
  /\ pc[Writer] = "insert"
  /\ idx[Writer] > Len(WriterRecords)
  /\ pc' = [pc EXCEPT ![Writer] = "done"]
  /\ UNCHANGED <<idx, head, mutexVars>>

Step(t) ==
  \/ Acquire(t) \/ InsertRecord(t) \/ GetLock(t) \/ GetReturn(t) \/ Release(t)
  \/ t = Recoverer /\ FinishRecovery
  \/ t = Writer /\ (WriterStart \/ WriterDone)

Next == \E t \in Threads : Step(t)

\* Each thread runs until its program ends; pthread mutexes promise no
\* fairness, but every other thread releases the mutex after finitely many
\* steps, so a thread waiting for it is eventually continuously enabled.
Fairness == \A t \in Threads : WF_vars(Step(t))

Spec == Init /\ [][Next]_vars /\ Fairness

-----------------------------------------------------------------------------
TypeOK ==
  /\ owner \in Threads \cup {NoThread}
  /\ pc \in [Threads -> {"start", "lock", "insert", "get", "got", "unlock", "done"}]
  /\ head \in Seq({"Value", "Merge"})
  /\ statsLevel \in StatsLevelChoices
  /\ ticks \in Nat /\ acquired \in Nat

\* instrumented_mutex.cc with statistics.h's levels: every Lock of the DB
\* mutex that has returned, Open's and the writer's fold's alike, has
\* recorded exactly one DB_MUTEX_WAIT_MICROS tick at level kAll, and none
\* has been recorded at kExceptTimeForMutex or below.
MutexWaitsRecorded ==
  ticks = IF statsLevel = "kAll" /\ EnvAndStats THEN acquired ELSE 0

\* Recovery while the DB mutex is held never waits on that mutex from
\* inside a merge fold (write_batch.cc 1232-1238), and every thread's
\* program ends: Open returns and the first write, whose fold does take
\* the mutex, completes.
AllThreadsFinish ==
  <>(\A t \in Threads : pc[t] = "done")
=============================================================================
