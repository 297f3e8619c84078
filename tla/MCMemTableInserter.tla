------------------------- MODULE MCMemTableInserter -------------------------
(***************************************************************************)
(* Model-checking instance of MemTableInserter: column families 0 and 1   *)
(* exist and 2 does not, one key "k", one transaction "x".  The inputs     *)
(* are every write group of one or two writers, and every WAL of two or    *)
(* three records, drawn from the small batches below.                      *)
(***************************************************************************)
EXTENDS MemTableInserter

K == <<107>>   \* "k"
V == <<118>>   \* "v"
X == <<120>>   \* "x"

Put(cf)      == Rec("Value", cf, K, V)
Del(cf)      == Rec("Deletion", cf, K, <<>>)
SDel(cf)     == Rec("SingleDeletion", cf, K, <<>>)
DelRange(cf) == Rec("RangeDeletion", cf, K, V)
Mrg(cf)      == Rec("Merge", cf, K, V)
LogData      == Rec("LogData", 0, V, <<>>)
Noop         == Rec("Noop", 0, <<>>, <<>>)
Begin        == Rec("BeginPrepareXID", 0, <<>>, <<>>)
End          == Rec("EndPrepareXID", 0, X, <<>>)
Commit       == Rec("CommitXID", 0, X, <<>>)
Rollback     == Rec("RollbackXID", 0, X, <<>>)

(***************************************************************************)
(* Write groups.  A writer carries its batch and its log_ref, which is     *)
(* non-zero for a prepared transaction's batch.                            *)
(***************************************************************************)
Writer(recs, ref) == [log |-> 0, seq |-> 100, logRef |-> ref, recs |-> recs]

GroupBatches ==
  { Writer(<<Mrg(0), Mrg(0), Mrg(0)>>, 0),              \* reaches merge folding
    Writer(<<Put(2), Put(0), Del(1)>>, 0),               \* a missing family first
    Writer(<<Begin, Put(1), End>>, 7),                   \* prepared, inserted directly
    Writer(<<SDel(0), LogData, Noop, DelRange(1)>>, 0),  \* DeleteRange refused on 1
    Writer(<<DelRange(0), Commit, Rollback, Put(0)>>, 0) }

GroupLogs == {<<w>> : w \in GroupBatches} \cup {<<v, w>> : v, w \in GroupBatches}

(***************************************************************************)
(* WAL records in logs 5 and 6.  Header sequences are those the writes    *)
(* were given: a commit record's batch, as written to the memtable, also   *)
(* held the transaction's records, so the next record's sequence is past   *)
(* them.  Family 1 has log number 6: records of log 5 on it are cut off.   *)
(***************************************************************************)
Wal(lg, seq, recs) == [log |-> lg, seq |-> seq, logRef |-> 0, recs |-> recs]

Prepare5  == Wal(5, 10, <<Put(0), Begin, Put(0), Del(1), End>>)
Commit6   == Wal(6, 11, <<Commit, Put(1)>>)
Rollback6 == Wal(6, 11, <<Rollback, Del(0)>>)
Prepare6  == Wal(6, 14, <<Begin, Mrg(1), End, Put(0)>>)
Plain5    == Wal(5, 10, <<Del(1), Put(0)>>)
Missing5  == Wal(5, 10, <<Put(2), Put(0)>>)   \* a family that no longer exists

RecoveryLogs ==
  { <<Prepare5, Commit6>>, <<Prepare5, Rollback6>>, <<Prepare5, Commit6, Prepare6>>,
    <<Prepare5, Prepare6, Commit6>>, <<Plain5, Commit6>>, <<Prepare5, Rollback6, Commit6>>,
    <<Prepare5, Commit6, Commit6>>, <<Prepare5, Prepare6>>, <<Missing5, Commit6>> }

MCXids == {X}

MCCFLogNumber == [c \in {0, 1} |-> IF c = 1 THEN 6 ELSE 0]
=============================================================================
