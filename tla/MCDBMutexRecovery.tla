------------------------- MODULE MCDBMutexRecovery -------------------------
(***************************************************************************)
(* Model-checking instance of DBMutexRecovery: the WAL holds a Put and     *)
(* four merges of one key, so with max_successive_merges = 2 a fold would  *)
(* be decided at the third and fourth merge; the first write after Open is *)
(* four more merges, whose folds take the mutex and end in a Value or,     *)
(* when the full merge fails, in one more operand.  The stats level is    *)
(* each of the three.                                                      *)
(***************************************************************************)
EXTENDS DBMutexRecovery

MCWalRecords == <<"Put", "Merge", "Merge", "Merge", "Merge">>
MCWriterRecords == <<"Merge", "Merge", "Merge", "Merge">>
=============================================================================
