------------------------ MODULE MCConcurrentInserters ------------------------
(***************************************************************************)
(* Model-checking instance of ConcurrentInserters: two writers, families  *)
(* 0 and 1 existing and 2 missing, one key.  Each writer's batch is one   *)
(* of the small batches below; the memtable asks for a flush at its       *)
(* second write, so both writers can see the request.                     *)
(***************************************************************************)
EXTENDS ConcurrentInserters

K == <<107>>   \* "k"
V == <<118>>   \* "v"

Put(cf)      == Rec("Value", cf, K, V)
Del(cf)      == Rec("Deletion", cf, K, <<>>)
SDel(cf)     == Rec("SingleDeletion", cf, K, <<>>)
DelRange(cf) == Rec("RangeDeletion", cf, K, V)
LogData      == Rec("LogData", 0, V, <<>>)
Noop         == Rec("Noop", 0, <<>>, <<>>)

MCBatchChoices ==
  { <<Put(0), Del(0)>>,
    <<Put(2), Put(0)>>,        \* a missing family first
    <<Del(1), DelRange(1)>>,   \* DeleteRange refused on family 1
    <<Noop, SDel(0), LogData>> }
=============================================================================
