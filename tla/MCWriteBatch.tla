----------------------------- MODULE MCWriteBatch -----------------------------
(***************************************************************************)
(* Model-checking instance of WriteBatch: two batch objects, column        *)
(* families 0 and 1 (the plain and the CF tag encodings), one key "k", one *)
(* value "v", one xid "x", and a byte limit that a third or fourth record  *)
(* crosses.                                                                *)
(***************************************************************************)
EXTENDS WriteBatch, TLC

MCKeys   == {<<107>>}   \* "k"
MCValues == {<<118>>}   \* "v"
MCXids   == {<<120>>}   \* "x"

\* Serialized batches the from-bytes constructor may be given: one Put on
\* the default column family, and a Delete on column family 1.
MCInitPayloads ==
  { [payload |-> EncodeRecords(<<Rec("Value", 0, <<107>>, <<118>>)>>), count |-> 1],
    [payload |-> EncodeRecords(<<Rec("Deletion", 1, <<107>>, <<>>)>>), count |-> 1] }

\* Bounds of the state space: payload bytes per batch and save points per
\* stack.
CONSTANTS MaxPayload, MaxSavePoints

StateBound ==
  /\ \A b \in Batches : Len(rep[b]) <= MaxPayload
  /\ \A i \in StackIds : Len(heap[i]) <= MaxSavePoints

\* Batch objects are interchangeable, and so are heap addresses.
Symmetry == Permutations(Batches) \cup Permutations(StackIds)
=============================================================================
