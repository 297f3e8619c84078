------------------------------ MODULE WriteBatch ------------------------------
(***************************************************************************)
(* The WriteBatch class of db/write_batch.cc: the payload bytes of rep_,   *)
(* the header count, content_flags_, the save_points_ pointer and the      *)
(* stack it points to, wal_term_point_ and max_bytes_, for a fixed set of  *)
(* batch objects.  Every public and WriteBatchInternal operation that      *)
(* changes a batch is one action.                                          *)
(*                                                                         *)
(* save_points_ is a raw pointer to a heap-allocated SavePoints: the heap  *)
(* is modelled (stack contents per id, the set of allocated ids) so that   *)
(* the copy and move constructors, which copy the pointer, are faithful.   *)
(***************************************************************************)
EXTENDS Integers, Sequences, WriteBatchCodec

CONSTANTS Batches,        \* batch objects
          CFs,            \* column family ids used by the appends
          Keys, Values,   \* Slices used as keys / values / blobs
          Xids,           \* transaction names
          MaxBytes,       \* max_bytes_ given to the (reserved, max) constructor
          StackIds,       \* heap addresses available for SavePoints objects
          NULL,           \* the null pointer
          InitPayloads,   \* [payload, count] a batch may be constructed from
          GarbageBytes,   \* bytes an out-of-bounds read may return
          \* Caller disciplines the code relies on but does not enforce:
          WalTermRespected,         \* no rollback below, and no prepare
                                    \* rewrite after, a WAL termination point
          CopiesWithoutSavePoints,  \* a batch is copied/moved only while its
                                    \* save_points_ is null
          SetContentsOnFresh,       \* SetContents is given a batch without
                                    \* save points or WAL termination point
          EndPrepareOnNoop          \* MarkEndPrepare is given a batch whose
                                    \* first record is a Noop (an assert,
                                    \* so checked in debug builds only)

VARIABLES rep,        \* rep[b]: payload bytes of rep_ after the header
          count,      \* count[b]: header count (rep_ bytes 8..11)
          flags,      \* flags[b]: content_flags_ as a set of ContentFlags
          sp,         \* sp[b]: save_points_ (a StackId or NULL)
          heap,       \* heap[id]: the stack of SavePoint at address id
          allocated,  \* addresses currently allocated
          walterm,    \* walterm[b]: wal_term_point_
          maxBytes,   \* maxBytes[b]: max_bytes_
          movedFrom   \* movedFrom[b]: b is the source of a completed move

vars == <<rep, count, flags, sp, heap, allocated, walterm, maxBytes, movedFrom>>

SavePoint(size, cnt, fl) == [size |-> size, count |-> cnt, flags |-> fl]
Cleared == SavePoint(0, 0, {})            \* SavePoint::clear / is_cleared

GetDataSize(b) == Header + Len(rep[b])
Count(b) == count[b]
Live(b) == ~movedFrom[b]

TypeOK ==
  /\ rep \in [Batches -> Seq(0..255)]
  /\ count \in [Batches -> Nat]
  /\ flags \in [Batches -> SUBSET ContentFlags]
  /\ sp \in [Batches -> StackIds \cup {NULL}]
  /\ heap \in [StackIds -> Seq([size : Nat, count : Nat, flags : SUBSET ContentFlags])]
  /\ allocated \subseteq StackIds
  /\ walterm \in [Batches -> [size : Nat, count : Nat, flags : SUBSET ContentFlags]]
  /\ maxBytes \in [Batches -> Nat]
  /\ movedFrom \in [Batches -> BOOLEAN]

(***************************************************************************)
(* Constructors: WriteBatch(reserved_bytes, max_bytes) gives a header-only *)
(* batch; WriteBatch(const std::string &rep) takes serialized bytes, marks *)
(* the contents DEFERRED and has no byte limit.                            *)
(***************************************************************************)
Init ==
  /\ \E empty \in SUBSET Batches :
     \E from \in [Batches \ empty -> InitPayloads] :
       /\ rep = [b \in Batches |-> IF b \in empty THEN <<>> ELSE from[b].payload]
       /\ count = [b \in Batches |-> IF b \in empty THEN 0 ELSE from[b].count]
       /\ flags = [b \in Batches |-> IF b \in empty THEN {} ELSE {"DEFERRED"}]
       /\ maxBytes = [b \in Batches |-> IF b \in empty THEN MaxBytes ELSE 0]
  /\ sp = [b \in Batches |-> NULL]
  /\ heap = [i \in StackIds |-> <<>>]
  /\ allocated = {}
  /\ walterm = [b \in Batches |-> Cleared]
  /\ movedFrom = [b \in Batches |-> FALSE]

(***************************************************************************)
(* LocalSavePoint (db/write_batch_internal.h): the state captured on entry *)
(* to an append, and commit(), which undoes the append when the batch has  *)
(* grown past max_bytes_: resize rep_ back, restore count and flags.       *)
(***************************************************************************)
LocalSavePointCommit(b, saved, newRep, newCount, newFlags) ==
  IF maxBytes[b] > 0 /\ Header + Len(newRep) > maxBytes[b]
  THEN /\ rep' = [rep EXCEPT ![b] = SubSeq(newRep, 1, saved.size - Header)]
       /\ count' = [count EXCEPT ![b] = saved.count]
       /\ flags' = [flags EXCEPT ![b] = saved.flags]
  ELSE /\ rep' = [rep EXCEPT ![b] = newRep]
       /\ count' = [count EXCEPT ![b] = newCount]
       /\ flags' = [flags EXCEPT ![b] = newFlags]

\* The common body of WriteBatchInternal::Put / Delete / SingleDelete /
\* DeleteRange / Merge: count + 1, tag (CF tag and varint id when cf # 0),
\* length-prefixed fields, OR in the type's flag, then commit.
CountedAppend(b, r) ==
  /\ Live(b)
  /\ LocalSavePointCommit(b, SavePoint(GetDataSize(b), count[b], flags[b]),
                          rep[b] \o EncodeRecord(r), count[b] + 1,
                          flags[b] \cup {FlagOf[r.type]})
  /\ UNCHANGED <<sp, heap, allocated, walterm, maxBytes, movedFrom>>

Put(b, cf, k, v)          == CountedAppend(b, Rec("Value", cf, k, v))
Delete(b, cf, k)          == CountedAppend(b, Rec("Deletion", cf, k, <<>>))
SingleDelete(b, cf, k)    == CountedAppend(b, Rec("SingleDeletion", cf, k, <<>>))
DeleteRange(b, cf, k, e)  == CountedAppend(b, Rec("RangeDeletion", cf, k, e))
Merge(b, cf, k, v)        == CountedAppend(b, Rec("Merge", cf, k, v))

\* PutLogData: an uncounted LogData record, under the same LocalSavePoint.
PutLogData(b, blob) ==
  /\ Live(b)
  /\ LocalSavePointCommit(b, SavePoint(GetDataSize(b), count[b], flags[b]),
                          rep[b] \o EncodeRecord(Rec("LogData", 0, blob, <<>>)),
                          count[b], flags[b])
  /\ UNCHANGED <<sp, heap, allocated, walterm, maxBytes, movedFrom>>

\* InsertNoop: one Noop tag byte, no limit check, no flag.
InsertNoop(b) ==
  /\ Live(b)
  /\ rep' = [rep EXCEPT ![b] = Append(@, NoopByte)]
  /\ UNCHANGED <<count, flags, sp, heap, allocated, walterm, maxBytes, movedFrom>>

\* Pop every entry of the save-point stack, if there is one (Clear and
\* MarkEndPrepare); ClearSavePointsNoop is a faulty variant that leaves it.
ClearSavePointsNoop(b) == heap' = heap

ClearSavePoints(b) ==
  heap' = IF sp[b] # NULL THEN [heap EXCEPT ![sp[b]] = <<>>] ELSE heap

\* MarkEndPrepareNoAssert: a release build, where the assert on rep_[12]
\* is compiled out and any first record's tag is rewritten.
MarkEndPrepareNoAssert(b, xid) ==
  /\ Live(b)
  /\ rep[b] # <<>>
  /\ WalTermRespected => walterm[b] = Cleared
  /\ ClearSavePoints(b)
  /\ rep' = [rep EXCEPT ![b] = [@ EXCEPT ![1] = BeginPrepareByte]
                               \o EncodeRecord(Rec("EndPrepareXID", 0, xid, <<>>))]
  /\ flags' = [flags EXCEPT ![b] = @ \cup {"HAS_END_PREPARE", "HAS_BEGIN_PREPARE"}]
  /\ UNCHANGED <<count, sp, allocated, walterm, maxBytes, movedFrom>>

\* MarkEndPrepare: asserts rep_[12] is Noop; pops every save point;
\* rewrites rep_[12] to BeginPrepareXID and appends EndPrepareXID + xid.
\* Without the assertion any first record's tag is rewritten; on a batch
\* with no record rep_[12] is past the end of rep_, which is not modelled.
MarkEndPrepare(b, xid) ==
  /\ Live(b)
  /\ rep[b] # <<>>
  /\ EndPrepareOnNoop => rep[b][1] = NoopByte
  /\ WalTermRespected => walterm[b] = Cleared
  /\ ClearSavePoints(b)
  /\ rep' = [rep EXCEPT ![b] = [@ EXCEPT ![1] = BeginPrepareByte]
                               \o EncodeRecord(Rec("EndPrepareXID", 0, xid, <<>>))]
  /\ flags' = [flags EXCEPT ![b] = @ \cup {"HAS_END_PREPARE", "HAS_BEGIN_PREPARE"}]
  /\ UNCHANGED <<count, sp, allocated, walterm, maxBytes, movedFrom>>

\* MarkCommit / MarkRollback: tag + length-prefixed xid, no limit check.
MarkCommit(b, xid) ==
  /\ Live(b)
  /\ rep' = [rep EXCEPT ![b] = @ \o EncodeRecord(Rec("CommitXID", 0, xid, <<>>))]
  /\ flags' = [flags EXCEPT ![b] = @ \cup {"HAS_COMMIT"}]
  /\ UNCHANGED <<count, sp, heap, allocated, walterm, maxBytes, movedFrom>>

MarkRollback(b, xid) ==
  /\ Live(b)
  /\ rep' = [rep EXCEPT ![b] = @ \o EncodeRecord(Rec("RollbackXID", 0, xid, <<>>))]
  /\ flags' = [flags EXCEPT ![b] = @ \cup {"HAS_ROLLBACK"}]
  /\ UNCHANGED <<count, sp, heap, allocated, walterm, maxBytes, movedFrom>>

(***************************************************************************)
(* Save points.  SetSavePoint allocates the SavePoints object on first use *)
(* and pushes (GetDataSize, Count, content_flags).                         *)
(***************************************************************************)
SetSavePoint(b) ==
  /\ Live(b)
  /\ \E id \in IF sp[b] = NULL THEN StackIds \ allocated ELSE {sp[b]} :
       /\ sp' = [sp EXCEPT ![b] = id]
       /\ allocated' = allocated \cup {id}
       /\ heap' = [heap EXCEPT ![id] = Append(IF sp[b] = NULL THEN <<>> ELSE @,
                                             SavePoint(GetDataSize(b), count[b], flags[b]))]
  /\ UNCHANGED <<rep, count, flags, walterm, maxBytes, movedFrom>>

\* std::string::resize: truncate, or extend with zero bytes.
Resize(s, n) == IF n <= Len(s) THEN SubSeq(s, 1, n) ELSE s \o [i \in 1..(n - Len(s)) |-> 0]

\* WriteBatch::Clear: header only, flags 0, pop every save point, clear the
\* WAL termination point.  The header is zeroed, so count becomes 0.
\* ClearStateKeepWalTerm is a faulty variant that leaves wal_term_point_.
ClearStateKeepWalTerm(b) ==
  /\ rep' = [rep EXCEPT ![b] = <<>>]
  /\ count' = [count EXCEPT ![b] = 0]
  /\ flags' = [flags EXCEPT ![b] = {}]
  /\ ClearSavePoints(b)
  /\ UNCHANGED walterm

ClearState(b) ==
  /\ rep' = [rep EXCEPT ![b] = <<>>]
  /\ count' = [count EXCEPT ![b] = 0]
  /\ flags' = [flags EXCEPT ![b] = {}]
  /\ ClearSavePoints(b)
  /\ walterm' = [walterm EXCEPT ![b] = Cleared]

Clear(b) ==
  /\ Live(b)
  /\ ClearState(b)
  /\ UNCHANGED <<sp, allocated, maxBytes, movedFrom>>

\* The restore at the end of RollbackToSavePoint: truncate rep_ to the save
\* point's size and restore count and flags.  Two faulty variants: one
\* restores one less than the saved count, one leaves the current flags.
RestoreSavePointOffByOne(b, top) ==
  /\ rep' = [rep EXCEPT ![b] = Resize(@, top.size - Header)]
  /\ count' = [count EXCEPT ![b] = top.count - 1]
  /\ flags' = [flags EXCEPT ![b] = top.flags]

RestoreSavePointNoFlags(b, top) ==
  /\ rep' = [rep EXCEPT ![b] = Resize(@, top.size - Header)]
  /\ count' = [count EXCEPT ![b] = top.count]
  /\ UNCHANGED flags

RestoreSavePoint(b, top) ==
  /\ rep' = [rep EXCEPT ![b] = Resize(@, top.size - Header)]
  /\ count' = [count EXCEPT ![b] = top.count]
  /\ flags' = [flags EXCEPT ![b] = top.flags]

\* RollbackToSavePoint: NotFound (no change) without a save point; else pop
\* the top and restore size, count and flags, unless the size is unchanged.
RollbackToSavePoint(b) ==
  /\ Live(b)
  /\ sp[b] # NULL /\ heap[sp[b]] # <<>>
  /\ LET top == Last(heap[sp[b]])
         popped == [heap EXCEPT ![sp[b]] = Front(@)]
     IN /\ WalTermRespected => walterm[b] = Cleared \/ top.size >= walterm[b].size
        /\ IF top.size = GetDataSize(b)
           THEN /\ heap' = popped
                /\ UNCHANGED <<rep, count, flags, walterm>>
           ELSE IF top.size = 0
           THEN ClearState(b)
           ELSE /\ heap' = popped
                /\ RestoreSavePoint(b, top)
                /\ UNCHANGED walterm
  /\ UNCHANGED <<sp, allocated, maxBytes, movedFrom>>

PopSavePoint(b) ==
  /\ Live(b)
  /\ sp[b] # NULL /\ heap[sp[b]] # <<>>
  /\ heap' = [heap EXCEPT ![sp[b]] = Front(@)]
  /\ UNCHANGED <<rep, count, flags, sp, allocated, walterm, maxBytes, movedFrom>>

MarkWalTerminationPoint(b) ==
  /\ Live(b)
  /\ walterm' = [walterm EXCEPT ![b] = SavePoint(GetDataSize(b), count[b], flags[b])]
  /\ UNCHANGED <<rep, count, flags, sp, heap, allocated, maxBytes, movedFrom>>

\* ComputeContentFlags (behind HasPut, HasDelete, ...): when DEFERRED, run
\* the classifier over the batch and store what it collected.
ComputeContentFlags(b) ==
  /\ Live(b)
  /\ "DEFERRED" \in flags[b]
  /\ flags' = [flags EXCEPT ![b] = Classify(Iterate(rep[b], count[b]).recs)]
  /\ UNCHANGED <<rep, count, sp, heap, allocated, walterm, maxBytes, movedFrom>>

(***************************************************************************)
(* WriteBatchInternal::Append(dst, src, wal_only): add src's count, copy   *)
(* src_len payload bytes from just after src's header, OR in src's flags;  *)
(* with wal_only and a WAL termination point, the three come from it.      *)
(* Reading past the end of src's rep_ returns whatever bytes lie there.    *)
(***************************************************************************)
AppendBatch(dst, src, wal_only) ==
  /\ Live(dst) /\ Live(src)
  /\ LET useTerm == wal_only /\ walterm[src] # Cleared
         src_len == IF useTerm THEN walterm[src].size - Header ELSE Len(rep[src])
         src_count == IF useTerm THEN walterm[src].count ELSE count[src]
         src_flags == IF useTerm THEN walterm[src].flags ELSE flags[src]
         inBounds == SubSeq(rep[src], 1, IF src_len <= Len(rep[src]) THEN src_len ELSE Len(rep[src]))
     IN \E junk \in [1..(src_len - Len(inBounds)) -> GarbageBytes] :
          /\ count' = [count EXCEPT ![dst] = @ + src_count]
          /\ rep' = [rep EXCEPT ![dst] = @ \o inBounds \o junk]
          /\ flags' = [flags EXCEPT ![dst] = @ \cup src_flags]
  /\ UNCHANGED <<sp, heap, allocated, walterm, maxBytes, movedFrom>>

\* AppendedByteSize: the size of a batch made by appending two batches.
AppendedByteSize(left, right) ==
  IF left = 0 \/ right = 0 THEN left + right ELSE left + right - Header

\* SetContentsOnAnyBatch: SetContents called on a batch that still has
\* save points or a WAL termination point taken on its old contents.
SetContentsOnAnyBatch(b, contents) ==
  /\ Live(b)
  /\ rep' = [rep EXCEPT ![b] = contents.payload]
  /\ count' = [count EXCEPT ![b] = contents.count]
  /\ flags' = [flags EXCEPT ![b] = {"DEFERRED"}]
  /\ UNCHANGED <<sp, heap, allocated, walterm, maxBytes, movedFrom>>

\* WriteBatchInternal::SetContents: rep_ becomes the given serialized batch
\* and the contents DEFERRED; save points, the WAL termination point and
\* max_bytes_ are left as they were.
SetContents(b, contents) ==
  /\ Live(b)
  /\ SetContentsOnFresh => /\ sp[b] # NULL => heap[sp[b]] = <<>>
                           /\ walterm[b] = Cleared
  /\ rep' = [rep EXCEPT ![b] = contents.payload]
  /\ count' = [count EXCEPT ![b] = contents.count]
  /\ flags' = [flags EXCEPT ![b] = {"DEFERRED"}]
  /\ UNCHANGED <<sp, heap, allocated, walterm, maxBytes, movedFrom>>

(***************************************************************************)
(* Copy and move assignment: destroy dst (delete save_points_), then the   *)
(* copy or move constructor, which copies the save_points_ pointer.  A     *)
(* moved-from rep_ is empty; the object is then only ever assigned to.     *)
(***************************************************************************)
\* AssignFromNoWalTerm is a faulty variant whose constructor does not copy
\* wal_term_point_.
AssignFromNoWalTerm(dst, src) ==
  /\ dst # src
  /\ Live(src)
  /\ CopiesWithoutSavePoints => sp[src] = NULL
  /\ allocated' = IF sp[dst] # NULL THEN allocated \ {sp[dst]} ELSE allocated
  /\ sp' = [sp EXCEPT ![dst] = sp[src]]
  /\ UNCHANGED walterm
  /\ flags' = [flags EXCEPT ![dst] = flags[src]]
  /\ maxBytes' = [maxBytes EXCEPT ![dst] = maxBytes[src]]
  /\ rep' = [rep EXCEPT ![dst] = rep[src]]
  /\ count' = [count EXCEPT ![dst] = count[src]]
  /\ heap' = IF sp[dst] # NULL THEN [heap EXCEPT ![sp[dst]] = <<>>] ELSE heap

AssignFrom(dst, src) ==
  /\ dst # src
  /\ Live(src)
  /\ CopiesWithoutSavePoints => sp[src] = NULL
  /\ allocated' = IF sp[dst] # NULL THEN allocated \ {sp[dst]} ELSE allocated
  /\ sp' = [sp EXCEPT ![dst] = sp[src]]
  /\ walterm' = [walterm EXCEPT ![dst] = walterm[src]]
  /\ flags' = [flags EXCEPT ![dst] = flags[src]]
  /\ maxBytes' = [maxBytes EXCEPT ![dst] = maxBytes[src]]
  /\ rep' = [rep EXCEPT ![dst] = rep[src]]
  /\ count' = [count EXCEPT ![dst] = count[src]]
  /\ heap' = IF sp[dst] # NULL THEN [heap EXCEPT ![sp[dst]] = <<>>] ELSE heap

CopyAssign(dst, src) ==
  /\ AssignFrom(dst, src)
  /\ movedFrom' = [movedFrom EXCEPT ![dst] = FALSE]

MoveAssign(dst, src) ==
  /\ AssignFrom(dst, src)
  /\ movedFrom' = [movedFrom EXCEPT ![dst] = FALSE, ![src] = TRUE]

Next ==
  \E b \in Batches :
    \/ \E cf \in CFs, k \in Keys :
         \/ \E v \in Values : Put(b, cf, k, v) \/ Merge(b, cf, k, v)
         \/ Delete(b, cf, k)
         \/ SingleDelete(b, cf, k)
         \/ \E e \in Keys : DeleteRange(b, cf, k, e)
    \/ \E blob \in Values : PutLogData(b, blob)
    \/ InsertNoop(b)
    \/ \E x \in Xids : MarkEndPrepare(b, x) \/ MarkCommit(b, x) \/ MarkRollback(b, x)
    \/ SetSavePoint(b)
    \/ RollbackToSavePoint(b)
    \/ PopSavePoint(b)
    \/ MarkWalTerminationPoint(b)
    \/ Clear(b)
    \/ ComputeContentFlags(b)
    \/ \E c \in InitPayloads : SetContents(b, c)
    \/ \E src \in Batches :
         \/ \E w \in BOOLEAN : AppendBatch(b, src, w)
         \/ CopyAssign(b, src)
         \/ MoveAssign(b, src)

Spec == Init /\ [][Next]_vars

-----------------------------------------------------------------------------
(***************************************************************************)
(* Refinement mapping to WriteBatchAbstract: the records of a batch are    *)
(* what Iterate decodes from its payload (a batch that does not decode, or *)
(* whose count is wrong, maps to a sequence holding a "Corrupt" record, so *)
(* it matches no abstract state); a save point or the WAL termination      *)
(* point maps to the records decoded from the prefix it delimits.          *)
(***************************************************************************)
Corrupt == <<Rec("Corrupt", 0, <<>>, <<>>)>>

DecodedPrefix(b, p) ==
  IF p.size >= Header /\ p.size - Header <= Len(rep[b])
  THEN Strict(Iterate(SubSeq(rep[b], 1, p.size - Header), p.count),
              LAMBDA it : IF it.ok THEN it.recs ELSE Corrupt)
  ELSE Corrupt

Records(b) ==
  IF movedFrom[b] THEN <<>>
  ELSE Strict(Iterate(rep[b], count[b]), LAMBDA it : IF it.ok THEN it.recs ELSE Corrupt)

absRecs == [b \in Batches |-> Records(b)]
absSaves == [b \in Batches |->
               IF movedFrom[b] \/ sp[b] = NULL THEN <<>>
               ELSE [i \in DOMAIN heap[sp[b]] |-> DecodedPrefix(b, heap[sp[b]][i])]]
absWal == [b \in Batches |->
             IF movedFrom[b] \/ walterm[b] = Cleared THEN [set |-> FALSE, recs |-> <<>>]
             ELSE [set |-> TRUE, recs |-> DecodedPrefix(b, walterm[b])]]

AppendableRecs ==
  {Rec(t, cf, k, v) : t \in {"Value", "Merge", "RangeDeletion"}, cf \in CFs, k \in Keys, v \in Values \cup Keys}
  \cup {Rec(t, cf, k, <<>>) : t \in {"Deletion", "SingleDeletion"}, cf \in CFs, k \in Keys}
  \cup {Rec("LogData", 0, v, <<>>) : v \in Values}
  \cup {Rec("Noop", 0, <<>>, <<>>)}
  \cup {Rec(t, 0, x, <<>>) : t \in {"CommitXID", "RollbackXID"}, x \in Xids}

Abstract == INSTANCE WriteBatchAbstract
              WITH recs <- absRecs, saves <- absSaves, walmark <- absWal,
                   InitRecs <- {Iterate(p.payload, p.count).recs : p \in InitPayloads},
                   AppendRecs <- AppendableRecs

-----------------------------------------------------------------------------
(***************************************************************************)
(* Properties.                                                             *)
(***************************************************************************)

(* The WriteBatch class implements WriteBatchAbstract: every sequence of    *)
(* calls leaves each batch's bytes decoding, with the right header count,   *)
(* to the records the abstract batch holds; RollbackToSavePoint restores    *)
(* exactly the records present at SetSavePoint (the truncate-and-restore of *)
(* RollbackToSavePoint, LocalSavePoint::commit and MarkEndPrepare's clearing *)
(* of save points); Append copies exactly the source records or its         *)
(* WAL-terminated prefix; a copy is independent of its source.              *)
Refinement == Abstract!ASpec

(* content_flags_ is a cache of what the payload contains: unless DEFERRED, *)
(* it equals what the BatchContentClassifier computes from the payload.     *)
(* Every append ORs in a flag, a failed append and RollbackToSavePoint      *)
(* restore saved flags, Append ORs in the source's (or the WAL prefix's)    *)
(* flags; Iterate asserts each record's flag (or DEFERRED) is present.      *)
FlagsExact ==
  \A b \in Batches :
    Live(b) /\ "DEFERRED" \notin flags[b] => flags[b] = Classify(Records(b))

(* Every prepare section in a batch is closed: BeginPrepareXID and          *)
(* EndPrepareXID markers pair up, never an end before its begin.  The       *)
(* recovery inserter relies on this to hand every rebuilt transaction to    *)
(* the DB; MarkEndPrepare clears the save points so no rollback can cut an  *)
(* end marker off a rewritten begin marker.                                 *)
PrepareSectionsClosed ==
  \A b \in Batches :
    LET r == Records(b)
        Opened(n) == Cardinality({i \in 1..n : r[i].type = "BeginPrepareXID"})
        Closed(n) == Cardinality({i \in 1..n : r[i].type = "EndPrepareXID"})
    IN /\ \A n \in 1..Len(r) : Closed(n) <= Opened(n)
       /\ Opened(Len(r)) = Closed(Len(r))

(* The WAL termination point delimits a prefix of the batch: its size is    *)
(* within rep_ and the bytes up to it decode to its recorded count.  Append *)
(* with wal_only copies that many bytes from the source.                     *)
WalTermWithinBatch ==
  \A b \in Batches :
    Live(b) /\ walterm[b] # Cleared => DecodedPrefix(b, walterm[b]) # Corrupt

(* The assertions of RollbackToSavePoint: every save point on a live        *)
(* batch's stack has size <= rep_.size() and count <= Count(), and the      *)
(* stack it points to is allocated.                                          *)
SavePointAssertions ==
  \A b \in Batches :
    Live(b) /\ sp[b] # NULL =>
      /\ sp[b] \in allocated
      /\ \A i \in DOMAIN heap[sp[b]] :
           heap[sp[b]][i].size <= GetDataSize(b) /\ heap[sp[b]][i].count <= count[b]
=============================================================================
