--------------------------- MODULE WriteBatchCodec ---------------------------
(***************************************************************************)
(* The byte format of a WriteBatch payload (db/write_batch.cc) as pure     *)
(* operators: how each append operation encodes a record, how              *)
(* ReadRecordFromWriteBatch decodes one, how WriteBatch::Iterate walks the *)
(* payload and checks the header count, and what the content classifier   *)
(* computes from the callbacks it receives.                                *)
(*                                                                         *)
(* A payload here is the part of rep_ after the 12-byte header; the header *)
(* fields (sequence, count) are kept as numbers by the modules that use    *)
(* this one.  A byte is a natural number below 256 and a Slice (key,       *)
(* value, blob, xid) is a sequence of bytes.                               *)
(***************************************************************************)
EXTENDS Integers, Sequences, SequencesExt

Header == 12   \* WriteBatchInternal::kHeader: fixed64 sequence + fixed32 count

\* Op applied to the value of v, with v evaluated once.  The decoders bind
\* their intermediate results this way rather than with LET, whose values
\* TLC re-evaluates at every use when checking a step of the refinement.
Strict(v, Op(_)) == CHOOSE o \in {Op(x) : x \in {v}} : TRUE

(***************************************************************************)
(* Record types.  A decoded record is [type, cf, a, b]: the logical kind,  *)
(* the column family id (0 for the non-CF tag variants), and the one or    *)
(* two Slice fields (key and value, begin and end key, blob, or xid); an   *)
(* unused field is the empty Slice, as in Iterate's locals.                *)
(***************************************************************************)
CountedTypes == {"Value", "Deletion", "SingleDeletion", "RangeDeletion", "Merge"}
MarkerTypes  == {"BeginPrepareXID", "EndPrepareXID", "CommitXID", "RollbackXID"}
RecordTypes  == CountedTypes \cup MarkerTypes \cup {"LogData", "Noop"}

Rec(t, cf, a, b) == [type |-> t, cf |-> cf, a |-> a, b |-> b]

\* Number of Slice fields after the tag (and cf id) of each record type.
FieldCount(t) ==
  IF t \in {"Value", "RangeDeletion", "Merge"} THEN 2
  ELSE IF t \in {"Noop", "BeginPrepareXID"} THEN 0
  ELSE 1

(***************************************************************************)
(* Tag bytes (ValueType of db/dbformat.h).  Counted types have a plain tag *)
(* used for column family 0 and a column-family tag followed by the cf id. *)
(***************************************************************************)
PlainTag == [Deletion |-> 0, Value |-> 1, Merge |-> 2, LogData |-> 3,
             SingleDeletion |-> 7, BeginPrepareXID |-> 9, EndPrepareXID |-> 10,
             CommitXID |-> 11, RollbackXID |-> 12, Noop |-> 13,
             RangeDeletion |-> 15]
CFTag == [Deletion |-> 4, Value |-> 5, Merge |-> 6, SingleDeletion |-> 8,
          RangeDeletion |-> 14]

NoopByte == PlainTag["Noop"]
BeginPrepareByte == PlainTag["BeginPrepareXID"]

(***************************************************************************)
(* util/coding: base-128 varints and length-prefixed slices.              *)
(***************************************************************************)
RECURSIVE PutVarint32(_)
PutVarint32(n) ==
  IF n < 128 THEN <<n>> ELSE <<(n % 128) + 128>> \o PutVarint32(n \div 128)

PutLengthPrefixedSlice(s) == PutVarint32(Len(s)) \o s

\* GetVarint32: at most five bytes, each with a continuation bit; fails when
\* the input ends first or a fifth byte still has the continuation bit.
\* (The C++ result is a uint32; the modelled inputs stay below 2^31, so the
\* wrap-around of a fifth byte never arises and is not modelled.)
GetVarint32(in) ==
  LET RECURSIVE Go(_, _, _)
      Go(s, shift, acc) ==
        IF shift > 28 \/ s = <<>> THEN [ok |-> FALSE, val |-> 0, rest |-> in]
        ELSE IF s[1] >= 128
             THEN Go(Tail(s), shift + 7, acc + (s[1] - 128) * 2^shift)
             ELSE [ok |-> TRUE, val |-> acc + s[1] * 2^shift,
                   rest |-> Tail(s)]
  IN Go(in, 0, 0)

\* GetLengthPrefixedSlice: a varint length then that many bytes.
GetLengthPrefixedSlice(in) ==
  Strict(GetVarint32(in), LAMBDA n :
    IF n.ok /\ n.val <= Len(n.rest)
    THEN [ok |-> TRUE, val |-> SubSeq(n.rest, 1, n.val),
          rest |-> SubSeq(n.rest, n.val + 1, Len(n.rest))]
    ELSE [ok |-> FALSE, val |-> <<>>, rest |-> in])

(***************************************************************************)
(* Encoding of one record, as the WriteBatchInternal append functions emit *)
(* it: tag (the column-family tag and the varint id when cf # 0), then the *)
(* length-prefixed fields.                                                 *)
(***************************************************************************)
EncodeRecord(r) ==
  LET tag == IF r.type \in CountedTypes /\ r.cf # 0
             THEN <<CFTag[r.type]>> \o PutVarint32(r.cf)
             ELSE <<PlainTag[r.type]>>
      fields == CASE FieldCount(r.type) = 0 -> <<>>
                  [] FieldCount(r.type) = 1 -> PutLengthPrefixedSlice(r.a)
                  [] OTHER -> PutLengthPrefixedSlice(r.a) \o PutLengthPrefixedSlice(r.b)
  IN tag \o fields

EncodeRecords(rs) == FoldLeft(LAMBDA acc, r : acc \o EncodeRecord(r), <<>>, rs)

(***************************************************************************)
(* ReadRecordFromWriteBatch: one tag byte, the cf id for CF tags, then the *)
(* fields of the type; any field that cannot be parsed, or a tag outside   *)
(* the catalog, is a Corruption.                                           *)
(***************************************************************************)
TypeOfTag(tag) ==
  IF \E t \in DOMAIN PlainTag : PlainTag[t] = tag
  THEN [known |-> TRUE, cf |-> FALSE, type |-> CHOOSE t \in DOMAIN PlainTag : PlainTag[t] = tag]
  ELSE IF \E t \in DOMAIN CFTag : CFTag[t] = tag
  THEN [known |-> TRUE, cf |-> TRUE, type |-> CHOOSE t \in DOMAIN CFTag : CFTag[t] = tag]
  ELSE [known |-> FALSE, cf |-> FALSE, type |-> "Noop"]

ReadRecordFromWriteBatch(in) ==
  LET tt == TypeOfTag(in[1])
      Fail == [ok |-> FALSE, rec |-> Rec("Noop", 0, <<>>, <<>>), rest |-> <<>>]
      Field(k, prev) == IF FieldCount(tt.type) >= k THEN GetLengthPrefixedSlice(prev.rest)
                        ELSE [ok |-> TRUE, val |-> <<>>, rest |-> prev.rest]
  IN IF ~tt.known THEN Fail
     ELSE Strict(IF tt.cf THEN GetVarint32(Tail(in))
                 ELSE [ok |-> TRUE, val |-> 0, rest |-> Tail(in)], LAMBDA cfv :
          Strict(Field(1, cfv), LAMBDA f1 :
            Strict(Field(2, f1), LAMBDA f2 :
              IF cfv.ok /\ f1.ok /\ f2.ok
              THEN [ok |-> TRUE, rec |-> Rec(tt.type, cfv.val, f1.val, f2.val), rest |-> f2.rest]
              ELSE Fail)))

\* Records decoded from the front of a payload until the end or the first
\* record that fails to decode (ok = FALSE then; recs are those before it).
RECURSIVE DecodeRecords(_)
DecodeRecords(in) ==
  IF in = <<>> THEN [ok |-> TRUE, recs |-> <<>>]
  ELSE Strict(ReadRecordFromWriteBatch(in), LAMBDA r :
         IF ~r.ok THEN [ok |-> FALSE, recs |-> <<>>]
         ELSE Strict(DecodeRecords(r.rest), LAMBDA rest :
                [ok |-> rest.ok, recs |-> <<r.rec>> \o rest.recs]))

CountOf(recs) == Cardinality({i \in DOMAIN recs : recs[i].type \in CountedTypes})

(***************************************************************************)
(* WriteBatch::Iterate with a handler whose callbacks all succeed and whose *)
(* Continue() is always true: every record before the first decode failure *)
(* is dispatched, and the result is Corruption when decoding failed or the *)
(* number of counted records differs from the header count.  A payload     *)
(* shorter than the header cannot arise here (payload excludes header).    *)
(***************************************************************************)
Iterate(payload, count) ==
  Strict(DecodeRecords(payload), LAMBDA d :
    [ok |-> d.ok /\ CountOf(d.recs) = count, recs |-> d.recs])

(***************************************************************************)
(* ReadKeyFromWriteBatchEntry: skip the tag and, for a CF record, the cf   *)
(* id, then read the key.                                                  *)
(***************************************************************************)
ReadKeyFromWriteBatchEntry(in, cf_record) ==
  LET body == Tail(in)
      c    == IF cf_record THEN GetVarint32(body)
              ELSE [ok |-> TRUE, val |-> 0, rest |-> body]
      k    == GetLengthPrefixedSlice(c.rest)
  IN [ok |-> c.ok /\ k.ok, key |-> k.val]

(***************************************************************************)
(* ContentFlags and BatchContentClassifier: the flag each callback ORs in. *)
(***************************************************************************)
FlagOf == [Value |-> "HAS_PUT", Deletion |-> "HAS_DELETE",
           SingleDeletion |-> "HAS_SINGLE_DELETE", RangeDeletion |-> "HAS_DELETE_RANGE",
           Merge |-> "HAS_MERGE", BeginPrepareXID |-> "HAS_BEGIN_PREPARE",
           EndPrepareXID |-> "HAS_END_PREPARE", CommitXID |-> "HAS_COMMIT",
           RollbackXID |-> "HAS_ROLLBACK"]
ContentFlags == {"DEFERRED"} \cup {FlagOf[t] : t \in DOMAIN FlagOf}

Classify(recs) == {FlagOf[recs[i].type] : i \in {j \in DOMAIN recs : recs[j].type \in DOMAIN FlagOf}}
=============================================================================
