-------------------------- MODULE WriteBatchAbstract --------------------------
(***************************************************************************)
(* What a WriteBatch promises its owner, with the byte format abstracted   *)
(* away: a batch is the sequence of records appended to it; a save point   *)
(* remembers the whole sequence at the time it was set and rolling back    *)
(* restores it; a WAL termination point remembers a prefix that a          *)
(* WAL-only append copies; a copy is an independent value.  WriteBatch.tla *)
(* implements this specification under a refinement mapping that decodes   *)
(* the concrete payload bytes.                                             *)
(***************************************************************************)
EXTENDS Integers, Sequences, WriteBatchCodec

CONSTANTS Batches,      \* batch objects
          InitRecs,     \* record sequences a batch may be constructed from
          AppendRecs,   \* records an append operation may add
          Xids          \* transaction names given to MarkEndPrepare

VARIABLES recs,         \* recs[b]: the records of batch b, in order
          saves,        \* saves[b]: stack of earlier contents, top is last
          walmark       \* walmark[b]: [set, recs] the WAL-terminated prefix

avars == <<recs, saves, walmark>>

NoMark == [set |-> FALSE, recs |-> <<>>]

AInit ==
  /\ recs \in [Batches -> {<<>>} \cup InitRecs]
  /\ saves = [b \in Batches |-> <<>>]
  /\ walmark = [b \in Batches |-> NoMark]

\* An append adds one of the appendable records at the end of the batch or,
\* when the batch would grow past its byte limit, leaves the batch as it
\* was (which is a stuttering step).
AAppendRecord(b) ==
  /\ \A c \in Batches \ {b} : recs'[c] = recs[c]
  /\ Len(recs'[b]) = Len(recs[b]) + 1
  /\ SubSeq(recs'[b], 1, Len(recs[b])) = recs[b]
  /\ Last(recs'[b]) \in AppendRecs
  /\ UNCHANGED <<saves, walmark>>

\* Sealing a prepared transaction turns the leading Noop into the begin
\* marker, appends the end marker and forgets all save points.
AMarkEndPrepare(b, x) ==
  /\ recs[b] # <<>>
  /\ recs[b][1].type = "Noop"
  /\ recs' = [recs EXCEPT ![b] = [@ EXCEPT ![1] = Rec("BeginPrepareXID", 0, <<>>, <<>>)]
                                 \o <<Rec("EndPrepareXID", 0, x, <<>>)>>]
  /\ saves' = [saves EXCEPT ![b] = <<>>]
  /\ UNCHANGED walmark

ASetSavePoint(b) ==
  /\ saves' = [saves EXCEPT ![b] = Append(@, recs[b])]
  /\ UNCHANGED <<recs, walmark>>

ARollbackToSavePoint(b) ==
  /\ saves[b] # <<>>
  /\ recs' = [recs EXCEPT ![b] = Last(saves[b])]
  /\ saves' = [saves EXCEPT ![b] = Front(@)]
  /\ UNCHANGED walmark

APopSavePoint(b) ==
  /\ saves[b] # <<>>
  /\ saves' = [saves EXCEPT ![b] = Front(@)]
  /\ UNCHANGED <<recs, walmark>>

AMarkWalTerminationPoint(b) ==
  /\ walmark' = [walmark EXCEPT ![b] = [set |-> TRUE, recs |-> recs[b]]]
  /\ UNCHANGED <<recs, saves>>

AClear(b) ==
  /\ recs' = [recs EXCEPT ![b] = <<>>]
  /\ saves' = [saves EXCEPT ![b] = <<>>]
  /\ walmark' = [walmark EXCEPT ![b] = NoMark]

\* Replacing the contents with a serialized batch keeps save points and mark.
ASetContents(b) ==
  /\ \A c \in Batches \ {b} : recs'[c] = recs[c]
  /\ recs'[b] \in InitRecs
  /\ UNCHANGED <<saves, walmark>>

\* Append(dst, src, wal_only): dst gains src's records, or only the marked
\* prefix when wal_only and src has a mark.
AAppend(dst, src, wal_only) ==
  /\ recs' = [recs EXCEPT ![dst] = @ \o IF wal_only /\ walmark[src].set
                                         THEN walmark[src].recs ELSE recs[src]]
  /\ UNCHANGED <<saves, walmark>>

\* Copy assignment: dst becomes an independent copy of src.
ACopy(dst, src) ==
  /\ recs' = [recs EXCEPT ![dst] = recs[src]]
  /\ saves' = [saves EXCEPT ![dst] = saves[src]]
  /\ walmark' = [walmark EXCEPT ![dst] = walmark[src]]

\* Move assignment: dst takes src's value and src is left empty.
AMove(dst, src) ==
  /\ recs' = [recs EXCEPT ![dst] = recs[src], ![src] = <<>>]
  /\ saves' = [saves EXCEPT ![dst] = saves[src], ![src] = <<>>]
  /\ walmark' = [walmark EXCEPT ![dst] = walmark[src], ![src] = NoMark]

ANext ==
  \E b \in Batches :
    \/ AAppendRecord(b)
    \/ \E x \in Xids : AMarkEndPrepare(b, x)
    \/ ASetSavePoint(b)
    \/ ARollbackToSavePoint(b)
    \/ APopSavePoint(b)
    \/ AMarkWalTerminationPoint(b)
    \/ AClear(b)
    \/ ASetContents(b)
    \/ \E src \in Batches :
         \/ \E w \in BOOLEAN : AAppend(b, src, w)
         \/ ACopy(b, src)
         \/ AMove(b, src)

ASpec == AInit /\ [][ANext]_avars
=============================================================================
