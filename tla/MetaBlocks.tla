----------------------------- MODULE MetaBlocks -----------------------------
(***************************************************************************)
(* The meta blocks of a block-based table (table/meta_blocks.cc): how the  *)
(* table builder writes its properties block and meta-index block, and how *)
(* a reader finds them again.                                              *)
(*                                                                         *)
(* The table builder exists once the column family is opened with a      *)
(* BlockBasedTableFactory whose options pass SanitizeOptions.              *)
(*                                                                         *)
(* Writer: PropertyBlockBuilder takes the TableProperties                  *)
(* (AddTableProperty), then every collector's Finish output                *)
(* (NotifyCollectTableCollectorsOnFinish), in a std::map where the first   *)
(* insert of a name wins; Finish emits the map in key order.              *)
(* MetaIndexBuilder maps meta block names to their handles the same way.   *)
(*                                                                         *)
(* Reader: ReadTableProperties or ReadMetaBlock read the footer and the    *)
(* meta-index block, look the block up, read it and, for the properties,  *)
(* walk its entries with a BlockIter.                                      *)
(*                                                                         *)
(* Each read may fail (IOFaults); a block handle may not decode and an     *)
(* entry of the properties block may be corrupt (checksums are not         *)
(* verified).  BlockIter, the block reads, the footer, BlockHandle and     *)
(* SeekToPropertiesBlock are not under src/: they are modelled from the   *)
(* RocksDB semantics they implement.  Names are strings ordered by        *)
(* NameOrder; a handle is the name of the block it points to; a property   *)
(* value is its bytes.  properties_offsets and logging are left out.       *)
(***************************************************************************)
EXTENDS Integers, Sequences, SequencesExt, WriteBatchCodec, TableFactory

CONSTANTS
  UintNames,          \* predefined uint64 property names (kDataSize, ...)
  StringNames,        \* predefined string property names (kComparator, ...)
  NameOrder,          \* every name used, in bytewise order
  TablePropsChoices,  \* the TableProperties the builder may be given
  CollectorChoices,   \* what a collector's Finish may produce
  NumCollectors,      \* the table's property collectors
  kPropertiesBlock, kPropertiesBlockOldName,
  NoBlock,            \* a table without a properties block
  PropsNameChoices,   \* the name a table indexes its properties under
  OtherMetaBlocks,    \* names of the other meta blocks a table may hold
  Targets,            \* "properties", or a name ReadMetaBlock looks up
  IOFaults,           \* ReadFooterFromFile / ReadBlockContents may fail
  CorruptHandles,     \* a handle in the meta-index may not decode
  CorruptEntries      \* an entry of the properties block may be corrupt

VARIABLES
  topts, prefixExtractor,  \* the table options and cf prefix_extractor given
  factory,       \* the factory's table_options_
  openStatus,    \* SanitizeOptions' verdict when the column family opens
  tp, out, propsName, metaBlocks, target,   \* the inputs, fixed in Init
  api,           \* the reader called: ReadTableProperties, ReadMetaBlock
                 \* or FindMetaBlock
  props,         \* PropertyBlockBuilder::props_
  collectorOk,   \* Finish's status per collector (ghost, for the checks)
  allSucceeded,  \* NotifyCollectTableCollectorsOnFinish's result
  block,         \* the properties block: <<name, value>> entries
  metaIndex,     \* the meta-index block: <<name, handle>> entries
  phase,         \* where the builder, then the reader, is
  handle,        \* the handle the reader found
  pos, valid, iterStatus,  \* the BlockIter over the properties block
  s,             \* ReadProperties' Status s
  result,        \* the TableProperties being filled
  returned,      \* *table_properties was set
  status,        \* the reader's returned Status
  contents       \* ReadMetaBlock's BlockContents

vars == <<topts, prefixExtractor, factory, openStatus, tp, out, propsName, metaBlocks, target, api, props, collectorOk,
          allSucceeded, block, metaIndex, phase, handle, pos, valid,
          iterStatus, s, result, returned, status, contents>>

Collectors == 1..NumCollectors

\* BytewiseComparator on the model's names.
Rank(n) == CHOOSE i \in DOMAIN NameOrder : NameOrder[i] = n
Before(a, b) == Rank(a) < Rank(b)

\* std::map's entries in key order.
Entries(m) == LET ks == SetToSortSeq(DOMAIN m, Before)
              IN [i \in DOMAIN ks |-> <<ks[i], m[ks[i]]>>]

\* util/coding: PutVarint64 is PutVarint32's encoding for the values used;
\* GetVarint64 reads at most 10 bytes.
PutVarint64(n) == PutVarint32(n)
GetVarint64(in) ==
  LET RECURSIVE Go(_, _, _)
      Go(b, shift, acc) ==
        IF shift > 63 \/ b = <<>> THEN [ok |-> FALSE, val |-> 0]
        ELSE IF b[1] >= 128 THEN Go(Tail(b), shift + 7, acc + (b[1] - 128) * 2^shift)
        ELSE [ok |-> TRUE, val |-> acc + b[1] * 2^shift]
  IN Go(in, 0, 0)

\* PropertyBlockBuilder::Add(name, val) and Add(UserCollectedProperties):
\* std::map::insert keeps the value already there.
AddProps(m, ucp) == m @@ ucp

EmptyProperties == [uint |-> [n \in UintNames |-> 0],
                    str |-> [n \in StringNames |-> <<>>],
                    user |-> <<>>]

Init ==
  /\ topts \in TableOptionsChoices
  /\ prefixExtractor \in BOOLEAN
  /\ factory = topts
  /\ openStatus = "none"
  /\ tp \in TablePropsChoices
  /\ out \in [Collectors -> CollectorChoices]
  /\ propsName \in PropsNameChoices
  /\ metaBlocks \in SUBSET OtherMetaBlocks
  /\ target \in Targets
  /\ api \in IF target = "properties" THEN {"ReadTableProperties"}
            ELSE {"ReadMetaBlock", "FindMetaBlock"}
  /\ props = <<>>
  /\ collectorOk = [c \in Collectors |-> TRUE]
  /\ allSucceeded = TRUE
  /\ block = <<>>
  /\ metaIndex = <<>>
  /\ phase = "open"
  /\ handle = NoBlock
  /\ pos = 0
  /\ valid = FALSE
  /\ iterStatus = "OK"
  /\ s = "OK"
  /\ result = EmptyProperties
  /\ returned = FALSE
  /\ status = "OK"
  /\ contents = NoBlock

Inputs == <<topts, prefixExtractor, factory, openStatus,
           tp, out, propsName, metaBlocks, target, api>>
Reader == <<handle, pos, valid, iterStatus, s, result, returned, status, contents>>

\* The column family is opened with NewBlockBasedTableFactory(topts): a
\* table is built and read only when SanitizeOptions passes.
OpenTable ==
  /\ phase = "open"
  /\ factory' = NewBlockBasedTableFactory(topts)
  /\ openStatus' = SanitizeOptions(factory', prefixExtractor)
  /\ IF openStatus' = "OK"
     THEN phase' = "add" /\ UNCHANGED status
     ELSE phase' = "done" /\ status' = openStatus'
  /\ UNCHANGED <<topts, prefixExtractor, tp, out, propsName, metaBlocks, target, api,
                 props, collectorOk, allSucceeded, block, metaIndex,
                 handle, pos, valid, iterStatus, s, result, returned, contents>>

\* The 10 uint64 properties always; a string property only when non-empty.
AddTableProperty ==
  /\ phase = "add"
  /\ props' = [n \in UintNames \cup {x \in StringNames : tp.str[x] # <<>>} |->
                 IF n \in UintNames THEN PutVarint64(tp.uint[n]) ELSE tp.str[n]]
  /\ phase' = "collect"
  /\ UNCHANGED <<Inputs, collectorOk, allSucceeded, block, metaIndex, Reader>>

\* Mutant: the failing collector's properties added all the same.
NotifyOnFinishIgnoreStatus ==
  /\ phase = "collect"
  /\ \E ok \in [Collectors -> BOOLEAN] :
       /\ collectorOk' = ok
       /\ allSucceeded' = \A c \in Collectors : ok[c]
       /\ props' = FoldLeft(LAMBDA m, c : AddProps(m, out[c]), props,
                            [i \in Collectors |-> i])
  /\ phase' = "finish"
  /\ UNCHANGED <<Inputs, block, metaIndex, Reader>>

(***************************************************************************)
(* NotifyCollectTableCollectorsOnFinish: each collector in turn; a Finish  *)
(* that fails is logged and its properties are skipped, the loop goes on,  *)
(* and the result is false.                                                *)
(***************************************************************************)
NotifyCollectTableCollectorsOnFinish ==
  /\ phase = "collect"
  /\ \E ok \in [Collectors -> BOOLEAN] :
       /\ collectorOk' = ok
       /\ allSucceeded' = \A c \in Collectors : ok[c]
       /\ props' = FoldLeft(LAMBDA m, c : IF ok[c] THEN AddProps(m, out[c]) ELSE m,
                            props, [i \in Collectors |-> i])
  /\ phase' = "finish"
  /\ UNCHANGED <<Inputs, block, metaIndex, Reader>>

\* PropertyBlockBuilder::Finish: props_ in key order into the block.
PropertyBlockFinish ==
  /\ phase = "finish"
  /\ block' = Entries(props)
  /\ phase' = "index"
  /\ UNCHANGED <<Inputs, props, collectorOk, allSucceeded, metaIndex, Reader>>

\* The table builder adds the properties block and the other meta blocks
\* to the MetaIndexBuilder, whose Finish emits them in key order.
MetaIndexFinish ==
  /\ phase = "index"
  /\ LET named == IF propsName = NoBlock THEN metaBlocks ELSE metaBlocks \cup {propsName}
     IN metaIndex' = Entries([n \in named |-> IF n = propsName THEN "properties" ELSE n])
  /\ phase' = "footer"
  /\ UNCHANGED <<Inputs, props, collectorOk, allSucceeded, block, Reader>>

-----------------------------------------------------------------------------
(* The reader.                                                             *)

\* A read of the file fails: the function returns its status.
ReadFails ==
  /\ IOFaults
  /\ status' = "IOError"
  /\ phase' = "done"
  /\ UNCHANGED <<handle, pos, valid, iterStatus, s, result, returned, contents>>

\* ReadFooterFromFile, then ReadBlockContents of the meta-index block.
ReadFooter ==
  /\ phase = "footer"
  /\ \/ ReadFails
     \/ phase' = "metaindex" /\ UNCHANGED Reader
  /\ UNCHANGED <<Inputs, props, collectorOk, allSucceeded, block, metaIndex>>

ReadMetaIndexBlock ==
  /\ phase = "metaindex"
  /\ \/ ReadFails
     \/ phase' = "seek" /\ UNCHANGED Reader
  /\ UNCHANGED <<Inputs, props, collectorOk, allSucceeded, block, metaIndex>>

\* BlockIter::Seek: the first entry whose key is not before name.
SeekIndex(name) ==
  LET at == {i \in DOMAIN metaIndex : ~Before(metaIndex[i][1], name)}
  IN IF at = {} THEN Len(metaIndex) + 1 ELSE CHOOSE i \in at : \A j \in at : i <= j
IterValid(i) == i <= Len(metaIndex)
IsAt(i, name) == IterValid(i) /\ metaIndex[i][1] = name

\* Mutant: no fallback to the name older releases used.
PropertiesBlockAtNoOldName ==
  LET i == SeekIndex(kPropertiesBlock)
  IN IF IsAt(i, kPropertiesBlock) THEN i ELSE 0

\* SeekToPropertiesBlock: seek kPropertiesBlock, and if it is not there,
\* kPropertiesBlockOldName; 0 when neither is (found = false).
PropertiesBlockAt ==
  LET i == SeekIndex(kPropertiesBlock)
      j == SeekIndex(kPropertiesBlockOldName)
  IN IF IsAt(i, kPropertiesBlock) THEN i
     ELSE IF IsAt(j, kPropertiesBlockOldName) THEN j ELSE 0

\* Mutant: the iterator's key not compared with the name sought.
FindMetaBlockAtNoKeyCheck(name) ==
  LET i == SeekIndex(name) IN IF IterValid(i) THEN i ELSE 0

\* FindMetaBlock: Seek, then status ok, Valid and key == name.
FindMetaBlockAt(name) ==
  LET i == SeekIndex(name) IN IF IsAt(i, name) THEN i ELSE 0

\* Where the reader goes with the decoded handle: ReadProperties reads the
\* properties block, ReadMetaBlock the meta block, and the file-level
\* FindMetaBlock returns the handle.
AfterLookup ==
  CASE target = "properties" -> "props"
    [] api = "FindMetaBlock" -> "done"
    [] OTHER -> "block"

\* ReadTableProperties after the meta-index read: NotFound without a
\* properties block; else ReadProperties decodes the handle.
\* ReadMetaBlock and FindMetaBlock: FindMetaBlock returns Corruption for a
\* missing block, or the handle's DecodeFrom status; FindMetaBlock (the
\* file-level one) returns there with the handle.
SeekMetaBlock ==
  /\ phase = "seek"
  /\ LET at == IF target = "properties" THEN PropertiesBlockAt ELSE FindMetaBlockAt(target)
     IN \/ /\ at = 0
           /\ status' = IF target = "properties" THEN "NotFound" ELSE "Corruption"
           /\ phase' = "done"
           /\ UNCHANGED handle
        \/ /\ at # 0
           /\ \/ CorruptHandles /\ phase' = "done" /\ UNCHANGED handle
                 /\ status' = IF target = "properties" THEN "InvalidArgument" ELSE "Corruption"
              \/ /\ handle' = metaIndex[at][2]
                 /\ phase' = AfterLookup
                 /\ UNCHANGED status
  /\ UNCHANGED <<Inputs, props, collectorOk, allSucceeded, block, metaIndex,
                 pos, valid, iterStatus, s, result, returned, contents>>

\* ReadMetaBlock's last step: ReadBlockContents of the block found.
ReadMetaBlockContents ==
  /\ phase = "block"
  /\ \/ ReadFails
     \/ contents' = handle /\ status' = "OK" /\ phase' = "done"
        /\ UNCHANGED <<handle, pos, valid, iterStatus, s, result, returned>>
  /\ UNCHANGED <<Inputs, props, collectorOk, allSucceeded, block, metaIndex>>

\* Mutant: the end of the block tested one entry late.
ParseAtPastEnd(p) ==
  IF p > Len(block) + 1 THEN {[v |-> FALSE, st |-> "OK"]}
  ELSE {[v |-> TRUE, st |-> "OK"]} \cup
       (IF CorruptEntries THEN {[v |-> FALSE, st |-> "Corruption"]} ELSE {})

\* BlockIter positioned at entry p: past the end it is not Valid with an
\* OK status; on an entry it cannot parse it is not Valid with Corruption.
ParseAt(p) ==
  IF p > Len(block) THEN {[v |-> FALSE, st |-> "OK"]}
  ELSE {[v |-> TRUE, st |-> "OK"]} \cup
       (IF CorruptEntries THEN {[v |-> FALSE, st |-> "Corruption"]} ELSE {})

\* One entry into the TableProperties: a predefined uint64 (a malformed
\* varint is skipped), a predefined string, or a user-collected property.
ApplyEntry(r, e) ==
  LET key == e[1]
      d == GetVarint64(e[2])
  IN IF key \in UintNames
     THEN IF d.ok THEN [r EXCEPT !.uint[key] = d.val] ELSE r
     ELSE IF key \in StringNames THEN [r EXCEPT !.str[key] = e[2]]
     ELSE [r EXCEPT !.user = AddProps(@, key :> e[2])]

\* ReadProperties: ReadBlockContents of the properties block (checksums
\* not verified), then iter.SeekToFirst() on a new TableProperties.
ReadPropertiesBlock ==
  /\ phase = "props"
  /\ \/ ReadFails
     \/ /\ pos' = 1
        /\ \E o \in ParseAt(1) : valid' = o.v /\ iterStatus' = o.st
        /\ s' = "OK"
        /\ result' = EmptyProperties
        /\ phase' = "iter"
        /\ UNCHANGED <<handle, returned, status, contents>>
  /\ UNCHANGED <<Inputs, props, collectorOk, allSucceeded, block, metaIndex>>

\* One turn of "for (...; iter.Valid(); iter.Next())": s = iter.status(),
\* break unless ok, apply the entry, then Next.
IterEntry ==
  /\ phase = "iter"
  /\ valid
  /\ s' = iterStatus
  /\ IF iterStatus # "OK"
     THEN /\ valid' = FALSE
          /\ UNCHANGED <<pos, iterStatus, result>>
     ELSE /\ result' = ApplyEntry(result, block[pos])
          /\ pos' = pos + 1
          /\ \E o \in ParseAt(pos + 1) : valid' = o.v /\ iterStatus' = o.st
  /\ UNCHANGED <<Inputs, props, collectorOk, allSucceeded, block, metaIndex,
                 phase, handle, returned, status, contents>>

\* The loop is over: the properties are handed out iff s is ok.
IterEnd ==
  /\ phase = "iter"
  /\ ~valid
  /\ returned' = (s = "OK")
  /\ status' = s
  /\ phase' = "done"
  /\ UNCHANGED <<Inputs, props, collectorOk, allSucceeded, block, metaIndex,
                 handle, pos, valid, iterStatus, s, result, contents>>

Next ==
  \/ OpenTable \/ AddTableProperty \/ NotifyCollectTableCollectorsOnFinish
  \/ PropertyBlockFinish \/ MetaIndexFinish
  \/ ReadFooter \/ ReadMetaIndexBlock \/ SeekMetaBlock
  \/ ReadMetaBlockContents \/ ReadPropertiesBlock \/ IterEntry \/ IterEnd

Spec == Init /\ [][Next]_vars

-----------------------------------------------------------------------------
Bytes == 0..255
AllNames == {NameOrder[i] : i \in DOMAIN NameOrder}
IsPropertyMap(m) == DOMAIN m \subseteq AllNames /\ \A n \in DOMAIN m : m[n] \in Seq(Bytes)

TypeOK ==
  /\ openStatus \in {"none", "OK", "InvalidArgument"}
  /\ phase \in {"open", "add", "collect", "finish", "index", "footer", "metaindex",
                "seek", "props", "block", "iter", "done"}
  /\ IsPropertyMap(props)
  /\ allSucceeded \in BOOLEAN
  /\ block \in Seq(AllNames \X Seq(Bytes))
  /\ pos \in 0..Len(block) + 1
  /\ valid => pos \in 1..Len(block)
  /\ {s, status, iterStatus} \subseteq
       {"OK", "IOError", "NotFound", "Corruption", "InvalidArgument"}
  /\ result.uint \in [UintNames -> Nat]
  /\ result.str \in [StringNames -> Seq(Bytes)]
  /\ IsPropertyMap(result.user)
  /\ returned \in BOOLEAN

\* The collectors whose Finish succeeded, what they emitted, and the value
\* of the first of them that emitted a name.
Succeeded == {c \in Collectors : collectorOk[c]}
Emitted == UNION {DOMAIN out[c] : c \in Succeeded}
FirstEmitted(n) ==
  LET c == CHOOSE c \in Succeeded :
             /\ n \in DOMAIN out[c]
             /\ \A d \in Succeeded : d < c => n \notin DOMAIN out[d]
  IN out[c][n]

\* The TableProperties a reader should get back from what the builder was
\* given: every uint64 property as written, a non-empty string property as
\* written, and the properties of the collectors that succeeded, the first
\* collector winning; a collector's property under the name of a string
\* property the table left empty is read back as that property.
Expected ==
  [uint |-> tp.uint,
   str |-> [n \in StringNames |->
              IF tp.str[n] # <<>> THEN tp.str[n]
              ELSE IF n \in Emitted THEN FirstEmitted(n) ELSE <<>>],
   user |-> [n \in Emitted \ (UintNames \cup StringNames) |-> FirstEmitted(n)]]

\* A column family that opens with a block-based table factory gives its
\* table builders and readers options they can work with: the
\* constructor's defaults and clamps and SanitizeOptions' refusals
\* together leave no unusable combination.
FactoryOptionsUsable ==
  openStatus = "OK" => UsableOptions(factory, prefixExtractor)

\* Whenever ReadTableProperties hands out a TableProperties, it is the one
\* the builder wrote: AddTableProperty, the collectors' Finish with its
\* failures, the first-insert-wins map, the sorted block, the varint
\* round trip and ReadProperties' dispatch on names agree.
PropertiesRoundTrip ==
  (phase = "done" /\ returned) => result = Expected

\* ReadTableProperties answers NotFound only for a table that has no
\* properties block under either name (SeekToPropertiesBlock falls back to
\* the name older releases wrote).
NotFoundOnlyWithoutBlock ==
  (phase = "done" /\ target = "properties" /\ status = "NotFound")
    => propsName = NoBlock

\* ReadMetaBlock returns OK only with the contents of the meta block asked
\* for, and FindMetaBlock only with its handle, and only when the table
\* holds it (FindMetaBlock's key check after a Seek that lands on the next
\* name).
MetaBlockLookupExact ==
  (phase = "done" /\ target # "properties" /\ status = "OK")
    => /\ (IF api = "FindMetaBlock" THEN handle ELSE contents) = target
       /\ target \in metaBlocks
=============================================================================
