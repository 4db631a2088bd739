------------------------------ MODULE KvTable ------------------------------
(***************************************************************************)
(* A KvVariable down to the buffers its entries point to.  An entry owns a *)
(* heap buffer, or borrows a row of the tensor the last full import was    *)
(* given, or (blacklisted) has none and reads as the table's one shared    *)
(* zero buffer, zero_val_.  Ownership is a flag in the entry, so freeing,  *)
(* aliasing and leaking are decided by the flag and the pointer together.  *)
(*                                                                         *)
(* The module implements KvStore: see Abstract at the end.                 *)
(***************************************************************************)
EXTENDS KvEntry

CONSTANTS
  Snapshots, Deltas,   \* the payloads the imports may be given
  Ops,                 \* the kinds of operation this variable's graph runs
  Heap,                \* the buffers cpu_allocator may hand out
  Tensors,             \* the value tensors a full import may be given
  ZeroBuf,             \* TableManager::zero_val_
  Null,                \* nullptr
  NoTensor,            \* p_values_ before the first import
  Freed                \* the content of a buffer that is not allocated

\* "train" and "lasso" are the variable of an optimizer, "slot" its slots.
OpKinds == {"gather", "insert", "blacklist", "scatter", "train", "lasso",
            "slot", "delete", "import", "deltaimport", "export"}

Rows == Tensors \X Keys

Buffers == {ZeroBuf} \cup Heap \cup Rows

ASSUME TableAssumption ==
  /\ Snapshots \subseteq FullPayload
  /\ Deltas \subseteq DeltaPayload
  /\ Ops \subseteq OpKinds
  /\ ZeroBuf \notin Heap \cup Rows
  /\ Heap \cap Rows = {}
  /\ Null \notin Buffers
  /\ NoTensor \notin Tensors
  /\ Freed \notin Values

VARIABLES
  ev,        \* ev_table_: the EmbeddingValue of every key
  mem,       \* what every buffer holds
  pvalues,   \* p_values_: the tensor imported entries borrow from
  train,     \* train_deltalist_
  pred       \* prediction_deltalist_

vars == <<ev, mem, pvalues, train, pred>>

EmbeddingValue ==
  [buf : Buffers \cup {Null},   \* embedding_val_
   owner : BOOLEAN,             \* buf_owner_
   black : BOOLEAN,             \* in_black_
   under : BOOLEAN,             \* under_threshold_
   cnt : Counts]                \* freq_val_, its low 16 bits

ASSUME AbsentEntryAssumption == Absent \notin EmbeddingValue

TypeOK ==
  /\ ev \in [Keys -> EmbeddingValue \cup {Absent}]
  /\ mem \in [Buffers -> Values \cup {Freed}]
  /\ pvalues \in Tensors \cup {NoTensor}
  /\ train \in SUBSET Keys
  /\ pred \in SUBSET Keys

Init ==
  /\ ev = [k \in Keys |-> Absent]
  /\ mem = [b \in Buffers |-> IF b = ZeroBuf THEN 0 ELSE Freed]
  /\ pvalues = NoTensor
  /\ train = {}
  /\ pred = {}

-----------------------------------------------------------------------------
(* Entries and buffers. *)

Present(k) == ev[k] # Absent

\* GetMetaAndValue: a blacklisted key is given the zero buffer to read.
Content(e) == IF e.black THEN mem[ZeroBuf] ELSE mem[e.buf]

\* AllocateRaw
Available == {b \in Heap : mem[b] = Freed}

\* The buffer that ~EmbeddingValue, Evict or UpdateEmbedding would free.
Owned(e) == IF e.owner /\ e.buf # Null THEN {e.buf} ELSE {}

Release(m, S) == [b \in Buffers |-> IF b \in S THEN Freed ELSE m[b]]

Written(m, b, v) == [m EXCEPT ![b] = v]

NewEntry(b, v, c) ==
  [buf |-> b, owner |-> TRUE, black |-> FALSE, under |-> v < DefaultCutoff, cnt |-> c]

\* Mutant: the blacklist is not looked at.
RefreshByValue(e, v) == [e EXCEPT !.under = v < DefaultCutoff]

Refresh(e, v) == [e EXCEPT !.under = UnderThreshold(e.black, v, DefaultCutoff)]

\* Mutant: Evict frees the buffer and leaves the pointer.
BlacklistedKeepsPointer(e) ==
  IF e = Absent
  THEN [buf |-> Null, owner |-> FALSE, black |-> TRUE, under |-> FALSE, cnt |-> 1]
  ELSE [e EXCEPT !.black = TRUE, !.under = TRUE]

\* MarkBlacklistUnsafe: Evict drops the buffer, and a key it has to insert
\* is left with under_threshold_ FALSE.
Blacklisted(e) ==
  IF e = Absent
  THEN [buf |-> Null, owner |-> FALSE, black |-> TRUE, under |-> FALSE, cnt |-> 1]
  ELSE IF e.black THEN e
  ELSE [e EXCEPT !.buf = Null, !.owner = FALSE, !.black = TRUE, !.under = TRUE]

\* Mutant: Evict resets the pointer without freeing the buffer.
DroppedByNobody(e) == {}

DroppedBy(e) == IF e = Absent \/ e.black THEN {} ELSE Owned(e)

Change(k, e, m) ==
  /\ ev' = [ev EXCEPT ![k] = e]
  /\ mem' = m
  /\ train' = Marked(train, {k})
  /\ UNCHANGED <<pvalues, pred>>

\* InsertWithFn with a buffer of its own holding v.
Insert(k, v, c) ==
  /\ ~Present(k)
  /\ \E b \in Available : Change(k, NewEntry(b, v, c), Written(mem, b, v))

-----------------------------------------------------------------------------
(* Lookups and assignments. *)

\* FindOrInsert
Gather(k, c, v) ==
  \/ Insert(k, v, c)
  \/ /\ Present(k)
     /\ LET e == [ev[k] EXCEPT !.cnt = SaturateAdd(@, c)]
        IN Change(k, Refresh(e, Content(e)), mem)

\* Mutant: the update writes through the pointer the lookup gave.
InsertOrUpdateThroughLookup(k, v) ==
  \/ Insert(k, v, 1)
  \/ /\ Present(k)
     /\ LET b == IF ev[k].black THEN ZeroBuf ELSE ev[k].buf
        IN Change(k, Refresh(ev[k], v), Written(mem, b, v))

\* UpdateWithFn hands the update the entry's own pointer, not zero_val_, so a
\* blacklisted entry is given a buffer of its own and stays blacklisted.
InsertOrUpdate(k, v) ==
  \/ Insert(k, v, 1)
  \/ /\ Present(k)
     /\ ev[k].buf = Null
     /\ \E b \in Available :
          Change(k, Refresh([ev[k] EXCEPT !.buf = b, !.owner = TRUE], v),
                 Written(mem, b, v))
  \/ /\ Present(k)
     /\ ev[k].buf # Null
     /\ Change(k, Refresh(ev[k], v), Written(mem, ev[k].buf, v))

\* A row filter_out drops is marked for the delta export all the same.
FilteredUpdate(k) == Change(k, ev[k], mem)

\* InsertOrUpdate with the blacklist flag
MarkBlacklist(k) ==
  Change(k, Blacklisted(ev[k]), Release(mem, DroppedBy(ev[k])))

\* FetchAndUpdateWithFn puts back the pointer it fetched: for a blacklisted
\* key that is the zero buffer, and buf_owner_ is left as it was.
ScatterUpdate(k, v) ==
  \/ Insert(k, v, 1)
  \/ /\ Present(k)
     /\ ~ev[k].black
     /\ Change(k, Refresh(ev[k], v), Written(mem, ev[k].buf, v))
  \/ /\ Present(k)
     /\ ev[k].black
     /\ Change(k, [ev[k] EXCEPT !.buf = ZeroBuf],
               Release(mem, Owned(ev[k]) \ {ZeroBuf}))

-----------------------------------------------------------------------------
(* Optimizer steps, on the variable's entry. *)

\* Mutant: leaving the blacklist clears the flag and allocates nothing.
TrainFoundFlagOnly(k, i) ==
  IF ~Present(k)
  THEN {[e |-> NewEntry(b, i, 1), m |-> Written(mem, b, i)] : b \in Available}
  ELSE IF LowFrequency(ev[k]) THEN {}
  ELSE {[e |-> [ev[k] EXCEPT !.black = FALSE], m |-> mem]}

\* FindOrInsertUnsafe with a filter: insert, find, or (RemoveBlacklistUnsafe)
\* give a blacklisted entry a new zero buffer.  The results are the entry the
\* kernel goes on with and the memory around it; a filtered key has none.
TrainFound(k, i) ==
  IF ~Present(k)
  THEN {[e |-> NewEntry(b, i, 1), m |-> Written(mem, b, i)] : b \in Available}
  ELSE IF LowFrequency(ev[k]) THEN {}
  ELSE IF ~ev[k].black THEN {[e |-> ev[k], m |-> mem]}
  ELSE {[e |-> [ev[k] EXCEPT !.buf = b, !.owner = TRUE, !.black = FALSE, !.under = TRUE],
         m |-> Written(Release(mem, Owned(ev[k])), b, 0)] : b \in Available}

\* write, then CoverUpdateUnsafe
TrainCover(k, i, v) ==
  \E f \in TrainFound(k, i) : Change(k, Refresh(f.e, v), Written(f.m, f.e.buf, v))

\* write only
TrainPlain(k, i, v) ==
  \E f \in TrainFound(k, i) : Change(k, f.e, Written(f.m, f.e.buf, v))

\* MarkBlacklistUnsafe with the entry at hand
TrainLasso(k, i) ==
  \E f \in TrainFound(k, i) : Change(k, Blacklisted(f.e), Release(f.m, Owned(f.e)))

(* Optimizer steps, on a slot's entry: counted, never filtered, and written
   through whatever pointer the lookup gave, the zero buffer included. *)
SlotFound(k, i) ==
  IF ~Present(k)
  THEN {[e |-> NewEntry(b, i, 1), m |-> Written(mem, b, i)] : b \in Available}
  ELSE {[e |-> [ev[k] EXCEPT !.cnt = SaturateAdd(@, 1)], m |-> mem]}

SlotTarget(e) == IF e.black THEN ZeroBuf ELSE e.buf

SlotCover(k, i, v) ==
  \E f \in SlotFound(k, i) :
    Change(k, Refresh(f.e, v), Written(f.m, SlotTarget(f.e), v))

SlotPlain(k, i, v) ==
  \E f \in SlotFound(k, i) : Change(k, f.e, Written(f.m, SlotTarget(f.e), v))

-----------------------------------------------------------------------------
(* Deletion, import and export. *)

DeletedEntries(S) == [k \in Keys |-> IF k \in S THEN Absent ELSE ev[k]]

OwnedBy(S) == UNION {Owned(ev[k]) : k \in {j \in S : Present(j)}}

Delete(k) ==
  Change(k, Absent, Release(mem, OwnedBy({k})))

\* The day in freq_val_'s high bits is abstracted: any keys may be old.
DeleteWithTimestamp(S) ==
  /\ \A k \in S : Present(k)
  /\ ev' = DeletedEntries(S)
  /\ mem' = Release(mem, OwnedBy(S))
  /\ train' = Marked(train, S)
  /\ UNCHANGED <<pvalues, pred>>

WithCount(e, c) == IF e = Absent \/ c = None THEN e ELSE [e EXCEPT !.cnt = c]

\* Mutant: InitValue marks the row of the tensor as the entry's own.
BorrowedAsOwner(t, k) ==
  [buf |-> <<t, k>>, owner |-> TRUE, black |-> FALSE, under |-> FALSE, cnt |-> 1]

Borrowed(t, k) ==
  [buf |-> <<t, k>>, owner |-> FALSE, black |-> FALSE, under |-> FALSE, cnt |-> 1]

RowsOf(t) == {b \in Rows : b[1] = t}

RowValue(p, k) == IF p.vals[k] = None THEN Freed ELSE p.vals[k]

\* clear() frees what the entries own; assigning p_values_ drops the last
\* reference to the old tensor; every imported entry borrows its row.
ImportValues(t, p) ==
  /\ t # pvalues
  /\ ev' = [k \in Keys |->
              LET e == IF p.vals[k] = None THEN Absent ELSE Borrowed(t, k)
              IN WithCount(IF k \in p.black THEN Blacklisted(e) ELSE e, p.freq[k])]
  /\ mem' = [b \in Buffers |->
               IF b \in OwnedBy(Keys) \cup RowsOf(pvalues) THEN Freed
               ELSE IF b \in RowsOf(t) THEN RowValue(p, b[2])
               ELSE mem[b]]
  /\ pvalues' = t
  /\ train' = {}
  /\ pred' = {}

\* The keys a delta import has to allocate a buffer for.
NeedsBuffer(d) ==
  {k \in Keys : d.vals[k] # None /\ (~Present(k) \/ ev[k].buf = Null)}

Allocations(d) ==
  {f \in [NeedsBuffer(d) -> Available] :
     \A j, k \in NeedsBuffer(d) : f[j] = f[k] => j = k}

\* The buffer the entry of a key with a value in the payload ends up with.
Target(d, f, k) == IF k \in NeedsBuffer(d) THEN f[k] ELSE ev[k].buf

Updated(d, f, k) ==
  IF d.vals[k] = None THEN ev[k]
  ELSE [buf |-> Target(d, f, k),
        owner |-> k \in NeedsBuffer(d) \/ ev[k].owner,
        black |-> FALSE,
        under |-> d.vals[k] < DefaultCutoff,
        cnt |-> IF Present(k) THEN ev[k].cnt ELSE 1]

\* When loading for inference the blacklisted keys are deleted.
Removed(d, n) == d.del \cup (IF Training(n) THEN {} ELSE d.black)

DeltaImport(d, n, f) ==
  LET listed   == d.black \ Removed(d, n)
      dropped  == OwnedBy(Removed(d, n)) \cup
                  UNION {DroppedBy(ev[k]) : k \in listed}
      written  == {k \in Keys : d.vals[k] # None}
  IN /\ ev' = [k \in Keys |->
                 IF k \in Removed(d, n) THEN Absent
                 ELSE WithCount(IF k \in listed THEN Blacklisted(ev[k])
                                ELSE Updated(d, f, k), d.freq[k])]
     /\ mem' = [b \in Buffers |->
                  IF b \in dropped THEN Freed
                  ELSE IF \E k \in written : b = Target(d, f, k)
                    THEN d.vals[CHOOSE k \in written : b = Target(d, f, k)]
                  ELSE mem[b]]
     /\ UNCHANGED <<pvalues, train, pred>>

\* RefreshAllUnderThresholds hands the entry's own pointer to the check, and
\* an entry without a buffer counts as under any cut-off.
RefreshedEntry(e, cutoff) ==
  IF e = Absent \/ cutoff = DefaultCutoff THEN e
  ELSE [e EXCEPT !.under = e.buf = Null \/ UnderThreshold(e.black, mem[e.buf], cutoff)]

ExportLists(n) ==
  /\ train' = TrainListAfterExport(train, n)
  /\ pred' = PredictionListAfterExport(train, pred, n)

ExportValues(n, cutoff) ==
  /\ ev' = [k \in Keys |-> RefreshedEntry(ev[k], cutoff)]
  /\ ExportLists(n)
  /\ UNCHANGED <<mem, pvalues>>

DeltaExport(n) ==
  /\ ExportLists(n)
  /\ UNCHANGED <<ev, mem, pvalues>>

-----------------------------------------------------------------------------
KeyStep(k) ==
  \/ "gather" \in Ops /\ \E c \in Counts, v \in Values : Gather(k, c, v)
  \/ "insert" \in Ops /\ \E v \in Values : InsertOrUpdate(k, v)
  \/ "insert" \in Ops /\ FilteredUpdate(k)
  \/ "blacklist" \in Ops /\ MarkBlacklist(k)
  \/ "scatter" \in Ops /\ \E v \in Values : ScatterUpdate(k, v)
  \/ "train" \in Ops /\ \E i, v \in Values : TrainCover(k, i, v)
  \/ "train" \in Ops /\ \E i, v \in Values : TrainPlain(k, i, v)
  \/ "lasso" \in Ops /\ \E i \in Values : TrainLasso(k, i)
  \/ "slot" \in Ops /\ \E i, v \in Values : SlotCover(k, i, v)
  \/ "slot" \in Ops /\ \E i, v \in Values : SlotPlain(k, i, v)
  \/ "delete" \in Ops /\ Delete(k)

TableStep ==
  \/ "delete" \in Ops /\ \E S \in SUBSET Keys : DeleteWithTimestamp(S)
  \/ "import" \in Ops /\ \E t \in Tensors, p \in Snapshots : ImportValues(t, p)
  \/ "deltaimport" \in Ops
       /\ \E d \in Deltas, n \in {3, 8} :
            \E f \in Allocations(d) : DeltaImport(d, n, f)
  \/ "export" \in Ops /\ \E n \in FirstN, c \in Cutoffs : ExportValues(n, c)
  \/ "export" \in Ops /\ \E n \in {3, 8} : DeltaExport(n)

Next == (\E k \in Keys : KeyStep(k)) \/ TableStep

Spec == Init /\ [][Next]_vars
-----------------------------------------------------------------------------
(* Properties. *)

\* The shared zero vector is never freed and never written: a blacklisted key
\* reads as zero, whatever was done to it or to any other key before.
ZeroIntact == mem[ZeroBuf] = 0

\* No entry keeps a pointer to a buffer that has been freed, by its own
\* deletion, another entry's, or the replacement of p_values_.
NoDangling ==
  \A k \in Keys : Present(k) /\ ev[k].buf # Null => mem[ev[k].buf] # Freed

\* A buffer an entry would free when it goes is its own: it came from the
\* allocator and no other entry points to it.
SingleOwner ==
  \A k \in Keys : Present(k) /\ ev[k].owner /\ ev[k].buf # Null =>
    /\ ev[k].buf \in Heap
    /\ \A j \in Keys \ {k} : Present(j) => ev[j].buf # ev[k].buf

\* Every allocated buffer is still owned by an entry, so that some later
\* deletion frees it.
NoLeak ==
  \A b \in Heap : mem[b] # Freed =>
    \E k \in Keys : Present(k) /\ ev[k].owner /\ ev[k].buf = b

\* A key that is not blacklisted has a value of its own, and never the shared
\* zero vector, which an optimizer would then write.
LiveHasBuffer ==
  \A k \in Keys : Present(k) /\ ~ev[k].black => ev[k].buf \in Heap \cup Rows

\* What the comment on FindOrZeros says of a blacklisted key.
BlacklistedIsZero ==
  \A k \in Keys : Present(k) /\ ev[k].black => Content(ev[k]) = 0

\* The five together.
BufferSafety == ZeroIntact /\ NoDangling /\ SingleOwner /\ NoLeak /\ LiveHasBuffer

\* No operation of the workload puts a key in the blacklist.
BlacklistFree ==
  /\ {"blacklist", "lasso"} \cap Ops = {}
  /\ \A p \in Snapshots : p.black = {}
  /\ \A d \in Deltas : d.black = {}

\* The workloads the buffers are safe under: a blacklisted entry may be given
\* the zero buffer by a scatter update, or lend it to a slot update, only if
\* nothing writes through the pointer of a blacklisted entry.
ZeroSafeWorkload ==
  \/ BlacklistFree
  \/ /\ "slot" \notin Ops
     /\ "scatter" \in Ops => {"insert", "deltaimport"} \cap Ops = {}

\* What a caller of the variable sees.
Visible ==
  [k \in Keys |->
     IF ~Present(k) THEN Absent
     ELSE [val |-> Content(ev[k]), black |-> ev[k].black,
           under |-> ev[k].under, cnt |-> ev[k].cnt]]

Abstract == INSTANCE KvStore WITH store <- Visible

\* Every operation on entries and buffers does to the values what the
\* operation of KvStore does: no write reaches another key's value.
ImplementsStore == Abstract!Spec
=============================================================================
