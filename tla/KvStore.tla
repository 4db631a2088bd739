------------------------------ MODULE KvStore ------------------------------
(***************************************************************************)
(* What a KvVariable promises its callers, operation by operation, with    *)
(* the memory behind the values abstracted away: a key has a value of its  *)
(* own, and a blacklisted key reads as the zero vector.  Operations that   *)
(* change one key run under that key's segment lock, and whole-table       *)
(* operations run under the exclusive mu(), so each is one step here.      *)
(***************************************************************************)
EXTENDS KvEntry

CONSTANTS
  Snapshots,   \* the payloads ImportValues may be given
  Deltas       \* the payloads DeltaImport may be given

ASSUME PayloadAssumption ==
  /\ Snapshots \subseteq FullPayload
  /\ Deltas \subseteq DeltaPayload

VARIABLES
  store,   \* the table, as FindOrZeros and the exports read it
  train,   \* train_deltalist_
  pred     \* prediction_deltalist_

vars == <<store, train, pred>>

TypeOK ==
  /\ store \in Tables
  /\ train \in SUBSET Keys
  /\ pred \in SUBSET Keys

Init ==
  /\ store = EmptyTable
  /\ train = {}
  /\ pred = {}

Present(k) == store[k] # Absent

NewEntry(v, c) ==
  [val |-> v, black |-> FALSE, under |-> v < DefaultCutoff, cnt |-> c]

\* The only place a key is turned into a blacklisted one; a key that was
\* not in the table keeps under_threshold_ FALSE.
BlackEntry(e) ==
  IF e = Absent THEN [val |-> 0, black |-> TRUE, under |-> FALSE, cnt |-> 1]
  ELSE IF e.black THEN e
  ELSE [e EXCEPT !.val = 0, !.black = TRUE, !.under = TRUE]

Write(e, v) ==
  [e EXCEPT !.val = IF e.black THEN 0 ELSE v,
            !.under = UnderThreshold(e.black, v, DefaultCutoff)]

Become(k, e) ==
  /\ store' = [store EXCEPT ![k] = e]
  /\ train' = Marked(train, {k})
  /\ pred' = pred

-----------------------------------------------------------------------------
(* Operations on one key. *)

\* FindOrInsert: count the access, or insert with the initial value v.
Gather(k, c, v) ==
  Become(k, IF Present(k)
            THEN [store[k] EXCEPT
                    !.cnt = SaturateAdd(@, c),
                    !.under = UnderThreshold(store[k].black, store[k].val, DefaultCutoff)]
            ELSE NewEntry(v, c))

\* InsertOrUpdate without a blacklist flag: a blacklisted key stays so.
InsertOrUpdate(k, v) ==
  Become(k, IF Present(k) THEN Write(store[k], v) ELSE NewEntry(v, 1))

\* InsertOrUpdate of a row that filter_out drops still marks the key.
FilteredUpdate(k) == Become(k, store[k])

\* InsertOrUpdate with the blacklist flag.
MarkBlacklist(k) == Become(k, BlackEntry(store[k]))

ScatterUpdate(k, v) ==
  Become(k, CASE ~Present(k) -> NewEntry(v, 1)
              [] Present(k) /\ store[k].black -> store[k]
              [] OTHER -> Write(store[k], v))

\* The variable's row in an optimizer step.  A key seen too rarely is left
\* alone; a blacklisted one comes back as a zero vector.  init is the value
\* a missing key is first given, v the value the optimizer computes.
Revive(e) == IF e.black THEN [e EXCEPT !.black = FALSE, !.under = TRUE] ELSE e

TrainBase(k, init) == IF Present(k) THEN Revive(store[k]) ELSE NewEntry(init, 1)

Filtered(k) == Present(k) /\ LowFrequency(store[k])

\* optimizers that write the row and refresh under_threshold_
TrainCover(k, init, v) == ~Filtered(k) /\ Become(k, Write(TrainBase(k, init), v))

\* optimizers that write the row in place and leave under_threshold_
TrainPlain(k, init, v) ==
  ~Filtered(k) /\ Become(k, [TrainBase(k, init) EXCEPT !.val = v])

\* group-lasso optimizers that find the row small enough to drop
TrainLasso(k, init) == ~Filtered(k) /\ Become(k, BlackEntry(TrainBase(k, init)))

\* The slot's row in an optimizer step: never filtered, always counted.
SlotBase(k, init) ==
  IF Present(k) THEN [store[k] EXCEPT !.cnt = SaturateAdd(@, 1)]
                ELSE NewEntry(init, 1)

SlotCover(k, init, v) == Become(k, Write(SlotBase(k, init), v))

SlotPlain(k, init, v) ==
  LET e == SlotBase(k, init)
  IN Become(k, [e EXCEPT !.val = IF e.black THEN 0 ELSE v])

Delete(k) == Become(k, Absent)

-----------------------------------------------------------------------------
(* Operations on the whole table. *)

\* DeleteWithTimestamp: the days in freq_val_ are abstracted, so any set of
\* present keys may be the old ones.
DeleteWithTimestamp(S) ==
  /\ S \subseteq {k \in Keys : Present(k)}
  /\ store' = [k \in Keys |-> IF k \in S THEN Absent ELSE store[k]]
  /\ train' = Marked(train, S)
  /\ pred' = pred

WithCount(e, c) == IF e = Absent \/ c = None THEN e ELSE [e EXCEPT !.cnt = c]

Imported(p) ==
  [k \in Keys |->
     LET e == IF p.vals[k] = None THEN Absent
              ELSE [val |-> p.vals[k], black |-> FALSE, under |-> FALSE, cnt |-> 1]
     IN WithCount(IF k \in p.black THEN BlackEntry(e) ELSE e, p.freq[k])]

ImportValues(p) ==
  /\ store' = Imported(p)
  /\ train' = {}
  /\ pred' = {}

\* Stage 1 updates and un-blacklists, stage 2 blacklists (or, loading for
\* inference, deletes), stages 3 and 4 set frequencies, stage 5 deletes.
DeltaApplied(t, d, n) ==
  [k \in Keys |->
     LET updated == IF d.vals[k] = None THEN t[k]
                    ELSE NewEntry(d.vals[k], IF t[k] = Absent THEN 1 ELSE t[k].cnt)
         listed  == IF k \notin d.black THEN updated
                    ELSE IF Training(n) THEN BlackEntry(updated) ELSE Absent
     IN IF k \in d.del THEN Absent ELSE WithCount(listed, d.freq[k])]

DeltaImport(d, n) ==
  /\ store' = DeltaApplied(store, d, n)
  /\ UNCHANGED <<train, pred>>

\* RefreshAllUnderThresholds runs only for a cut-off that is not the default.
Refreshed(t, cutoff) ==
  [k \in Keys |-> IF t[k] = Absent \/ cutoff = DefaultCutoff THEN t[k]
                  ELSE [t[k] EXCEPT !.under = UnderThreshold(t[k].black, t[k].val, cutoff)]]

ExportLists(n) ==
  /\ train' = TrainListAfterExport(train, n)
  /\ pred' = PredictionListAfterExport(train, pred, n)

ExportValues(n, cutoff) ==
  /\ store' = Refreshed(store, cutoff)
  /\ ExportLists(n)

DeltaExport(n) ==
  /\ store' = store
  /\ ExportLists(n)

-----------------------------------------------------------------------------
\* Everything that keeps under_threshold_ in step with the value it describes.
CoverStep(k) ==
  \/ \E c \in Counts, v \in Values : Gather(k, c, v)
  \/ \E v \in Values : InsertOrUpdate(k, v) \/ ScatterUpdate(k, v)
  \/ FilteredUpdate(k) \/ Delete(k)
  \/ \E i \in Values :
       \/ TrainLasso(k, i)
       \/ \E v \in Values : TrainCover(k, i, v) \/ SlotCover(k, i, v)

PlainStep(k) == \E i, v \in Values : TrainPlain(k, i, v) \/ SlotPlain(k, i, v)

KeyStep(k) == CoverStep(k) \/ PlainStep(k) \/ MarkBlacklist(k)

TableStep ==
  \/ \E S \in SUBSET Keys : DeleteWithTimestamp(S)
  \/ \E p \in Snapshots : ImportValues(p)
  \/ \E d \in Deltas, n \in {3, 8} : DeltaImport(d, n)
  \/ \E n \in FirstN, c \in Cutoffs : ExportValues(n, c)
  \/ \E n \in {3, 8} : DeltaExport(n)

Next == (\E k \in Keys : KeyStep(k)) \/ TableStep

Spec == Init /\ [][Next]_vars
=============================================================================
