---------------------------- MODULE KvCheckpoint ----------------------------
(***************************************************************************)
(* A KvVariable, the checkpoints its exports write, and the table somebody *)
(* else makes of them: a training process that restarts and restores the   *)
(* newest full checkpoint and the deltas after it, or a serving process    *)
(* that loads the prediction exports as they come.  Every export makes its *)
(* payload and edits the two delta lists in one step under mu(); the file  *)
(* is written afterwards, and that may fail.  What the reader has is the   *)
(* import of every payload that was written for it, in order.              *)
(***************************************************************************)
EXTENDS KvStore

VARIABLES
  reader,     \* who reads the checkpoints, chosen once
  copy,       \* the table the reader has made of the payloads
  lost,       \* history: marked for a payload that was never written
  strictest   \* history: the largest cut-off an export has applied

checkpointVars == <<store, train, pred, reader, copy, lost, strictest>>

Readers == {"restart", "serving"}

CheckpointTypeOK ==
  /\ TypeOK
  /\ reader \in Readers
  /\ copy \in Tables
  /\ lost \in SUBSET Keys
  /\ strictest \in Cutoffs

CheckpointInit ==
  /\ Init
  /\ reader \in Readers
  /\ copy = EmptyTable
  /\ lost = {}
  /\ strictest = DefaultCutoff

\* The payloads a reader is given: training exports for a restart, prediction
\* exports (first_n 3) for a serving process.
Given(n) == IF reader = "restart" THEN Training(n) ELSE n = 3

\* all_delta
Changed(n) == IF Training(n) THEN train ELSE train \cup pred

-----------------------------------------------------------------------------
(* Full exports.  t is the table after RefreshAllUnderThresholds. *)

\* A prediction export has no frequency filter.
Eligible(e, n) == ~e.under /\ (Training(n) => ~LowFrequency(e))

\* counting_iter: the rows "keys" and "values" are allocated for.
Counted(t, n) == {k \in Keys : t[k] # Absent /\ ~t[k].black /\ Eligible(t[k], n)}

\* do_export: the keys that may take a row.  Without a blacklist tensor to go
\* to, a blacklisted key is tested like any other.
Candidates(t, n) ==
  {k \in Keys : t[k] # Absent /\ (t[k].black => ~Training(n)) /\ Eligible(t[k], n)}

\* The rows go to the first candidates in the order of the hash map.
RowChoices(t, n) ==
  {E \in SUBSET Candidates(t, n) : Cardinality(E) = Cardinality(Counted(t, n))}

\* OutputEmbeddingData leaves the row of a blacklisted key uninitialized.
Contents(t, E) ==
  {g \in [E -> Values] : \A k \in E : ~t[k].black => g[k] = t[k].val}

FullOutput(t, n, E, g) ==
  [vals  |-> [k \in Keys |-> IF k \in E THEN g[k] ELSE None],
   black |-> IF Training(n) THEN {k \in Keys : t[k] # Absent /\ t[k].black} ELSE {},
   freq  |-> [k \in Keys |-> IF Training(n) /\ t[k] # Absent THEN t[k].cnt ELSE None]]

\* FullExport.  A payload that reaches the reader replaces all it had; written
\* is FALSE when the save fails after the lists were edited.
FullSave(n, cutoff, written) ==
  /\ ExportValues(n, cutoff)
  /\ LET t == Refreshed(store, cutoff)
     IN IF Given(n) /\ written
        THEN /\ \E E \in RowChoices(t, n) : \E g \in Contents(t, E) :
                  copy' = Imported(FullOutput(t, n, E, g))
             /\ lost' = {}
        ELSE /\ copy' = copy
             /\ lost' = IF Given(n) THEN lost \cup Changed(n) ELSE lost
  /\ strictest' = IF cutoff > strictest THEN cutoff ELSE strictest
  /\ UNCHANGED reader

-----------------------------------------------------------------------------
(* Delta exports. *)

\* The keys of all_delta that are neither missing nor too rare.
Frequent(n) == {k \in Changed(n) : Present(k) /\ ~LowFrequency(store[k])}

BlackList(n) == {k \in Frequent(n) : store[k].black}

UpdateList(n) == Frequent(n) \ BlackList(n)

\* A prediction export moves the blacklist to the deleted keys.
DeltaOutput(n) ==
  [vals  |-> [k \in Keys |-> IF k \in UpdateList(n) THEN store[k].val ELSE None],
   black |-> IF Training(n) THEN BlackList(n) ELSE {},
   freq  |-> [k \in Keys |->
                IF ~Training(n) \/ k \notin Changed(n) THEN None
                ELSE IF Present(k) THEN store[k].cnt ELSE 0],
   del   |-> {k \in Changed(n) : ~Present(k)} \cup
             (IF Training(n) THEN {} ELSE BlackList(n))]

DeltaSave(n, written) ==
  /\ DeltaExport(n)
  /\ IF Given(n) /\ written
     THEN /\ copy' = DeltaApplied(copy, DeltaOutput(n), n)
          /\ lost' = lost \ Changed(n)
     ELSE /\ copy' = copy
          /\ lost' = IF Given(n) THEN lost \cup Changed(n) ELSE lost
  /\ UNCHANGED <<reader, strictest>>

-----------------------------------------------------------------------------
\* The process is lost and a new one restores what was saved.
Restart ==
  /\ reader = "restart"
  /\ store' = copy
  /\ train' = {}
  /\ pred' = {}
  /\ lost' = {}
  /\ strictest' = DefaultCutoff
  /\ UNCHANGED <<reader, copy>>

ReaderUnchanged == UNCHANGED <<reader, copy, lost, strictest>>

Blacklist == (\E k \in Keys : MarkBlacklist(k)) /\ ReaderUnchanged

Operate ==
  /\ \/ \E k \in Keys : CoverStep(k)
     \/ \E S \in SUBSET Keys : DeleteWithTimestamp(S)
  /\ ReaderUnchanged

\* Whether the file of somebody else's payload is written makes no difference.
Outcomes(n) == IF Given(n) THEN BOOLEAN ELSE {TRUE}

\* 6 and 8 differ in the tensors of a training export, not in what is done.
Save ==
  \/ \E n \in FirstN \ {6}, c \in Cutoffs : \E w \in Outcomes(n) : FullSave(n, c, w)
  \/ \E n \in {3, 8} : \E w \in Outcomes(n) : DeltaSave(n, w)

ReaderNext == Operate \/ Save \/ Restart \/ (reader = "restart" /\ Blacklist)

ReaderSpec == CheckpointInit /\ [][ReaderNext]_checkpointVars

\* The same, with keys blacklisted before they are ever inserted while a
\* serving process reads.
EarlyBlacklistSpec == CheckpointInit /\ [][ReaderNext \/ Blacklist]_checkpointVars

-----------------------------------------------------------------------------
(* Properties. *)

\* What a reader has of a key whose entry is e: no key that is gone, and the
\* value of every key seen often enough, unless that value is below a cut-off
\* some export applied; below the default one there is only the zero vector.
Same(e, r) == r # Absent /\ r.val = e.val /\ r.black = e.black

Faithful(e, r) ==
  IF e = Absent THEN r = Absent
  ELSE LowFrequency(e) \/ Same(e, r) \/ (e.val < strictest /\ ~e.black /\ r = Absent)

\* A training process that restarts now has lost nothing but the keys marked
\* for the next delta and those of a payload whose file was never written:
\* whatever sequence of full, delta and prediction exports, of failed saves
\* and of restarts came before, no other change escapes train_deltalist_, the
\* next full checkpoint makes up for a failed one, and the frequency of what
\* was kept is restored with it.  (With the types, which bound that frequency.)
CheckpointFaithful ==
  /\ CheckpointTypeOK
  /\ reader = "restart" =>
       \A k \in Keys \ (train \cup lost) :
         /\ Faithful(store[k], copy[k])
         /\ store[k] # Absent /\ copy[k] # Absent => store[k].cnt = copy[k].cnt

\* What a serving process answers for a key that is in neither delta list is
\* what the training process would: training exports in between hand their
\* changes on to prediction_deltalist_.
ServedFaithful ==
  reader = "serving" =>
    \A k \in Keys \ (train \cup pred \cup lost) :
      IF store[k] # Absent /\ store[k].black
      THEN LowFrequency(store[k]) \/ copy[k] = Absent
      ELSE Faithful(store[k], copy[k])

\* The rows of an inference export are the ones it counted as valid: no
\* blacklisted key is served, and none takes the place of a key that is.
InferenceRowsAreCounted ==
  reader = "serving" => RowChoices(store, 3) = {Counted(store, 3)}
=============================================================================
