------------------------------ MODULE KvEntry ------------------------------
(***************************************************************************)
(* The data of a KvVariable that every other module shares: the entry a    *)
(* hash table keeps for a key, the decisions the kernels take on one entry *)
(* (low frequency, under the cut-off), and the two kinds of checkpoint     *)
(* payload.  An embedding vector is abstracted to its magnitude, the only  *)
(* thing the control flow looks at: 0 is the zero vector, and a vector is  *)
(* under a cut-off c when its magnitude is below c.                        *)
(***************************************************************************)
EXTENDS Integers, FiniteSets

CONSTANTS
  Keys,               \* the feature ids
  MaxValue,           \* magnitudes are 0 .. MaxValue
  MaxCount,           \* the saturation bound of the 16-bit frequency
  EnterThreshold,     \* enter_threshold_
  SupportDelta,       \* SUPPORT_DELTA_EXPORT
  SupportPrediction,  \* SUPPORT_PREDICTION_DELTA_EXPORT
  Cutoffs,            \* the cut-offs an export may be called with
  Absent              \* "no entry for this key"

ASSUME ConstantsAssumption ==
  /\ MaxValue \in Nat \ {0}
  /\ MaxCount \in Nat \ {0}
  /\ EnterThreshold \in 0 .. MaxCount
  /\ SupportDelta \in BOOLEAN
  /\ SupportPrediction \in BOOLEAN
  /\ Cutoffs \subseteq Nat

Values == 0 .. MaxValue
Counts == 0 .. MaxCount

\* DEFAULT_CUTOFF_VALUE (1.0e-20, enabled): only the zero vector is below it.
\* A disabled cut-off is 0, which nothing is below.
DefaultCutoff == 1

-----------------------------------------------------------------------------
(* One entry, as a reader of the variable sees it. *)

Entry == [val : Values, black : BOOLEAN, under : BOOLEAN, cnt : Counts]

ASSUME AbsentAssumption == Absent \notin Entry

Tables == [Keys -> Entry \cup {Absent}]

EmptyTable == [k \in Keys |-> Absent]

\* HasLowFrequency
LowFrequency(e) == e.cnt < EnterThreshold

\* Mutant: the sum is stored without its bound.
SaturateAddUnbounded(x, d) == x + d

\* SaturateAddFrequency
SaturateAdd(x, d) == IF x + d > MaxCount THEN MaxCount ELSE x + d

\* UpdateUnderThreshold: a blacklisted key is always under the threshold.
UnderThreshold(black, v, cutoff) == black \/ v < cutoff

-----------------------------------------------------------------------------
(* Checkpoint payloads.  A full one replaces the table; a delta one edits  *)
(* it.  A key that is not in a payload's function has None there.          *)

None == -1

FullPayload ==
  [vals : [Keys -> Values \cup {None}],   \* "keys" and "values"
   black : SUBSET Keys,                   \* "blacklist"
   freq : [Keys -> Counts \cup {None}]]   \* "freq_keys" and "freq_values"

\* DeltaExport puts a key in at most one of update_list, black_list, delete_list.
DeltaPayload ==
  {d \in [vals : [Keys -> Values \cup {None}],
          black : SUBSET Keys,
          freq : [Keys -> Counts \cup {None}],
          del : SUBSET Keys] :
     /\ d.black \cap d.del = {}
     /\ \A k \in d.black \cup d.del : d.vals[k] = None}

\* The value of first_n the Python layer passes: 2 reads keys and values only,
\* 3 is a prediction (inference) export, 6 and 8 are training exports.
FirstN == {2, 3, 6, 8}
Training(n) == n > 3

\* NeedDeltaInfo() guards every insertion in train_deltalist_.
Marked(list, S) == IF SupportDelta THEN list \cup S ELSE list

\* Mutant: an inference export also empties the training list.
TrainListAfterAnyExport(train, n) == IF n > 2 THEN {} ELSE train

\* Mutant: a training export forgets to hand its keys on.
PredictionListNotHandedOn(train, pred, n) ==
  IF n = 2 THEN pred ELSE IF ~Training(n) THEN {} ELSE pred

\* What an export leaves in the two delta lists.
TrainListAfterExport(train, n) == IF Training(n) THEN {} ELSE train
PredictionListAfterExport(train, pred, n) ==
  IF n = 2 THEN pred
  ELSE IF ~Training(n) THEN {}
  ELSE IF SupportPrediction THEN pred \cup train ELSE pred
=============================================================================
