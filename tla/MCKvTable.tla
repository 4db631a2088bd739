----------------------------- MODULE MCKvTable -----------------------------
(***************************************************************************)
(* Instances of KvTable for TLC: the graph of a behaviour is chosen when   *)
(* it begins, among the workloads the buffers are safe under.  The         *)
(* payloads are ones an export can write, in every combination of "valued, *)
(* blacklisted, not in it" over the keys; the frequencies accompany the    *)
(* keys a training export lists.                                           *)
(***************************************************************************)
EXTENDS KvTable, FrequencyWord, TLC

\* Which graph runs, or "words": chosen once.
VARIABLE workload

TrainingOps == {"gather", "insert", "blacklist", "train", "lasso", "delete",
                "import", "deltaimport", "export"}

\* Slots and scatter updates, where nothing is blacklisted.
ServingOps == {"gather", "scatter", "slot", "delete", "import", "deltaimport",
               "export"}

\* Blacklists and scatter updates, without the operations that write through
\* the pointer an entry holds.
ScatterOps == {"blacklist", "scatter", "train", "lasso", "delete", "import"}

\* Both, which the code does not keep apart.
MixedOps == {"insert", "blacklist", "scatter", "delete"}

\* A payload in which f says what is recorded of each key.
Payload(f) ==
  [vals |-> [k \in Keys |-> IF f[k] = "value" THEN 1 ELSE None],
   black |-> {k \in Keys : f[k] = "black"},
   freq |-> [k \in Keys |-> IF f[k] = "none" THEN None ELSE MaxCount],
   del |-> {k \in Keys : f[k] = "delete"}]

FullOf(d) == [vals |-> d.vals, black |-> d.black, freq |-> d.freq]

MCSnapshots == {FullOf(Payload(f)) : f \in [Keys -> {"value", "black", "none"}]}

\* Deltas of a training export about one key, and one of an inference export,
\* which has no frequencies, with a value for every key.
InferenceDelta ==
  [Payload([k \in Keys |-> "value"]) EXCEPT !.freq = [k \in Keys |-> None]]

MCDeltas ==
  {InferenceDelta} \cup
  {Payload(f) : f \in {g \in [Keys -> {"value", "black", "delete", "none"}] :
                         Cardinality({k \in Keys : g[k] # "none"}) <= 1}}

\* Where blacklists are not in use, neither are payloads that carry one.
PlainSnapshots == {p \in MCSnapshots : p.black = {}}
PlainDeltas == {d \in MCDeltas : d.black = {}}

\* What each kind of graph runs.
Workloads == {"training", "serving", "scatter"}

OpsOf(w) == CASE w = "training" -> TrainingOps
              [] w = "serving"  -> ServingOps
              [] w = "scatter"  -> ScatterOps
              [] w = "mixed"    -> MixedOps

SnapshotsOf(w) == IF w = "serving" THEN PlainSnapshots ELSE MCSnapshots

DeltasOf(w) == IF w = "serving" THEN PlainDeltas ELSE MCDeltas

Graph(w) ==
  INSTANCE KvTable WITH Ops <- OpsOf(w), Snapshots <- SnapshotsOf(w), Deltas <- DeltasOf(w)

ASSUME WorkloadsAreSafe == \A w \in Workloads : Graph(w)!ZeroSafeWorkload

-----------------------------------------------------------------------------
(* The life of one key in FrequencyWord is a behaviour of its own.         *)

GraphInit == Init /\ WordInit /\ workload \in Workloads \cup {"words"}

GraphStep ==
  /\ \E w \in Workloads : workload = w /\ Graph(w)!Next
  /\ UNCHANGED <<workload, wordvars>>

WordStep ==
  /\ workload = "words"
  /\ WordNext
  /\ UNCHANGED <<workload, vars>>

GraphNext == GraphStep \/ WordStep

GraphSpec == GraphInit /\ [][GraphNext]_<<vars, workload, wordvars>>

MixedInit == Init /\ WordInit /\ workload = "mixed"

MixedNext == Graph("mixed")!Next /\ UNCHANGED <<workload, wordvars>>

MixedSpec == MixedInit /\ [][MixedNext]_<<vars, workload, wordvars>>

HeapSymmetry == Permutations(Heap) \cup Permutations(Tensors)
=============================================================================
