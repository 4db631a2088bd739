--------------------------- MODULE MCApplyGradient ---------------------------
(***************************************************************************)
(* ApplyGradient for every kernel class of training_ops.cc, and what is    *)
(* known not to have the properties, with the reason.                      *)
(***************************************************************************)
EXTENDS ApplyGradient, KvOptimizers, TensorOptimizers, TLC

AllKernels == KvKernels \cup TensorKernels

\* These write rows in place, the last one the row of v after its refresh.
InPlace ==
  {<<"KvVariableSparseApplyFtrlV2", t>> : t \in {"var", "accum", "linear"}} \cup
  {<<"KvVariableSparseApplyAdagrad", t>> : t \in {"var", "accum"}} \cup
  {<<"KvVariableSparseApplyAdadelta", t>> : t \in {"var", "accum", "accum_update"}} \cup
  {<<"KvVariableSparseApplyAdaDQH", t>> : t \in {"var", "m", "v"}} \cup
  {<<"KvVariableGroupSparseApplyAdamNewV2", "v">>}

LateKernels == {k \in KvKernels : k.op = "KvVariableGroupSparseApplyAdamNewV2"}

GroupFtrl == {"KvVariableGroupSparseApplyFtrlV2", "KvVariableSparseGroupSparseApplyFtrlV2"}

\* lr is only tested to be a scalar, in two dense kernels not even that.
UntestedLr ==
  {"KvVariableSparseApplyAdagrad", "KvVariableSparseApplyAdadelta",
   "KvVariableGroupSparseApplyAdadelta", "KvVariableGroupSparseApplyMomentum",
   "KvVariableComputeAdaDQHHG", "ApplyAdaDQH", "ComputeAdaDQHHG"} \X {<<"lr", "range">>}

\* Of the Hessian the number of rows is tested, by the last not even that.
UntestedHessian ==
  {"KvVariableGroupSparseApplyAdaHessian", "KvVariableGroupSparseApplyLambHessian",
   "SparseApplyAdaHessian"} \X {<<"hessian", "lengths">>, <<"hessian", "rank">>}

\* Kernels that work on rows compare the gradient with the variable along the
\* variable's dimensions only; two dense kernels compare nothing.
UntestedGradient ==
  ({k.op : k \in {x \in AllKernels : x.kind # "dense"}} \X {<<"grad", "rank">>}) \cup
  ({"ApplyAdaDQH", "ComputeAdaDQHHG"} \X {<<"grad", "lengths">>, <<"grad", "rank">>})

\* check_dim_size takes a packed slot as wide as the variable, of which the
\* kernel then uses three or five times the width; two dense kernels compare
\* nothing.
UntestedSlot ==
  {<<"KvVariableGroupSparseApplyAdamV3", <<"m_v_linear", "unpacked">> >>,
   <<"KvVariableGroupSparseApplyAdamV4", <<"m_v_linear", "unpacked">> >>,
   <<"KvVariableGroupSparseApplyRectifiedAdam", <<"opt", "unpacked">> >>} \cup
  ({"ApplyAdaDQH", "ComputeAdaDQHHG"} \X {<<"m", "lengths">>, <<"v", "lengths">>})

KnownExceptions ==
  [\* rows are inserted and no table is marked
   chain |-> {"KvVariableComputeAdaDQHHG"},
   cutoff |-> InPlace,
   \* with shrinkage, the gradient added to accum reads the freed row
   live |-> GroupFtrl,
   \* the gradient with shrinkage after var was written; new_accum after accum was
   names |-> GroupFtrl \cup
             {"KvVariableSparseApplyFtrlV2", "KvVariableGroupSparseApplyAdadelta"},
   \* accum twice; the Nesterov correction written to m itself, in both others
   once |-> {"KvVariableGroupSparseApplyFtrlV2", "KvVariableGroupSparseApplyMomentum",
             "KvVariableGroupSparseApplyRectifiedAdam"},
   \* {0, 1} are locked
   held |-> {<<"KvVariableSparseApplyAdadelta", "accum_update">>},
   bad |-> UntestedLr \cup UntestedHessian \cup UntestedGradient \cup UntestedSlot]

\* No class is in one of its faulty versions, which are left to the invariants.
AsInTheCode ==
  /\ GroupSparseApplyAdamDoWork # GroupSparseApplyAdamUnmarked
  /\ GroupSparseApplyAdaBeliefDoWork # GroupSparseApplyAdaBeliefUncovered
  /\ GroupSparseApplyLambDoWork # GroupSparseApplyLambNormLate
  /\ GroupSparseApplyAMSGradDoWork # GroupSparseApplyAMSGradVhatFirst
  /\ GroupSparseApplyAdaHessianDoWork # GroupSparseApplyAdaHessianTwice
  /\ GroupSparseApplyAdaDQHCompute # GroupSparseApplyAdaDQHThreeLocked
  /\ KvVariableSparseGroupSparseApplyFtrlV2 # FtrlSwapped
  /\ TensorApplyAdaBeliefRows # TensorApplyAdaBeliefBoundLate

\* Every class is as the proofs take it to be.
ASSUME KernelsAreSound == Exempt = KnownExceptions /\ AsInTheCode => KernelsSound

NoExceptions == [KnownExceptions EXCEPT !.cutoff = {}]

WorkerSymmetry == Permutations(Workers)
=============================================================================
