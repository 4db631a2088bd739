-------------------------- MODULE TensorOptimizers --------------------------
(***************************************************************************)
(* The optimizers of plain tensors: six that update a whole tensor with a  *)
(* functor, under exclusive mutexes, and three that update the rows named  *)
(* by indices, one after the other, checking each index when they come to  *)
(* it.  Every class is registered for references and for resources.        *)
(***************************************************************************)
EXTENDS OptimizerSteps

\* AdaHessian of a whole tensor.
ApplyAdaHessianCompute ==
  DenseCompute(<<"var", "m", "v">>, <<"grad", "hessian">> \o AdamArgs,
    0 .. 2, {"m", "v", "grad", "hessian", "lr"})

ApplyAdaHessianFunctor == <<Write("m", {"m"}), Write("v", {"v"}), Write("var", {"m", "v"})>>

ApplyAdaHessian == <<"var", "m", "v">> \o <<"grad", "hessian">> \o AdamArgs

-----------------------------------------------------------------------------
\* AdaBelief of a whole tensor.
ApplyAdaBeliefCompute ==
  DenseCompute(<<"var", "m", "v">>, <<"grad">> \o AdamArgs,
    0 .. 2, {"m", "v", "grad", "lr"})

ApplyAdaBeliefFunctor == <<Write("m", {"m"}), Write("v", {"m", "v"}), Write("var", {"m", "v"})>>

ApplyAdaBelief == <<"var", "m", "v">> \o <<"grad">> \o AdamArgs

-----------------------------------------------------------------------------
\* Lamb of a whole tensor.
ApplyLambCompute ==
  DenseCompute(<<"var", "m", "v">>, <<"grad">> \o AdamArgs,
    0 .. 2, {"m", "v", "grad", "lr"})

ApplyLambFunctor == <<Write("m", {"m"}), Write("v", {"v"}), Read({"m", "v", "var"}),
  Write("var", {"m", "v"})>>

ApplyLamb == <<"var", "m", "v">> \o <<"grad">> \o AdamArgs

-----------------------------------------------------------------------------
\* Lamb with a Hessian, of a whole tensor.
ApplyLambHessianCompute ==
  DenseCompute(<<"var", "m", "v">>, <<"grad", "hessian">> \o AdamArgs,
    0 .. 2, {"m", "v", "grad", "hessian", "lr"})

ApplyLambHessianFunctor == <<Write("m", {"m"}), Write("v", {"v"}), Read({"m", "v", "var"}),
  Write("var", {"m", "v"})>>

ApplyLambHessian == <<"var", "m", "v">> \o <<"grad", "hessian">> \o AdamArgs

-----------------------------------------------------------------------------
\* AdaDQH of a whole tensor, of whose arguments nothing is checked.
ApplyAdaDQHCompute ==
  DenseCompute(<<"var", "m", "v">>, <<"grad">> \o AdamArgs,
    0 .. 2, {})

ApplyAdaDQHFunctor == <<Let("m_old", {"m"}), Let("m_new", {"m"}), Let("h", {"m_new", "m_old"}),
  Write("v", {"v", "h"}), Write("var", {"m_new", "v"}), Write("m", {"m"})>>

ApplyAdaDQH == <<"var", "m", "v">> \o <<"grad">> \o AdamArgs

-----------------------------------------------------------------------------
\* The hypergradients of AdaDQH for a whole tensor, which is only read.
ComputeAdaDQHHGCompute ==
  DenseCompute(<<"var", "m", "v">>, <<"grad">> \o AdamArgs \o <<"sam", "delta", "alpha">>,
    {0, 1, 2, 11}, {})

ComputeAdaDQHHGFunctor == <<Read({"m", "v"})>>

ComputeAdaDQHHG == <<"var", "m", "v">> \o <<"grad">> \o AdamArgs \o <<"sam", "delta", "alpha">>

-----------------------------------------------------------------------------
\* AdaDQH of the rows of a tensor.
TensorApplyAdaDQHCompute ==
  RowsCompute(<<"var", "m", "v">>, Grads \o AdamArgs,
    0 .. 2, {"m", "v", "grad", "lr"})

TensorApplyAdaDQHRows == <<Bound, Let("m_old", {"m"}), Let("m_new", {"m"}),
  Let("h", {"m_new", "m_old"}), Write("v", {"v", "h"}),
  Write("var", {"m_new", "v"}), Write("m", {"m"})>>

SparseApplyAdaDQH == <<"var", "m", "v">> \o Grads \o AdamArgs

-----------------------------------------------------------------------------
\* AdaBelief of the rows of a tensor.
TensorApplyAdaBeliefCompute ==
  RowsCompute(<<"var", "m", "v">>, Grads \o AdamArgs,
    0 .. 2, {"m", "v", "grad", "lr"})

\* Mutant: the index is checked after m was written.
TensorApplyAdaBeliefBoundLate == <<Write("m", {"m"}), Bound, Write("v", {"m", "v"}), Write("var", {"m", "v"})>>

TensorApplyAdaBeliefRows == <<Bound, Write("m", {"m"}), Write("v", {"m", "v"}), Write("var", {"m", "v"})>>

SparseApplyAdaBelief == <<"var", "m", "v">> \o Grads \o AdamArgs

-----------------------------------------------------------------------------
\* AdaHessian of the rows of a tensor, which compares no shape of hessian.
TensorApplyAdaHessianCompute ==
  RowsCompute(<<"var", "m", "v">>, Grads \o <<"hessian">> \o AdamArgs,
    0 .. 2, {"m", "v", "grad", "lr"})

TensorApplyAdaHessianRows == <<Bound, Write("m", {"m"}), Write("v", {"v"}), Write("var", {"m", "v"})>>

SparseApplyAdaHessian == <<"var", "m", "v">> \o Grads \o <<"hessian">> \o AdamArgs

-----------------------------------------------------------------------------
\* REGISTER_KERNEL_BUILDER of every class.
TensorKernels ==
  {Kernel("ApplyAdaHessian", ApplyAdaHessian,
          ApplyAdaHessianCompute, TensorDoWork(ApplyAdaHessianFunctor)),
   Kernel("ApplyAdaBelief", ApplyAdaBelief,
          ApplyAdaBeliefCompute, TensorDoWork(ApplyAdaBeliefFunctor)),
   Kernel("ApplyLamb", ApplyLamb,
          ApplyLambCompute, TensorDoWork(ApplyLambFunctor)),
   Kernel("ApplyLambHessian", ApplyLambHessian,
          ApplyLambHessianCompute, TensorDoWork(ApplyLambHessianFunctor)),
   Kernel("ApplyAdaDQH", ApplyAdaDQH,
          ApplyAdaDQHCompute, TensorDoWork(ApplyAdaDQHFunctor)),
   Kernel("ComputeAdaDQHHG", ComputeAdaDQHHG,
          ComputeAdaDQHHGCompute, TensorDoWork(ComputeAdaDQHHGFunctor)),
   Kernel("SparseApplyAdaDQH", SparseApplyAdaDQH,
          TensorApplyAdaDQHCompute, TensorDoWork(TensorApplyAdaDQHRows)),
   Kernel("SparseApplyAdaBelief", SparseApplyAdaBelief,
          TensorApplyAdaBeliefCompute, TensorDoWork(TensorApplyAdaBeliefRows)),
   Kernel("SparseApplyAdaHessian", SparseApplyAdaHessian,
          TensorApplyAdaHessianCompute, TensorDoWork(TensorApplyAdaHessianRows))}
=============================================================================
