---------------------------- MODULE KvOptimizers ----------------------------
(***************************************************************************)
(* The optimizers of KvVariables.  Of each kernel class: Compute gives its *)
(* tables, the inputs in the order it reads them, the inputs whose mutexes *)
(* it locks and the arguments whose range it checks; DoWork gives what is  *)
(* done to one row, in order, and the tables it marks; the definition      *)
(* named after the op gives the inputs as they are registered.             *)
(***************************************************************************)
EXTENDS OptimizerSteps

\* FTRL-Proximal; the gradient with shrinkage is evaluated wherever it is used.
SparseApplyFtrlCompute ==
  KvCompute(<<"var", "accum", "linear">>, Grads \o <<"lr", "l1", "l2", "l2_shrinkage", "lr_power">>,
    0 .. 2, {"lr", "l1", "l2", "l2_shrinkage", "lr_power"})

SparseApplyFtrlDoWork ==
  KvDoWork(<<"var", "linear", "accum">>,
    <<Let("grad_to_use", {"var"}), Let("new_accum", {"accum", "grad_to_use"}),
      Write("linear", {"grad_to_use", "new_accum", "accum", "var"}),
      Write("var", {"new_accum", "linear"}), Write("accum", {"grad_to_use"})>>,
    <<>>, <<>>, <<"var", "accum", "linear">>)

KvVariableSparseApplyFtrlV2 ==
  <<"var", "accum", "linear">> \o Grads \o <<"lr", "l1", "l2", "l2_shrinkage", "lr_power">>

-----------------------------------------------------------------------------
\* Group-lasso FTRL, which adds the squared gradient to accum twice.
GroupSparseApplyFtrlCompute ==
  KvCompute(<<"var", "accum", "linear">>, Grads \o <<"lr", "l1", "l2", "l2_shrinkage", "lr_power">>,
    0 .. 2, {"lr", "l1", "l2", "l2_shrinkage", "lr_power"})

GroupSparseApplyFtrlDoWork ==
  KvDoWork(<<"var", "linear", "accum">>,
    <<Let("grad_to_use", {"var"}), Let("new_accum", {"accum", "grad_to_use"}),
      Write("linear", {"grad_to_use", "new_accum", "accum", "var"}),
      Lasso({"new_accum", "linear"}), Write("accum", {"grad_to_use"}),
      Write("accum", {"grad_to_use"})>>,
    <<"linear", "accum">>, <<>>, <<"var", "accum", "linear">>)

KvVariableGroupSparseApplyFtrlV2 ==
  <<"var", "accum", "linear">> \o Grads \o <<"lr", "l1", "l2", "l2_shrinkage", "lr_power">>

-----------------------------------------------------------------------------
\* Sparse group-lasso FTRL.
SparseGroupSparseApplyFtrlCompute ==
  KvCompute(<<"var", "accum", "linear">>, Grads \o <<"lr", "l1", "l2", "l21", "l2_shrinkage", "lr_power">>,
    0 .. 2, {"lr", "l1", "l2", "l21", "l2_shrinkage", "lr_power"})

SparseGroupSparseApplyFtrlDoWork ==
  KvDoWork(<<"var", "linear", "accum">>,
    <<Let("grad_to_use", {"var"}), Let("new_accum", {"accum", "grad_to_use"}),
      Write("linear", {"grad_to_use", "new_accum", "accum", "var"}),
      Lasso({"new_accum", "linear"}), Write("accum", {"grad_to_use"})>>,
    <<"linear", "accum">>, <<>>, <<"var", "accum", "linear">>)

\* Mutant: two arguments are registered in the other order.
FtrlSwapped ==
  <<"var", "accum", "linear">> \o Grads \o <<"lr", "l1", "l2", "l2_shrinkage", "l21", "lr_power">>

KvVariableSparseGroupSparseApplyFtrlV2 ==
  <<"var", "accum", "linear">> \o Grads \o <<"lr", "l1", "l2", "l21", "l2_shrinkage", "lr_power">>

-----------------------------------------------------------------------------
\* Group-lasso Adam.
GroupSparseApplyAdamCompute ==
  KvCompute(<<"var", "accum", "linear", "m", "v">>, Grads \o AdamArgs \o GroupArgs,
    0 .. 4, {"lr", "l1", "l2", "l21"})

\* Mutant: v is not marked.
GroupSparseApplyAdamUnmarked ==
  KvDoWork(<<"var", "m", "v", "linear", "accum">>,
    <<Write("m", {"m"}), Write("v", {"v"}), Let("new_accum", {"v"}),
      Write("linear", {"m", "new_accum", "accum", "var"}),
      Lasso({"new_accum", "linear"}), Write("accum", {"new_accum"})>>,
    <<"linear", "m", "v", "accum">>, <<>>, <<"var", "accum", "linear", "m">>)

GroupSparseApplyAdamDoWork ==
  KvDoWork(<<"var", "m", "v", "linear", "accum">>,
    <<Write("m", {"m"}), Write("v", {"v"}), Let("new_accum", {"v"}),
      Write("linear", {"m", "new_accum", "accum", "var"}),
      Lasso({"new_accum", "linear"}), Write("accum", {"new_accum"})>>,
    <<"linear", "m", "v", "accum">>, <<>>, <<"var", "accum", "linear", "m", "v">>)

KvVariableGroupSparseApplyAdamV2 ==
  <<"var", "accum", "linear", "m", "v">> \o Grads \o AdamArgs \o GroupArgs

-----------------------------------------------------------------------------
\* Adagrad; accum is left alone without update_slots.
SparseApplyAdagradCompute ==
  KvCompute(<<"var", "accum">>, <<"lr", "grad", "indices">>,
    0 .. 1, {})

SparseApplyAdagradDoWork ==
  KvDoWork(<<"var", "accum">>,
    <<Perhaps(Write("accum", {"accum"})), Write("var", {"accum"})>>,
    <<>>, <<>>, <<"var", "accum">>)

KvVariableSparseApplyAdagrad ==
  <<"var", "accum">> \o <<"lr", "grad", "indices">>

-----------------------------------------------------------------------------
\* Group-lasso AMSGrad.
GroupSparseApplyAMSGradCompute ==
  KvCompute(<<"var", "vhat", "linear", "m", "v">>, Grads \o AdamArgs \o GroupArgs,
    0 .. 4, {"lr", "l1", "l2", "l21"})

\* Mutant: vhat is written before new_vhat is used.
GroupSparseApplyAMSGradVhatFirst ==
  KvDoWork(<<"var", "vhat", "m", "v", "linear">>,
    <<Write("m", {"m"}), Write("v", {"v"}), Let("new_vhat", {"vhat", "v"}), Write("vhat", {"new_vhat"}),
      Write("linear", {"m", "new_vhat", "vhat", "var"}),
      Lasso({"new_vhat", "linear"})>>,
    <<"linear", "m", "v", "vhat">>, <<>>, <<"var", "vhat", "linear", "m", "v">>)

GroupSparseApplyAMSGradDoWork ==
  KvDoWork(<<"var", "vhat", "m", "v", "linear">>,
    <<Write("m", {"m"}), Write("v", {"v"}), Let("new_vhat", {"vhat", "v"}),
      Write("linear", {"m", "new_vhat", "vhat", "var"}),
      Lasso({"new_vhat", "linear"}), Write("vhat", {"new_vhat"})>>,
    <<"linear", "m", "v", "vhat">>, <<>>, <<"var", "vhat", "linear", "m", "v">>)

KvVariableGroupSparseApplyAMSGrad ==
  <<"var", "vhat", "linear", "m", "v">> \o Grads \o AdamArgs \o GroupArgs

-----------------------------------------------------------------------------
\* Adadelta, which locks two of its three tables.
SparseApplyAdadeltaCompute ==
  KvCompute(<<"var", "accum", "accum_update">>, <<"lr", "rho", "epsilon", "grad", "indices">>,
    0 .. 1, {})

SparseApplyAdadeltaDoWork ==
  KvDoWork(<<"var", "accum", "accum_update">>,
    <<Write("accum", {"accum"}), Let("update", {"accum_update", "accum"}),
      Write("var", {"update"}), Write("accum_update", {"update"})>>,
    <<>>, <<>>, <<"var", "accum", "accum_update">>)

KvVariableSparseApplyAdadelta ==
  <<"var", "accum", "accum_update">> \o <<"lr", "rho", "epsilon", "grad", "indices">>

-----------------------------------------------------------------------------
\* Group-lasso Adadelta, which uses new_accum after accum has become it.
GroupSparseApplyAdadeltaCompute ==
  KvCompute(<<"var", "accum", "accum_update", "linear">>, <<"lr", "rho", "epsilon", "grad", "indices", "l1", "l2", "l21">>,
    0 .. 3, {"l1", "l2", "l21"})

GroupSparseApplyAdadeltaDoWork ==
  KvDoWork(<<"var", "linear", "accum", "accum_update">>,
    <<Let("new_accum", {"accum"}), Let("m", {"accum_update"}),
      Write("linear", {"m", "new_accum", "accum", "var"}),
      Lasso({"new_accum", "linear"}), Write("accum", {"new_accum"}),
      Write("accum_update", {"m", "new_accum"})>>,
    <<"accum", "accum_update", "linear">>, <<>>, <<"var", "accum", "accum_update", "linear">>)

KvVariableGroupSparseApplyAdadelta ==
  <<"var", "accum", "accum_update", "linear">> \o <<"lr", "rho", "epsilon", "grad", "indices", "l1", "l2", "l21">>

-----------------------------------------------------------------------------
\* Group-lasso momentum; new_m is the row of m itself.
GroupSparseApplyMomentumCompute ==
  KvCompute(<<"var", "accum", "linear", "m">>, <<"lr", "grad", "indices", "momentum", "l1", "l2", "l21">>,
    0 .. 3, {"l1", "l2", "l21"})

GroupSparseApplyMomentumDoWork ==
  KvDoWork(<<"var", "linear", "m", "accum">>,
    <<Write("m", {"m"}), Perhaps(Write("m", {"m"})),
      Write("linear", {"m", "accum", "var"}), Lasso({"linear"}),
      Write("accum", {})>>,
    <<"m", "accum", "linear">>, <<>>, <<"var", "accum", "linear", "m">>)

KvVariableGroupSparseApplyMomentum ==
  <<"var", "accum", "linear", "m">> \o <<"lr", "grad", "indices", "momentum", "l1", "l2", "l21">>

-----------------------------------------------------------------------------
\* Group-lasso AdaHessian, which compares only the length of hessian.
GroupSparseApplyAdaHessianCompute ==
  KvCompute(<<"var", "accum", "linear", "m", "v">>, Grads \o <<"hessian">> \o AdamArgs \o GroupArgs,
    0 .. 4, {"lr", "l1", "l2", "l21"})

\* Mutant: accum is assigned twice.
GroupSparseApplyAdaHessianTwice ==
  KvDoWork(<<"var", "linear", "accum", "m", "v">>,
    <<Write("m", {"m"}), Write("v", {"v"}), Let("new_accum", {"v"}),
      Write("linear", {"m", "new_accum", "accum", "var"}),
      Lasso({"new_accum", "linear"}), Write("accum", {"new_accum"}), Write("accum", {"new_accum"})>>,
    <<"linear", "m", "linear", "v", "accum">>, <<>>, <<"var", "accum", "linear", "m", "v">>)

GroupSparseApplyAdaHessianDoWork ==
  KvDoWork(<<"var", "linear", "accum", "m", "v">>,
    <<Write("m", {"m"}), Write("v", {"v"}), Let("new_accum", {"v"}),
      Write("linear", {"m", "new_accum", "accum", "var"}),
      Lasso({"new_accum", "linear"}), Write("accum", {"new_accum"})>>,
    <<"linear", "m", "linear", "v", "accum">>, <<>>, <<"var", "accum", "linear", "m", "v">>)

KvVariableGroupSparseApplyAdaHessian ==
  <<"var", "accum", "linear", "m", "v">> \o Grads \o <<"hessian">> \o AdamArgs \o GroupArgs

-----------------------------------------------------------------------------
\* Group-lasso AdaBelief.
GroupSparseApplyAdaBeliefCompute ==
  KvCompute(<<"var", "accum", "linear", "m", "v">>, Grads \o AdamArgs \o GroupArgs,
    0 .. 4, {"lr", "l1", "l2", "l21"})

\* Mutant: accum is not refreshed.
GroupSparseApplyAdaBeliefUncovered ==
  KvDoWork(<<"var", "linear", "accum", "m", "v">>,
    <<Write("m", {"m"}), Write("v", {"v", "m"}), Let("new_accum", {"v"}),
      Write("linear", {"m", "new_accum", "accum", "var"}),
      Lasso({"new_accum", "linear"}), Write("accum", {"new_accum"})>>,
    <<"linear", "m", "v">>, <<>>, <<"var", "accum", "linear", "m", "v">>)

GroupSparseApplyAdaBeliefDoWork ==
  KvDoWork(<<"var", "linear", "accum", "m", "v">>,
    <<Write("m", {"m"}), Write("v", {"v", "m"}), Let("new_accum", {"v"}),
      Write("linear", {"m", "new_accum", "accum", "var"}),
      Lasso({"new_accum", "linear"}), Write("accum", {"new_accum"})>>,
    <<"linear", "accum", "m", "v">>, <<>>, <<"var", "accum", "linear", "m", "v">>)

KvVariableGroupSparseApplyAdaBelief ==
  <<"var", "accum", "linear", "m", "v">> \o Grads \o AdamArgs \o GroupArgs

-----------------------------------------------------------------------------
\* Group-lasso Lamb; the norm of var is taken before var changes.
GroupSparseApplyLambCompute ==
  KvCompute(<<"var", "accum", "linear", "m", "v">>, Grads \o AdamArgs \o GroupArgs,
    0 .. 4, {"lr", "l1", "l2", "l21"})

\* Mutant: the norm of var is taken at the end.
GroupSparseApplyLambNormLate ==
  KvDoWork(<<"var", "linear", "accum", "m", "v">>,
    <<Write("m", {"m"}), Write("v", {"v"}), Let("new_m", {"m"}),
      Let("new_accum", {"v"}),
      Write("linear", {"new_m", "new_accum", "accum", "var"}),
      Lasso({"new_accum", "linear"}), Write("accum", {"new_accum"}), Read({"var"})>>,
    <<"linear", "accum", "m", "v">>, <<>>, <<"var", "accum", "linear", "m", "v">>)

GroupSparseApplyLambDoWork ==
  KvDoWork(<<"var", "linear", "accum", "m", "v">>,
    <<Write("m", {"m"}), Write("v", {"v"}), Let("new_m", {"m"}),
      Let("new_accum", {"v"}), Read({"new_m", "new_accum", "var"}),
      Write("linear", {"new_m", "new_accum", "accum", "var"}),
      Lasso({"new_accum", "linear"}), Write("accum", {"new_accum"})>>,
    <<"linear", "accum", "m", "v">>, <<>>, <<"var", "accum", "linear", "m", "v">>)

KvVariableGroupSparseApplyLamb ==
  <<"var", "accum", "linear", "m", "v">> \o Grads \o AdamArgs \o GroupArgs

-----------------------------------------------------------------------------
\* Group-lasso Lamb with a Hessian.
GroupSparseApplyLambHessianCompute ==
  KvCompute(<<"var", "accum", "linear", "m", "v">>, Grads \o <<"hessian">> \o AdamArgs \o GroupArgs,
    0 .. 4, {"lr", "l1", "l2", "l21"})

GroupSparseApplyLambHessianDoWork ==
  KvDoWork(<<"var", "linear", "accum", "m", "v">>,
    <<Write("m", {"m"}), Write("v", {"v"}), Let("new_m", {"m"}),
      Let("new_accum", {"v"}), Read({"new_m", "new_accum", "var"}),
      Write("linear", {"new_m", "new_accum", "accum", "var"}),
      Lasso({"new_accum", "linear"}), Write("accum", {"new_accum"})>>,
    <<"linear", "m", "v", "accum">>, <<>>, <<"var", "accum", "linear", "m", "v">>)

KvVariableGroupSparseApplyLambHessian ==
  <<"var", "accum", "linear", "m", "v">> \o Grads \o <<"hessian">> \o AdamArgs \o GroupArgs

-----------------------------------------------------------------------------
\* AdaDQH.
SparseApplyAdaDQHCompute ==
  KvCompute(<<"var", "m", "v">>, Grads \o AdamArgs,
    0 .. 2, {"lr"})

SparseApplyAdaDQHDoWork ==
  KvDoWork(<<"var", "m", "v">>,
    <<Let("m_old", {"m"}), Let("m_new", {"m"}), Let("h", {"m_new", "m_old"}),
      Write("v", {"v", "h"}), Write("var", {"m_new", "v"}), Write("m", {"m"})>>,
    <<>>, <<>>, <<"var", "m", "v">>)

KvVariableSparseApplyAdaDQH ==
  <<"var", "m", "v">> \o Grads \o AdamArgs

-----------------------------------------------------------------------------
\* Group-lasso AdaDQH.
\* Mutant: the last table is not locked.
GroupSparseApplyAdaDQHThreeLocked ==
  KvCompute(<<"var", "m", "v", "linear">>, Grads \o AdamArgs \o GroupArgs,
    0 .. 2, {"lr", "l1", "l2", "l21"})

GroupSparseApplyAdaDQHCompute ==
  KvCompute(<<"var", "m", "v", "linear">>, Grads \o AdamArgs \o GroupArgs,
    0 .. 3, {"lr", "l1", "l2", "l21"})

GroupSparseApplyAdaDQHDoWork ==
  KvDoWork(<<"var", "linear", "m", "v">>,
    <<Let("m_old", {"m"}), Let("m_new", {"m"}), Let("h", {"m_new", "m_old"}),
      Let("v_new", {"v", "h"}),
      Write("linear", {"m_new", "v_new", "v", "var"}),
      Lasso({"v_new", "linear"}), Write("v", {"v_new"}), Write("m", {"m_new"})>>,
    <<"linear", "m", "v">>, <<>>, <<"var", "linear", "m", "v">>)

KvVariableGroupSparseApplyAdaDQH ==
  <<"var", "m", "v", "linear">> \o Grads \o AdamArgs \o GroupArgs

-----------------------------------------------------------------------------
\* Group-lasso AdaDQH with the learning rate outside the root.
GroupSparseApplyAdaDQHV2Compute ==
  KvCompute(<<"var", "m", "v", "linear">>, Grads \o AdamArgs \o GroupArgs,
    0 .. 3, {"lr", "l1", "l2", "l21"})

GroupSparseApplyAdaDQHV2DoWork ==
  KvDoWork(<<"var", "linear", "m", "v">>,
    <<Let("m_old", {"m"}), Let("m_new", {"m"}), Let("h", {"m_new", "m_old"}),
      Let("v_new", {"v", "h"}), Let("accum_new", {"v_new"}),
      Let("accum", {"v"}),
      Write("linear", {"m_new", "accum_new", "accum", "var"}),
      Lasso({"v_new", "linear"}), Write("v", {"v_new"}), Write("m", {"m_new"})>>,
    <<"linear", "m", "v">>, <<>>, <<"var", "linear", "m", "v">>)

KvVariableGroupSparseApplyAdaDQHV2 ==
  <<"var", "m", "v", "linear">> \o Grads \o AdamArgs \o GroupArgs

-----------------------------------------------------------------------------
\* Group-lasso Adam without accum; v is written after it was refreshed.
GroupSparseApplyAdamV2Compute ==
  KvCompute(<<"var", "linear", "m", "v">>, Grads \o AdamArgs \o GroupArgs,
    0 .. 3, {"lr", "l1", "l2", "l21"})

GroupSparseApplyAdamV2DoWork ==
  KvDoWork(<<"var", "linear", "m", "v">>,
    <<Write("m", {"m"}), Let("new_v", {"v"}),
      Write("linear", {"m", "new_v", "v", "var"}), Lasso({"new_v", "linear"})>>,
    <<"linear", "m", "v">>, <<Write("v", {"new_v"})>>, <<"var", "linear", "m", "v">>)

KvVariableGroupSparseApplyAdamNewV2 ==
  <<"var", "linear", "m", "v">> \o Grads \o AdamArgs \o GroupArgs

-----------------------------------------------------------------------------
\* Group-lasso Adam with m, v and linear in one row.
GroupSparseApplyAdamV3Compute ==
  KvCompute(<<"var", "m_v_linear">>, Grads \o AdamArgs \o GroupArgs,
    0 .. 1, {"lr", "l1", "l2", "l21"})

GroupSparseApplyAdamV3DoWork ==
  KvDoWork(<<"var", "m_v_linear">>,
    <<Write("m", {"m"}), Let("new_v", {"v"}),
      Write("linear", {"m", "new_v", "v", "var"}), Lasso({"new_v", "linear"}),
      Write("v", {"new_v"})>>,
    <<"m_v_linear">>, <<>>, <<"var", "m_v_linear">>)

KvVariableGroupSparseApplyAdamV3 ==
  <<"var", "m_v_linear">> \o Grads \o AdamArgs \o GroupArgs

-----------------------------------------------------------------------------
\* The same with the learning rate inside the root.
GroupSparseApplyAdamV4Compute ==
  KvCompute(<<"var", "m_v_linear">>, Grads \o AdamArgs \o GroupArgs,
    0 .. 1, {"lr", "l1", "l2", "l21"})

GroupSparseApplyAdamV4DoWork ==
  KvDoWork(<<"var", "m_v_linear">>,
    <<Write("m", {"m"}), Let("new_v", {"v"}),
      Write("linear", {"m", "new_v", "v", "var"}), Lasso({"new_v", "linear"}),
      Write("v", {"new_v"})>>,
    <<"m_v_linear">>, <<>>, <<"var", "m_v_linear">>)

KvVariableGroupSparseApplyAdamV4 ==
  <<"var", "m_v_linear">> \o Grads \o AdamArgs \o GroupArgs

-----------------------------------------------------------------------------
\* The hypergradients of AdaDQH: rows are found, or inserted, and only read.
ComputeGroupAdaDQHHPCompute ==
  KvCompute(<<"var", "m", "v", "linear">>, Grads \o AdamArgs \o GroupArgs,
    0 .. 3, {"l1", "l2", "l21"})

ComputeGroupAdaDQHHPDoWork ==
  KvDoWork(<<"var", "linear", "m", "v">>,
    <<Read({"linear", "v"})>>,
    <<>>, <<>>, <<>>)

KvVariableComputeAdaDQHHG ==
  <<"var", "m", "v", "linear">> \o Grads \o AdamArgs \o GroupArgs

-----------------------------------------------------------------------------
\* Group-lasso RAdam: m, v, linear, vhat and vamsgrad in one row; m_corr is m itself.
GroupSparseApplyRectifiedAdamCompute ==
  KvCompute(<<"var", "opt">>, Grads \o AdamArgs \o GroupArgs \o <<"r_t", "tractable", "amsgrad", "use_nesterov">>,
    0 .. 1, {"lr", "l1", "l2", "l21"})

GroupSparseApplyRectifiedAdamDoWork ==
  KvDoWork(<<"var", "opt">>,
    <<Write("m", {"m"}), Let("new_v", {"v"}), Perhaps(Write("m", {"m"})),
      Perhaps(Write("vamsgrad", {"new_v", "vamsgrad"})),
      Let("radam_v", {"new_v", "vamsgrad"}),
      Write("linear", {"m", "radam_v", "vhat", "var"}),
      Lasso({"radam_v", "linear"}), Write("vhat", {"radam_v"}),
      Write("v", {"new_v"})>>,
    <<"opt">>, <<>>, <<"var", "opt">>)

KvVariableGroupSparseApplyRectifiedAdam ==
  <<"var", "opt">> \o Grads \o AdamArgs \o GroupArgs \o <<"r_t", "tractable", "amsgrad", "use_nesterov">>

-----------------------------------------------------------------------------
\* REGISTER_KERNEL_BUILDER of every class.
KvKernels ==
  {Kernel("KvVariableSparseApplyFtrlV2", KvVariableSparseApplyFtrlV2,
          SparseApplyFtrlCompute, SparseApplyFtrlDoWork),
   Kernel("KvVariableGroupSparseApplyFtrlV2", KvVariableGroupSparseApplyFtrlV2,
          GroupSparseApplyFtrlCompute, GroupSparseApplyFtrlDoWork),
   Kernel("KvVariableSparseGroupSparseApplyFtrlV2", KvVariableSparseGroupSparseApplyFtrlV2,
          SparseGroupSparseApplyFtrlCompute, SparseGroupSparseApplyFtrlDoWork),
   Kernel("KvVariableGroupSparseApplyAdamV2", KvVariableGroupSparseApplyAdamV2,
          GroupSparseApplyAdamCompute, GroupSparseApplyAdamDoWork),
   Kernel("KvVariableSparseApplyAdagrad", KvVariableSparseApplyAdagrad,
          SparseApplyAdagradCompute, SparseApplyAdagradDoWork),
   Kernel("KvVariableGroupSparseApplyAMSGrad", KvVariableGroupSparseApplyAMSGrad,
          GroupSparseApplyAMSGradCompute, GroupSparseApplyAMSGradDoWork),
   Kernel("KvVariableSparseApplyAdadelta", KvVariableSparseApplyAdadelta,
          SparseApplyAdadeltaCompute, SparseApplyAdadeltaDoWork),
   Kernel("KvVariableGroupSparseApplyAdadelta", KvVariableGroupSparseApplyAdadelta,
          GroupSparseApplyAdadeltaCompute, GroupSparseApplyAdadeltaDoWork),
   Kernel("KvVariableGroupSparseApplyMomentum", KvVariableGroupSparseApplyMomentum,
          GroupSparseApplyMomentumCompute, GroupSparseApplyMomentumDoWork),
   Kernel("KvVariableGroupSparseApplyAdaHessian", KvVariableGroupSparseApplyAdaHessian,
          GroupSparseApplyAdaHessianCompute, GroupSparseApplyAdaHessianDoWork),
   Kernel("KvVariableGroupSparseApplyAdaBelief", KvVariableGroupSparseApplyAdaBelief,
          GroupSparseApplyAdaBeliefCompute, GroupSparseApplyAdaBeliefDoWork),
   Kernel("KvVariableGroupSparseApplyLamb", KvVariableGroupSparseApplyLamb,
          GroupSparseApplyLambCompute, GroupSparseApplyLambDoWork),
   Kernel("KvVariableGroupSparseApplyLambHessian", KvVariableGroupSparseApplyLambHessian,
          GroupSparseApplyLambHessianCompute, GroupSparseApplyLambHessianDoWork),
   Kernel("KvVariableSparseApplyAdaDQH", KvVariableSparseApplyAdaDQH,
          SparseApplyAdaDQHCompute, SparseApplyAdaDQHDoWork),
   Kernel("KvVariableGroupSparseApplyAdaDQH", KvVariableGroupSparseApplyAdaDQH,
          GroupSparseApplyAdaDQHCompute, GroupSparseApplyAdaDQHDoWork),
   Kernel("KvVariableGroupSparseApplyAdaDQHV2", KvVariableGroupSparseApplyAdaDQHV2,
          GroupSparseApplyAdaDQHV2Compute, GroupSparseApplyAdaDQHV2DoWork),
   Kernel("KvVariableGroupSparseApplyAdamNewV2", KvVariableGroupSparseApplyAdamNewV2,
          GroupSparseApplyAdamV2Compute, GroupSparseApplyAdamV2DoWork),
   Kernel("KvVariableGroupSparseApplyAdamV3", KvVariableGroupSparseApplyAdamV3,
          GroupSparseApplyAdamV3Compute, GroupSparseApplyAdamV3DoWork),
   Kernel("KvVariableGroupSparseApplyAdamV4", KvVariableGroupSparseApplyAdamV4,
          GroupSparseApplyAdamV4Compute, GroupSparseApplyAdamV4DoWork),
   Kernel("KvVariableComputeAdaDQHHG", KvVariableComputeAdaDQHHG,
          ComputeGroupAdaDQHHPCompute, ComputeGroupAdaDQHHPDoWork),
   Kernel("KvVariableGroupSparseApplyRectifiedAdam", KvVariableGroupSparseApplyRectifiedAdam,
          GroupSparseApplyRectifiedAdamCompute, GroupSparseApplyRectifiedAdamDoWork)}
=============================================================================
