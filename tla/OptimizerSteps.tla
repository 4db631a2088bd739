--------------------------- MODULE OptimizerSteps ---------------------------
(***************************************************************************)
(* The vocabulary the optimizers are written in.  A kernel finds the row   *)
(* of its key in every table, then evaluates assignments one after the     *)
(* other.  An assignment to a row writes it; one to an auto variable only  *)
(* names an Eigen expression, which is evaluated wherever it is used.      *)
(* Which rows a step reads and writes is kept; the arithmetic is not.      *)
(***************************************************************************)
EXTENDS Integers, Sequences

AnyStep == [do : STRING, t : STRING, reads : SUBSET STRING, sure : BOOLEAN]

Step(do, t, reads) == [do |-> do, t |-> t, reads |-> reads, sure |-> TRUE]

\* FindOrInsertUnsafe of one table.
Find(t) == Step("find", t, {})

\* auto n = an expression of the names and rows in reads
Let(n, reads) == Step("let", n, reads)

\* t = an expression of the names and rows in reads
Write(t, reads) == Step("write", t, reads)

\* A row of the variable that is large enough is written and refreshed, one
\* that is not is put in the blacklist.
Lasso(reads) == Step("lasso", "var", reads)

\* CoverUpdateUnsafe
Cover(t) == Step("cover", t, {})

Read(reads) == Step("read", "none", reads)

\* FastBoundsCheck of the row's index
Bound == Step("bound", "none", {})

\* The same step under a condition on an attribute or an argument.
Perhaps(s) == [s EXCEPT !.sure = FALSE]

Finds(tables) == [i \in DOMAIN tables |-> Find(tables[i])]

Covers(tables) == [i \in DOMAIN tables |-> Cover(tables[i])]

-----------------------------------------------------------------------------
(* Inputs that many ops have in common.  Ops on KvVariables register the   *)
(* fourth of AdamArgs as "beat1".                                          *)

Grads == <<"grad", "indices">>

AdamArgs == <<"lr", "beta1_power", "beta2_power", "beta1", "beta2", "epsilon">>

GroupArgs == <<"l1", "l2", "l21">>

Names(s) == {s[i] : i \in DOMAIN s}

\* Slots that hold several parts, each as wide as the variable.
Packed == {"m_v_linear", "opt"}

\* The mutexes of the inputs numbered locked are taken.  A scalar in checked has
\* its range tested.  Every kernel compares its slots with the variable, a packed
\* one by check_dim_size, which besides the width of all parts takes the width of
\* one; and of the gradient the lengths along the variable's dimensions only.
KvCompute(tables, rest, locked, checked) ==
  [kind |-> "kv", tables |-> tables, reads |-> tables \o rest, locked |-> locked,
   checked |-> (checked \X {"range"}) \cup
               (((Names(tables) \ {"var"}) \cup {"grad"}) \X {"lengths"})]

\* The shapes of what is in checked are compared with the variable's.
DenseCompute(tables, rest, locked, checked) ==
  [kind |-> "dense", tables |-> tables, reads |-> tables \o rest, locked |-> locked,
   checked |-> checked \X {"range", "lengths", "rank"}]

\* So are the slots', but of the gradient only the lengths.
RowsCompute(tables, rest, locked, checked) ==
  [kind |-> "rows", tables |-> tables, reads |-> tables \o rest, locked |-> locked,
   checked |-> checked \X {"range", "lengths"}]

\* One row: the finds, the steps, the refreshes, what comes after them; and the
\* tables marked when the rows are done.
KvDoWork(finds, steps, covers, after, marks) ==
  [steps |-> Finds(finds) \o steps \o Covers(covers) \o after, marks |-> marks]

TensorDoWork(steps) == [steps |-> steps, marks |-> <<>>]

\* A kernel class under the name of an op.
Kernel(op, inputs, compute, work) ==
  [op |-> op, inputs |-> inputs, kind |-> compute.kind, tables |-> compute.tables,
   reads |-> compute.reads, locked |-> compute.locked, checked |-> compute.checked,
   steps |-> work.steps, marks |-> work.marks]
=============================================================================
