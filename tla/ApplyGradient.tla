---------------------------- MODULE ApplyGradient ----------------------------
(***************************************************************************)
(* Optimizer ops at work on one key, seen from one of their tables.  Each  *)
(* worker is a shard of an op (Shard runs DoWork on several threads) and   *)
(* does its rows one after the other, each under the lock of the key in    *)
(* the variable's table; when its rows are done it marks the key in the    *)
(* delta list of every table.  Between rows the key may be gathered, and   *)
(* when no op has the table's mutex an export may read it.  Which kernel   *)
(* and which of its tables is watched is chosen at the beginning.          *)
(***************************************************************************)
EXTENDS OptimizerSteps, FiniteSets

CONSTANTS
  Kernels,   \* the kernel classes
  Workers,   \* shards at work
  MaxRows,   \* rows of the key one shard has: the key may occur in indices twice
  Exempt,    \* for each property, what is known not to have it
  Absent,    \* "no row for the key"
  None       \* "nothing"

ASSUME MaxRowsAssumption == MaxRows \in Nat \ {0}

ASSUME KernelsAssumption ==
  \A k \in Kernels :
    /\ k.steps \in Seq(AnyStep) /\ k.marks \in Seq(STRING)
    /\ \A i \in DOMAIN k.steps : k.steps[i].do = "lasso" => k.steps[i].t = "var"

VARIABLES
  kernel,   \* the class all workers run
  table,    \* the table that is watched
  row,      \* the key's row in it
  listed,   \* the key is in the table's train_deltalist_
  copy,     \* what the reader of the exports has: "same", "old" or "none"
  worker    \* the shards

vars == <<kernel, table, row, listed, copy, worker>>

Row == [big : BOOLEAN,     \* some element is at least the cut-off
        black : BOOLEAN, under : BOOLEAN,
        rare : BOOLEAN]    \* HasLowFrequency

ASSUME AbsentAssumption == Absent \notin Row

NewRow(big, rare) == [big |-> big, black |-> FALSE, under |-> ~big, rare |-> rare]

\* A row that changes is no longer the one that was exported.
Touched == IF copy = "same" THEN "old" ELSE copy

-----------------------------------------------------------------------------
(* A worker: where it is, the argument that is bad and what is wrong with  *)
(* it (until it finds a row), the rows left, the step it is at, whether    *)
(* train_deltalist has the key, and of the current row: which rows each    *)
(* name reads when it is used, the names whose rows have changed since,    *)
(* the rows written and whether the variable's has been freed.             *)

Idle ==
  [at |-> "idle", bad |-> None, left |-> 0, pc |-> 1, mine |-> FALSE,
   reads |-> {}, spoiled |-> {}, wrote |-> {}, freed |-> FALSE, marks |-> <<>>]

FreshRow(w) == [w EXCEPT !.pc = 1, !.reads = {}, !.spoiled = {}, !.wrote = {}, !.freed = FALSE]

Steps == kernel.steps

\* The parts of a slot that holds several are rows of that slot.
Holder(k, t) == IF t \in Names(k.tables) THEN t ELSE k.tables[2]

TableOf(t) == Holder(kernel, t)

Watched(t) == TableOf(t) = table

AtRow(w) == worker[w].at = "row" /\ worker[w].pc <= Len(Steps)

Current(w) == Steps[worker[w].pc]

AtStep(w, do) == AtRow(w) /\ Current(w).do = do

\* A worker past the first step has the key's lock.
InRow(w) == worker[w].at = "row" /\ worker[w].pc > 1

KeyFree(w) == \A x \in Workers \ {w} : ~InRow(x)

Running(w) == worker[w].at # "idle"

\* The number of a table among the inputs, from 0, is locked.
Locks(k, t) == \E i \in DOMAIN k.reads : k.reads[i] = t /\ i - 1 \in k.locked

HasMutex == Locks(kernel, table)

Exportable == kernel.kind = "kv" /\ ((\E w \in Workers : Running(w)) => ~HasMutex)

-----------------------------------------------------------------------------
(* The arguments.                                                          *)

\* What can be wrong with an argument: a scalar is out of its range; the lengths
\* of a slot, the gradient or the Hessian do not go with the variable's; the
\* gradient or the Hessian has dimensions beyond the variable's; or a slot that
\* should hold several parts is as wide as one.
BadArguments(k) ==
  LET has(names) == names \cap Names(k.inputs)
      slots == Names(k.tables) \ {"var"}
  IN (has({"lr", "l1", "l2", "l21", "l2_shrinkage", "lr_power"}) \X {"range"}) \cup
     (has({"grad", "hessian"} \cup slots) \X {"lengths"}) \cup
     (has({"grad", "hessian"}) \X {"rank"}) \cup
     (has(Packed \cap slots) \X {"unpacked"})

\* The kernel tests the input it reads at the number the argument has in the
\* op; the test is the right one when both have the same name for it.
Rejects(k, bad) ==
  \E i \in DOMAIN k.inputs :
    /\ k.inputs[i] = bad[1]
    /\ i \in DOMAIN k.reads
    /\ k.reads[i] = bad[1]
    /\ bad \in k.checked

-----------------------------------------------------------------------------
Init ==
  /\ kernel \in Kernels
  /\ table \in Names(kernel.tables)
  /\ row = IF kernel.kind = "kv" THEN Absent ELSE NewRow(TRUE, FALSE)
  /\ listed = FALSE
  /\ copy = "none"
  /\ worker = [w \in Workers |-> Idle]

\* Several ops share the mutexes of KvVariables, and shards those of one op.
\* Ops on tensors take them alone and do not shard.
Start(w, bad) ==
  /\ worker[w].at = "idle"
  /\ kernel.kind # "kv" => \A x \in Workers : ~Running(x)
  /\ bad # None => ~Rejects(kernel, bad)
  /\ \E n \in 1 .. MaxRows :
       worker' = [worker EXCEPT ![w] = [Idle EXCEPT !.at = "row", !.bad = bad, !.left = n]]
  /\ UNCHANGED <<kernel, table, row, listed, copy>>

\* An argument that is bad is of interest only until it reaches a row.
Advance(w) == worker' = [worker EXCEPT ![w].pc = @ + 1, ![w].bad = None]

NextRow(w) ==
  IF w.left > 1 THEN [FreshRow(w) EXCEPT !.left = @ - 1]
  ELSE [FreshRow(w) EXCEPT !.left = 0, !.at = "marking", !.marks = kernel.marks]

\* FindOrInsertUnsafe of the variable: a new row is used whatever its frequency,
\* a rare one is left alone, a blacklisted one comes back as zero.
Revived == IF row.black THEN [row EXCEPT !.big = FALSE, !.black = FALSE, !.under = TRUE] ELSE row

FindVar(w) ==
  /\ AtStep(w, "find") /\ Current(w).t = "var"
  /\ KeyFree(w)
  /\ \/ /\ Watched("var") /\ row = Absent
        /\ \E big, rare \in BOOLEAN : row' = NewRow(big, rare)
        /\ copy' = Touched
     \/ /\ Watched("var") /\ row # Absent /\ ~row.rare
        /\ row' = Revived
        /\ copy' = IF row.black THEN Touched ELSE copy
     \/ ~Watched("var") /\ UNCHANGED <<row, copy>>
  /\ Advance(w)
  /\ UNCHANGED <<kernel, table, listed>>

\* should_filter
Filter(w) ==
  /\ AtStep(w, "find") /\ Current(w).t = "var"
  /\ KeyFree(w)
  /\ Watched("var") => row # Absent /\ row.rare
  /\ worker' = [worker EXCEPT ![w] = NextRow(@)]
  /\ UNCHANGED <<kernel, table, row, listed, copy>>

\* FindOrInsertUnsafe of a slot: a missing row is inserted, any other counted.
FindSlot(w) ==
  /\ AtStep(w, "find") /\ Current(w).t # "var"
  /\ IF Watched(Current(w).t) /\ row = Absent
     THEN /\ \E big \in BOOLEAN : row' = NewRow(big, FALSE)
          /\ copy' = Touched
     ELSE UNCHANGED <<row, copy>>
  /\ Advance(w)
  /\ UNCHANGED <<kernel, table, listed>>

-----------------------------------------------------------------------------
(* The steps on a row. *)

\* The rows a step reads, through the names it uses.
Through(w, used) == {p[2] : p \in {q \in worker[w].reads : q[1] \in used}}

RowsRead(w, used) == (used \ {p[1] : p \in worker[w].reads}) \cup Through(w, used)

Name(w) ==
  /\ AtStep(w, "let")
  /\ LET s == Current(w)
     IN worker' = [worker EXCEPT ![w].pc = @ + 1,
                                 ![w].reads = @ \cup {<<s.t, r>> : r \in RowsRead(w, s.reads)}]
  /\ UNCHANGED <<kernel, table, row, listed, copy>>

Assigned(w, t) ==
  [w EXCEPT !.pc = @ + 1, !.wrote = @ \cup {t},
            !.spoiled = @ \cup {p[1] : p \in {q \in w.reads : q[2] = t}}]

Assign(w) ==
  /\ AtStep(w, "write")
  /\ LET t == Current(w).t
     IN /\ worker' = [worker EXCEPT ![w] = Assigned(@, t)]
        /\ IF kernel.kind = "kv" /\ Watched(t)
           THEN /\ \E big \in BOOLEAN : row' = [row EXCEPT !.big = big]
                /\ copy' = Touched
           ELSE UNCHANGED <<row, copy>>
  /\ UNCHANGED <<kernel, table, listed>>

Refreshed(r) == [r EXCEPT !.under = r.black \/ ~r.big]

Refresh(w) ==
  /\ AtStep(w, "cover")
  /\ row' = IF Watched(Current(w).t) THEN Refreshed(row) ELSE row
  /\ Advance(w)
  /\ UNCHANGED <<kernel, table, listed, copy>>

KeepRow(w) ==
  /\ AtStep(w, "lasso")
  /\ worker' = [worker EXCEPT ![w] = Assigned(@, "var")]
  /\ IF Watched("var")
     THEN /\ \E big \in BOOLEAN : row' = Refreshed([row EXCEPT !.big = big])
          /\ copy' = Touched
     ELSE UNCHANGED <<row, copy>>
  /\ UNCHANGED <<kernel, table, listed>>

\* MarkBlacklistUnsafe frees the row; expressions that read it still can.
DropRow(w) ==
  /\ AtStep(w, "lasso")
  /\ worker' = [worker EXCEPT ![w].pc = @ + 1, ![w].freed = TRUE]
  /\ IF Watched("var")
     THEN /\ row' = [row EXCEPT !.big = FALSE, !.black = TRUE, !.under = TRUE]
          /\ copy' = Touched
     ELSE UNCHANGED <<row, copy>>
  /\ UNCHANGED <<kernel, table, listed>>

Use(w) ==
  /\ AtStep(w, "read")
  /\ Advance(w)
  /\ UNCHANGED <<kernel, table, row, listed, copy>>

Skip(w) ==
  /\ AtRow(w) /\ ~Current(w).sure
  /\ Advance(w)
  /\ UNCHANGED <<kernel, table, row, listed, copy>>

InBounds(w) ==
  /\ AtStep(w, "bound")
  /\ Advance(w)
  /\ UNCHANGED <<kernel, table, row, listed, copy>>

\* The op returns; the rows before this one stay as they are.
OutOfBounds(w) ==
  /\ AtStep(w, "bound")
  /\ worker' = [worker EXCEPT ![w].at = "failed"]
  /\ UNCHANGED <<kernel, table, row, listed, copy>>

EndRow(w) ==
  /\ worker[w].at = "row" /\ worker[w].pc > Len(Steps)
  /\ worker' = [worker EXCEPT ![w] = NextRow([@ EXCEPT !.mine = TRUE])]
  /\ UNCHANGED <<kernel, table, row, listed, copy>>

\* MarkAsDeltaListElements of the next table, which takes no lock.
Mark(w) ==
  /\ worker[w].at = "marking" /\ worker[w].marks # <<>>
  /\ listed' = (listed \/ (worker[w].mine /\ Watched(Head(worker[w].marks))))
  /\ worker' = [worker EXCEPT ![w].marks = Tail(@)]
  /\ UNCHANGED <<kernel, table, row, copy>>

\* Compute returns and its mutexes are released.
Finish(w) ==
  /\ \/ worker[w].at = "marking" /\ worker[w].marks = <<>>
     \/ worker[w].at = "failed"
  /\ worker' = [worker EXCEPT ![w] = Idle]
  /\ UNCHANGED <<kernel, table, row, listed, copy>>

-----------------------------------------------------------------------------
(* Others at the table. *)

\* FindOrInsert of the variable: under the key's lock, counted, refreshed and
\* marked.
Gather ==
  /\ kernel.kind = "kv" /\ table = "var"
  /\ \A w \in Workers : ~InRow(w)
  /\ IF row = Absent THEN \E big, rare \in BOOLEAN : row' = NewRow(big, rare)
     ELSE \E rare \in {FALSE, row.rare} : row' = Refreshed([row EXCEPT !.rare = rare])
  /\ copy' = Touched
  /\ listed' = TRUE
  /\ UNCHANGED <<kernel, table, worker>>

\* A delta has the rows listed, the rare ones excepted.
DeltaExport ==
  /\ Exportable
  /\ copy' = IF listed /\ row # Absent /\ ~row.rare THEN "same" ELSE copy
  /\ listed' = FALSE
  /\ UNCHANGED <<kernel, table, row, worker>>

\* A full export leaves out the rows that are rare or under the cut-off.
FullExport ==
  /\ Exportable /\ row # Absent
  /\ copy' = IF row.black \/ ~(row.under \/ row.rare) THEN "same" ELSE "none"
  /\ listed' = FALSE
  /\ UNCHANGED <<kernel, table, row, worker>>

-----------------------------------------------------------------------------
RowStep(w) ==
  \/ FindVar(w) \/ Filter(w) \/ FindSlot(w)
  \/ Name(w) \/ Assign(w) \/ Refresh(w) \/ KeepRow(w) \/ DropRow(w)
  \/ Use(w) \/ Skip(w) \/ InBounds(w) \/ OutOfBounds(w) \/ EndRow(w)

WorkerStep(w) ==
  \/ \E bad \in BadArguments(kernel) \cup {None} : Start(w, bad)
  \/ RowStep(w) \/ Mark(w) \/ Finish(w)

Next == (\E w \in Workers : WorkerStep(w)) \/ Gather \/ DeltaExport \/ FullExport

Spec == Init /\ [][Next]_vars

-----------------------------------------------------------------------------
(* What makes a kernel class sound, where it is not exempt; MCApplyGradient *)
(* has TLC evaluate it for every class.                                     *)

\* The variable's row is found first, every other row before it is touched,
\* and nothing fails in the middle of a row.
WellOrdered(k) ==
  \A i \in DOMAIN k.steps :
    /\ k.steps[i].do # "bound"
    /\ k.steps[i].do = "find" /\ k.steps[i].t = "var" => i = 1
    /\ k.steps[i].do \in {"write", "cover", "lasso"} =>
         \E j \in DOMAIN k.steps :
           /\ j < i /\ k.steps[j].do = "find" /\ k.steps[j].sure
           /\ Holder(k, k.steps[j].t) = Holder(k, k.steps[i].t)

MarksItsTables(k) == Names(k.tables) \subseteq Names(k.marks)

\* Every row written to table t is refreshed later.
RefreshesTable(k, t) ==
  \A i \in DOMAIN k.steps :
    k.steps[i].do = "write" /\ Holder(k, k.steps[i].t) = t
      => \E j \in DOMAIN k.steps :
           j > i /\ k.steps[j].do = "cover" /\ k.steps[j].sure /\ Holder(k, k.steps[j].t) = t

\* What each name stands for: the names and rows of its expression, and what
\* those names stand for in turn.  Two rounds reach the end of every chain in
\* the code, which the conditions below ask for.
NamedFrom(k) == {i \in DOMAIN k.steps : k.steps[i].do = "let"}

Uses(k) == UNION {{<<k.steps[i].t, r>> : r \in k.steps[i].reads} : i \in NamedFrom(k)}

WithChains(R) == R \cup {<<c[1][1], c[2][2]>> : c \in {d \in R \X R : d[1][2] = d[2][1]}}

StandsFor(k) == WithChains(WithChains(Uses(k)))

Changes(s) == s.do \in {"write", "lasso"}

\* No row has two assignments.
AssignsOnce(k) ==
  \A i, j \in DOMAIN k.steps :
    i < j /\ Changes(k.steps[i]) /\ Changes(k.steps[j]) => k.steps[i].t # k.steps[j].t

\* No name is used after a row it stands for was assigned.
NamesBeforeRows(k) ==
  LET rows == StandsFor(k)
  IN /\ WithChains(rows) = rows
     /\ \A h \in NamedFrom(k) : \A i, j \in DOMAIN k.steps :
          h < i /\ i < j /\ Changes(k.steps[i]) /\ <<k.steps[h].t, k.steps[i].t>> \in rows
            => k.steps[h].t \notin k.steps[j].reads

\* The row of the variable is used no more after the step that may free it.
DropsLast(k) ==
  LET rows == StandsFor(k)
  IN /\ WithChains(rows) = rows
     /\ \A i, j \in DOMAIN k.steps :
          i < j /\ k.steps[i].do = "lasso" =>
            /\ k.steps[j].t # "var" /\ "var" \notin k.steps[j].reads
            /\ \A n \in k.steps[j].reads : <<n, "var">> \notin rows

\* An index is tested before anything is assigned.
BoundsFirst(k) ==
  \A i, j \in DOMAIN k.steps : i < j /\ k.steps[j].do = "bound" => ~Changes(k.steps[i])

KernelsSound ==
  \A k \in Kernels :
    /\ k.kind = "kv" =>
         /\ WellOrdered(k)
         /\ k.op \notin Exempt.chain => MarksItsTables(k)
         /\ \A t \in Names(k.tables) : <<k.op, t>> \notin Exempt.cutoff => RefreshesTable(k, t)
    /\ k.op \notin Exempt.once => AssignsOnce(k)
    /\ k.op \notin Exempt.names => NamesBeforeRows(k)
    /\ k.op \notin Exempt.live => DropsLast(k)
    /\ BoundsFirst(k)
    /\ \A t \in Names(k.tables) : <<k.op, t>> \notin Exempt.held => Locks(k, t)
    /\ \A a \in BadArguments(k) : <<k.op, a>> \notin Exempt.bad => Rejects(k, a)

-----------------------------------------------------------------------------
(* Properties. *)

Places == {"idle", "row", "marking", "failed"}

TypeOK ==
  /\ kernel \in Kernels
  /\ table \in Names(kernel.tables)
  /\ row \in Row \cup {Absent}
  /\ listed \in BOOLEAN
  /\ copy \in {"same", "old", "none"}
  /\ \A w \in Workers :
       /\ worker[w].at \in Places
       /\ worker[w].bad \in BadArguments(kernel) \cup {None}
       /\ worker[w].left \in 0 .. MaxRows
       /\ worker[w].pc \in 1 .. Len(Steps) + 1
       /\ {worker[w].mine, worker[w].freed} \subseteq BOOLEAN
       /\ worker[w].spoiled \subseteq {p[1] : p \in worker[w].reads}

Quiet == \A w \in Workers : ~Running(w)

\* Between ops the reader of the exports lacks only a change that is listed for
\* the next delta, a row that was too rare, or one that was under the cut-off:
\* the kernel marks every table it changed, the slots as well as the variable.
ChainFaithful ==
  Quiet /\ row # Absent /\ ~listed /\ kernel.kind = "kv" /\ kernel.op \notin Exempt.chain
    => \/ copy = "same"
       \/ row.rare
       \/ copy = "none" /\ row.under /\ ~row.black

\* "If enable_cutoff is true, we will not export key which all values are
\* smaller than cutoff_value": a row that some value of is not smaller is not
\* left out, so under_threshold_ is refreshed after the last write of the row.
CutoffDropsOnlySmall ==
  Quiet /\ row # Absent /\ kernel.kind = "kv" /\ <<kernel.op, table>> \notin Exempt.cutoff
    => (row.big /\ ~row.black => ~row.under)

\* The row of a key that was put in the blacklist is memory that was freed: no
\* step after that evaluates an expression that reads it.
RowsLive ==
  \A w \in Workers :
    AtRow(w) /\ worker[w].freed /\ kernel.op \notin Exempt.live
      => /\ "var" \notin RowsRead(w, Current(w).reads)
         /\ Current(w).t # "var"

\* An expression means the same wherever it is used: none is evaluated after
\* a row it reads was overwritten.  (With the types, which bound what a worker
\* can have spoiled.)
NamesKeepTheirValue ==
  /\ TypeOK
  /\ \A w \in Workers :
       AtRow(w) /\ kernel.op \notin Exempt.names
         => Current(w).reads \cap worker[w].spoiled = {}

\* One gradient changes a row once.
AppliedOnce ==
  \A w \in Workers :
    /\ AtStep(w, "write") \/ AtStep(w, "lasso")
    /\ kernel.op \notin Exempt.once
    => Current(w).t \notin worker[w].wrote

\* No worker has a pointer to a row of a table an export may read, or an
\* import may clear.
TablesHeld ==
  (\E w \in Workers : InRow(w)) /\ <<kernel.op, table>> \notin Exempt.held => HasMutex

\* An op that is given a scalar out of its range, or a slot, a gradient or a
\* Hessian of another shape than its kernel works with, does no row: the test is
\* there, it excludes that fault, and it is made of the input that the op
\* registers by that name.  The faults that some class does not test are exempt,
\* each by name.
BadNeverTrains ==
  \A w \in Workers :
    Running(w) /\ worker[w].bad # None => <<kernel.op, worker[w].bad>> \in Exempt.bad

\* An op that fails at an index has written the rows before it, and nothing
\* of the row it failed at.
RowsAreWhole == \A w \in Workers : worker[w].at = "failed" => worker[w].wrote = {}
=============================================================================
