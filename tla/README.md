# A verification of TFPlus KvVariable

TFPlus adds *KvVariable* to TensorFlow: an embedding variable that is a hash
table from feature ids to rows, grown while a model trains. This directory
holds TLA+ modules that model it, TLC configurations that check them on small
instances, and theorems about them that TLAPS checks.

Paths are relative to `src/tfplus/kv_variable/` unless they start with `src/`.

## 1. The system

### 1.1 Components

| Component | State | Operations | Modelled in |
|---|---|---|---|
| Embedding entries (`kernels/embedding_value.h`, `hybrid_embedding/embedding_context.h`) | per key: buffer pointer, ownership flag, blacklist flag, `under_threshold_`, frequency and day | construct, move, destroy, update, delete the value | `KvEntry`, `KvTable` |
| `TableManager`, `MemStorageTable` (`hybrid_embedding/`) | the table of entries, the shared zero buffer `zero_val_` | insert, find, update, fetch-and-update, blacklist, un-blacklist, delete, clear | `KvTable`, `KvKeyLocks` |
| `KvVariable` (`kernels/kv_variable.h`) | table, `train_deltalist_`, `prediction_deltalist_`, `p_values_`, the initialisation table and flag, `mu()` | FindOrZeros, FindOrInsert, InsertOrUpdate, ScatterUpdate, Delete, DeleteWithTimestamp, marking, import, export, InitRandomValues | `KvStore`, `KvTable`, `KvKeyLocks`, `VariableLife` |
| Save (`dynamic_save.hpp`) | none of its own | full and delta export | `KvCheckpoint` (payload), `KvStore`/`KvTable` (effect on the variable) |
| Restore (`dynamic_restore.hpp`) | none of its own | full and delta import | the same |
| Training operators (`training_ops.cc`, `ops/training_ops.cc`) | the locks held and the rows pointed to during a step | thirty optimizer classes: 21 on KvVariables, nine on tensors | `OptimizerSteps`, `KvOptimizers`, `TensorOptimizers`, `ApplyGradient` |
| Locks of whole variables (`training_ops.cc`) | the mutexes an operation holds | find the mutexes of the inputs, lock them in address order, release | `VariableLocks` |
| Hash maps and key locks (`hashmap.h`, `mutex.h`) | segments with a reader/writer lock each | lookup, insert, erase, lock a key, upgrade, lock all, iterate | `KvKeyLocks` (no iteration, no lock of all segments) |
| Op kernels (`kv_variable_ops.cc`) | creation token, flag and handle of a node, the table a gathering node keeps | create, and one kernel per operation of KvVariable | `VariableLife` |
| Frequency and day (`utility.h`, `kv_variable.h`) | one 32-bit word per key | bounded and saturating addition, packing, age of a key | `FrequencyWord` |
| Checkpoint state manager (`python/training/checkpoint_manager.py`) | the full checkpoint and its deltas, older versions; the same in a file | add a full or delta checkpoint, remove old ones, forget a version, load | `CheckpointFiles` |
| OSS files (`src/tfplus/oss/kernels/ossfs/oss_file_system.cc`) | buffer and parts of a file being written, read buffer | append, close, rename, delete, read | `ObjectFiles` (files; no directories) |
| Python layer (`python/ops/`, `python/training/`) | none at run time | attributes of exports and imports, order of restore and initialisation, polling | in `KvEntry`, `VariableLife` |
| Bundle writer/reader, Pangu and DFS adapters, FlashAttention kernels, op registration | — | encoding, calls passed on, numeric code, declarations | no (section 6) |

### 1.2 Interactions

* A step of a graph begins with the node that *creates* the variable, under a
  name shared by graphs and sessions, and hands out its handle. Every other op
  looks the object up by that handle and holds a reference while it works; one
  op keeps the object over steps. A *chief* runs the initialiser or restores a
  full checkpoint and its deltas; *workers* poll until the variable says it is
  initialised. A destroying op takes the name away; the object goes with its
  last reference.
* A *lookup* op of the forward pass counts every key it sees and inserts the
  missing ones. An *optimizer* op of the backward pass looks the key up in the
  variable and in each of its slots (which are KvVariables too), writes the
  rows through the raw pointers it was given, and marks the keys for the next
  delta. *Scatter* and *insert* ops write rows directly.
* An optimizer op locks the mutexes of its variables in address order, then
  runs several *shards*, each of which does its rows one after the other under
  the lock of the row's key in the variable's table only.
* Operations on keys hold `mu()` shared and a segment lock of the key;
  deletion, imports and exports hold `mu()` exclusively; a pure lookup does not
  take it.
* A key is *rare* while its frequency is below `enter_threshold`: optimizers
  skip it, training exports leave it out. It is *under the threshold* when no
  component of its row reaches the cut-off. It is *blacklisted* when group
  lasso found its row small enough to drop; it then has no buffer, and reads as
  the zero buffer all blacklisted keys share.
* A *training* export (`first_n` 6 or 8) empties `train_deltalist_`, after
  adding it to `prediction_deltalist_`. An *inference* export (`first_n` 3)
  empties only the latter. `first_n` 2 empties neither. The payload is written
  to a file afterwards.
* An import replaces the table (full; the entries then point into the op's
  tensor, kept in `p_values_`) or edits it (delta).
* A checkpoint is written to a temporary file, renamed (a copy and a deletion
  in an object store), and recorded by the checkpoint manager, first in memory
  and then in its own file, written in the same way.

### 1.3 What is hard

Ownership of a row's buffer is a flag in the entry, moved by five different
functions, and there are three kinds of buffer (own, borrowed from `p_values_`,
shared zero). The two delta lists are written by every operation, consumed by
two kinds of export with different readers, and emptied before the file is
written. `under_threshold_` caches a judgement about a row that some optimizers
change without judging it again, and that an export with another cut-off
overwrites. The two passes of a full export count and write rows by different
tests. Key locks are upgraded, released and retaken inside an operation.
Optimizers name Eigen expressions with `auto`, which are evaluated where they
are used: after a row they read was overwritten or freed. Arguments are
registered by name and read by number. The creation of a variable spins on a
flag another thread sets. The list of checkpoints and its files are changed by
requests that may fail, may take effect without an answer, and may be the last
one before a crash. The variable can be rebuilt from files at any moment.

`PROJECT.json` lists these, at their lines, under "hazards", with the
properties that would notice each going wrong.

### 1.4 What makes each component correct

* *Entries and table*: the zero buffer is never written or freed; no entry
  points to a freed buffer; a buffer that would be freed with an entry belongs
  to that entry alone; nothing is leaked; a key that is not blacklisted has a
  buffer of its own or a row of the imported tensor.
* *KvVariable*: every operation changes the value of its own keys only, as
  `KvStore` says; every change of a key is in the delta list its readers need.
* *Frequency word*: the count is the number of lookups up to the greatest that
  fits, whatever day is stored beside it; a key is deleted by age if and only
  if its last lookup is known and old.
* *Save and restore*: what is restored is what was saved, except keys that
  changed since, keys too rare, and rows below a cut-off, even when saves fail.
* *Serving*: what the inference exports give a reader is what the training
  process has, except for the keys in the lists.
* *Optimizers*: a step marks every table it changed, judges every row after the
  last write, evaluates no expression over a row that is gone or changed,
  applies a gradient once, holds the mutex of every table it points into, and
  refuses what its arguments may not be.
* *Key locks*: a pointer into the table stays valid while it is used, each
  operation on one key takes effect at one moment, and every operation returns.
* *Variable locks*: an operation holds the mutexes of all its variables while
  it computes, and no operations wait for one another in a circle.
* *Creation*: a handle that is given out is written; no object is freed in use
  or kept for ever; nobody draws from an empty initialisation table or trains
  on half a restore; a wait for a creation that succeeds ends.
* *Checkpoint manager and files*: after any failure and a crash at any point,
  the list in memory and the one in the file name only checkpoints that are
  there and whole; no checkpoint is left that nobody knows of; a read returns
  what the file holds.

## 2. Modules

Data and single operators:

`KvEntry` — the entry as a reader sees it, the decisions taken on one entry,
the two kinds of payload, and what an export does to the delta lists. A row is
abstracted to its *magnitude* in `0..MaxValue`: the code's control flow depends
on a row only through "is every component below the cut-off", which for
magnitude `v` and cut-off `c` is `v < c`. Magnitude 0 is the zero row. The
default cut-off (1e-20) is 1: only zero is below it. The day half of the
frequency is in `FrequencyWord` instead.

`FrequencyWord` — the word that holds a count and a day, two halves of `Width`
numbers each (65536 in the code), followed over the life of one key: inserted
by a lookup or by an import (`InsertKey`, `ImportKey`), looked up (`LookUpKey`),
trained (`TrainKey`), deleted by age (`DeleteOldKey`) and exported as a word or
as a count (`ExportKey`), while days go by (`Tomorrow`). Beside the word the
state has two history fields, which no action reads but for a bound: the
`lookups` of the key without a limit, and the day it was last `seen` on.

### The variable

`KvStore` — the abstract specification: a table of values, and one action per
operation.

| Action | Code |
|---|---|
| `Gather` | `FindOrInsertLocally`: count and refresh, or insert |
| `InsertOrUpdate`, `FilteredUpdate`, `MarkBlacklist` | the three branches of `InsertOrUpdate`'s loop; a filtered row marks the key and changes nothing else |
| `ScatterUpdate` | `ScatterUpdate`: the result is any magnitude (seven arithmetic operations), a blacklisted key is left as it is |
| `TrainCover`, `TrainPlain`, `TrainLasso` | one key of an optimizer step on the variable: `FindOrInsertUnsafe` with a filter, then a write with `CoverUpdateUnsafe`, a write alone, or `MarkBlacklistUnsafe` |
| `SlotCover`, `SlotPlain` | the same on a slot: `FindOrInsertUnsafe` without a filter |
| `Delete`, `DeleteWithTimestamp` | the same; the second may remove any set of keys, since days are abstracted |
| `ImportValues`, `DeltaImport` | `dynamic_restore.hpp`, all stages |
| `ExportValues`, `DeltaExport` | `dynamic_save.hpp`: refresh of `under_threshold_`, and the lists |

`KvTable` — the same operations down to the buffers: `ev` is `ev_table_`, `mem`
what every buffer holds (`Freed` when it is not allocated), `pvalues` the
tensor of the last full import. A helper per primitive of the code
(`Owned`/`Release` for the destructor and `DeleteValue`, `Blacklisted` and
`DroppedBy` for `MarkBlacklistUnsafe` and `Evict`, `TrainFound` for
`FindOrInsertUnsafe`, `Target` for `Put`). `Visible` is the table a caller
sees; `Abstract` is `KvStore` of it, and `ImplementsStore` the refinement. The
constant `Ops` says which kinds of operation a variable's graph has: a variable
of a training graph and the slot of an optimizer are different instances.

`KvCheckpoint` — `KvStore` with the payloads its exports write, row by row, and
`copy`, the table somebody makes of them. `reader`, chosen once, is the next
training process (`"restart"`: given the training exports, and `Restart` may at
any time replace the variable by `copy` and forget both lists) or a serving
process (`"serving"`: given the exports with `first_n` 3). A `FullSave` or
`DeltaSave` has edited the lists when it is found out whether its file was
`written`; `lost` keeps the keys of payloads that never were, `strictest` the
largest cut-off an export has applied. `EarlyBlacklistSpec` lets keys be
blacklisted before they are inserted while a serving process reads, which is
what finding 3 needs.

### The same on one key, under locks

`KvCalls`, `KvAtomic`, `KvKeyLocks` — the operations on *one* key, called by
several threads. `KvCalls` has the calls, `KvAtomic` the promise: a call takes
effect in one step between its beginning and its return. Two kinds of call
promise less, as the code does: an insert-or-update or a scatter update that
finds no row gives the key up before it inserts (`Miss`), and may then
overwrite what another thread inserted; an import empties the key and then
fills it. `KvKeyLocks` has the steps between lock operations:

| Actions of `KvKeyLocks` | Code |
|---|---|
| `Begin`, `Return` | `mu()`: shared, exclusive (deletion, import), or not taken (`FindOrZeros`) |
| `GatherFind`, `GatherCount` | `FindOrInsertWithDifferentFn`, key found: `AddFrequency` under the *shared* segment lock, in two steps (read, store) |
| `UpgradeKeep`, `GatherInsert` | `upgrade_to_writer` succeeds: the lock was never given up |
| `UpgradeGiveUp`, `GatherRelock` | it fails: another writer may have come first, so the key is looked up again |
| `LookupFind`, `LookupCopy` | `BatchGetWithFn` |
| `CountFind`, `CountLoad` | `GetCount`: `FindOrNull`, then a use of the pointer without the segment lock |
| `Change`, `Insert` | `UpdateWithFn` or `FetchAndUpdateWithFn`, and the `InsertWithFn` that follows when they fail |
| `Train` | an optimizer's loop body, under the exclusive segment lock |
| `Erase`, `Clear` | `DeleteKey`, `clear()` |

A section under the exclusive segment lock is one action. `accesses` counts what
`AddFrequency` should have counted; no action reads it. Left out: a positive
`enter_threshold`, blacklists, and the frequencies an import brings (`KvTable`
has them), and slots, whose rows are changed under the variable's key lock
(`ApplyGradient`).

`VariableLocks` — `MaybeLockVariableInputMutexesInOrder`. A mutex is its
address, a natural number; a *profile* is what an optimizer is called with (the
mutex of each input, the ids it asks to lock, `use_locking`). `Number` is the
position the code sorts, `Taken` the mutex it then locks, `Wanted` the one it
should.

### Optimizers

`OptimizerSteps` — the vocabulary: *find* the row of a table, *let* a name
stand for an expression (`auto`, evaluated lazily), *write* a row, *cover*
(`CoverUpdateUnsafe`), *lasso* (write and refresh, or blacklist), *read*,
*bound* (the check of an index). Which rows an expression reads is kept, the
arithmetic is not.

`KvOptimizers`, `TensorOptimizers` — every kernel class in it. Three
definitions per class: `...Compute` (tables, inputs in the order they are read,
mutexes locked, arguments checked), `...DoWork` (the steps on one row and the
tables marked at the end) and one named after the op (the inputs in the order
they are registered). The classes for plain tensors are six that update whole
tensors by a functor and three that go row by row.

`ApplyGradient` — two workers run one kernel on one key, seen from one of its
tables; both kernel and table are chosen at the beginning. `FindVar`, `Filter`
and `FindSlot` are `FindOrInsertUnsafe`; `Name`, `Assign`, `Refresh`, `KeepRow`,
`DropRow`, `Use`, `InBounds`, `OutOfBounds`, `Skip` and `EndRow` the steps of a
row; `Mark` the marking of one table after the last row. The lock of the key is
held from the second step of a row to its end. `Gather` may come between rows,
and `DeltaExport` and `FullExport` whenever the op does not hold the mutex of
the table. `Start` is the check of the arguments: one of them may be bad, in
one of four ways (out of range, of other lengths, of more dimensions, a packed
slot as wide as one part), and the op runs if the kernel does not test for that
on the input it reads at that place. A worker remembers the bad argument until
it has found a row; what the row's assignments then do with it is not modelled.

### Variables, checkpoints and files

`VariableLife` — one name, several creating nodes, several threads.

| Actions of `VariableLife` | Code |
|---|---|
| `StartCreate`, `Make`, `MakeFails`, `Publish`, `SetFlag`, `Wait`, `Output` | `CreateKvVariableOp::Compute`: token, `LookupOrCreate`, handle, flag |
| `Lookup`, `Run` | `LookupResource`, the kernel's work, `ScopedUnref`; what a kernel does to the object is in the record named after it |
| `IsInitialized`, `Delete` | the kernels that poll and destroy |
| `DrawFromNothing` | `rand() % 0` in `GenerateRandomInitialValue` |
| `BeginGather`, `Keep`, `GatherOrZeros`, `DestroyGatherer` | `KvVariableGatherOrZerosOp`, which keeps its object |
| `BeginRead`, `BeginTrain`, `BeginDestroy`, `BeginInit`, `BeginRestore` | who calls what when: the Python layer's order |

`ObjectFiles` — a file being written (buffer, numbered parts, an upload that is
completed at `Close`), renaming by a copy and a deletion, and the read-ahead
buffer of a reader. Each request to the object service may fail, with its
effect or without it. `Entered` is the assignment to a C++ or Python map.

`CheckpointFiles` — a process that saves checkpoints to such files and calls
the checkpoint manager, one action per request: write, close, `RenameCopy`,
`RenameDelete`, `Record` (the list in memory), then the list's own file in the
same way; `RemoveOldCheckpoint` and its deletions, forgetting a version,
`Crash`, and `Load` at a restart. Beside it a reader of the current checkpoint.
A list carries a history field, `log`: every checkpoint that was recorded in it,
in order, and whether its version is still `kept`. `ChainFollowsLog` compares
the list with the log by places: the deltas of a full checkpoint are the names
at the places of its deltas in the log, in increasing order (`InOrder`,
`DeltasUpon`).

### Instances and proofs

`MCKvTable`, `MCKvCheckpoint`, `MCApplyGradient`, `MCVariableLife`,
`MCVariableLocks`, `MCCheckpointFiles` — instances for TLC. `KvTableProofs`,
`KvCheckpointProofs`, `KvKeyLocksProofs`, `ApplyGradientProofs`,
`VariableLifeProofs`, `VariableLocksProofs`, `FrequencyWordProofs`,
`CheckpointFilesProofs` — theorems.

The operators named *Mutant* in a comment are faulty versions of the definition
they precede; they are used to see that a property notices the fault, and by no
specification.

### What composes what

`KvCheckpoint` extends `KvStore`, which `KvTable` implements: a fault of a
buffer cannot hide in what the checkpoints are shown to keep. `CheckpointFiles`
extends `ObjectFiles`. `ApplyGradient` is parameterised by the kernels of
`KvOptimizers` and `TensorOptimizers`; it is one level below the one-step
`Train...` and `Slot...` actions of `KvStore`, with rows, marks and locks apart.

In `KvStore` and `KvTable` an operation on one key is one action.
`keylocks_calls` is the reason: on one key, every call is equal to one step of
`KvAtomic`. The one exception, the gap between a failed update and the insert
of `InsertOrUpdate` and `ScatterUpdate`, is in `KvKeyLocks` only: a row inserted
in the gap is replaced, frequency included, which no action of `KvStore` does.

## 3. Runs

Deadlock is not checked: a variable nobody calls may stop. The first property
of a run includes the type invariant of its module where that is not listed by
itself.

| Run | Question | Result |
|---|---|---|
| `table` | a training graph, a graph with slots and scatter updates, or one with blacklists and scatter updates, chosen at the start: is every buffer owned, freed and shared as the flags say, and is what a caller sees `KvStore`? And over the life of one key: do its count and day tell the truth? | holds, 17 thousand states |
| `table_mixed` | is a blacklisted key's value zero, where blacklists, scatter updates and inserts meet? | violated (finding 1) |
| `checkpoint` | can a restart, or a serving process, lose or invent anything but what the lists, the cut-offs and failed saves excuse? | holds, 1.2 million states |
| `checkpoint_blacklist` | are the rows of an inference export the ones it counted? | violated (finding 3) |
| `optimizer_step` | thirty kernels, two shards on one key, gathers and exports in between: marks, refreshes, locks, argument checks, order of assignments | holds outside the named exceptions, 1.2 million states |
| `optimizer_late` | does the second group-lasso Adam leave out only small rows? | violated (finding 2) |
| `keylocks_calls` | three threads, four calls of any kind on one key: valid pointers, no frequency of an earlier row, refinement of `KvAtomic`, every call returns | holds, 147 thousand states |
| `keylocks_frequency` | is every lookup of a key counted? | violated (finding 4) |
| `variable_creation` | two workers and a chief create, initialise or restore, poll, train and destroy one variable from two graphs: ready handles, no use after free, leaks by one race only, no draw from nothing, no training on half a restore, waits end | holds, 192 thousand states |
| `varlocks_order` | three optimizers sharing up to three variables: do they wait in one direction only, hold what they update, exclude one another, and finish? | holds, 375 thousand states |
| `varlocks_numbers` | does the optimizer whose fourth variable is input 11 hold its mutex? | violated (finding 5) |
| `checkpoint_files` | two failed requests and a crash anywhere in four saves: are the listed checkpoints there and whole, is the list what was recorded, is nothing left behind, does a reader get the file? | holds, 1.5 million states |

### Bounds

*Table.* Two keys are enough for one operation to disturb another key's buffer;
three heap buffers let both keys own one while an optimizer allocates a third
before the old one is freed; two tensors let an import replace the tensor the
entries borrow from. Magnitudes are 0 and 1: the cut-offs 1 and 2 put a value
under one and over the other. Counts go to 1 with a threshold of 1, so that a
key is rare (restored with 0) or not. The payloads of `MCKvTable` put every
combination of "valued, blacklisted, not in it" over the keys into a full
payload and give deltas about one key, or an inference delta for both; other
mixes are left out to keep the run small. Heap buffers and tensors are
symmetric. The halves of a frequency word have four numbers, and a key up to
nine lookups: a count may pass the greatest that fits in one step or in several,
and a day overlaps no count only if the packing is right. The days are 1 to 3;
exports, imports and deletions are not bounded.

*Checkpoints.* Two keys, so that one can take another's row; counts to 2 with
`enter_threshold` 2, so that a key becomes rare again after a deletion; cut-offs
1 and 2, the default and a stricter one; keys are symmetric. There is no bound
on the number of exports, failures and restarts: the state space is finite as
it is.

*Optimizers.* One key: rows of different keys share nothing but the lists, and
those are marked per key. Two workers with up to two rows of the key each: a
key may occur twice in one shard's indices and in another shard's. One table is
watched at a time, which is sound since no step reads one table to decide about
another; each is watched in some behaviour. A row is "big" or not, rare or not.

*Key locks.* A failed upgrade needs two threads that upgrade at once, and the
third can delete, import or train in between. Four calls let a row be
inserted, counted and overwritten by the insertion of a fourth call, which is
the shortest way to a frequency of an earlier row. A writer that waits for the
segment lock holds new readers up. The model lets them in, which allows more
behaviours; only `upgrade_to_writer`, whose result depends on it, looks at
waiting writers (`WriterPending`).

*Variable locks.* Three operations on three mutexes are the smallest circle of
waits that two cannot form; operations have one or two variables, in all
placements, with and without `use_locking`.

*Creation.* Two threads of one graph race for the token and a third comes from
another graph, finding the object under its name; two of them share a gathering
node. Checkpoints are one with a delta, by either version of the import op, and
one saved for serving. A node makes one object at most, so after a destruction
the other graph's node can put a second object under the name.

*Files.* A part is two appends long, two parts are listed, and the saves have
1, 3, 0 and 5 appends: within one part, two parts (copied part by part when
renamed), nothing to upload, and more parts than are listed (the code lists
1000). Two requests fail, so that an error can hit the handling of another, and
one crash comes between any two requests; four saves let a full checkpoint with
a delta become an old version, be removed, and be followed by a name that is
used again. Reads are of the first chunk and of a range that may go beyond the
end; the read-ahead of 2 makes the buffer serve one read and miss the next.

### Fairness

The table, checkpoint, optimizer and file runs check safety and assume none.
`EveryCallReturns`, `EveryOpFinishes` and `EveryCreateReturns` assume weak
fairness of each thread (of each operation) on what it has begun: the operating
system runs every thread that can run. Beginning a call is never required.
Fairness of the locks themselves is not assumed: the calls of a run are finitely
many, so a lock that is wanted is free for good from some moment on. Starvation
by an endless stream of other calls is therefore not excluded, nor does the code
exclude it.

### What the properties excuse

A property that holds outside a named set says so in its formula. The sets are:

* `optimizer_step`, `KnownExceptions`. `chain`: `KvVariableComputeAdaDQHHG`
  inserts rows and marks no table. `cutoff`: Ftrl, Adagrad, Adadelta, AdaDQH and the second
  group Adam's `v` write in place (finding 2). `live`: the two group Ftrl read
  the row they have just freed, when there is shrinkage. `names`: these two, and
  plain Ftrl, use the gradient with shrinkage after they wrote the row it reads,
  and group Adadelta `new_accum` after it wrote `accum`. `once`: group Ftrl adds
  to `accum` twice; group momentum and rectified Adam write the Nesterov
  correction to the momentum itself. `held`: Adadelta does not lock
  `accum_update`. `bad` names, for a class, an argument and what can be wrong with
  it undetected. Five kernels only test that `lr` is a scalar; three do not test
  the Hessian's shape, or only its number of rows; two dense kernels test
  nothing. `check_dim_size` of AdamV3, AdamV4 and RectifiedAdam
  (`training_ops.cc:5807`, `:7078`, `:6796`) takes a packed slot that is as wide
  as the variable as well as one three or five times as wide, and the kernels
  use three or five times the width of it. Every kernel that works on rows
  compares the gradient along the variable's dimensions only, so one with
  further dimensions passes. The shape functions of the ops, which refuse some
  of this when the graph is built and the shapes are known, are not modelled;
  those of the three packed classes do not look at the slot. The arithmetic
  is not modelled, so whether an exception changes a number in a particular
  call is not said; that it is confined to these kernels is.
* `variable_creation`. A creation that failed leaves the token taken, and who
  waits for it waits for ever (`Abandoned`). Two overlapping first runs of one
  gathering node leak a reference (`raced`; the code's own comment at
  `kv_variable_ops.cc:366`). A checkpoint saved for serving has no
  initialisation table, and the first version of the import op does not know
  which import is the last: training from the former draws from an empty table
  and ends the process, and with the latter training may begin before the last
  delta. A gathering node goes on reading an object that was destroyed.
* `checkpoint_files`. An old version that was removed while the file still had
  it as current (`exposed`: the list in memory had changed and writing it
  failed), one whose removal was cut short and that a restart found again
  (`interrupted`), what an error, a crash or forgetting a version leaves behind
  (`orphans`), a name recorded twice, an object of more parts than are listed,
  and reads after a failed load or from a replaced object.
* `checkpoint`: keys in the lists, rare keys, keys of payloads never written,
  and rows below the strictest cut-off applied so far.

### Findings

1. *A blacklisted key may not read as zero.* `FetchAndUpdateWithFn` puts the
   pointer it fetched back into the entry. For a blacklisted key that pointer is
   `zero_val_`; a later `InsertOrUpdate` of the key writes its row there, and
   every blacklisted key reads it. (`table_manager.h:314`, against
   `kv_variable.h:261-262`)
2. *A full export may leave out rows above the cut-off.* Optimizers that write
   in place do not refresh `under_threshold_`, and
   `KvVariableGroupSparseApplyAdamNewV2` refreshes `v` before it writes it. A row
   inserted as zero and then trained is not exported until a lookup refreshes
   it; rows of a slot are never looked up. (`training_ops.cc:5662`, against
   `kv_variable_interface.h:162-163`)
3. *An inference export may write a blacklisted key, with a row nobody filled,
   in the place of a row it counted.* A key is blacklisted with
   `under_threshold_` unset when it had to be inserted for it, as every
   blacklisted key is after a restore. (`dynamic_save.hpp:152`, against `:59`
   and `:332`)
4. *Two lookups of one key may be counted once.* The find function adds to the
   frequency with only a shared lock on the key. (`table_manager.h:175`, against
   `embedding_value.h:229`) The frequency is never too high, though
   (`FrequencyNeverAhead`).
5. *`ComputeAdaDQHHGOp` updates `delta` without its mutex.* The function that
   locks in address order takes numbers of mutexes for ids of inputs; they agree
   for ids 0, 1, 2, ... and not for 0, 1, 2, 11. (`training_ops.cc:172`, against
   `:215`)

A comment at `training_ops.cc:291` says `use_locking` can lead to deadlocks.
The order of locking does not: see `WaitsGoUp` and its theorem.

## 4. Theorems

### The table and its buffers

`KvTableProofs` proves, for every set of keys, payloads, buffers and tensors
and every threshold, `Spec => []P` for each part `P` of `BufferSafety`:

* `TypeCorrect`: `TypeOK`
* `ZeroVectorIntact`: `ZeroIntact`
* `NothingDangles`: `NoDangling`
* `OwnersAreSingle`: `SingleOwner`
* `NothingLeaks`: `NoLeak`
* `LiveKeysHaveBuffers`: `LiveHasBuffer`

from the named assumptions of `KvEntry` and `KvTable` (constants have their
types, `Null`, `Freed` and `NoTensor` are not buffers or values) and from
`ZeroSafeWorkload`: either nothing is ever blacklisted, or the variable is not
a slot and is not both scattered to and inserted into. Without it the theorems
are false, which is finding 1; the three workloads of `table` satisfy it
(`WorkloadsAreSafe`, which TLC evaluates).

`BufferSafety` is not inductive. It says that a buffer an entry owns has no
other user, but not what an entry without ownership may point to, so a step
could write one key's row through another key's borrowed pointer. `IInv` adds,
entry by entry (`EntryOK`): an entry owns exactly the buffers of the heap, a
borrowed row is the key's *own* row of the *current* tensor and is filled, an
entry that is not blacklisted has one of the two, a blacklisted one has a
buffer only where inserts may give it one, and the zero buffer only where
scatter updates may (`ZeroSafeWorkload` keeps the two apart); and across
entries, that no two keys share a heap buffer (`Unshared`) and every allocated
one is some entry's (`Reachable`). With it, each action is one case: the
entries it leaves alone keep `EntryOK` because the buffers it frees or writes
are those of its own key, and the entry it makes has a buffer that was free
before. What `Release`, `Owned` and `OwnedBy` do is stated in lemmas several
actions use. The type invariant is a part of `IInv`, since an entry of the
right type needs a buffer of the right kind to have a value.

### The table implements the store

`KvTableProofs` also proves, under the same assumption,

* `StoreImplemented`: `Spec => ImplementsStore`

that is, `KvTable` with its buffers is `KvStore` to a caller. The mapping reads
a blacklisted key as zero, and every other one through its pointer. A step on
one key may allocate, free and write buffers, and what is to be shown is that
no *other* key's value changes with them. `ChangeSeen` says so once: if the
memory changes within the buffers of one key, `IInv` makes every other key's
pointer lead elsewhere, so the visible table changes at that key only, to what
its new entry stands for. Each operation then has a lemma named `...Seen` that
compares one entry with the entry `KvStore` makes. The optimizers' two-stage
steps go through `Stands`, which says what a lookup has left for the write
after it; the imports, which change all keys at once, through `DeltaMemory`,
which says what every buffer holds afterwards.

### Checkpoints and their readers

`KvCheckpointProofs` proves, for every finite set of keys and every threshold,
bound and set of cut-offs,

* `RestartLosesNothing`: `ReaderSpec => []CheckpointFaithful`
* `ServedAsTrained`: `ReaderSpec => []ServedFaithful`

from `DeltasRecorded` (changes are recorded, and the default cut-off is one a
saver may use), the second also from `SupportPrediction`. The two properties say
what a reader has; they are inductive only with what both sides think of
`under_threshold_` (`Judged`): in the variable, a key that is under it is below
the largest cut-off applied so far, and a blacklisted one has no value; in the
copy the same with the default cut-off, since an import judges afresh. While a
serving process reads, a blacklisted key is always under the threshold, because
it was in the table before. That is what makes the two loops of a full export
agree: then the keys that may take a row are those that were counted, so their
number settles which ones do (`RowsAreCounted`); finding 3 is the case where it
is not so.

An export that is not read (`UnreadKeepsInvariant`) takes keys out of the delta
lists only into `lost`, or hands them on. One that is read is compared key by
key with what the import makes of it (`FullRead`, `DeltaRead`, from what
`Imported` and `DeltaApplied` do to one key). Every operation on one key is one
lemma: its entry is `Judged`, and its key is marked (`BecomeKeepsInvariant`).

### Calls on one key

`KvKeyLocksProofs` proves, for every number of threads and every set of calls
and rows,

* `PointersValid`: `Spec => []PointersStayValid`
* `NeverAhead`: `Spec => []FrequencyNeverAhead`
* `AtomicCalls`: `Spec => CallsAreAtomic`

from the named assumptions of `KvCalls` and `KvKeyLocks`. The inductive
invariant is `ThreadsOK /\ EntryOK`. Where a thread is says which call it is in
and which locks it has (`PlaceOK`); the locks exclude one another
(`Exclusion`); and what a thread has seen still holds (`SeenOK`): the count it
read is not above the accesses so far, the row it is copying has not changed,
the entry `GetCount` points to is there, there is no row while it upgrades and
none while its import fills the table. Whether the *other* threads' `SeenOK`
survives a step is said once for each kind of step (`Unwritten`, `Written`,
`Removed`), and follows from the lock they hold. For the refinement, the step
of a call that has its effect is `KvAtomic`'s step (`EffectSeen`), a step that
only looks is not seen, and a failed update before an insert is `Miss`
(`MissSeen`).

### Frequency word

`FrequencyWordProofs` proves, for halves of any width and any number of lookups,

* `CountsAndDaysAreTrue`: `WordSpec => []WordsTellTheTruth`
* `DeletedAreOld`: `WordSpec => []OnlyTheOldAreDeleted`

from `WidthAssumption`. The invariant is the first property in a form that can
be calculated with, for the key *and* for the last export: the word is the day
it was seen on and its bounded number of lookups, packed (`Truthful`). The
arithmetic is in three lemmas: what is packed can be taken apart (`Halves`), a
number of lookups is bounded once and for all (`Bounds`), and adding to a
bounded count with the code's test for a wrapped sum is bounding the sum
(`Adds`).

### Optimizers

`ApplyGradientProofs` proves, for every number of shards and of rows a shard
has,

* `ChangesReachTheReader`: `Spec => []ChainFaithful`
* `LargeRowsAreExported`: `Spec => []CutoffDropsOnlySmall`
* `FreedRowsAreNotRead`: `Spec => []RowsLive`
* `NamesMeanOneThing`: `Spec => []NamesKeepTheirValue`
* `GradientsApplyOnce`: `Spec => []AppliedOnce`
* `BadArgumentsAreRejected`: `Spec => []BadNeverTrains`
* `FailedRowsAreUntouched`: `Spec => []RowsAreWhole`
* `RowsAreHeld`: `Spec => []TablesHeld`

from `KernelsSound`, which is about the text of a kernel class and not about
its runs. It asks, of each class that is not exempt from the property in
question: a row is found before it is touched, nothing in a row makes the op
fail, and all tables are marked at the end; a refresh that is not under a
condition follows every write; no row has two assignments (`AssignsOnce`); no
name is used after a row it stands for was assigned (`NamesBeforeRows`), and
the variable's row is not used, by any name, after it may have been freed
(`DropsLast`); an index is tested before anything is assigned (`BoundsFirst`);
each table's mutex is among those locked (`Locks`), and each fault an argument of
the class can have (`BadArguments`) is tested, on the input that the op registers
under the argument's name (`Rejects`). TLC evaluates it for the thirty
classes (`KernelsAreSound` in `MCApplyGradient`), so that the run and the
theorems share their exceptions. So a theorem says that, whatever shards,
gathers and exports come in between, a fault of the kind must be one of the
text; and TLC that the texts have none but those named.

The first two hold only between ops, so the invariant says what is *still to
come*: if the reader lacks something that is not listed, some worker that has
begun a row, or ended one, has the mark before it (`WillMark`); if the flag
disagrees with the row, some worker in its row has a refresh before it
(`WillRefresh`). Another shard's step between a write and its refresh, and an
export between a write and its mark, are then no special cases. Neither needs
the table's mutex: it is needed for the row's memory (`TablesHeld`), not for
these.

The other six have an invariant of their own (`TextInv`), which says for each
worker what its memory has to do with the text up to where it is (`WorkerOK`):
a name it keeps stands for a row the text lets it stand for (`ReadsAsWritten`),
a name that has lost its value was given before an assignment that came since
(`SpoiledLater`), and a row it has written, freed or failed at was written,
freed or tested by a step before (`WroteBefore`, `FreedBefore`,
`FailedAtBound`). Names may stand for names. What a name stands for in the end
is a closure, taken here as two rounds of `WithChains`; `KernelsSound` includes
that a third round adds nothing, without which the lemmas about names would be
about something else.

### The life of a variable

`VariableLifeProofs` proves, for every number of creating nodes, every finite
number of threads and gathering nodes (`FinitelyMany`: references are counted),
and every checkpoint,

* `HandlesReady`: `Spec => []HandleIsReady`
* `LifeIsTyped`: `Spec => []TypeOK`
* `NoUseAfterFree`: `Spec => []NothingFreedInUse`
* `LeaksAreRaces`: `Spec => []LeaksOnlyByRace`
* `NoDrawFromNothing`: `Spec => []DrawsFromRows`
* `TrainingAfterRestore`: `Spec => []TrainsAfterRestore`

There are three invariants, each used by the next. The first (`IInv`) says that
one thread at most makes a node's handle (`OneMaker`), where it is in doing so
in terms of the token, the flag and the handle (`InOrder`), and that a thread
which waits or gives a handle out is at a creating node (`AtNodes`).

The second (`RefInv`) counts. `Spare` is an object's references less those who
own one: the name, the gathering nodes that keep it, and the threads in a call
on it. It is never negative, and it is zero unless two first runs of a
gathering node overlapped (`Counted`). Neither half is inductive alone: a step
that drops a reference must drop its own, so it is also said which calls own
one and which use the node's (`CallShape`, `Kept`), that nobody knows of an
object that is not made yet (`Fresh`), and that without the race a first run is
alone (`Alone`). Every step changes one owner at most, and `Recount` says what
that does to a cardinality.

The third (`RestInv`) is about who does what: only the chief imports and
initialises (`WorkersDo`, `ChiefDoes`), until it has, nothing is initialised
(`Untouched`), the name is bound to one object for the whole of a restore, which
counts the deltas that are due (`Restoring`), an object without rows is not
initialised, nor one with a delta due where the op knows of it (`Filled`), and
an object that a thread saw initialised stays so or is gone (`Seen`).

### Locks of variables

`VariableLocksProofs` proves, for every number of operations, inputs and
mutexes,

* `NoCircularWait`: `Spec => []WaitsGoUp`
* `MutexesHeld`: `Spec => []RequiredMutexHeld`
* `UpdatesExclude`: `Spec => []ExclusiveUpdate`

from `VariablesAssumption` and `WellNumbered`: the ids are 0, 1, 2, ... and
their mutexes are all different. Every kernel on KvVariables but
`ComputeAdaDQHHGOp` calls the function with such ids
(`MCVariableLocks!SparseProfiles` satisfies it, as TLC evaluates); without it the second theorem
is finding 5. Under it the number of a mutex is the id of its input
(`TakenIsWanted`, by the cardinality of an interval). The inductive invariant
says which mutexes an operation holds in terms of the positions it has locked
(`HeldByPosition`), that these are lower than those that are left
(`LowestFirst`), and that a mutex is shared only by operations that share it
(`Exclusion`); none of the three properties is inductive alone, since none says
what is held in the middle of locking.

### Checkpoint files

`CheckpointFilesProofs` proves, for all sizes of parts, buffers and answers,
any number of saves of any length, and any number of failed requests and
crashes,

* `FilesAreKept`, `FilesAreTyped`: `Spec => []FilesInv`, `Spec => []TypeOK`
* `ChainsAreKept`: `Spec => []ChainsInv`
* `ChainsFollow`: `Spec => []ChainFollowsLog`
* `CurrentStaysComplete`: `Spec => []CurrentIsComplete`
* `HistoryStaysComplete`: `Spec => []HistoryIsComplete`
* `OrphansAreKnown`: `Spec => []NothingOrphaned`
* `RecordingsSurvive`: `Spec => []RecordedSurvives`
* `FaithfulReads`: `Spec => []ReadsAreFaithful`

from `FilesAssumption` (sizes are positive), `CheckpointsAssumption` (constants
have their types, and a temporary name is neither a checkpoint's nor the
list's) and `NoneAssumption` (`None` is neither a file's content nor a list).

`FilesInv` is what holds of files and objects, whatever fails. A file that is
being written holds the first parts of its data, and nothing else, or has lost
its upload with all it held (`FileOK`); what has been put in place stays there,
whole, until it is recorded (`Held`); the object of a checkpoint is what an
upload makes of the data of one save, and that of `checkpoint_ext` is one whole
list (`Objects`). That the parts of data put one after the other are its
beginning (`PartsInARow`), and so that an upload gives the data back
(`UploadIsWhole`) and a copy by ranges changes nothing (`RenameKeeps`), is an
induction over parts, made from the least element of a set of numbers. "Whole"
stands for as many parts as one answer lists: a save with more is cut off, and
the property excuses it.

`ChainsInv` is what holds of the lists. In memory and in `checkpoint_ext`, the
list is a view of its log, and the last full checkpoint is kept (`ListsInv`).
To carry that through an update, `InOrder` is taken apart and put together: a
delta is a last place, a new full checkpoint moves all places to the history.
But `CurrentIsComplete` is about two lists and the objects they share, and a
checkpoint may be saved again under its name after a restart. So it is also
said how names go up with training, and that the list in memory goes on where
`checkpoint_ext` ends or, where that could not be read, began anew with one
checkpoint per step (`NamesInv`). Then the object of a listed name is of the
last save recorded under it or of a later one, unless the name was recorded
twice (`GoodInv`), and what `remove_old_checkpoint` still has to delete is not
current in either list (`QueueInv`); the second is what keeps the first through
a deletion, and is not true of a name recorded twice, which is why the property
does not speak for those.

`AckedInv` (what was acknowledged is in the list in memory as well) and
`ReaderInv` (the buffer is the range of the opened object from its offset) make
`RecordedSurvives` and `ReadsAreFaithful` inductive. The actions are
grouped by what they do to the list and the objects (`Steppings`), so that each
invariant has a case per kind of step rather than per request that can fail.

### Only model-checked

Every invariant and refinement of a passing run is stated by a theorem. What
TLC alone shows is

* liveness under fairness, which is beyond TLAPS: `EveryCallReturns`,
  `EveryOpFinishes` and `EveryCreateReturns`;
* that the thirty kernel classes satisfy `KernelsSound`, the profiles of
  `varlocks_order` `WellNumbered`, and the workloads of `table`
  `ZeroSafeWorkload`: these are about texts of the code, and TLC evaluates them;
* the findings, which are behaviours.

## 5. What could come next

1. Operations that go over all segments of a hash map (`ForEach`, `size`,
   `LockAll`), beside calls on one key.
2. The directories of the object store: markers, listings, and a rename of many
   objects that is cut short.
3. An abstract specification of the checkpoint manager, a log of recorded
   checkpoints and what a restart may make of it, that `CheckpointFiles`
   implements.

## 6. Not modelled

* `kernels/tensor_bundle.cc`: a copy of TensorFlow's checkpoint format. Reading
  and writing are of one process on one file, and the repository's own saver is
  not in it.
* The Pangu and DFS adapters (`src/tfplus/pangu/`, `src/tfplus/dfs/`): each
  call is passed on to a client library that is not in the repository.
* Of the OSS file system: directories, listings, patterns, URI parsing and
  credentials. Checkpoints are files beside one another. An unfinished upload,
  once its file is given up, is only space in the store.
* Of the checkpoint manager: the conversion of paths (names are names), and
  snapshot directories, which nothing in the repository writes. The saver that
  calls the manager is external; `CheckpointFiles` says what it is taken to do.
* The values of the initialisation table and random initial values (any
  magnitude may be the initial one), shapes and types of tensors, output
  allocation, error messages, request counting, `storage_size_`, sizes reported
  by `size` and `sum_freq`, multi-level tables, and the map types that the
  default configuration never builds.
* `utility.cc`: the arithmetic of shards (`ModKey`, `HasPublicKeys`, `Gcd`) has
  no caller.
* `training_ops.cc`: the arithmetic of the optimizers.
* FlashAttention kernels (numeric GPU code without shared state), op
  registration, build files and examples, graph construction in Python.
