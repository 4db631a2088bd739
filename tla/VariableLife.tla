---------------------------- MODULE VariableLife ----------------------------
(***************************************************************************)
(* The life of one KvVariable, from the ops' side.  A node that creates it *)
(* publishes its handle once, however many steps run the node at the same  *)
(* time; every other op looks the variable up by that handle, holds a      *)
(* reference while it works and drops it; a chief initialises the variable *)
(* or restores it from a full checkpoint and its deltas; the others poll   *)
(* until they may train; and somebody may destroy it meanwhile.            *)
(*                                                                         *)
(* One name is modelled.  What an op does to the rows of the variable is   *)
(* in KvTable and KvCheckpoint; here a variable is its initialisation      *)
(* table (filled or empty), the flag that says it is initialised, and the  *)
(* references that keep it alive.                                          *)
(***************************************************************************)
EXTENDS Integers, FiniteSets

CONSTANTS
  Workers,    \* inter-op threads that run everybody's steps
  Chief,      \* the thread of the session that initialises or restores
  Creators,   \* nodes of type KvVariable, in one graph or in several
  Gatherers,  \* nodes of type KvVariableGatherOrZerosV2
  Graph,      \* the creating node in the graph each thread runs
  None,       \* the null pointer, and no node
  Gone,       \* a gathering node that was destroyed
  Checkpoints \* what there may be to restore, and by which ops

ASSUME LifeAssumption ==
  /\ Chief \notin Workers
  /\ Graph \in [Workers \cup {Chief} -> Creators]
  /\ {None, Gone} \cap (Creators \cup Gatherers) = {}
  /\ None # Gone
  /\ Checkpoints \subseteq [v2 : BOOLEAN, rows : BOOLEAN, deltas : Nat]

ASSUME FinitelyMany == IsFiniteSet(Workers) /\ IsFiniteSet(Gatherers)

Threads == Workers \cup {Chief}

VARIABLES
  node,     \* per creating node: init_token_, table_handle_set_, handle_
  bound,    \* the object the resource manager has under the name
  table,    \* the KvVariable objects; a node makes one at most, named after it
  cache,    \* per gathering node: table_
  call,     \* per thread: where it is, its node, its kernel, its object
  handle,   \* per thread: it has the handle
  saw,      \* per thread: the object it saw initialised last
  restored, \* steps of the restore that were begun
  ckpt,     \* the checkpoint: imported by the second version of the op, saved
            \* with an initialisation table, number of deltas
  raced,    \* two first runs of a gathering node have overlapped
  alive     \* the process

objects == <<node, bound, table, cache, alive>>

clients == <<call, handle, saw, restored, ckpt, raced>>

vars == <<objects, clients>>

-----------------------------------------------------------------------------
(* The kernels.  method says what a kernel does to the object it finds:    *)
(* "use" is any work on existing rows or on given ones, "draw" is work     *)
(* that may draw a new row from the initialisation table.                  *)

Scoped(method) == [method |-> method, cached |-> FALSE, runs |-> 1]

KvVariableShapeOp == Scoped("use")
KvVariableSizeOp == Scoped("use")
KvVariableStorageSizeOp == Scoped("use")
KvVariableFrequencyOp == Scoped("use")
ReadKvVariableOp == Scoped("use")
KvVariableExportOp == Scoped("use")
KvVariableExportForMultiHashOp == Scoped("use")
KvVariableFullOrDeltaExportOp == Scoped("use")
KvVariableInsertOp == Scoped("use")

KvVariableGatherOrZerosOp == [method |-> "use", cached |-> TRUE, runs |-> 1]

\* One lookup for each of its N handles, here two of the same variable.
BatchKvVariableGatherOrZerosOp == [method |-> "use", cached |-> FALSE, runs |-> 2]

KvVariableGatherOrInsertOp == Scoped("draw")
KvVariableGatherOrInsertWithCountsOp == Scoped("draw")
KvVariableScatterUpdateOP == Scoped("draw")

KvVariableGatherOp(useInitValue) == Scoped(IF useInitValue THEN "draw" ELSE "use")

InitKvVariableOp == Scoped("InitRandomValues")
KvVariableIsInitializedOp == Scoped("IsInitialized")
DestroyKvVariableOp == Scoped("Destroy")

KvVariableImportOp == Scoped("ImportValues")
KvVariableOldImportOp == Scoped("ImportValues")
KvVariableFullOrDeltaImportOp == Scoped("FullOrDeltaImport")

\* What anyone runs, what only those run who saw the variable initialised,
\* and how the chief restores a full checkpoint or one step of several.
Readers == {KvVariableShapeOp, KvVariableSizeOp, KvVariableStorageSizeOp,
            KvVariableFrequencyOp, ReadKvVariableOp, KvVariableExportOp,
            KvVariableExportForMultiHashOp, KvVariableFullOrDeltaExportOp,
            KvVariableInsertOp, BatchKvVariableGatherOrZerosOp,
            KvVariableGatherOp(FALSE), KvVariableIsInitializedOp}

Trainers == {KvVariableGatherOrInsertOp, KvVariableGatherOrInsertWithCountsOp,
             KvVariableScatterUpdateOP, KvVariableGatherOp(TRUE)}

Importers == IF ckpt.deltas = 0
             THEN {KvVariableImportOp, KvVariableOldImportOp,
                   KvVariableFullOrDeltaImportOp}
             ELSE {KvVariableFullOrDeltaImportOp}

Kernels == Readers \cup Trainers
           \cup {KvVariableGatherOrZerosOp, InitKvVariableOp, DestroyKvVariableOp,
                 KvVariableImportOp, KvVariableFullOrDeltaImportOp}

-----------------------------------------------------------------------------
(* The object.  due counts the deltas a restore has still to apply.        *)

NewTable == [refs |-> 2, rows |-> FALSE, ready |-> FALSE, due |-> 0]

NotThere == [refs |-> 0, rows |-> FALSE, ready |-> FALSE, due |-> 0]

\* Mutant: the values are set whenever the initialiser runs.
InitRandomValuesAgain(v) == [v EXCEPT !.rows = TRUE, !.ready = TRUE]

\* InitRandomValues: an initialisation table that has rows is kept, and
\* then the flag is left as it is.
InitRandomValues(v) ==
  IF v.rows THEN v ELSE [v EXCEPT !.rows = TRUE, !.ready = TRUE]

\* is_loading_finished is an input of the second version of the op only.
LoadingFinished(i) == ~ckpt.v2 \/ i = ckpt.deltas

\* Mutant: the initialisation table is left to the initialiser.
ImportValuesOnly(v, last) ==
  [v EXCEPT !.ready = @ \/ last, !.due = ckpt.deltas]

\* A checkpoint saved for serving has an empty initialisation table.
ImportValues(v, last) ==
  [v EXCEPT !.rows = @ \/ ckpt.rows, !.ready = @ \/ last, !.due = ckpt.deltas]

DeltaImport(v, last) == [v EXCEPT !.ready = @ \/ last, !.due = @ - 1]

FullOrDeltaImport(v, i) ==
  IF i = 0 THEN ImportValues(v, LoadingFinished(i))
           ELSE DeltaImport(v, LoadingFinished(i))

\* The object after a method, i being the step of the restore it belongs to.
After(method, v, i) ==
  CASE method = "InitRandomValues"  -> InitRandomValues(v)
    [] method = "ImportValues"      -> ImportValues(v, TRUE)
    [] method = "FullOrDeltaImport" -> FullOrDeltaImport(v, i)
    [] OTHER                        -> v

Ref(v) == [v EXCEPT !.refs = @ + 1]

Unref(v) == IF v.refs = 1 THEN NotThere ELSE [v EXCEPT !.refs = @ - 1]

-----------------------------------------------------------------------------
(* Creation: CreateKvVariableOp::Compute.                                  *)

NoOp == [method |-> "none", cached |-> FALSE, runs |-> 0]

Idle == [pc |-> "idle", node |-> None, op |-> NoOp, tab |-> None]

Goto(th, label) == call' = [call EXCEPT ![th].pc = label]

End(th) == call' = [call EXCEPT ![th] = Idle]

\* The first run of the node takes the token; the others wait.
StartCreate(th) ==
  LET c == Graph[th]
  IN /\ call[th] = Idle /\ ~handle[th]
     /\ node' = [node EXCEPT ![c].token = TRUE]
     /\ call' = [call EXCEPT ![th].pc = IF node[c].token THEN "wait" ELSE "make",
                             ![th].node = c]
     /\ UNCHANGED <<bound, table, cache, alive, handle, saw, restored, ckpt, raced>>

\* LookupOrCreate of the name; a new object has the manager's reference and
\* the caller's.
Make(th) ==
  LET t == IF bound = None THEN call[th].node ELSE bound
  IN /\ call[th].pc = "make"
     /\ table' = [table EXCEPT ![t] = IF bound = None THEN NewTable ELSE Ref(@)]
     /\ bound' = t
     /\ call' = [call EXCEPT ![th].pc = "publish", ![th].tab = t]
     /\ UNCHANGED <<node, cache, alive, handle, saw, restored, ckpt, raced>>

\* Init, an attribute or LookupOrCreate reports an error: the node keeps its
\* token and never sets its flag.
MakeFails(th) ==
  /\ call[th].pc = "make"
  /\ End(th)
  /\ UNCHANGED <<objects, handle, saw, restored, ckpt, raced>>

\* handle_ = ..., which is no atomic variable
Publish(th) ==
  /\ call[th].pc = "publish"
  /\ node' = [node EXCEPT ![call[th].node].handle = TRUE]
  /\ Goto(th, "flag")
  /\ UNCHANGED <<bound, table, cache, alive, handle, saw, restored, ckpt, raced>>

\* Mutant: the flag is set by the node that made the object.
SetFlagUnlessFound(th) ==
  /\ call[th].pc = "flag"
  /\ node' = [node EXCEPT ![call[th].node].set = call[th].tab = call[th].node]
  /\ table' = [table EXCEPT ![call[th].tab] = Unref(@)]
  /\ call' = [call EXCEPT ![th].pc = "wait", ![th].tab = None]
  /\ UNCHANGED <<bound, cache, alive, handle, saw, restored, ckpt, raced>>

\* table_handle_set_.store(true), then the end of the scope drops the
\* reference LookupOrCreate returned.
SetFlag(th) ==
  /\ call[th].pc = "flag"
  /\ node' = [node EXCEPT ![call[th].node].set = TRUE]
  /\ table' = [table EXCEPT ![call[th].tab] = Unref(@)]
  /\ call' = [call EXCEPT ![th].pc = "wait", ![th].tab = None]
  /\ UNCHANGED <<bound, cache, alive, handle, saw, restored, ckpt, raced>>

\* Mutant: the others wait until the token is taken.
WaitForToken(th) ==
  /\ call[th].pc = "wait" /\ node[call[th].node].token
  /\ Goto(th, "output")
  /\ UNCHANGED <<objects, handle, saw, restored, ckpt, raced>>

\* while (!table_handle_set_.load())
Wait(th) ==
  /\ call[th].pc = "wait" /\ node[call[th].node].set
  /\ Goto(th, "output")
  /\ UNCHANGED <<objects, handle, saw, restored, ckpt, raced>>

Output(th) ==
  /\ call[th].pc = "output"
  /\ handle' = [handle EXCEPT ![th] = node[call[th].node].handle]
  /\ End(th)
  /\ UNCHANGED <<objects, saw, restored, ckpt, raced>>

-----------------------------------------------------------------------------
(* Who runs which kernel when.                                             *)

Steps == 2 * (ckpt.deltas + 1)

\* Nothing of a restore has been run, or all of it.
RestoreAtRest == restored \in {0, Steps} /\ call[Chief] = Idle

Destroying == \E th \in Threads : call[th].op = DestroyKvVariableOp

Begin(th, k) ==
  /\ call[th] = Idle /\ handle[th]
  /\ call' = [call EXCEPT ![th].pc = "lookup", ![th].op = k]
  /\ UNCHANGED <<objects, handle, saw, ckpt, raced>>

\* A worker polls, and trains when it saw the variable initialised; another
\* does the rest.
BeginRead(th) ==
  /\ saw[th] = None
  /\ \E k \in Readers : Begin(th, k)
  /\ UNCHANGED restored

BeginTrain(th) ==
  /\ saw[th] # None
  /\ \E k \in Trainers : Begin(th, k)
  /\ UNCHANGED restored

BeginDestroy(th) ==
  /\ RestoreAtRest /\ saw[th] = None
  /\ Begin(th, DestroyKvVariableOp)
  /\ UNCHANGED restored

\* The chief of a new job runs the initialiser.
BeginInit ==
  /\ restored = 0 /\ ~Destroying
  /\ Begin(Chief, InitKvVariableOp)
  /\ restored' = Steps

\* Of a job that has a checkpoint: each file is imported, and each import is
\* followed by the initialiser.
BeginRestore ==
  /\ restored < Steps /\ ~Destroying
  /\ \E k \in IF restored % 2 = 0 THEN Importers ELSE {InitKvVariableOp} :
       Begin(Chief, k)
  /\ restored' = restored + 1

-----------------------------------------------------------------------------
(* A call on the handle.                                                   *)

\* LookupResource.  An error ends the call: the thread runs the creating node
\* again, the chief starts over.
Lookup(th) ==
  /\ call[th].pc = "lookup"
  /\ IF bound = None
     THEN /\ End(th)
          /\ handle' = [handle EXCEPT ![th] = FALSE]
          /\ saw' = [saw EXCEPT ![th] = None]
          /\ restored' = IF th = Chief THEN 0 ELSE restored
          /\ UNCHANGED table
     ELSE /\ table' = [table EXCEPT ![bound] = Ref(@)]
          /\ call' = [call EXCEPT ![th].tab = bound,
                                  ![th].pc = IF call[th].op.cached THEN "keep" ELSE "run"]
          /\ UNCHANGED <<handle, saw, restored>>
  /\ UNCHANGED <<node, bound, cache, alive, ckpt, raced>>

Running(th, methods) == call[th].pc = "run" /\ call[th].op.method \in methods

\* Mutant: the kernel drops the reference and so does ScopedUnref.
ReleaseTwice(th, v) ==
  table' = [table EXCEPT ![call[th].tab] = [Unref(v) EXCEPT !.refs = @ - 1]]

\* ScopedUnref, in the step that does the work: v is the object after it.
Release(th, v) == table' = [table EXCEPT ![call[th].tab] = Unref(v)]

\* The work of a kernel; the batch op goes on to its next handle.
Run(th) ==
  LET c == call[th]
  IN /\ Running(th, {"use", "draw", "InitRandomValues", "ImportValues",
                     "FullOrDeltaImport"})
     /\ ~c.op.cached
     /\ Release(th, After(c.op.method, table[c.tab], restored \div 2))
     /\ IF c.op.runs > 1
        THEN call' = [call EXCEPT ![th].pc = "lookup", ![th].tab = None,
                                  ![th].op.runs = @ - 1]
        ELSE End(th)
     /\ saw' = [saw EXCEPT ![th] = None]
     /\ UNCHANGED <<node, bound, cache, alive, handle, restored, ckpt, raced>>

IsInitialized(th) ==
  LET t == call[th].tab
  IN /\ Running(th, {"IsInitialized"})
     /\ saw' = [saw EXCEPT ![th] = IF table[t].ready THEN t ELSE None]
     /\ Release(th, table[t])
     /\ End(th)
     /\ UNCHANGED <<node, bound, cache, alive, handle, restored, ckpt, raced>>

\* DeleteResource, by name, whatever the name denotes by now; then the
\* reference of the lookup is dropped.
Delete(th) ==
  /\ Running(th, {"Destroy"})
  /\ bound' = None
  /\ table' = [t \in Creators |->
       LET v == IF t = bound THEN Unref(table[t]) ELSE table[t]
       IN IF t = call[th].tab THEN Unref(v) ELSE v]
  /\ restored' = IF bound = None THEN restored ELSE 0
  /\ End(th)
  /\ UNCHANGED <<node, cache, alive, handle, saw, ckpt, raced>>

\* rand() % 0: a draw from an empty initialisation table ends the process.
DrawFromNothing(th) ==
  /\ Running(th, {"draw"}) /\ ~table[call[th].tab].rows
  /\ alive' = FALSE
  /\ UNCHANGED <<node, bound, table, cache, clients>>

-----------------------------------------------------------------------------
(* KvVariableGatherOrZerosOp keeps the object of its first lookup, and the *)
(* reference with it, until the node is destroyed.                         *)

BeginGather(th, g) ==
  /\ call[th] = Idle /\ handle[th] /\ saw[th] = None /\ cache[g] # Gone
  /\ call' = [call EXCEPT ![th] =
       [pc |-> IF cache[g] = None THEN "lookup" ELSE "run", node |-> g,
        op |-> KvVariableGatherOrZerosOp, tab |-> cache[g]]]
  /\ raced' = (raced \/ (cache[g] = None /\ \E u \in Threads :
                 call[u].node = g /\ call[u].pc \in {"lookup", "keep"}))
  /\ UNCHANGED <<objects, handle, saw, restored, ckpt>>

\* Mutant: ScopedUnref in this kernel as in the others.
KeepWithoutReference(th) ==
  /\ call[th].pc = "keep"
  /\ cache' = [cache EXCEPT ![call[th].node] = call[th].tab]
  /\ table' = [table EXCEPT ![call[th].tab] = Unref(@)]
  /\ Goto(th, "run")
  /\ UNCHANGED <<node, bound, alive, handle, saw, restored, ckpt, raced>>

Keep(th) ==
  /\ call[th].pc = "keep"
  /\ cache' = [cache EXCEPT ![call[th].node] = call[th].tab]
  /\ Goto(th, "run")
  /\ UNCHANGED <<node, bound, table, alive, handle, saw, restored, ckpt, raced>>

GatherOrZeros(th) ==
  /\ Running(th, {"use"}) /\ call[th].op.cached
  /\ End(th)
  /\ UNCHANGED <<objects, handle, saw, restored, ckpt, raced>>

\* Mutant: no destructor.
DestroyGathererOnly(g) ==
  /\ cache[g] \in Creators
  /\ \A th \in Threads : call[th].node # g
  /\ cache' = [cache EXCEPT ![g] = Gone]
  /\ UNCHANGED <<node, bound, table, alive, clients>>

\* The destructor; nobody runs the node then.
DestroyGatherer(g) ==
  /\ cache[g] \in Creators
  /\ \A th \in Threads : call[th].node # g
  /\ table' = [table EXCEPT ![cache[g]] = Unref(@)]
  /\ cache' = [cache EXCEPT ![g] = Gone]
  /\ UNCHANGED <<node, bound, alive, clients>>

-----------------------------------------------------------------------------

Init ==
  /\ node = [c \in Creators |-> [token |-> FALSE, set |-> FALSE, handle |-> FALSE]]
  /\ bound = None
  /\ table = [c \in Creators |-> NotThere]
  /\ cache = [g \in Gatherers |-> None]
  /\ call = [th \in Threads |-> Idle]
  /\ handle = [th \in Threads |-> FALSE]
  /\ saw = [th \in Threads |-> None]
  /\ restored = 0
  /\ ckpt \in Checkpoints
  /\ raced = FALSE
  /\ alive = TRUE

\* The steps of a call that has begun.
Continue(th) ==
  \/ Make(th) \/ MakeFails(th) \/ Publish(th) \/ SetFlag(th)
  \/ Wait(th) \/ Output(th) \/ Lookup(th) \/ Run(th) \/ IsInitialized(th)
  \/ Delete(th) \/ Keep(th) \/ GatherOrZeros(th)
  \/ DrawFromNothing(th)

BeginSomething(th) ==
  \/ StartCreate(th) \/ BeginRead(th) \/ BeginTrain(th) \/ BeginDestroy(th)
  \/ \E g \in Gatherers : BeginGather(th, g)

Next ==
  /\ alive
  /\ \/ \E th \in Threads : Continue(th)
     \/ \E th \in Workers : BeginSomething(th)
     \/ StartCreate(Chief)
     \/ BeginInit
     \/ BeginRestore
     \/ \E g \in Gatherers : DestroyGatherer(g)

\* A call that has begun is carried on; nobody has to begin one.
Spec == Init /\ [][Next]_vars /\ \A th \in Threads : WF_vars(alive /\ Continue(th))

-----------------------------------------------------------------------------

TypeOK ==
  /\ node \in [Creators -> [token : BOOLEAN, set : BOOLEAN, handle : BOOLEAN]]
  /\ bound \in Creators \cup {None}
  /\ table \in [Creators -> [refs : Nat, rows : BOOLEAN, ready : BOOLEAN, due : Int]]
  /\ cache \in [Gatherers -> Creators \cup {None, Gone}]
  /\ call \in [Threads ->
       [pc : {"idle", "make", "publish", "flag", "wait", "output", "lookup", "run",
              "keep"},
        node : Creators \cup Gatherers \cup {None},
        op : Kernels \cup {NoOp},
        tab : Creators \cup {None}]]
  /\ handle \in [Threads -> BOOLEAN]
  /\ saw \in [Threads -> Creators \cup {None}]
  /\ restored \in 0..Steps
  /\ ckpt \in Checkpoints
  /\ raced \in BOOLEAN
  /\ alive \in BOOLEAN

\* A run of the creating node that hands the handle out finds it written, and
\* nobody is writing it: the flag, and not the token, is what the others wait
\* for (kv_variable_ops.cc:109-116).
HandleIsReady ==
  \A th \in Threads : call[th].pc = "output" =>
    /\ node[call[th].node].handle
    /\ \A u \in Threads : call[u].pc = "publish" => call[u].node # call[th].node

\* No thread, node or resource manager points to an object that was freed:
\* destroying a variable waits for the ops that work on it, and a gathering
\* node that keeps the pointer keeps a reference too.
NothingFreedInUse ==
  /\ \A th \in Threads : call[th].tab # None => table[call[th].tab].refs > 0
  /\ \A g \in Gatherers : cache[g] \in Creators => table[cache[g]].refs > 0
  /\ bound # None => table[bound].refs > 0

\* A thread that works on the kept object of a gathering node has no
\* reference of its own.
Owns(th, t) == call[th].tab = t /\ ~(call[th].pc = "run" /\ call[th].op.cached)

Owners(t) ==
  (IF bound = t THEN 1 ELSE 0)
  + Cardinality({g \in Gatherers : cache[g] = t})
  + Cardinality({th \in Threads : Owns(th, t)})

\* Every reference belongs to someone who will drop it, unless two first
\* runs of one gathering node overlapped (the "Potential memory leak" of
\* kv_variable_ops.cc:366).
LeaksOnlyByRace == ~raced => \A t \in Creators : table[t].refs = Owners(t)

TrainsWhatItSaw(th) == Running(th, {"draw"}) /\ saw[th] = call[th].tab

\* Who trains after it saw the variable initialised never draws from an
\* empty initialisation table, during a restore of a training checkpoint or
\* after it (GenerateRandomInitialValue takes a remainder by its rows).
DrawsFromRows ==
  \A th \in Threads : TrainsWhatItSaw(th) /\ ckpt.rows => table[call[th].tab].rows

\* Nor does it train before the last delta is in, though an initialiser runs
\* after every import: what it learns would be overwritten.
TrainsAfterRestore ==
  \A th \in Threads :
    TrainsWhatItSaw(th) /\ ckpt.rows /\ ckpt.v2 => table[call[th].tab].due = 0

\* The run that took the node's token left without a handle.
Abandoned(c) ==
  /\ ~node[c].handle
  /\ \A th \in Threads : call[th].node = c => call[th].pc = "wait"

\* A run of the creating node that waits for another one goes on, if that one
\* did not fail.
EveryCreateReturns ==
  \A th \in Threads :
    call[th].pc = "wait" ~> call[th].pc # "wait" \/ Abandoned(call[th].node) \/ ~alive
=============================================================================
